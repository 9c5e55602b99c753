--------------------------- MODULE FactStoreProofs ---------------------------
(***************************************************************************)
(* Proofs about FactStore, for any threads, keys and values, any number of *)
(* rows, extractions of any length and any writes without the lock.        *)
(***************************************************************************)
EXTENDS FactStore, TLAPS

ThreadInvariant(t) ==
    HoldsLock(t) /\ RowsInHand(t) /\ WholeButSubject(t) /\ ExtractorUpToDate(t)

(* What holds of the rows of one database.                                 *)
GoodRows(d) ==
    /\ \A k \in Keys : \A i, j \in ActiveIds(d, k) : i = j
    /\ \A i \in DOMAIN d.facts :
          d.facts[i].by # 0 =>
            /\ ~d.facts[i].active
            /\ d.facts[i].by \in i+1..Len(d.facts)
            /\ d.facts[d.facts[i].by].key = d.facts[i].key
            /\ d.facts[d.facts[i].by].auto /\ d.facts[i].typed =>
                   d.facts[d.facts[i].by].value # d.facts[i].value

LEMMA Parts ==
  FactInvariant <=>
    /\ TypeOK
    /\ \A t \in Threads : ThreadInvariant(t)
    /\ TransactionOfOneUpsert
    /\ GoodRows(db) /\ GoodRows(tx)
    /\ RowsKept
    /\ UpsertNeverRefused
    /\ AtomicUnlessSplit
    /\ AcknowledgedIsStored
BY DEF FactInvariant, ThreadInvariant, GoodRows, OneActivePerKey, SupersededByLaterFact,
   ExtractionNeverChurns

LEMMA PartsAfterStep ==
  ASSUME TypeOK', \A t \in Threads : ThreadInvariant(t)', TransactionOfOneUpsert',
         GoodRows(db)', GoodRows(tx)', RowsKept', UpsertNeverRefused', AtomicUnlessSplit',
         AcknowledgedIsStored'
  PROVE  FactInvariant'
BY DEF FactInvariant, ThreadInvariant, GoodRows, OneActivePerKey, SupersededByLaterFact,
   ExtractionNeverChurns

LEMMA InitInvariant == Init => FactInvariant
<1> SUFFICES ASSUME Init PROVE FactInvariant
  OBVIOUS
<1>1. PICK n \in 0..MaxLegacy :
          \E k \in [1..n -> Keys], v \in [1..n -> Values], typed \in [1..n -> BOOLEAN] :
             /\ \A i, j \in 1..n : k[i] = k[j] => i = j
             /\ db = [facts |-> [i \in 1..n |-> LegacyFact(k[i], v[i], typed[i])], rows |-> NoRows]
  BY DEF Init
<1>2. PICK k \in [1..n -> Keys], v \in [1..n -> Values], typed \in [1..n -> BOOLEAN] :
             /\ \A i, j \in 1..n : k[i] = k[j] => i = j
             /\ db = [facts |-> [i \in 1..n |-> LegacyFact(k[i], v[i], typed[i])], rows |-> NoRows]
  BY <1>1
<1>3. n \in Nat /\ 0 \in 0..MaxWrites
  BY BoundsAssumption
<1>4. /\ db.facts = [i \in 1..n |-> LegacyFact(k[i], v[i], typed[i])]
      /\ db.rows = NoRows /\ tx = db /\ DOMAIN db.facts = 1..n
  BY <1>2 DEF Init
<1>5. /\ \A i \in 1..n : /\ db.facts[i] \in Fact /\ db.facts[i].key = k[i]
                         /\ db.facts[i].by = 0 /\ db.facts[i].active
      /\ \A i, j \in 1..n : db.facts[i].key = db.facts[j].key => i = j
  BY <1>2, <1>4 DEF LegacyFact, Fact
<1>6. db \in Database /\ tx \in Database /\ Len(db.facts) = n
  <2>1. db.facts \in Seq(Fact) /\ Len(db.facts) = n
    BY <1>3, <1>4, <1>5
  <2>2. NoRows \in [Rows -> 0..MaxWrites]
    BY <1>3 DEF NoRows
  <2>3. [facts |-> db.facts, rows |-> NoRows] \in Database
    BY <2>1, <2>2 DEF Database
  <2>4. db = [facts |-> db.facts, rows |-> NoRows]
    BY <1>2
  <2>5. QED
    BY <1>4, <2>1, <2>3, <2>4
<1>7. NoJob \in Job /\ NoJob.old = 0 /\ NoJob.saved = {} /\ ~NoJob.auto
  BY DEF NoJob, Job
<1>8. TypeOK
  <2>1. pc \in [Threads -> Labels] /\ step \in [Rows -> {"executed", "answered", "lost"}]
    BY DEF Init, Labels
  <2>2. job \in [Threads -> Job] /\ \A t \in Threads : job[t].old \in 0..Len(db.facts)
    BY <1>3, <1>6, <1>7 DEF Init
  <2>3. lock \subseteq Threads /\ dropped \subseteq Rows /\ split \in BOOLEAN
    BY DEF Init
  <2>4. written \in [Rows -> 0..MaxWrites]
    BY <1>3 DEF Init, NoRows
  <2>5. QED
    BY <1>6, <2>1, <2>2, <2>3, <2>4 DEF TypeOK
<1>9. \A t \in Threads : ThreadInvariant(t)
  BY <1>7 DEF Init, ThreadInvariant, HoldsLock, RowsInHand, WholeButSubject, ExtractorUpToDate,
     Upserting
<1>10. GoodRows(db) /\ GoodRows(tx)
  BY <1>4, <1>5 DEF GoodRows, ActiveIds
<1>11. TransactionOfOneUpsert
  BY <1>3, <1>4, <1>6 DEF TransactionOfOneUpsert
<1>12. RowsKept /\ AcknowledgedIsStored
  BY <1>4, <1>7 DEF Init, RowsKept, AcknowledgedIsStored
<1>13. Whole(db)
  BY <1>4, <1>5 DEF Whole, ActiveIds
<1>14. UpsertNeverRefused /\ AtomicUnlessSplit
  BY <1>13 DEF Init, UpsertNeverRefused, AtomicUnlessSplit
<1>15. QED
  BY <1>8, <1>9, <1>10, <1>11, <1>12, <1>14, Parts

-----------------------------------------------------------------------------
(* The thread under way is the only one.                                   *)
LEMMA Alone ==
  ASSUME FactInvariant, NEW t \in Threads, pc[t] # "idle"
  PROVE  /\ lock = {t}
         /\ \A u \in Threads \ {t} : pc[u] = "idle" /\ job[u] = NoJob
BY DEF FactInvariant, HoldsLock

(* The steps of one thread that touch nothing that is stored.              *)
LEMMA StepOfThread ==
  ASSUME FactInvariant, NEW t \in Threads,
         UNCHANGED <<db, tx, beside>>,
         pc' = [pc EXCEPT ![t] = pc'[t]], job' = [job EXCEPT ![t] = job'[t]],
         \A u \in Threads \ {t} : pc[u] = "idle" /\ job[u] = NoJob,
         lock' \subseteq Threads, pc'[t] \in Labels, job'[t] \in Job,
         job'[t].old \in 0..Len(db.facts), job'[t].saved \subseteq DOMAIN db.facts,
         pc[t] \notin {"insert", "link", "commit"}, pc'[t] \notin {"link", "commit"},
         pc'[t] = "insert" => ActiveIds(tx, Subject(t)') = {},
         ThreadInvariant(t)'
  PROVE  FactInvariant'
<1> USE Parts DEF beside
<1>1. pc \in [Threads -> Labels] /\ job \in [Threads -> Job]
  BY DEF TypeOK
<1>2. \A u \in Threads \ {t} : pc'[u] = "idle" /\ job'[u] = NoJob
  BY <1>1
<1>3. \A u \in Threads : ThreadInvariant(u)'
  <2> SUFFICES ASSUME NEW u \in Threads \ {t} PROVE ThreadInvariant(u)'
    OBVIOUS
  <2> QED
    BY <1>2 DEF ThreadInvariant, RowsInHand, WholeButSubject, ExtractorUpToDate, HoldsLock,
       NoJob, Upserting
<1>4. TypeOK'
  <2>1. pc' \in [Threads -> Labels] /\ job' \in [Threads -> Job]
    BY <1>1
  <2>2. \A u \in Threads : job'[u].old \in 0..Len(db.facts)
    BY <1>1 DEF TypeOK
  <2>3. QED
    BY <2>1, <2>2 DEF TypeOK
<1>5. TransactionOfOneUpsert' /\ GoodRows(db)' /\ GoodRows(tx)' /\ RowsKept' /\ AtomicUnlessSplit'
  <2>1. tx.facts = db.facts
    BY DEF TransactionOfOneUpsert
  <2>2. QED
    BY <2>1 DEF TransactionOfOneUpsert, GoodRows, ActiveIds, RowsKept, AtomicUnlessSplit, Whole
<1>6. UpsertNeverRefused'
  BY <1>2 DEF UpsertNeverRefused, ActiveIds, Subject
<1>7. AcknowledgedIsStored'
  BY <1>1, <1>2 DEF AcknowledgedIsStored, NoJob
<1>8. QED
  BY <1>3, <1>4, <1>5, <1>6, <1>7, PartsAfterStep

LEMMA JobFields ==
  ASSUME NEW auto \in BOOLEAN, NEW todo \in Seq(Storable), NEW known \in SUBSET (Keys \X Values),
         NEW seen \in SUBSET Keys, NEW old \in Nat, NEW saved \in SUBSET Nat
  PROVE  [auto |-> auto, todo |-> todo, known |-> known, seen |-> seen, old |-> old,
          saved |-> saved] \in Job
BY DEF Job

LEMMA StartTurnInvariant ==
  ASSUME FactInvariant, NEW t \in Threads, StartTurn(t)
  PROVE  FactInvariant'
<1> USE DEF StartTurn, Goto
<1>1. pc \in [Threads -> Labels] /\ job \in [Threads -> Job] /\ job[t].old \in 0..Len(db.facts)
  BY DEF FactInvariant, TypeOK
<1>2. \A u \in Threads : pc[u] = "idle" /\ job[u] = NoJob
  BY DEF FactInvariant, HoldsLock
<1>3. pc'[t] = "turn" /\ job'[t] = NoJob /\ NoJob.saved = {} /\ ~NoJob.auto
  BY <1>1, <1>2 DEF NoJob
<1>4. ThreadInvariant(t)'
  BY <1>3 DEF ThreadInvariant, HoldsLock, RowsInHand, WholeButSubject, ExtractorUpToDate, Upserting
<1>5. pc' = [pc EXCEPT ![t] = pc'[t]] /\ job' = [job EXCEPT ![t] = job'[t]]
  BY <1>1
<1>6. lock' \subseteq Threads /\ pc'[t] \in Labels /\ job'[t] \in Job /\ job'[t].old \in 0..Len(db.facts)
  BY <1>1, <1>3 DEF Labels
<1>7. QED
  BY <1>2, <1>3, <1>4, <1>5, <1>6, StepOfThread

LEMMA EndTurnInvariant ==
  ASSUME FactInvariant, NEW t \in Threads, EndTurn(t)
  PROVE  FactInvariant'
<1> USE DEF EndTurn, Goto
<1>1. pc \in [Threads -> Labels] /\ job \in [Threads -> Job] /\ lock \subseteq Threads
      /\ job[t].old \in 0..Len(db.facts)
  BY DEF FactInvariant, TypeOK
<1>2. \A u \in Threads \ {t} : pc[u] = "idle" /\ job[u] = NoJob
  BY Alone
<1>3. pc'[t] = "idle" /\ job'[t] = NoJob /\ NoJob.saved = {} /\ ~NoJob.auto
  BY <1>1 DEF FactInvariant, HoldsLock, NoJob
<1>4. ThreadInvariant(t)'
  BY <1>3 DEF ThreadInvariant, HoldsLock, RowsInHand, WholeButSubject, ExtractorUpToDate, Upserting
<1>5. pc' = [pc EXCEPT ![t] = pc'[t]] /\ job' = [job EXCEPT ![t] = job'[t]]
  BY <1>1
<1>6. lock' \subseteq Threads /\ pc'[t] \in Labels /\ job'[t] \in Job /\ job'[t].old \in 0..Len(db.facts)
  BY <1>1, <1>3 DEF Labels
<1>7. QED
  BY <1>2, <1>3, <1>4, <1>5, <1>6, StepOfThread

(* save_profile_fact brings one fact, which is not the extractor's.        *)
LEMMA SaveProfileFactInvariant ==
  ASSUME FactInvariant, NEW t \in Threads, NEW c \in Storable, SaveProfileFact(t, c)
  PROVE  FactInvariant'
<1> USE DEF SaveProfileFact, Goto
<1>1. pc \in [Threads -> Labels] /\ job \in [Threads -> Job] /\ lock \subseteq Threads
  BY DEF FactInvariant, TypeOK
<1>2. lock = {t} /\ \A u \in Threads \ {t} : pc[u] = "idle" /\ job[u] = NoJob
  BY Alone
<1>3. /\ pc'[t] = "select"
      /\ job'[t] = [NoJob EXCEPT !.todo = <<c>>]
  BY <1>1
<1>4. job'[t] \in Job /\ job'[t].old = 0 /\ job'[t].saved = {} /\ ~job'[t].auto /\ job'[t].todo # <<>>
  <2>1. job'[t] = [auto |-> FALSE, todo |-> <<c>>, known |-> {}, seen |-> {}, old |-> 0, saved |-> {}]
    BY <1>3 DEF NoJob
  <2>2. <<c>> \in Seq(Storable) /\ <<c>> # <<>>
    OBVIOUS
  <2>3. job'[t] \in Job
    <3> HIDE DEF SaveProfileFact
    <3> QED
      BY <2>1, <2>2, JobFields, 0 \in Nat, Zenon
  <2>4. QED
    BY <2>1, <2>2, <2>3
<1>5. ThreadInvariant(t)'
  BY <1>2, <1>3, <1>4 DEF ThreadInvariant, HoldsLock, RowsInHand, WholeButSubject, ExtractorUpToDate,
     Upserting
<1>6. pc' = [pc EXCEPT ![t] = pc'[t]] /\ job' = [job EXCEPT ![t] = job'[t]]
  BY <1>1
<1>7. job'[t].old \in 0..Len(db.facts) /\ job'[t].saved \subseteq DOMAIN db.facts
  BY <1>4 DEF FactInvariant, TypeOK, Database
<1>8. lock' \subseteq Threads /\ pc'[t] \in Labels
  BY <1>1, <1>3 DEF Labels
<1>9. QED
  BY <1>2, <1>3, <1>4, <1>5, <1>6, <1>7, <1>8, StepOfThread

(* What is stored when an extraction begins is what it knows.              *)
LEMMA ExtractInvariant ==
  ASSUME FactInvariant, NEW t \in Threads, Extract(t)
  PROVE  FactInvariant'
<1> USE DEF Extract, Goto
<1>1. pc \in [Threads -> Labels] /\ job \in [Threads -> Job] /\ lock \subseteq Threads
      /\ tx \in Database /\ db \in Database
  BY DEF FactInvariant, TypeOK
<1>2. lock = {t} /\ \A u \in Threads \ {t} : pc[u] = "idle" /\ job[u] = NoJob
  BY Alone
<1>3. PICK n \in 1..MaxCandidates : \E facts \in [1..n -> Storable] :
          job' = [job EXCEPT ![t] = [NoJob EXCEPT !.auto = TRUE, !.todo = facts,
                                                 !.known = Stored(tx)]]
  OBVIOUS
<1>4. PICK facts \in [1..n -> Storable] :
          job' = [job EXCEPT ![t] = [NoJob EXCEPT !.auto = TRUE, !.todo = facts,
                                                 !.known = Stored(tx)]]
  BY <1>3
<1>5. facts \in Seq(Storable)
  BY <1>4, BoundsAssumption
<1>6. Stored(tx) \subseteq Keys \X Values
  <2>1. \A i \in DOMAIN tx.facts : tx.facts[i] \in Fact
    BY <1>1 DEF Database
  <2>2. QED
    BY <2>1 DEF Stored, Fact
<1>7. pc'[t] = "next" /\ job'[t] = [NoJob EXCEPT !.auto = TRUE, !.todo = facts, !.known = Stored(tx)]
  BY <1>1, <1>4
<1>8. job'[t] \in Job /\ job'[t].old = 0 /\ job'[t].saved = {} /\ job'[t].known = Stored(tx)
  <2>1. job'[t] = [auto |-> TRUE, todo |-> facts, known |-> Stored(tx), seen |-> {}, old |-> 0, saved |-> {}]
    BY <1>7 DEF NoJob
  <2>2. job'[t] \in Job
    <3> HIDE DEF Extract
    <3> QED
      BY <2>1, <1>5, <1>6, JobFields, 0 \in Nat, Zenon
  <2> HIDE DEF Extract
  <2>3. QED
    BY <2>1, <2>2
<1>9. ThreadInvariant(t)'
  BY <1>2, <1>7, <1>8 DEF ThreadInvariant, HoldsLock, RowsInHand, WholeButSubject, ExtractorUpToDate,
     Upserting, Stored
<1>10. pc' = [pc EXCEPT ![t] = pc'[t]] /\ job' = [job EXCEPT ![t] = job'[t]]
  BY <1>1, <1>4
<1>11. job'[t].old \in 0..Len(db.facts) /\ job'[t].saved \subseteq DOMAIN db.facts
  BY <1>1, <1>8 DEF Database
<1>12. lock' \subseteq Threads /\ pc'[t] \in Labels
  BY <1>1, <1>7 DEF Labels
<1>13. QED
  BY <1>2, <1>7, <1>8, <1>9, <1>10, <1>11, <1>12, StepOfThread

LEMMA ExtractedInvariant ==
  ASSUME FactInvariant, NEW t \in Threads, Extracted(t)
  PROVE  FactInvariant'
<1> USE DEF Extracted, Goto
<1>1. pc \in [Threads -> Labels] /\ job \in [Threads -> Job] /\ lock \subseteq Threads
      /\ db \in Database
  BY DEF FactInvariant, TypeOK
<1>2. \A u \in Threads \ {t} : pc[u] = "idle" /\ job[u] = NoJob
  BY Alone
<1>3. pc'[t] = "idle" /\ job'[t] = NoJob
  BY <1>1
<1>4. NoJob \in Job /\ NoJob.saved = {} /\ NoJob.old = 0 /\ ~NoJob.auto
  BY DEF NoJob, Job
<1>5. ThreadInvariant(t)'
  BY <1>3, <1>4 DEF ThreadInvariant, HoldsLock, RowsInHand, WholeButSubject, ExtractorUpToDate,
     Upserting
<1>6. pc' = [pc EXCEPT ![t] = pc'[t]] /\ job' = [job EXCEPT ![t] = job'[t]]
  BY <1>1, <1>3
<1>7. job'[t].old \in 0..Len(db.facts) /\ job'[t].saved \subseteq DOMAIN db.facts
  BY <1>1, <1>3, <1>4 DEF Database
<1>8. lock' \subseteq Threads /\ pc'[t] \in Labels /\ job'[t] \in Job
  BY <1>1, <1>3, <1>4 DEF Labels
<1>9. QED
  BY <1>2, <1>3, <1>5, <1>6, <1>7, <1>8, StepOfThread

(* The fact at the head of the list of facts to save.                      *)
LEMMA HeadOfTodo ==
  ASSUME TypeOK, NEW t \in Threads, job[t].todo # <<>>
  PROVE  /\ job[t] \in Job /\ Head(job[t].todo) \in Storable
         /\ Subject(t) \in Keys /\ Head(job[t].todo)[2] \in Values
         /\ Head(job[t].todo) = <<Subject(t), Head(job[t].todo)[2]>>
         /\ Tail(job[t].todo) \in Seq(Storable)
<1>1. job[t] \in Job
  BY DEF TypeOK
<1>2. job[t].todo \in Seq(Storable)
  BY <1>1 DEF Job
<1>3. Head(job[t].todo) \in Storable /\ Tail(job[t].todo) \in Seq(Storable)
  BY <1>2
<1>4. Head(job[t].todo) \in Keys \X Values
  BY <1>3, StorableAssumption
<1>5. QED
  BY <1>1, <1>3, <1>4 DEF Subject

(* A candidate that is saved is not stored with this value: its key was    *)
(* not seen before, so what was known of it is still what is stored.       *)
LEMMA CandidateInvariant ==
  ASSUME FactInvariant, NEW t \in Threads, Candidate(t)
  PROVE  FactInvariant'
<1> DEFINE c == Head(job[t].todo)
<1> USE DEF Candidate, Goto
<1>1. pc \in [Threads -> Labels] /\ job \in [Threads -> Job] /\ lock \subseteq Threads
      /\ TypeOK
  BY DEF FactInvariant, TypeOK
<1>2. lock = {t} /\ \A u \in Threads \ {t} : pc[u] = "idle" /\ job[u] = NoJob
  BY Alone
<1>3. /\ job[t] \in Job /\ c \in Storable /\ c[1] \in Keys /\ c = <<c[1], c[2]>>
      /\ Tail(job[t].todo) \in Seq(Storable)
  BY <1>1, HeadOfTodo DEF Subject
<1>4. job[t].old \in 0..Len(db.facts) /\ job[t].saved \subseteq DOMAIN db.facts
  BY DEF FactInvariant, TypeOK, AcknowledgedIsStored
<1>5. ExtractorUpToDate(t)
  BY DEF FactInvariant
<1>6. CASE c[1] \in job[t].seen \/ c \in job[t].known
  <2>1. pc' = pc /\ job'[t] = [job[t] EXCEPT !.todo = Tail(@), !.seen = @ \cup {c[1]}]
    BY <1>1, <1>6
  <2>2. /\ job'[t] \in Job /\ job'[t].auto = job[t].auto /\ job'[t].known = job[t].known
        /\ job'[t].seen = job[t].seen \cup {c[1]}
        /\ job'[t].old = job[t].old /\ job'[t].saved = job[t].saved
    <3> HIDE DEF Candidate
    <3>1. job[t].seen \cup {c[1]} \in SUBSET Keys
      BY <1>3 DEF Job
    <3>2. QED
      BY <1>3, <2>1, <3>1 DEF Job
  <2>3. ThreadInvariant(t)'
    BY <1>2, <1>5, <2>1, <2>2 DEF ThreadInvariant, HoldsLock, RowsInHand, WholeButSubject,
       ExtractorUpToDate, Upserting
  <2>4. pc' = [pc EXCEPT ![t] = pc'[t]] /\ job' = [job EXCEPT ![t] = job'[t]]
    BY <1>1, <1>6
  <2>5. QED
    BY <1>1, <1>2, <1>4, <2>1, <2>2, <2>3, <2>4, StepOfThread
<1>7. CASE ~(c[1] \in job[t].seen \/ c \in job[t].known)
  <2>1. pc'[t] = "select" /\ job'[t] = [job[t] EXCEPT !.seen = @ \cup {c[1]}]
    BY <1>1, <1>7
  <2>2. /\ job'[t] \in Job /\ job'[t].auto = job[t].auto /\ job'[t].known = job[t].known
        /\ job'[t].seen = job[t].seen \cup {c[1]} /\ job'[t].todo = job[t].todo
        /\ job'[t].old = job[t].old /\ job'[t].saved = job[t].saved
    BY <1>3, <2>1 DEF Job
  <2>3. job[t].auto => \A i \in ActiveIds(tx, c[1]) : Differs(tx.facts[i], c)
    BY <1>3, <1>5, <1>7 DEF ExtractorUpToDate, ActiveIds, Differs
  <2>4. ThreadInvariant(t)'
    <3>1. ExtractorUpToDate(t)'
      BY <1>5, <2>1, <2>2, <2>3 DEF ExtractorUpToDate, Upserting, Subject, ActiveIds
    <3>2. HoldsLock(t)' /\ RowsInHand(t)' /\ WholeButSubject(t)'
      BY <1>2, <2>1, <2>2 DEF HoldsLock, RowsInHand, WholeButSubject, Upserting
    <3>3. QED
      BY <3>1, <3>2 DEF ThreadInvariant
  <2>5. pc' = [pc EXCEPT ![t] = pc'[t]] /\ job' = [job EXCEPT ![t] = job'[t]]
    BY <1>1, <1>7
  <2>6. lock' \subseteq Threads /\ pc'[t] \in Labels
    BY <1>1, <2>1 DEF Labels
  <2>7. QED
    BY <1>1, <1>2, <1>4, <2>1, <2>2, <2>4, <2>5, <2>6, StepOfThread
<1>8. QED
  BY <1>6, <1>7

(* The SELECT finds the one active row of the fact, or that there is none. *)
LEMMA SelectInvariant ==
  ASSUME FactInvariant, NEW t \in Threads, Select(t)
  PROVE  FactInvariant'
<1> USE DEF Select, Goto
<1>1. pc \in [Threads -> Labels] /\ job \in [Threads -> Job] /\ lock \subseteq Threads
      /\ TypeOK /\ tx \in Database
  BY DEF FactInvariant, TypeOK
<1>2. lock = {t} /\ \A u \in Threads \ {t} : pc[u] = "idle" /\ job[u] = NoJob
  BY Alone
<1>3. job[t].todo # <<>>
  BY DEF FactInvariant, HoldsLock, Upserting
<1>4. job[t] \in Job /\ Subject(t) \in Keys
  BY <1>1, <1>3, HeadOfTodo
<1>5. job[t].saved \subseteq DOMAIN db.facts /\ ExtractorUpToDate(t)
  BY DEF FactInvariant, AcknowledgedIsStored
<1>6. tx.facts = db.facts
  <2>1. \A u \in Threads : pc[u] \notin {"insert", "link", "commit"}
    BY <1>2
  <2>2. QED
    BY <2>1 DEF FactInvariant, TransactionOfOneUpsert
<1>7. ~split => Whole(tx)
  BY <1>6 DEF FactInvariant, AtomicUnlessSplit, Whole, ActiveIds
<1>8. PICK i \in {0} \cup ActiveIds(tx, Subject(t)) :
          /\ job' = [job EXCEPT ![t].old = i]
          /\ IF i = 0 THEN pc' = [pc EXCEPT ![t] = "insert"] /\ ActiveIds(tx, Subject(t)) = {}
             ELSE pc' = [pc EXCEPT ![t] = "deactivate"]
  <2>1. 0 \notin ActiveIds(tx, Subject(t))
    BY <1>1 DEF ActiveIds, Database
  <2>2. QED
    BY <2>1
<1>9. i \in 0..Len(db.facts)
  BY <1>1, <1>6, <1>8 DEF ActiveIds, Database
<1>10. job'[t] = [job[t] EXCEPT !.old = i]
  BY <1>1, <1>8
<1>11. /\ job'[t] \in Job /\ job'[t].auto = job[t].auto /\ job'[t].known = job[t].known
       /\ job'[t].seen = job[t].seen /\ job'[t].todo = job[t].todo
       /\ job'[t].old = i /\ job'[t].saved = job[t].saved
  BY <1>4, <1>9, <1>10 DEF Job
<1>12. pc'[t] \in {"insert", "deactivate"} /\ (pc'[t] = "insert" <=> i = 0)
  BY <1>1, <1>8
<1>13. Subject(t)' = Subject(t)
  BY <1>11 DEF Subject
<1>14. i = 0 => ActiveIds(tx, Subject(t)) = {}
  BY <1>8
<1>15. pc' = [pc EXCEPT ![t] = pc'[t]] /\ job' = [job EXCEPT ![t] = job'[t]]
  BY <1>1, <1>8
<1>16. pc[t] = "select" /\ UNCHANGED <<db, tx, lock, beside>>
  OBVIOUS
<1> HIDE DEF Select
<1>17. ThreadInvariant(t)'
  <2>1. HoldsLock(t)'
    BY <1>2, <1>3, <1>11, <1>12, <1>16 DEF HoldsLock
  <2>2. RowsInHand(t)'
    BY <1>8, <1>11, <1>12, <1>13, <1>16 DEF RowsInHand, ActiveIds
  <2>3. WholeButSubject(t)'
    BY <1>7, <1>11, <1>12, <1>13, <1>16 DEF WholeButSubject, ActiveIds, Whole, beside
  <2>4. ExtractorUpToDate(t)'
    BY <1>5, <1>8, <1>11, <1>12, <1>13, <1>16 DEF ExtractorUpToDate, ActiveIds, Upserting
  <2>5. QED
    BY <2>1, <2>2, <2>3, <2>4 DEF ThreadInvariant
<1>18. ActiveIds(tx, Subject(t)') = {} \/ pc'[t] # "insert"
  BY <1>12, <1>13, <1>14
<1>19. lock' \subseteq Threads /\ pc'[t] \in Labels
  BY <1>1, <1>12, <1>16 DEF Labels
<1>20. QED
  BY <1>2, <1>5, <1>9, <1>11, <1>12, <1>15, <1>16, <1>17, <1>18, <1>19, StepOfThread

-----------------------------------------------------------------------------
(* The statements of an upsert that change rows of the open transaction.   *)
LEMMA StatementOfUpsert ==
  ASSUME FactInvariant, NEW t \in Threads,
         UNCHANGED <<db, lock, job, beside>>, pc' = [pc EXCEPT ![t] = pc'[t]],
         pc[t] \in {"deactivate", "insert", "link"}, pc'[t] \in {"insert", "link", "commit"},
         tx' \in Database, tx'.rows = tx.rows, Len(tx.facts) <= Len(tx'.facts),
         GoodRows(tx)', pc'[t] = "insert" => ActiveIds(tx', Subject(t)) = {},
         RowsInHand(t)', WholeButSubject(t)', ExtractorUpToDate(t)'
  PROVE  FactInvariant'
<1>1. pc \in [Threads -> Labels] /\ TypeOK
  BY DEF FactInvariant, TypeOK
<1>2. lock = {t} /\ \A u \in Threads \ {t} : pc[u] = "idle" /\ job[u] = NoJob
  BY Alone
<1>3. \A u \in Threads \ {t} : pc'[u] = "idle" /\ job'[u] = NoJob
  BY <1>1, <1>2
<1>4. \A u \in Threads : ThreadInvariant(u)'
  <2>1. ThreadInvariant(t)'
    BY <1>2 DEF ThreadInvariant, HoldsLock, FactInvariant, Upserting
  <2>2. ASSUME NEW u \in Threads \ {t} PROVE ThreadInvariant(u)'
    BY <1>3 DEF ThreadInvariant, RowsInHand, WholeButSubject, ExtractorUpToDate, HoldsLock,
       NoJob, Upserting
  <2>3. QED
    BY <2>1, <2>2
<1>5. TypeOK'
  <2>1. pc' \in [Threads -> Labels]
    BY <1>1 DEF Labels
  <2>2. QED
    BY <1>1, <2>1 DEF TypeOK, beside
<1>6. TransactionOfOneUpsert' /\ RowsKept' /\ AtomicUnlessSplit' /\ AcknowledgedIsStored'
  <2>1. Len(db.facts) \in Nat /\ Len(tx.facts) \in Nat /\ Len(tx'.facts) \in Nat
    BY <1>1 DEF TypeOK, Database
  <2>2. QED
    BY <2>1 DEF FactInvariant, TransactionOfOneUpsert, RowsKept, AtomicUnlessSplit, Whole,
       ActiveIds, AcknowledgedIsStored, beside
<1>7. GoodRows(db)'
  BY Parts DEF GoodRows, ActiveIds
<1>8. UpsertNeverRefused'
  BY <1>3 DEF UpsertNeverRefused, ActiveIds, Subject
<1>9. QED
  BY <1>4, <1>5, <1>6, <1>7, <1>8, PartsAfterStep

(* What the UPDATEs and the INSERT do to the rows.                         *)
LEMMA WithRows ==
  ASSUME NEW d \in Database, NEW g \in Seq(Fact)
  PROVE  LET e == [d EXCEPT !.facts = g]
         IN  e \in Database /\ e.facts = g /\ e.rows = d.rows
BY DEF Database

LEMMA RowDeactivated ==
  ASSUME NEW d \in Database, NEW i \in DOMAIN d.facts, NEW e,
         e = [d EXCEPT !.facts[i].active = FALSE]
  PROVE  /\ e \in Database /\ e.rows = d.rows
         /\ Len(e.facts) = Len(d.facts) /\ DOMAIN e.facts = DOMAIN d.facts
         /\ \A j \in DOMAIN d.facts : j # i => e.facts[j] = d.facts[j]
         /\ e.facts[i] = [d.facts[i] EXCEPT !.active = FALSE]
<1>1. d.facts \in Seq(Fact) /\ d.facts[i] \in Fact
  BY DEF Database
<1>2. [d.facts[i] EXCEPT !.active = FALSE] \in Fact
  BY <1>1 DEF Fact
<1> DEFINE g == [d.facts EXCEPT ![i] = [d.facts[i] EXCEPT !.active = FALSE]]
<1>3. g \in Seq(Fact) /\ Len(g) = Len(d.facts) /\ DOMAIN g = DOMAIN d.facts
  BY <1>1, <1>2
<1>4. e = [d EXCEPT !.facts = g]
  OBVIOUS
<1>5. g[i] = [d.facts[i] EXCEPT !.active = FALSE] /\ \A j \in DOMAIN d.facts : j # i => g[j] = d.facts[j]
  BY <1>1
<1> HIDE DEF g
<1>6. e \in Database /\ e.facts = g /\ e.rows = d.rows
  BY <1>3, <1>4 DEF Database
<1>7. QED
  BY <1>3, <1>5, <1>6

LEMMA RowLinked ==
  ASSUME NEW d \in Database, NEW i \in DOMAIN d.facts, NEW b \in Nat, NEW e,
         e = [d EXCEPT !.facts[i].by = b]
  PROVE  /\ e \in Database /\ e.rows = d.rows
         /\ Len(e.facts) = Len(d.facts) /\ DOMAIN e.facts = DOMAIN d.facts
         /\ \A j \in DOMAIN d.facts : j # i => e.facts[j] = d.facts[j]
         /\ e.facts[i] = [d.facts[i] EXCEPT !.by = b]
<1>1. d.facts \in Seq(Fact) /\ d.facts[i] \in Fact
  BY DEF Database
<1>2. [d.facts[i] EXCEPT !.by = b] \in Fact
  BY <1>1 DEF Fact
<1> DEFINE g == [d.facts EXCEPT ![i] = [d.facts[i] EXCEPT !.by = b]]
<1>3. g \in Seq(Fact) /\ Len(g) = Len(d.facts) /\ DOMAIN g = DOMAIN d.facts
  BY <1>1, <1>2
<1>4. e = [d EXCEPT !.facts = g]
  OBVIOUS
<1>5. g[i] = [d.facts[i] EXCEPT !.by = b] /\ \A j \in DOMAIN d.facts : j # i => g[j] = d.facts[j]
  BY <1>1
<1> HIDE DEF g
<1>6. e \in Database /\ e.facts = g /\ e.rows = d.rows
  BY <1>3, <1>4 DEF Database
<1>7. QED
  BY <1>3, <1>5, <1>6

LEMMA RowAppended ==
  ASSUME NEW d \in Database, NEW f \in Fact, NEW e, e = [d EXCEPT !.facts = Append(@, f)]
  PROVE  /\ e \in Database /\ e.rows = d.rows
         /\ Len(e.facts) = Len(d.facts) + 1 /\ DOMAIN e.facts = 1..Len(d.facts) + 1
         /\ Len(d.facts) \in Nat /\ DOMAIN d.facts = 1..Len(d.facts)
         /\ \A j \in DOMAIN d.facts : e.facts[j] = d.facts[j]
         /\ e.facts[Len(d.facts) + 1] = f
<1>1. d.facts \in Seq(Fact)
  BY DEF Database
<1>2. Append(d.facts, f) \in Seq(Fact)
  BY <1>1
<1>3. e \in Database /\ e.facts = Append(d.facts, f) /\ e.rows = d.rows
  BY <1>2, WithRows
<1>4. QED
  BY <1>1, <1>3

LEMMA DeactivateInvariant ==
  ASSUME FactInvariant, NEW t \in Threads, Deactivate(t)
  PROVE  FactInvariant'
<1> DEFINE old == job[t].old
           k == Subject(t)
<1>1. /\ pc[t] = "deactivate" /\ pc' = [pc EXCEPT ![t] = "insert"]
      /\ tx' = [tx EXCEPT !.facts[old].active = FALSE]
      /\ UNCHANGED <<db, lock, job, beside>>
  BY DEF Deactivate, Goto
<1>2. TypeOK /\ tx \in Database /\ pc \in [Threads -> Labels]
  BY DEF FactInvariant, TypeOK
<1>3. RowsInHand(t) /\ ExtractorUpToDate(t) /\ GoodRows(tx)
  BY Parts DEF ThreadInvariant
<1>4. old \in ActiveIds(tx, k) /\ job[t].todo # <<>>
  BY <1>1, <1>3 DEF RowsInHand, FactInvariant, HoldsLock, Upserting
<1>5. old \in DOMAIN tx.facts /\ tx.facts[old].key = k /\ tx.facts[old].active /\ k \in Keys
  BY <1>2, <1>4, HeadOfTodo DEF ActiveIds
<1>6. tx.facts = db.facts
  <2>1. \A u \in Threads : pc[u] \notin {"insert", "link", "commit"}
    BY <1>1, Alone
  <2>2. QED
    BY <2>1 DEF FactInvariant, TransactionOfOneUpsert
<1>7. ~split => Whole(tx)
  BY <1>6 DEF FactInvariant, AtomicUnlessSplit, Whole, ActiveIds
<1>8. /\ tx' \in Database /\ tx'.rows = tx.rows
      /\ Len(tx'.facts) = Len(tx.facts) /\ DOMAIN tx'.facts = DOMAIN tx.facts
      /\ \A j \in DOMAIN tx.facts : j # old => tx'.facts[j] = tx.facts[j]
      /\ tx'.facts[old] = [tx.facts[old] EXCEPT !.active = FALSE]
  <2>1. old \in DOMAIN tx.facts /\ tx' = [tx EXCEPT !.facts[old].active = FALSE] /\ tx \in Database
    BY <1>1, <1>2, <1>5
  <2> HIDE DEF old
  <2>2. QED
    BY <2>1, RowDeactivated
<1>9. \A j \in DOMAIN tx.facts :
         /\ tx'.facts[j].key = tx.facts[j].key /\ tx'.facts[j].value = tx.facts[j].value
         /\ tx'.facts[j].typed = tx.facts[j].typed
         /\ tx'.facts[j].by = tx.facts[j].by /\ tx'.facts[j].auto = tx.facts[j].auto
         /\ tx'.facts[j].active <=> tx.facts[j].active /\ j # old
  <2>1. \A j \in DOMAIN tx.facts : tx.facts[j] \in Fact
    BY <1>2 DEF Database
  <2>2. QED
    BY <1>5, <1>8, <2>1 DEF Fact
<1>10. \A q : ActiveIds(tx', q) = ActiveIds(tx, q) \ {old}
  BY <1>8, <1>9 DEF ActiveIds
<1>11. ActiveIds(tx', k) = {}
  BY <1>3, <1>4, <1>5, <1>10 DEF GoodRows
<1>12. \A j \in DOMAIN tx.facts : tx.facts[j].by # 0 => tx.facts[j].by \in DOMAIN tx.facts
  BY <1>2, <1>3 DEF GoodRows, Database
<1>13. GoodRows(tx')
  BY <1>3, <1>8, <1>9, <1>10, <1>12 DEF GoodRows
<1>14. pc'[t] = "insert" /\ job' = job /\ Subject(t)' = k /\ split' = split
  BY <1>1, <1>2 DEF Subject, beside
<1>15. RowsInHand(t)'
  BY <1>5, <1>8, <1>9, <1>14 DEF RowsInHand
<1>16. WholeButSubject(t)'
  <2> SUFFICES ASSUME ~split, NEW i \in DOMAIN tx.facts
      PROVE /\ tx'.facts[i].key # k => ActiveIds(tx', tx'.facts[i].key) # {}
            /\ ~tx'.facts[i].active /\ i # old => tx'.facts[i].by # 0
    BY <1>8, <1>14 DEF WholeButSubject
  <2>1. ActiveIds(tx, tx.facts[i].key) # {} /\ (~tx.facts[i].active => tx.facts[i].by # 0)
    BY <1>7 DEF Whole
  <2>2. tx.facts[i].key # k => old \notin ActiveIds(tx, tx.facts[i].key)
    BY <1>5 DEF ActiveIds
  <2>3. QED
    BY <1>9, <1>10, <2>1, <2>2
<1>17. ExtractorUpToDate(t)'
  <2> SUFFICES ASSUME job[t].auto PROVE ExtractorUpToDate(t)'
    BY <1>14 DEF ExtractorUpToDate
  <2>1. \A i \in DOMAIN tx'.facts :
           tx'.facts[i].active /\ tx'.facts[i].typed /\ tx'.facts[i].key \notin job[t].seen =>
               <<tx'.facts[i].key, tx'.facts[i].value>> \in job[t].known
    BY <1>3, <1>8, <1>9 DEF ExtractorUpToDate
  <2>2. k \in job[t].seen /\ Differs(tx.facts[old], Head(job[t].todo))
    <3>1. old # 0
      BY <1>2, <1>5 DEF Database
    <3>2. QED
      BY <1>1, <1>3, <3>1 DEF ExtractorUpToDate, Upserting
  <2>3. Differs(tx'.facts[old], Head(job[t].todo))
    BY <1>5, <1>9, <2>2 DEF Differs
  <2>4. QED
    BY <1>14, <2>1, <2>2, <2>3 DEF ExtractorUpToDate
<1>18. QED
  <2>1. pc' = [pc EXCEPT ![t] = pc'[t]] /\ pc[t] \in {"deactivate", "insert", "link"}
    BY <1>1, <1>14
  <2>2. Len(tx.facts) <= Len(tx'.facts)
    BY <1>2, <1>8 DEF Database
  <2>3. GoodRows(tx)'
    BY <1>13 DEF GoodRows, ActiveIds
  <2>4. QED
    BY <1>1, <1>8, <1>11, <1>14, <1>15, <1>16, <1>17, <2>1, <2>2, <2>3, StatementOfUpsert

(* The id of the new row is greater than any superseded_by so far.         *)
LEMMA InsertInvariant ==
  ASSUME FactInvariant, NEW t \in Threads, Insert(t)
  PROVE  FactInvariant'
<1> DEFINE old == job[t].old
           k == Subject(t)
           n == Len(tx.facts)
           new == NewFact(t)
<1>1. /\ pc[t] = "insert" /\ pc' = [pc EXCEPT ![t] = IF old = 0 THEN "commit" ELSE "link"]
      /\ ActiveIds(tx, k) = {}
      /\ tx' = [tx EXCEPT !.facts = Append(@, new)]
      /\ UNCHANGED <<db, lock, job, beside>>
  BY DEF Insert, Goto
<1>2. TypeOK /\ tx \in Database /\ pc \in [Threads -> Labels]
  BY DEF FactInvariant, TypeOK
<1>3. RowsInHand(t) /\ ExtractorUpToDate(t) /\ WholeButSubject(t) /\ GoodRows(tx)
  BY Parts DEF ThreadInvariant
<1>4. job[t].todo # <<>>
  BY <1>1 DEF FactInvariant, HoldsLock, Upserting
<1>5. k \in Keys /\ job[t] \in Job /\ Head(job[t].todo)[2] \in Values
  BY <1>2, <1>4, HeadOfTodo
<1>6. new \in Fact /\ new.key = k /\ new.active /\ new.by = 0 /\ new.value = Head(job[t].todo)[2]
      /\ new.auto = job[t].auto
  BY <1>5 DEF NewFact, Fact, Job
<1>7. /\ tx' \in Database /\ tx'.rows = tx.rows
      /\ Len(tx'.facts) = n + 1 /\ DOMAIN tx'.facts = 1..n + 1
      /\ n \in Nat /\ DOMAIN tx.facts = 1..n
      /\ \A j \in DOMAIN tx.facts : tx'.facts[j] = tx.facts[j]
      /\ tx'.facts[n + 1] = new
  <2> HIDE DEF new
  <2>1. QED
    BY <1>1, <1>2, <1>6, RowAppended
<1> HIDE DEF n, new
<1>8. \A q : ActiveIds(tx', q) = ActiveIds(tx, q) \cup (IF q = k THEN {n + 1} ELSE {})
  BY <1>6, <1>7 DEF ActiveIds
<1>9. GoodRows(tx')
  <2>1. \A q \in Keys : \A i, j \in ActiveIds(tx', q) : i = j
    BY <1>1, <1>3, <1>8 DEF GoodRows
  <2>2. ASSUME NEW i \in DOMAIN tx'.facts, tx'.facts[i].by # 0
        PROVE  /\ ~tx'.facts[i].active
               /\ tx'.facts[i].by \in i+1..Len(tx'.facts)
               /\ tx'.facts[tx'.facts[i].by].key = tx'.facts[i].key
               /\ tx'.facts[tx'.facts[i].by].auto /\ tx'.facts[i].typed =>
                     tx'.facts[tx'.facts[i].by].value # tx'.facts[i].value
    <3>1. i \in 1..n /\ tx'.facts[i] = tx.facts[i]
      BY <1>6, <1>7, <2>2
    <3>2. tx.facts[i].by \in i+1..n /\ ~tx.facts[i].active
      BY <1>3, <1>7, <2>2, <3>1 DEF GoodRows, n
    <3>3. tx.facts[i].by \in 1..n /\ tx.facts[i].by \in i+1..n+1
      BY <1>7, <3>1, <3>2
    <3>4. tx'.facts[tx.facts[i].by] = tx.facts[tx.facts[i].by]
      BY <1>7, <3>3
    <3>5. QED
      BY <1>3, <1>7, <2>2, <3>1, <3>2, <3>3, <3>4 DEF GoodRows
  <2>3. QED
    BY <2>1, <2>2 DEF GoodRows
<1>10. /\ pc'[t] = (IF old = 0 THEN "commit" ELSE "link")
       /\ job' = job /\ Subject(t)' = k /\ NewFact(t)' = new /\ split' = split
  BY <1>1, <1>2 DEF Subject, beside, NewFact, new
<1>11. RowsInHand(t)'
  <2>1. old # 0 => /\ old \in 1..n /\ tx.facts[old].key = k /\ ~tx.facts[old].active
    BY <1>1, <1>3, <1>7 DEF RowsInHand
  <2>2. tx'.facts # <<>>
    BY <1>7
  <2>3. old # 0 => old \in 1..Len(tx'.facts) - 1
    BY <1>7, <2>1
  <2>4. QED
    BY <1>7, <1>10, <2>1, <2>2, <2>3 DEF RowsInHand
<1>12. WholeButSubject(t)'
  <2>1. CASE split
    BY <1>10, <2>1 DEF WholeButSubject
  <2>2. CASE ~split
    <3>1. ASSUME NEW i \in DOMAIN tx'.facts
          PROVE  /\ ActiveIds(tx', tx'.facts[i].key) # {}
                 /\ ~tx'.facts[i].active /\ i # old => tx'.facts[i].by # 0
      <4>1. CASE i = n + 1
        BY <1>6, <1>7, <1>8, <4>1
      <4>2. CASE i # n + 1
        <5>1. i \in DOMAIN tx.facts /\ tx'.facts[i] = tx.facts[i]
          BY <1>7, <4>2
        <5>2. /\ tx.facts[i].key # k => ActiveIds(tx, tx.facts[i].key) # {}
              /\ ~tx.facts[i].active /\ i # old => tx.facts[i].by # 0
          BY <1>1, <1>3, <2>2, <5>1 DEF WholeButSubject
        <5>3. QED
          BY <1>8, <5>1, <5>2
      <4>3. QED
        BY <4>1, <4>2
    <3>2. old = 0 => Whole(tx')
      <4>1. 0 \notin DOMAIN tx'.facts
        BY <1>7
      <4>2. QED
        BY <3>1, <4>1 DEF Whole
    <3>3. QED
      BY <1>10, <3>1, <3>2 DEF WholeButSubject, Whole, ActiveIds
  <2>3. QED
    BY <2>1, <2>2
<1>13. ExtractorUpToDate(t)'
  <2> SUFFICES ASSUME job[t].auto PROVE ExtractorUpToDate(t)'
    BY <1>10 DEF ExtractorUpToDate
  <2>1. k \in job[t].seen
    BY <1>1, <1>3 DEF ExtractorUpToDate, Upserting
  <2>2. \A i \in DOMAIN tx'.facts : i \in DOMAIN tx.facts \/ i = n + 1
    BY <1>7
  <2>3. \A i \in DOMAIN tx'.facts :
               tx'.facts[i].active /\ tx'.facts[i].typed /\ tx'.facts[i].key \notin job[t].seen =>
                   <<tx'.facts[i].key, tx'.facts[i].value>> \in job[t].known
    BY <1>3, <1>6, <1>7, <2>1, <2>2 DEF ExtractorUpToDate
  <2>4. old # 0 => old \in DOMAIN tx.facts /\ Differs(tx.facts[old], Head(job[t].todo))
    BY <1>1, <1>3 DEF RowsInHand, ExtractorUpToDate
  <2>5. pc'[t] \in {"link", "commit"} /\ (pc'[t] = "link" => old # 0)
    BY <1>10
  <2>6. QED
    BY <1>7, <1>10, <2>1, <2>3, <2>4, <2>5 DEF ExtractorUpToDate
<1>14. QED
  <2>1. pc' = [pc EXCEPT ![t] = pc'[t]]
    BY <1>1, <1>10
  <2>5. /\ pc[t] \in {"deactivate", "insert", "link"}
        /\ pc'[t] \in {"insert", "link", "commit"} /\ pc'[t] # "insert"
    BY <1>1, <1>10
  <2>2. Len(tx.facts) <= Len(tx'.facts)
    BY <1>7 DEF n
  <2>3. GoodRows(tx)'
    BY <1>9 DEF GoodRows, ActiveIds
  <2>4. QED
    BY <1>1, <1>7, <1>11, <1>12, <1>13, <2>1, <2>2, <2>3, <2>5, StatementOfUpsert

(* The row found is linked to the one that was added, which has its key.   *)
LEMMA LinkInvariant ==
  ASSUME FactInvariant, NEW t \in Threads, Link(t)
  PROVE  FactInvariant'
<1> DEFINE old == job[t].old
           k == Subject(t)
           n == Len(tx.facts)
<1>1. /\ pc[t] = "link" /\ pc' = [pc EXCEPT ![t] = "commit"]
      /\ tx' = [tx EXCEPT !.facts[old].by = n]
      /\ UNCHANGED <<db, lock, job, beside>>
  BY DEF Link, Goto
<1>2. TypeOK /\ tx \in Database /\ pc \in [Threads -> Labels]
  BY DEF FactInvariant, TypeOK
<1>3. RowsInHand(t) /\ ExtractorUpToDate(t) /\ WholeButSubject(t) /\ GoodRows(tx)
  BY Parts DEF ThreadInvariant
<1>4. /\ n \in Nat /\ DOMAIN tx.facts = 1..n /\ old \in 1..n-1
      /\ tx.facts[n] = NewFact(t)
  BY <1>1, <1>2, <1>3 DEF RowsInHand, Database
<1>5. old \in 1..n /\ n \in 1..n /\ n # old /\ n # 0 /\ n \in old+1..n
  BY <1>4
<1>6. tx.facts[old].key = k /\ ~tx.facts[old].active
  BY <1>1, <1>3, <1>4 DEF RowsInHand
<1>7. /\ tx.facts[n].key = k /\ tx.facts[n].active /\ tx.facts[n].value = Head(job[t].todo)[2]
      /\ tx.facts[n].auto = job[t].auto
  BY <1>4 DEF NewFact
<1>8. /\ tx' \in Database /\ tx'.rows = tx.rows
      /\ Len(tx'.facts) = n /\ DOMAIN tx'.facts = 1..n
      /\ \A j \in 1..n : j # old => tx'.facts[j] = tx.facts[j]
      /\ tx'.facts[old] = [tx.facts[old] EXCEPT !.by = n]
  <2>1. old \in DOMAIN tx.facts /\ tx' = [tx EXCEPT !.facts[old].by = n] /\ tx \in Database /\ n \in Nat
    BY <1>1, <1>2, <1>4, <1>5
  <2>2. DOMAIN tx.facts = 1..n /\ n = Len(tx.facts)
    BY <1>4
  <2> HIDE DEF old, n
  <2>3. /\ tx' \in Database /\ tx'.rows = tx.rows
        /\ Len(tx'.facts) = Len(tx.facts) /\ DOMAIN tx'.facts = DOMAIN tx.facts
        /\ \A j \in DOMAIN tx.facts : j # old => tx'.facts[j] = tx.facts[j]
        /\ tx'.facts[old] = [tx.facts[old] EXCEPT !.by = n]
    BY <2>1, RowLinked
  <2>4. QED
    BY <2>2, <2>3
<1> HIDE DEF n
<1>9. \A j \in 1..n :
         /\ tx'.facts[j].key = tx.facts[j].key /\ tx'.facts[j].value = tx.facts[j].value
         /\ tx'.facts[j].typed = tx.facts[j].typed
         /\ tx'.facts[j].by = (IF j = old THEN n ELSE tx.facts[j].by)
         /\ tx'.facts[j].auto = tx.facts[j].auto
         /\ tx'.facts[j].active = tx.facts[j].active
  <2>1. \A j \in 1..n : tx.facts[j] \in Fact
    BY <1>2, <1>4 DEF Database
  <2>2. QED
    BY <1>5, <1>8, <2>1 DEF Fact
<1>10. \A q : ActiveIds(tx', q) = ActiveIds(tx, q)
  BY <1>4, <1>8, <1>9 DEF ActiveIds
<1>11. job[t].auto /\ tx.facts[old].typed => tx.facts[n].value # tx.facts[old].value
  BY <1>1, <1>3, <1>5, <1>7 DEF ExtractorUpToDate, Differs
<1>12. GoodRows(tx')
  <2>1. ASSUME NEW i \in 1..n, tx'.facts[i].by # 0
        PROVE  /\ ~tx'.facts[i].active
               /\ tx'.facts[i].by \in i+1..n
               /\ tx'.facts[tx'.facts[i].by].key = tx'.facts[i].key
               /\ tx'.facts[tx'.facts[i].by].auto /\ tx'.facts[i].typed =>
                     tx'.facts[tx'.facts[i].by].value # tx'.facts[i].value
    <3>1. CASE i = old
      <4>1. tx'.facts[i].by = n /\ tx'.facts[i].active = tx.facts[old].active
            /\ tx'.facts[i].key = k /\ tx'.facts[i].value = tx.facts[old].value
            /\ tx'.facts[i].typed = tx.facts[old].typed
        BY <1>5, <1>6, <1>9, <3>1
      <4>2. tx'.facts[n].key = k /\ tx'.facts[n].value = tx.facts[n].value
            /\ tx'.facts[n].auto = job[t].auto
        BY <1>5, <1>7, <1>9
      <4>3. n \in i+1..n
        BY <1>5, <3>1
      <4>4. QED
        BY <1>6, <1>11, <4>1, <4>2, <4>3
    <3>2. CASE i # old
      <4>1. tx'.facts[i].by = tx.facts[i].by /\ tx'.facts[i].active = tx.facts[i].active
        BY <1>9, <3>2
      <4>2. /\ ~tx.facts[i].active /\ tx.facts[i].by \in i+1..n
            /\ tx.facts[tx.facts[i].by].key = tx.facts[i].key
            /\ tx.facts[tx.facts[i].by].auto /\ tx.facts[i].typed =>
                  tx.facts[tx.facts[i].by].value # tx.facts[i].value
        BY <1>3, <1>4, <2>1, <4>1 DEF GoodRows, n
      <4>3. tx.facts[i].by \in 1..n
        BY <1>4, <4>2
      <4>4. QED
        BY <1>9, <4>1, <4>2, <4>3
    <3>3. QED
      BY <3>1, <3>2
  <2>2. QED
    BY <1>3, <1>8, <1>10, <2>1 DEF GoodRows
<1>13. pc'[t] = "commit" /\ job' = job /\ Subject(t)' = k /\ NewFact(t)' = NewFact(t) /\ split' = split
  BY <1>1, <1>2 DEF Subject, beside, NewFact
<1>14. RowsInHand(t)'
  <2>1. tx'.facts # <<>> /\ tx'.facts[Len(tx'.facts)] = NewFact(t)
    BY <1>4, <1>5, <1>8
  <2>2. QED
    BY <1>13, <2>1 DEF RowsInHand
<1>15. WholeButSubject(t)'
  <2> SUFFICES ASSUME ~split, NEW i \in 1..n
      PROVE /\ ActiveIds(tx', tx'.facts[i].key) # {}
            /\ ~tx'.facts[i].active => tx'.facts[i].by # 0
    BY <1>8, <1>13 DEF WholeButSubject, Whole, ActiveIds
  <2>1. /\ tx.facts[i].key # k => ActiveIds(tx, tx.facts[i].key) # {}
        /\ ~tx.facts[i].active /\ i # old => tx.facts[i].by # 0
    BY <1>1, <1>3, <1>4 DEF WholeButSubject
  <2>2. n \in ActiveIds(tx, k)
    BY <1>4, <1>5, <1>7 DEF ActiveIds
  <2>3. QED
    BY <1>5, <1>9, <1>10, <2>1, <2>2
<1>16. ExtractorUpToDate(t)'
  BY <1>1, <1>3, <1>4, <1>8, <1>9, <1>10, <1>13 DEF ExtractorUpToDate, Upserting, Differs
<1>17. QED
  <2>1. pc' = [pc EXCEPT ![t] = pc'[t]]
    BY <1>1, <1>13
  <2>2. /\ pc[t] \in {"deactivate", "insert", "link"}
        /\ pc'[t] \in {"insert", "link", "commit"} /\ pc'[t] # "insert"
    BY <1>1, <1>13
  <2>3. Len(tx.facts) <= Len(tx'.facts)
    BY <1>4, <1>8 DEF n
  <2>4. GoodRows(tx)'
    BY <1>12 DEF GoodRows, ActiveIds
  <2>5. QED
    BY <1>1, <1>8, <1>14, <1>15, <1>16, <2>1, <2>2, <2>3, <2>4, StatementOfUpsert

-----------------------------------------------------------------------------
(* A commit, a rollback or a crash leaves the connection and the file with *)
(* the same rows, and no other thread has a turn under way.                *)
LEMMA SameRows ==
  ASSUME FactInvariant, tx' = db', GoodRows(db)', TypeOK', RowsKept',
         AtomicUnlessSplit', AcknowledgedIsStored',
         \A u \in Threads : pc'[u] \in {"idle", "turn", "next"} /\ ThreadInvariant(u)'
  PROVE  FactInvariant'
<1>1. GoodRows(tx)'
  BY DEF GoodRows, ActiveIds
<1>2. TransactionOfOneUpsert'
  <2>1. Len(db'.facts) \in Nat /\ tx'.facts = db'.facts /\ tx'.rows = db'.rows
    BY DEF TypeOK, Database
  <2>2. QED
    BY <2>1 DEF TransactionOfOneUpsert
<1>3. UpsertNeverRefused'
  BY DEF UpsertNeverRefused
<1>4. QED
  BY <1>1, <1>2, <1>3, PartsAfterStep

LEMMA CommitInvariant ==
  ASSUME FactInvariant, NEW t \in Threads, Commit(t)
  PROVE  FactInvariant'
<1> DEFINE n == Len(tx.facts)
<1>1. pc[t] = "commit" /\ db' = tx /\ Upserted(t) /\ UNCHANGED <<tx, lock, beside>>
  BY DEF Commit
<1>2. TypeOK /\ tx \in Database /\ db \in Database /\ pc \in [Threads -> Labels]
      /\ job \in [Threads -> Job]
  BY DEF FactInvariant, TypeOK
<1>3. RowsInHand(t) /\ ExtractorUpToDate(t) /\ WholeButSubject(t) /\ GoodRows(tx)
      /\ TransactionOfOneUpsert /\ RowsKept /\ AcknowledgedIsStored
  BY Parts DEF ThreadInvariant
<1>4. lock = {t} /\ \A u \in Threads \ {t} : pc[u] = "idle" /\ job[u] = NoJob
  BY <1>1, Alone
<1>5. job[t].todo # <<>>
  BY <1>1 DEF FactInvariant, HoldsLock, Upserting
<1>6. job[t] \in Job /\ Tail(job[t].todo) \in Seq(Storable)
  BY <1>2, <1>5, HeadOfTodo
<1>7. n \in Nat /\ n \in DOMAIN tx.facts /\ DOMAIN tx.facts = 1..n /\ DOMAIN db.facts \subseteq DOMAIN tx.facts
  BY <1>1, <1>2, <1>3 DEF RowsInHand, TransactionOfOneUpsert, Database
<1>8. job[t].saved \subseteq DOMAIN db.facts
  BY <1>3 DEF AcknowledgedIsStored
<1>9. ~split => Whole(tx)
  BY <1>1, <1>3 DEF WholeButSubject
<1>10. NoJob \in Job /\ NoJob.old = 0 /\ NoJob.saved = {} /\ ~NoJob.auto
  BY DEF NoJob, Job
<1>11. /\ job' = [job EXCEPT ![t] = job'[t]] /\ pc' = [pc EXCEPT ![t] = pc'[t]]
       /\ job'[t] \in Job /\ job'[t].old = 0 /\ job'[t].saved \subseteq DOMAIN tx.facts
       /\ pc'[t] \in {"turn", "next"} /\ (pc'[t] = "turn" => job'[t] = NoJob)
       /\ job'[t].auto => job'[t].seen = job[t].seen /\ job'[t].known = job[t].known /\ job[t].auto
  <2>1. CASE job[t].auto
    <3>1. job' = [job EXCEPT ![t].todo = Tail(@), ![t].old = 0, ![t].saved = @ \cup {n}]
          /\ pc' = [pc EXCEPT ![t] = "next"]
      BY <1>1, <2>1 DEF Upserted, Goto
    <3>2. job'[t] = [job[t] EXCEPT !.todo = Tail(@), !.old = 0, !.saved = @ \cup {n}]
      BY <1>2, <3>1
    <3>3. job' = [job EXCEPT ![t] = job'[t]] /\ pc' = [pc EXCEPT ![t] = pc'[t]] /\ pc'[t] = "next"
      BY <1>2, <3>1
    <3>4. job[t].saved \cup {n} \in SUBSET Nat /\ job[t].saved \cup {n} \subseteq DOMAIN tx.facts
      BY <1>6, <1>7, <1>8 DEF Job
    <3> HIDE DEF n
    <3>5. /\ job'[t].old = 0 /\ job'[t].saved = job[t].saved \cup {n}
          /\ job'[t].seen = job[t].seen /\ job'[t].known = job[t].known
          /\ job'[t].auto = job[t].auto /\ job'[t].todo = Tail(job[t].todo)
      BY <1>6, <3>2 DEF Job
    <3>6. job'[t] \in Job
      <4>1. job'[t] = [auto |-> job[t].auto, todo |-> Tail(job[t].todo), known |-> job[t].known,
                       seen |-> job[t].seen, old |-> 0, saved |-> job[t].saved \cup {n}]
        BY <1>6, <3>2 DEF Job
      <4>2. job[t].auto \in BOOLEAN /\ job[t].known \in SUBSET (Keys \X Values)
            /\ job[t].seen \in SUBSET Keys
        BY <1>6 DEF Job
      <4>3. Tail(job[t].todo) \in Seq(Storable) /\ job[t].saved \cup {n} \in SUBSET Nat /\ 0 \in Nat
        BY <1>6, <3>4
      <4>4. [auto |-> job[t].auto, todo |-> Tail(job[t].todo), known |-> job[t].known,
             seen |-> job[t].seen, old |-> 0, saved |-> job[t].saved \cup {n}] \in Job
        BY <4>2, <4>3, JobFields, Zenon
      <4>5. QED
        BY <4>1, <4>4, Zenon
    <3>7. QED
      BY <2>1, <3>3, <3>4, <3>5, <3>6
  <2>2. CASE ~job[t].auto
    <3>1. job' = [job EXCEPT ![t] = NoJob] /\ pc' = [pc EXCEPT ![t] = "turn"]
      BY <1>1, <2>2 DEF Upserted, Goto
    <3>2. job'[t] = NoJob /\ pc'[t] = "turn"
      BY <1>2, <3>1
    <3>3. QED
      BY <1>10, <3>1, <3>2
  <2>3. QED
    BY <2>1, <2>2
<1>12. /\ \A u \in Threads \ {t} : pc'[u] = "idle" /\ job'[u] = NoJob
  BY <1>2, <1>4, <1>11
<1>13. \A u \in Threads : ThreadInvariant(u)'
  <2>1. ThreadInvariant(t)'
    <3>1. ExtractorUpToDate(t)'
      BY <1>1, <1>3, <1>11 DEF ExtractorUpToDate, Upserting
    <3>2. HoldsLock(t)' /\ RowsInHand(t)' /\ WholeButSubject(t)'
      BY <1>1, <1>4, <1>11 DEF HoldsLock, RowsInHand, WholeButSubject, Upserting
    <3>3. QED
      BY <3>1, <3>2 DEF ThreadInvariant
  <2>2. ASSUME NEW u \in Threads \ {t} PROVE ThreadInvariant(u)'
    BY <1>10, <1>12 DEF ThreadInvariant, RowsInHand, WholeButSubject, ExtractorUpToDate, HoldsLock,
       Upserting
  <2>3. QED
    BY <2>1, <2>2
<1>14. TypeOK'
  <2>1. pc' \in [Threads -> Labels] /\ job' \in [Threads -> Job]
    BY <1>2, <1>11 DEF Labels
  <2>2. \A u \in Threads : job'[u].old \in 0..Len(db'.facts)
    BY <1>1, <1>7, <1>10, <1>11, <1>12
  <2>3. QED
    BY <1>1, <1>2, <2>1, <2>2 DEF TypeOK, beside
<1>15. GoodRows(db)' /\ AtomicUnlessSplit' /\ RowsKept'
  BY <1>1, <1>3, <1>9 DEF GoodRows, ActiveIds, AtomicUnlessSplit, Whole, RowsKept, beside
<1>16. AcknowledgedIsStored'
  <2>1. \A u \in Threads : job'[u].saved \subseteq DOMAIN db'.facts
    BY <1>1, <1>10, <1>11, <1>12
  <2>2. \A x \in Rows : step'[x] = "answered" => db'.rows[x] = written'[x] \/ x \in dropped'
    BY <1>1, <1>3 DEF RowsKept, beside
  <2>3. QED
    BY <2>1, <2>2 DEF AcknowledgedIsStored
<1>17. QED
  BY <1>1, <1>11, <1>12, <1>13, <1>14, <1>15, <1>16, SameRows

(* A failing statement takes back the upsert, and the writes of others.    *)
LEMMA FailInvariant ==
  ASSUME FactInvariant, NEW t \in Threads, Fail(t)
  PROVE  FactInvariant'
<1>1. /\ pc[t] # "idle" /\ tx' = db /\ dropped' = dropped \cup {x \in Rows : tx.rows[x] # db.rows[x]}
      /\ lock' = lock \ {t} /\ job' = [job EXCEPT ![t] = NoJob] /\ pc' = [pc EXCEPT ![t] = "idle"]
      /\ UNCHANGED <<db, step, written, split>>
  BY DEF Fail, Goto
<1>2. TypeOK /\ tx \in Database /\ db \in Database /\ pc \in [Threads -> Labels]
      /\ job \in [Threads -> Job]
  BY DEF FactInvariant, TypeOK
<1>3. RowsKept /\ AcknowledgedIsStored /\ GoodRows(db) /\ AtomicUnlessSplit
  BY Parts
<1>4. \A u \in Threads : pc'[u] = "idle" /\ job'[u] = NoJob
  BY <1>1, <1>2, Alone
<1>5. NoJob \in Job /\ NoJob.old = 0 /\ NoJob.saved = {}
  BY DEF NoJob, Job
<1>6. \A u \in Threads : ThreadInvariant(u)'
  BY <1>4 DEF ThreadInvariant, RowsInHand, WholeButSubject, ExtractorUpToDate, HoldsLock, NoJob,
     Upserting
<1>7. TypeOK'
  <2>1. pc' \in [Threads -> Labels] /\ job' \in [Threads -> Job]
    BY <1>1, <1>2, <1>5 DEF Labels
  <2>2. \A u \in Threads : job'[u].old \in 0..Len(db'.facts)
    BY <1>1, <1>2, <1>4, <1>5 DEF Database
  <2>3. dropped' \subseteq Rows
    BY <1>1, <1>2 DEF TypeOK, Database
  <2>4. QED
    BY <1>1, <1>2, <2>1, <2>2, <2>3 DEF TypeOK
<1>8. GoodRows(db)' /\ AtomicUnlessSplit'
  BY <1>1, <1>3 DEF GoodRows, ActiveIds, AtomicUnlessSplit, Whole
<1>9. RowsKept' /\ AcknowledgedIsStored'
  BY <1>1, <1>3, <1>4, <1>5 DEF RowsKept, AcknowledgedIsStored
<1>10. QED
  BY <1>1, <1>4, <1>6, <1>7, <1>8, <1>9, SameRows

LEMMA CrashInvariant ==
  ASSUME FactInvariant, Crash
  PROVE  FactInvariant'
<1>1. /\ tx' = db /\ lock' = {} /\ pc' = [t \in Threads |-> "idle"]
      /\ job' = [t \in Threads |-> NoJob]
      /\ step' = [x \in Rows |-> IF step[x] = "executed" THEN "lost" ELSE step[x]]
      /\ UNCHANGED <<db, written, split, dropped>>
  BY DEF Crash
<1>2. TypeOK /\ db \in Database
  BY DEF FactInvariant, TypeOK
<1>3. AcknowledgedIsStored /\ GoodRows(db) /\ AtomicUnlessSplit
  BY Parts
<1>4. \A u \in Threads : pc'[u] = "idle" /\ job'[u] = NoJob
  BY <1>1
<1>5. NoJob \in Job /\ NoJob.old = 0 /\ NoJob.saved = {}
  BY DEF NoJob, Job
<1>6. \A u \in Threads : ThreadInvariant(u)'
  BY <1>4 DEF ThreadInvariant, RowsInHand, WholeButSubject, ExtractorUpToDate, HoldsLock, NoJob,
     Upserting
<1>7. TypeOK'
  <2>1. pc' \in [Threads -> Labels] /\ job' \in [Threads -> Job]
    BY <1>1, <1>5 DEF Labels
  <2>2. \A u \in Threads : job'[u].old \in 0..Len(db'.facts)
    BY <1>1, <1>2, <1>4, <1>5 DEF Database
  <2>3. step' \in [Rows -> {"executed", "answered", "lost"}]
    BY <1>1, <1>2 DEF TypeOK
  <2>4. QED
    BY <1>1, <1>2, <2>1, <2>2, <2>3 DEF TypeOK
<1>8. GoodRows(db)' /\ AtomicUnlessSplit'
  BY <1>1, <1>3 DEF GoodRows, ActiveIds, AtomicUnlessSplit, Whole
<1>9. RowsKept' /\ AcknowledgedIsStored'
  BY <1>1, <1>3, <1>4, <1>5 DEF RowsKept, AcknowledgedIsStored
<1>10. QED
  BY <1>1, <1>4, <1>6, <1>7, <1>8, <1>9, SameRows

(* A write without the lock joins the open transaction; it changes no fact.*)
LEMMA ExecuteInvariant ==
  ASSUME FactInvariant, NEW x \in Rows, Execute(x)
  PROVE  FactInvariant'
<1> DEFINE w == written[x] + 1
           r == [tx.rows EXCEPT ![x] = w]
<1>1. /\ written[x] < MaxWrites /\ written' = [written EXCEPT ![x] = w]
      /\ tx' = [tx EXCEPT !.rows = r]
      /\ step' = [step EXCEPT ![x] = "executed"] /\ dropped' = dropped \ {x}
      /\ UNCHANGED <<db, lock, pc, job, split>>
  BY DEF Execute
<1>2. TypeOK /\ tx \in Database /\ written \in [Rows -> 0..MaxWrites]
      /\ tx.rows \in [Rows -> 0..MaxWrites] /\ tx.facts \in Seq(Fact)
  BY DEF FactInvariant, TypeOK, Database
<1>3. w \in 0..MaxWrites /\ written' \in [Rows -> 0..MaxWrites] /\ r \in [Rows -> 0..MaxWrites]
  BY <1>1, <1>2, BoundsAssumption
<1>4. r[x] = w /\ \A y \in Rows \ {x} : r[y] = tx.rows[y]
  BY <1>2
<1> HIDE DEF r
<1>5. tx' \in Database /\ tx'.facts = tx.facts /\ tx'.rows = r
  BY <1>1, <1>2, <1>3 DEF Database
<1>6. \A t \in Threads : ThreadInvariant(t)'
  BY <1>1, <1>5, Parts DEF ThreadInvariant, HoldsLock, RowsInHand, WholeButSubject,
     ExtractorUpToDate, ActiveIds, Whole, Subject, NewFact, Differs
<1>7. TypeOK'
  BY <1>1, <1>2, <1>3, <1>5 DEF TypeOK
<1>8. TransactionOfOneUpsert'
  BY <1>1, <1>5 DEF FactInvariant, TransactionOfOneUpsert
<1>9. GoodRows(db)' /\ GoodRows(tx)'
  BY <1>1, <1>5, Parts DEF GoodRows, ActiveIds
<1>10. RowsKept' /\ AcknowledgedIsStored'
  <2>1. \A y \in Rows \ {x} : /\ written'[y] = written[y] /\ step'[y] = step[y]
                             /\ (y \in dropped' <=> y \in dropped)
    BY <1>1, <1>2 DEF TypeOK
  <2>2. written'[x] = w /\ step'[x] = "executed"
    BY <1>1, <1>2 DEF TypeOK
  <2>3. RowsKept'
    BY <1>4, <1>5, <2>1, <2>2 DEF FactInvariant, RowsKept
  <2>4. AcknowledgedIsStored'
    BY <1>1, <2>1, <2>2 DEF FactInvariant, AcknowledgedIsStored
  <2>5. QED
    BY <2>3, <2>4
<1>11. UpsertNeverRefused' /\ AtomicUnlessSplit'
  BY <1>1, <1>5 DEF FactInvariant, UpsertNeverRefused, AtomicUnlessSplit, Whole, ActiveIds, Subject
<1>12. QED
  BY <1>6, <1>7, <1>8, <1>9, <1>10, <1>11, PartsAfterStep

(* Its commit writes the rows of an upsert under way only if it splits it. *)
LEMMA CommitWriteInvariant ==
  ASSUME FactInvariant, NEW x \in Rows, CommitWrite(x)
  PROVE  FactInvariant'
<1>1. /\ step[x] = "executed" /\ db' = tx /\ step' = [step EXCEPT ![x] = "answered"]
      /\ split' = (split \/ tx.facts # db.facts)
      /\ UNCHANGED <<tx, lock, pc, job, written, dropped>>
  BY DEF CommitWrite
<1>2. TypeOK /\ tx \in Database /\ db \in Database /\ TransactionOfOneUpsert
  BY DEF FactInvariant, TypeOK
<1>3. Len(db.facts) \in Nat /\ Len(tx.facts) \in Nat /\ Len(db.facts) <= Len(tx.facts)
      /\ DOMAIN db.facts \subseteq DOMAIN tx.facts
  BY <1>2 DEF Database, TransactionOfOneUpsert
<1>4. ~split' => ~split /\ tx.facts = db.facts
  BY <1>1
<1>5. \A t \in Threads : ThreadInvariant(t)'
  BY <1>1, <1>4, Parts DEF ThreadInvariant, HoldsLock, RowsInHand, WholeButSubject,
     ExtractorUpToDate, ActiveIds, Whole, Subject, NewFact, Differs
<1>6. TypeOK'
  <2>1. \A t \in Threads : job'[t].old \in 0..Len(db'.facts)
    BY <1>1, <1>2, <1>3 DEF TypeOK
  <2>2. split' \in BOOLEAN
    BY <1>1, <1>2 DEF TypeOK
  <2>3. step' \in [Rows -> {"executed", "answered", "lost"}]
    BY <1>1, <1>2 DEF TypeOK
  <2>4. QED
    BY <1>1, <1>2, <2>1, <2>2, <2>3 DEF TypeOK
<1>7. TransactionOfOneUpsert'
  BY <1>1, <1>3 DEF TransactionOfOneUpsert
<1>8. GoodRows(db)' /\ GoodRows(tx)'
  BY <1>1, Parts DEF GoodRows, ActiveIds
<1>9. RowsKept' /\ AcknowledgedIsStored'
  BY <1>1, <1>2, <1>3 DEF FactInvariant, TypeOK, RowsKept, AcknowledgedIsStored
<1>10. UpsertNeverRefused' /\ AtomicUnlessSplit'
  BY <1>1, <1>4 DEF FactInvariant, UpsertNeverRefused, AtomicUnlessSplit, Whole, ActiveIds, Subject
<1>11. QED
  BY <1>5, <1>6, <1>7, <1>8, <1>9, <1>10, PartsAfterStep

(* A turn's other commits write no fact: no upsert is under way.           *)
LEMMA TurnCommitsInvariant ==
  ASSUME FactInvariant, NEW t \in Threads, TurnCommits(t)
  PROVE  FactInvariant'
<1>1. pc[t] = "turn" /\ db' = tx /\ UNCHANGED <<tx, lock, pc, job, beside>>
  BY DEF TurnCommits
<1>2. TypeOK /\ tx \in Database /\ TransactionOfOneUpsert
  BY DEF FactInvariant, TypeOK
<1>3. tx.facts = db.facts
  <2>1. \A u \in Threads : pc[u] \notin {"insert", "link", "commit"}
    BY <1>1, Alone
  <2>2. QED
    BY <1>2, <2>1 DEF TransactionOfOneUpsert
<1>4. \A u \in Threads : ThreadInvariant(u)'
  BY <1>1, Parts DEF ThreadInvariant, HoldsLock, RowsInHand, WholeButSubject,
     ExtractorUpToDate, ActiveIds, Whole, Subject, NewFact, Differs, beside
<1>5. TypeOK' /\ TransactionOfOneUpsert'
  BY <1>1, <1>2, <1>3 DEF TypeOK, TransactionOfOneUpsert, beside, Database
<1>6. GoodRows(db)' /\ GoodRows(tx)'
  BY <1>1, Parts DEF GoodRows, ActiveIds
<1>7. RowsKept' /\ AcknowledgedIsStored'
  BY <1>1, <1>2, <1>3 DEF FactInvariant, RowsKept, AcknowledgedIsStored, beside
<1>8. UpsertNeverRefused' /\ AtomicUnlessSplit'
  BY <1>1, <1>3 DEF FactInvariant, UpsertNeverRefused, AtomicUnlessSplit, Whole, ActiveIds,
     Subject, beside
<1>9. QED
  BY <1>4, <1>5, <1>6, <1>7, <1>8, PartsAfterStep

LEMMA StutterInvariant ==
  ASSUME FactInvariant, UNCHANGED vars
  PROVE  FactInvariant'
<1> USE DEF vars
<1>1. \A t \in Threads : ThreadInvariant(t)'
  <2> SUFFICES ASSUME NEW t \in Threads PROVE ThreadInvariant(t)'
    OBVIOUS
  <2>1. HoldsLock(t) /\ RowsInHand(t) /\ WholeButSubject(t) /\ ExtractorUpToDate(t)
    BY DEF FactInvariant
  <2>2. HoldsLock(t)' /\ RowsInHand(t)'
    BY <2>1 DEF HoldsLock, RowsInHand, ActiveIds, Subject, NewFact
  <2>3. WholeButSubject(t)'
    BY <2>1 DEF WholeButSubject, Whole, ActiveIds, Subject
  <2>4. ExtractorUpToDate(t)'
    BY <2>1 DEF ExtractorUpToDate, ActiveIds, Subject
  <2>5. QED
    BY <2>2, <2>3, <2>4 DEF ThreadInvariant
<1>2. TypeOK' /\ TransactionOfOneUpsert' /\ RowsKept' /\ AcknowledgedIsStored'
  BY DEF FactInvariant, TypeOK, TransactionOfOneUpsert, RowsKept, AcknowledgedIsStored
<1>3. GoodRows(db)' /\ GoodRows(tx)'
  BY Parts DEF GoodRows, ActiveIds
<1>4. UpsertNeverRefused' /\ AtomicUnlessSplit'
  BY DEF FactInvariant, UpsertNeverRefused, AtomicUnlessSplit, Whole, ActiveIds, Subject
<1>5. QED
  BY <1>1, <1>2, <1>3, <1>4, PartsAfterStep

LEMMA NextInvariant ==
  ASSUME FactInvariant, [Next]_vars
  PROVE  FactInvariant'
<1>1. ASSUME NEW t \in Threads,
             \/ StartTurn(t) \/ EndTurn(t) \/ TurnCommits(t)
             \/ \E c \in Storable : SaveProfileFact(t, c)
             \/ Extract(t) \/ Candidate(t) \/ Extracted(t)
             \/ Select(t) \/ Deactivate(t) \/ Insert(t) \/ Link(t) \/ Commit(t) \/ Fail(t)
      PROVE  FactInvariant'
  BY <1>1, StartTurnInvariant, EndTurnInvariant, SaveProfileFactInvariant, ExtractInvariant,
     CandidateInvariant, ExtractedInvariant, SelectInvariant, DeactivateInvariant, InsertInvariant,
     LinkInvariant, CommitInvariant, FailInvariant, TurnCommitsInvariant
<1>2. ASSUME NEW x \in Rows, Execute(x) \/ CommitWrite(x)
      PROVE  FactInvariant'
  BY <1>2, ExecuteInvariant, CommitWriteInvariant
<1>3. QED
  BY <1>1, <1>2, CrashInvariant, StutterInvariant DEF Next

-----------------------------------------------------------------------------
(* The inductive invariant of the facts holds in every reachable state:    *)
(* through turns, extractions, failing statements, requests that commit    *)
(* the connection without the lock, and crashes.                           *)
THEOREM FactInvariantHolds == Spec => []FactInvariant
<1>1. Init => FactInvariant
  BY InitInvariant
<1>2. FactInvariant /\ [Next]_vars => FactInvariant'
  BY NextInvariant
<1>3. QED
  BY <1>1, <1>2, PTL DEF Spec

(* The unique index on active facts never refuses the INSERT of            *)
(* upsert_fact, although its SELECT runs before the transaction opens.     *)
THEOREM UpsertIsNeverRefused == Spec => []UpsertNeverRefused
<1>1. FactInvariant => UpsertNeverRefused
  BY DEF FactInvariant
<1>2. QED
  BY <1>1, FactInvariantHolds, PTL

(* superseded_by always leads from an inactive row to a later row of the   *)
(* same key: histories of facts never branch back or cross.                *)
THEOREM HistoriesLeadForward == Spec => []SupersededByLaterFact
<1>1. FactInvariant => SupersededByLaterFact
  BY DEF FactInvariant
<1>2. QED
  BY <1>1, FactInvariantHolds, PTL

(* upsert_fact is all or nothing in the file as long as no request without *)
(* the lock (login, callback, logout) commits between its statements,      *)
(* whatever fails and whenever the process dies.                           *)
THEOREM UpsertsAreAtomicUnlessSplit == Spec => []AtomicUnlessSplit
<1>1. FactInvariant => AtomicUnlessSplit
  BY DEF FactInvariant
<1>2. QED
  BY <1>1, FactInvariantHolds, PTL

(* The extractor never replaces a fact of the right type by one of the     *)
(* same value, however many facts one reply names, whatever it has saved   *)
(* before and whatever an older version left in the file.                  *)
THEOREM ExtractionDoesNotChurn == Spec => []ExtractionNeverChurns
<1>1. FactInvariant => ExtractionNeverChurns
  BY DEF FactInvariant
<1>2. QED
  BY <1>1, FactInvariantHolds, PTL

(* The facts an extraction reports as saved are in the file, and so is an  *)
(* answered write of a user, a grant or a session unless a failing upsert  *)
(* rolled it back before its commit.                                       *)
THEOREM AcknowledgementsAreStored == Spec => []AcknowledgedIsStored
<1>1. FactInvariant => AcknowledgedIsStored
  BY DEF FactInvariant
<1>2. QED
  BY <1>1, FactInvariantHolds, PTL
=============================================================================
