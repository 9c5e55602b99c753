----------------------------- MODULE FactStore -----------------------------
(***************************************************************************)
(* Memory facts on the one SQLite connection that all threads of the web   *)
(* application share. A turn runs upsert_fact statement by statement,      *)
(* holding the process lock; logins and logouts write users, grants and    *)
(* sessions without the lock. The connection has a single transaction:     *)
(* whichever thread commits or rolls back does so for the statements of    *)
(* every thread.                                                           *)
(***************************************************************************)
EXTENDS Naturals, Sequences

CONSTANTS
    Threads,       \* threadpool threads that run agent turns
    Keys,          \* (user_id, key) pairs of facts
    Values,        \* values of facts
    Storable,      \* the pairs <<key, value>> in which validate_fact sees no problem
    Rows,          \* rows of users, oauth_tokens and sessions
    MaxLegacy,     \* bound on the facts found in the file at the start
    MaxWrites,     \* bound on the writes of one of the Rows
    MaxFacts,      \* bound on the rows of memory_facts
    MaxCandidates  \* bound on the facts the utility model names

ASSUME BoundsAssumption ==
    MaxLegacy \in Nat /\ MaxWrites \in Nat /\ MaxFacts \in Nat /\ MaxCandidates \in Nat
ASSUME StorableAssumption == Storable \subseteq Keys \X Values

VARIABLES
    db,        \* the database file: what a crash or a rollback returns to
    tx,        \* what the connection reads and writes: db and the open transaction
    lock,      \* the threads that hold ctx.lock: at most one
    pc,        \* pc[t]: what thread t's turn does next
    job,       \* job[t]: the local variables of the save or the extraction
    step,      \* step[x]: how far the newest write of row x has come
    written,   \* written[x]: how often row x was written
    split,     \* history: a web request committed between two statements of an upsert
    dropped    \* history: rows whose newest write a failing upsert rolled back

vars == <<db, tx, lock, pc, job, step, written, split, dropped>>

(* The id of a fact is its position: AUTOINCREMENT, and rows are never     *)
(* deleted. by is superseded_by, 0 for NULL; auto is what provenance says; *)
(* typed: fact_type is the one that the prefix of the key asks for.        *)
Fact == [key: Keys, value: Values, typed: BOOLEAN, auto: BOOLEAN, active: BOOLEAN, by: Nat]

(* rows[x]: the write of row x that the database shows, 0 for none.        *)
Database == [facts: Seq(Fact), rows: [Rows -> 0..MaxWrites]]

ActiveIds(d, k) ==
    {i \in DOMAIN d.facts : d.facts[i].key = k /\ d.facts[i].active}

(* auto: the extractor, or save_profile_fact; todo: facts still to save,   *)
(* the first of them under way; known: what was stored when the extraction *)
(* began; seen: seen_keys; old: the id found active, 0 for none; saved:    *)
(* the ids the extractor reports.                                          *)
Job == [auto: BOOLEAN, todo: Seq(Storable), known: SUBSET (Keys \X Values),
        seen: SUBSET Keys, old: Nat, saved: SUBSET Nat]

NoJob == [auto |-> FALSE, todo |-> <<>>, known |-> {}, seen |-> {}, old |-> 0, saved |-> {}]

(* A fact saved before validate_fact: its type may not be its key's.       *)
LegacyFact(k, v, typed) == [key |-> k, value |-> v, typed |-> typed, auto |-> FALSE,
                            active |-> TRUE, by |-> 0]

NoRows == [x \in Rows |-> 0]

Init ==
    /\ \E n \in 0..MaxLegacy :
          \E k \in [1..n -> Keys], v \in [1..n -> Values], typed \in [1..n -> BOOLEAN] :
             /\ \A i, j \in 1..n : k[i] = k[j] => i = j
             /\ db = [facts |-> [i \in 1..n |-> LegacyFact(k[i], v[i], typed[i])], rows |-> NoRows]
    /\ tx = db
    /\ lock = {}
    /\ pc = [t \in Threads |-> "idle"]
    /\ job = [t \in Threads |-> NoJob]
    /\ step = [x \in Rows |-> "answered"]
    /\ written = NoRows
    /\ split = FALSE
    /\ dropped = {}

-----------------------------------------------------------------------------
Goto(t, label) == pc' = [pc EXCEPT ![t] = label]

beside == <<step, written, split, dropped>>

(* Fault: the turn runs without the lock.                                  *)
StartTurnUnlocked(t) ==
    /\ pc[t] = "idle"
    /\ Goto(t, "turn")
    /\ UNCHANGED <<db, tx, lock, job, beside>>

StartTurn(t) ==
    /\ pc[t] = "idle"
    /\ lock = {}
    /\ lock' = {t}
    /\ Goto(t, "turn")
    /\ UNCHANGED <<db, tx, job, beside>>

(* The turn is over or raises; the lock is released.                       *)
EndTurn(t) ==
    /\ pc[t] = "turn"
    /\ lock' = lock \ {t}
    /\ Goto(t, "idle")
    /\ UNCHANGED <<db, tx, job, beside>>

(* The turn stores something else, a message, a span, a confirmation, and  *)
(* commits the connection.                                                 *)
TurnCommits(t) ==
    /\ pc[t] = "turn"
    /\ db' = tx
    /\ UNCHANGED <<tx, lock, pc, job, beside>>

(* save_profile_fact: whatever passes validate_fact is stored.             *)
SaveProfileFact(t, c) ==
    /\ pc[t] = "turn"
    /\ job' = [job EXCEPT ![t] = [NoJob EXCEPT !.todo = <<c>>]]
    /\ Goto(t, "select")
    /\ UNCHANGED <<db, tx, lock, beside>>

(* What a candidate must equal to be known already: an active fact, of the *)
(* type of its key, which is the type every valid candidate has.           *)
Stored(d) ==
    {<<d.facts[i].key, d.facts[i].value>> :
        i \in {j \in DOMAIN d.facts : d.facts[j].active /\ d.facts[j].typed}}

(* extract, after the reply: what parses and passes validate_fact is left  *)
(* of the model's reply; the stored facts are read once.                   *)
Extract(t) ==
    /\ pc[t] = "turn"
    /\ \E n \in 1..MaxCandidates : \E facts \in [1..n -> Storable] :
          job' = [job EXCEPT ![t] = [NoJob EXCEPT !.auto = TRUE, !.todo = facts,
                                                 !.known = Stored(tx)]]
    /\ Goto(t, "next")
    /\ UNCHANGED <<db, tx, lock, beside>>

(* Fault: a key that was named before is saved again.                      *)
CandidateRepeating(t) ==
    LET c == Head(job[t].todo) IN
    /\ pc[t] = "next"
    /\ job[t].todo # <<>>
    /\ IF c \in job[t].known
       THEN job' = [job EXCEPT ![t].todo = Tail(@)] /\ UNCHANGED pc
       ELSE Goto(t, "select") /\ UNCHANGED job
    /\ UNCHANGED <<db, tx, lock, beside>>

(* The next fact of the reply: skipped if its key was named before in this *)
(* reply, or if it is known with this value and type.                      *)
Candidate(t) ==
    LET c == Head(job[t].todo) IN
    /\ pc[t] = "next"
    /\ job[t].todo # <<>>
    /\ IF c[1] \in job[t].seen \/ c \in job[t].known
       THEN /\ job' = [job EXCEPT ![t].todo = Tail(@), ![t].seen = @ \cup {c[1]}]
            /\ UNCHANGED pc
       ELSE /\ job' = [job EXCEPT ![t].seen = @ \cup {c[1]}]
            /\ Goto(t, "select")
    /\ UNCHANGED <<db, tx, lock, beside>>

(* The reply is used up: the extraction, and with it the turn, is over.    *)
Extracted(t) ==
    /\ pc[t] = "next"
    /\ job[t].todo = <<>>
    /\ job' = [job EXCEPT ![t] = NoJob]
    /\ lock' = lock \ {t}
    /\ Goto(t, "idle")
    /\ UNCHANGED <<db, tx, beside>>

-----------------------------------------------------------------------------
(* upsert_fact.                                                            *)
Subject(t) == Head(job[t].todo)[1]

(* SELECT id ... WHERE active = 1: a read, it opens no transaction.        *)
Select(t) ==
    /\ pc[t] = "select"
    /\ IF ActiveIds(tx, Subject(t)) = {}
       THEN /\ job' = [job EXCEPT ![t].old = 0]
            /\ Goto(t, "insert")
       ELSE /\ \E i \in ActiveIds(tx, Subject(t)) : job' = [job EXCEPT ![t].old = i]
            /\ Goto(t, "deactivate")
    /\ UNCHANGED <<db, tx, lock, beside>>

(* Fault: the UPDATE is committed on its own.                              *)
DeactivateAutocommitted(t) ==
    /\ pc[t] = "deactivate"
    /\ tx' = [tx EXCEPT !.facts[job[t].old].active = FALSE]
    /\ db' = tx'
    /\ Goto(t, "insert")
    /\ UNCHANGED <<lock, job, beside>>

Deactivate(t) ==
    /\ pc[t] = "deactivate"
    /\ tx' = [tx EXCEPT !.facts[job[t].old].active = FALSE]
    /\ Goto(t, "insert")
    /\ UNCHANGED <<db, lock, job, beside>>

(* validate_fact has seen to the type.                                     *)
NewFact(t) == [key |-> Subject(t), value |-> Head(job[t].todo)[2], typed |-> TRUE,
               auto |-> job[t].auto, active |-> TRUE, by |-> 0]

(* The unique index idx_facts_active_key refuses a second active fact.     *)
Insert(t) ==
    /\ pc[t] = "insert"
    /\ ActiveIds(tx, Subject(t)) = {}
    /\ Len(tx.facts) < MaxFacts
    /\ tx' = [tx EXCEPT !.facts = Append(@, NewFact(t))]
    /\ Goto(t, IF job[t].old = 0 THEN "commit" ELSE "link")
    /\ UNCHANGED <<db, lock, job, beside>>

(* Fault: the first row of the table is taken for the new one.             *)
LinkFirst(t) ==
    /\ pc[t] = "link"
    /\ tx' = [tx EXCEPT !.facts[job[t].old].by = 1]
    /\ Goto(t, "commit")
    /\ UNCHANGED <<db, lock, job, beside>>

(* The new row is the last one: lastrowid of the INSERT.                   *)
Link(t) ==
    /\ pc[t] = "link"
    /\ tx' = [tx EXCEPT !.facts[job[t].old].by = Len(tx.facts)]
    /\ Goto(t, "commit")
    /\ UNCHANGED <<db, lock, job, beside>>

(* The tool returns to the turn; the extractor reports the fact as saved   *)
(* and goes on with its next one.                                          *)
Upserted(t) ==
    IF job[t].auto
    THEN /\ job' = [job EXCEPT ![t].todo = Tail(@), ![t].old = 0,
                               ![t].saved = @ \cup {Len(tx.facts)}]
         /\ Goto(t, "next")
    ELSE /\ job' = [job EXCEPT ![t] = NoJob]
         /\ Goto(t, "turn")

(* Fault: the extractor commits when it has saved its last fact.           *)
CommitLast(t) ==
    /\ pc[t] = "commit"
    /\ db' = IF Len(job[t].todo) = 1 THEN tx ELSE db
    /\ Upserted(t)
    /\ UNCHANGED <<tx, lock, beside>>

(* `with self._conn` commits.                                              *)
Commit(t) ==
    /\ pc[t] = "commit"
    /\ db' = tx
    /\ Upserted(t)
    /\ UNCHANGED <<tx, lock, beside>>

(* Fault: the failed statements stay in the open transaction.              *)
FailKeepsTransaction(t) ==
    /\ pc[t] \notin {"idle", "turn", "next"}
    /\ lock' = lock \ {t}
    /\ job' = [job EXCEPT ![t] = NoJob]
    /\ Goto(t, "idle")
    /\ UNCHANGED <<db, tx, beside>>

(* A statement raises: `with self._conn` rolls the connection back. The    *)
(* turn raises; the extractor swallows it and ends; both release the lock. *)
Fail(t) ==
    /\ pc[t] \notin {"idle", "turn", "next"}
    /\ tx' = db
    /\ dropped' = dropped \cup {x \in Rows : tx.rows[x] # db.rows[x]}
    /\ lock' = lock \ {t}
    /\ job' = [job EXCEPT ![t] = NoJob]
    /\ Goto(t, "idle")
    /\ UNCHANGED <<db, step, written, split>>

(* upsert_user, save_oauth_token, create_session and delete_session: one   *)
(* statement, then commit. A login or a logout holds no lock for either;   *)
(* it goes on, and answers, after the commit.                              *)
Execute(x) ==
    /\ step[x] # "executed"
    /\ written[x] < MaxWrites
    /\ written' = [written EXCEPT ![x] = @ + 1]
    /\ tx' = [tx EXCEPT !.rows = [@ EXCEPT ![x] = written[x] + 1]]
    /\ step' = [step EXCEPT ![x] = "executed"]
    /\ dropped' = dropped \ {x}
    /\ UNCHANGED <<db, lock, pc, job, split>>

CommitWrite(x) ==
    /\ step[x] = "executed"
    /\ db' = tx
    /\ step' = [step EXCEPT ![x] = "answered"]
    /\ split' = (split \/ tx.facts # db.facts)
    /\ UNCHANGED <<tx, lock, pc, job, written, dropped>>

(* The process dies and is started again: SQLite drops the transaction.    *)
Crash ==
    /\ tx' = db
    /\ lock' = {}
    /\ pc' = [t \in Threads |-> "idle"]
    /\ job' = [t \in Threads |-> NoJob]
    /\ step' = [x \in Rows |-> IF step[x] = "executed" THEN "lost" ELSE step[x]]
    /\ UNCHANGED <<db, written, split, dropped>>

Next ==
    \/ \E t \in Threads :
          \/ StartTurn(t) \/ EndTurn(t) \/ TurnCommits(t)
          \/ \E c \in Storable : SaveProfileFact(t, c)
          \/ Extract(t) \/ Candidate(t) \/ Extracted(t)
          \/ Select(t) \/ Deactivate(t) \/ Insert(t) \/ Link(t) \/ Commit(t) \/ Fail(t)
    \/ \E x \in Rows : Execute(x) \/ CommitWrite(x)
    \/ Crash

Spec == Init /\ [][Next]_vars

-----------------------------------------------------------------------------
Labels == {"idle", "turn", "next", "select", "deactivate", "insert", "link", "commit"}

TypeOK ==
    /\ db \in Database
    /\ tx \in Database
    /\ lock \subseteq Threads
    /\ pc \in [Threads -> Labels]
    /\ job \in [Threads -> Job]
    /\ \A t \in Threads : job[t].old \in 0..Len(db.facts)
    /\ step \in [Rows -> {"executed", "answered", "lost"}]
    /\ written \in [Rows -> 0..MaxWrites]
    /\ split \in BOOLEAN
    /\ dropped \subseteq Rows

(* The unique index idx_facts_active_key never has to refuse an upsert:    *)
(* when the new fact is inserted, the row upsert_fact found is the only    *)
(* one that was active, although it looked before its transaction began.   *)
UpsertNeverRefused ==
    \A t \in Threads : pc[t] = "insert" => ActiveIds(tx, Subject(t)) = {}

(* superseded_by leads forward along the history of one fact: to a later   *)
(* row of the same key, set only on rows that are no longer active.        *)
SupersededByLaterFact ==
    \A d \in {db, tx} : \A i \in DOMAIN d.facts :
        d.facts[i].by # 0 =>
            /\ ~d.facts[i].active
            /\ d.facts[i].by \in i+1..Len(d.facts)
            /\ d.facts[d.facts[i].by].key = d.facts[i].key

(* The extractor never supersedes a fact by itself: it saves over a row    *)
(* only if that row has another value or, left from before, not the type   *)
(* of its key, though it compares with what was stored before its first    *)
(* save (seen_keys and existing in extract).                               *)
ExtractionNeverChurns ==
    \A d \in {db, tx} : \A i \in DOMAIN d.facts :
        d.facts[i].by # 0 /\ d.facts[d.facts[i].by].auto /\ d.facts[i].typed =>
            d.facts[d.facts[i].by].value # d.facts[i].value

(* A fact that was ever saved has an active row in the file, and every     *)
(* inactive row says which row superseded it.                              *)
Whole(d) ==
    \A i \in DOMAIN d.facts :
        /\ ActiveIds(d, d.facts[i].key) # {}
        /\ ~d.facts[i].active => d.facts[i].by # 0

(* As long as no other request commits in the middle of an upsert, the     *)
(* sequence deactivate, insert, link is all or nothing, through failures   *)
(* of its statements and crashes (`with self._conn` in upsert_fact). The   *)
(* commits that can come between are the ones without the lock: of         *)
(* upsert_user, save_oauth_token, create_session and delete_session.       *)
AtomicUnlessSplit == ~split => Whole(db)

(* upsert_fact's promise: a failure can never leave the user without an    *)
(* active fact. No upsert under way, every saved fact has an active row.   *)
AlwaysAnActiveFact ==
    lock = {} => \A i \in DOMAIN db.facts : ActiveIds(db, db.facts[i].key) # {}

(* What was acknowledged is in the file: the facts the extractor reports   *)
(* as saved, whatever fails later in the same extraction, and the newest   *)
(* write of a user, a grant or a session that was answered, unless an      *)
(* upsert that failed between its statement and its commit took it along   *)
(* (extract; upsert_user, save_oauth_token, create_ and delete_session).   *)
AcknowledgedIsStored ==
    /\ \A t \in Threads : job[t].saved \subseteq DOMAIN db.facts
    /\ \A x \in Rows : step[x] = "answered" => db.rows[x] = written[x] \/ x \in dropped

(* What these properties rest on. A turn under way holds the lock; between *)
(* two upserts the connection and the file have the same facts.            *)
Upserting == {"select", "deactivate", "insert", "link", "commit"}

HoldsLock(t) ==
    /\ pc[t] # "idle" => lock = {t}
    /\ pc[t] \in {"idle", "turn"} => job[t] = NoJob
    /\ pc[t] \in Upserting => job[t].todo # <<>>

TransactionOfOneUpsert ==
    /\ Len(db.facts) <= Len(tx.facts)
    /\ (\A t \in Threads : pc[t] \notin {"insert", "link", "commit"}) => tx.facts = db.facts

OneActivePerKey ==
    \A d \in {db, tx}, k \in Keys : \A i, j \in ActiveIds(d, k) : i = j

(* The rows an upsert has in hand: the one it found, and the one it added. *)
RowsInHand(t) ==
    /\ pc[t] = "deactivate" => job[t].old \in ActiveIds(tx, Subject(t))
    /\ pc[t] \in {"insert", "link"} /\ job[t].old # 0 =>
           /\ job[t].old \in DOMAIN tx.facts
           /\ tx.facts[job[t].old].key = Subject(t)
           /\ ~tx.facts[job[t].old].active
    /\ pc[t] = "link" => job[t].old \in 1..Len(tx.facts) - 1
    /\ pc[t] \in {"link", "commit"} =>
           tx.facts # <<>> /\ tx.facts[Len(tx.facts)] = NewFact(t)

(* Unless split, only the fact under way is not whole, until the commit.   *)
WholeButSubject(t) ==
    ~split =>
        /\ pc[t] \in {"insert", "link"} =>
               \A i \in DOMAIN tx.facts :
                   /\ tx.facts[i].key # Subject(t) => ActiveIds(tx, tx.facts[i].key) # {}
                   /\ ~tx.facts[i].active /\ i # job[t].old => tx.facts[i].by # 0
        /\ pc[t] = "commit" => Whole(tx)

(* What the extractor knows is still stored, except for keys it has seen:  *)
(* what it saves is no duplicate of the row it replaces.                   *)
Differs(f, c) == f.typed => f.value # c[2]

ExtractorUpToDate(t) ==
    job[t].auto =>
        /\ \A i \in DOMAIN tx.facts :
               tx.facts[i].active /\ tx.facts[i].typed /\ tx.facts[i].key \notin job[t].seen =>
                   <<tx.facts[i].key, tx.facts[i].value>> \in job[t].known
        /\ pc[t] \in Upserting => Subject(t) \in job[t].seen
        /\ pc[t] = "select" =>
               \A i \in ActiveIds(tx, Subject(t)) : Differs(tx.facts[i], Head(job[t].todo))
        /\ pc[t] \in {"deactivate", "insert", "link"} /\ job[t].old # 0 =>
               Differs(tx.facts[job[t].old], Head(job[t].todo))

RowsKept ==
    \A x \in Rows : step[x] \in {"executed", "answered"} => tx.rows[x] = written[x] \/ x \in dropped

FactInvariant ==
    /\ TypeOK
    /\ \A t \in Threads :
          HoldsLock(t) /\ RowsInHand(t) /\ WholeButSubject(t) /\ ExtractorUpToDate(t)
    /\ TransactionOfOneUpsert
    /\ OneActivePerKey
    /\ RowsKept
    /\ UpsertNeverRefused
    /\ SupersededByLaterFact
    /\ AtomicUnlessSplit
    /\ ExtractionNeverChurns
    /\ AcknowledgedIsStored
=============================================================================
