------------------------- MODULE FakeCalendarProofs -------------------------
(***************************************************************************)
(* Proofs about FakeCalendar, for every set of calendars, every number of  *)
(* events and every bound on time: the copies of an event stay equal, and  *)
(* are where they should be; the times check_availability offers are the   *)
(* free ones.                                                              *)
(*                                                                         *)
(* The second half is about two loops. That a set of numbers or of finite  *)
(* sets has a minimal element (WFMin) gives induction over both, and with  *)
(* it that the functions the folds choose exist (FoldExists).              *)
(***************************************************************************)
EXTENDS FreeBusy, FiniteSetTheorems, TLAPS

LEMMA InitInvariant == Init => CalendarInvariant
BY BoundsAssumption DEF Init, CalendarInvariant, TypeOK, CopiesAgree, HoldersAreInvited,
   UnusedIdsAreFree, Holders

(* Whoever holds a copy of an event of a calendar in the invariant is      *)
(* invited to it, and every copy is an event.                              *)
LEMMA CopyFacts ==
  ASSUME CalendarInvariant, NEW id \in Ids, NEW c \in Holders(id)
  PROVE  /\ copy[c][id] \in Event
         /\ Holders(id) = {copy[c][id].organizer} \cup copy[c][id].attendees
         /\ \A d \in Calendars : copy[d][id] # NoEvent => copy[d][id] = copy[c][id]
BY DEF CalendarInvariant, TypeOK, CopiesAgree, HoldersAreInvited, Holders, Invited

(* If a step gives an event the same copy e on the calendars of exactly    *)
(* the invited, and leaves the other events alone, the invariant holds     *)
(* after it.                                                               *)
LEMMA SettledEvent ==
  ASSUME CalendarInvariant, used' \in 0..MaxEvents, used <= used',
         NEW id \in 1..used', NEW e \in Event,
         copy' \in [Calendars -> [Ids -> Event \cup {NoEvent}]],
         \A d \in Calendars : copy'[d][id] = IF d \in Invited(e) THEN e ELSE NoEvent,
         \A d \in Calendars, i \in Ids \ {id} : copy'[d][i] = copy[d][i]
  PROVE  CalendarInvariant'
<1> USE DEF CalendarInvariant
<1>1. id \in Ids
  BY BoundsAssumption DEF Ids
<1>2. Holders(id)' = Invited(e)
  BY NoEventAssumption DEF Holders, Invited, Event
<1>3. \A i \in Ids \ {id} : Holders(i)' = Holders(i)
  BY DEF Holders
<1>4. TypeOK'
  BY DEF TypeOK
<1>5. CopiesAgree'
  BY <1>1, <1>2, <1>3 DEF CopiesAgree, Holders
<1>6. HoldersAreInvited'
  BY <1>1, <1>2, <1>3 DEF HoldersAreInvited, Holders
<1>7. UnusedIdsAreFree'
  BY <1>1, <1>3, BoundsAssumption DEF UnusedIdsAreFree, TypeOK, Ids
<1>8. QED
  BY <1>4, <1>5, <1>6, <1>7

LEMMA CreateInvariant ==
  ASSUME CalendarInvariant, NEW c \in Calendars, NEW start \in 0..MaxTime,
         NEW end \in 0..MaxTime, NEW attendees \in SUBSET Calendars,
         CreateEvent(c, start, end, attendees)
  PROVE  CalendarInvariant'
<1> DEFINE e == [organizer |-> c, start |-> start, end |-> end, attendees |-> attendees]
<1>1. e \in Event
  BY DEF Event, CreateEvent
<1>2. used \in 0..MaxEvents /\ used < MaxEvents /\ used' = used + 1 /\ used + 1 \in Ids
  BY BoundsAssumption DEF CalendarInvariant, TypeOK, CreateEvent, Ids
<1>3. \A d \in Calendars : copy[d][used + 1] = NoEvent
  BY <1>2 DEF CalendarInvariant, UnusedIdsAreFree, Holders, Ids
<1>4. copy' = [d \in Calendars |->
                 IF d \in Invited(e) THEN [copy[d] EXCEPT ![used + 1] = e] ELSE copy[d]]
  BY DEF CreateEvent, Mirrors, Invited
<1> HIDE DEF e
<1>5. copy' \in [Calendars -> [Ids -> Event \cup {NoEvent}]]
  BY <1>1, <1>2, <1>4 DEF CalendarInvariant, TypeOK
<1>6. \A d \in Calendars :
         copy'[d][used + 1] = IF d \in Invited(e) THEN e ELSE NoEvent
  BY <1>2, <1>3, <1>4 DEF CalendarInvariant, TypeOK
<1>7. \A d \in Calendars, i \in Ids \ {used + 1} : copy'[d][i] = copy[d][i]
  BY <1>4 DEF CalendarInvariant, TypeOK
<1>8. used + 1 \in 1..used' /\ used' \in 0..MaxEvents /\ used <= used'
  BY <1>2, BoundsAssumption
<1>9. QED
  BY <1>1, <1>5, <1>6, <1>7, <1>8, SettledEvent

LEMMA UpdateInvariant ==
  ASSUME CalendarInvariant, NEW c \in Calendars, NEW id \in Ids,
         NEW start \in 0..MaxTime, NEW end \in 0..MaxTime, NEW given \in BOOLEAN,
         NEW attendees \in SUBSET Calendars,
         UpdateEvent(c, id, start, end, given, attendees)
  PROVE  CalendarInvariant'
<1> DEFINE e == copy[c][id]
           new == Merge(e, start, end, given, attendees)
           removed == (e.attendees \ new.attendees) \ {new.organizer}
<1>1. c \in Holders(id)
  BY DEF UpdateEvent, Holders
<1>2. /\ e \in Event
      /\ Holders(id) = {e.organizer} \cup e.attendees
      /\ \A d \in Calendars : copy[d][id] # NoEvent => copy[d][id] = e
  BY <1>1, CopyFacts
<1>3. /\ new \in Event
      /\ new.organizer = e.organizer
      /\ new.attendees = IF given THEN attendees ELSE e.attendees
  BY <1>2 DEF Merge, Event, UpdateEvent
<1>4. /\ copy' = [d \in Calendars |-> [copy[d] EXCEPT ![id] =
                    IF given /\ d \in Mirrors(new) THEN new
                    ELSE IF copy[d][id] = NoEvent \/ (given /\ d \in removed) THEN NoEvent
                    ELSE Merge(copy[d][id], start, end, given, attendees)]]
      /\ used' = used
  BY DEF UpdateEvent
<1> HIDE DEF e, new
<1>5. ASSUME NEW d \in Calendars
      PROVE  copy'[d][id] = IF d \in Invited(new) THEN new ELSE NoEvent
  <2>1. copy[d][id] # NoEvent => Merge(copy[d][id], start, end, given, attendees) = new
    BY <1>2 DEF new
  <2>2. copy'[d][id] = IF given /\ d \in Mirrors(new) THEN new
                       ELSE IF copy[d][id] = NoEvent \/ (given /\ d \in removed) THEN NoEvent
                       ELSE new
    BY <1>4, <2>1 DEF CalendarInvariant, TypeOK
  <2>3. copy[d][id] # NoEvent <=> d = e.organizer \/ d \in e.attendees
    BY <1>2 DEF Holders
  <2>4. QED
    BY <2>2, <2>3, <1>3 DEF Mirrors, Invited
<1>6. copy' \in [Calendars -> [Ids -> Event \cup {NoEvent}]]
  <2>1. \A d \in Calendars : copy'[d][id] \in Event \cup {NoEvent}
    BY <1>3, <1>5
  <2>2. ASSUME NEW d \in Calendars
        PROVE  copy'[d] \in [Ids -> Event \cup {NoEvent}]
    <3>1. copy[d] \in [Ids -> Event \cup {NoEvent}]
      BY DEF CalendarInvariant, TypeOK
    <3>2. copy'[d] = [copy[d] EXCEPT ![id] = copy'[d][id]]
      BY <1>4, <3>1
    <3>3. copy'[d][id] \in Event \cup {NoEvent}
      BY <2>1
    <3>4. QED
      BY <3>1, <3>2, <3>3
  <2>3. copy' = [d \in Calendars |-> copy'[d]]
    BY <1>4
  <2>4. QED
    BY <2>2, <2>3
<1>7. \A d \in Calendars, i \in Ids \ {id} : copy'[d][i] = copy[d][i]
  BY <1>4 DEF CalendarInvariant, TypeOK
<1>8. id \in 1..used'
  BY <1>1, <1>4, BoundsAssumption DEF CalendarInvariant, UnusedIdsAreFree, Ids, TypeOK
<1>9. used' \in 0..MaxEvents /\ used <= used'
  BY <1>4 DEF CalendarInvariant, TypeOK
<1>10. QED
  BY <1>3, <1>5, <1>6, <1>7, <1>8, <1>9, SettledEvent

LEMMA DeleteInvariant ==
  ASSUME CalendarInvariant, NEW c \in Calendars, NEW id \in Ids, DeleteEvent(c, id)
  PROVE  CalendarInvariant'
<1> USE DEF CalendarInvariant, DeleteEvent
<1>1. TypeOK'
  BY DEF TypeOK
<1>2. Holders(id)' = {} /\ \A i \in Ids \ {id} : Holders(i)' = Holders(i)
  BY DEF Holders, TypeOK
<1>3. \A d \in Calendars, i \in Ids \ {id} : copy'[d][i] = copy[d][i]
  BY DEF TypeOK
<1>4. CopiesAgree'
  BY <1>2, <1>3 DEF CopiesAgree, Holders
<1>5. HoldersAreInvited'
  <2> SUFFICES ASSUME NEW i \in Ids, NEW d \in Holders(i)'
               PROVE  Holders(i)' = Invited(copy'[d][i])
    BY DEF HoldersAreInvited
  <2>1. i # id /\ d \in Holders(i) /\ d \in Calendars
    BY <1>2 DEF Holders
  <2>2. QED
    BY <1>2, <1>3, <2>1 DEF HoldersAreInvited
<1>6. UnusedIdsAreFree'
  BY <1>2 DEF UnusedIdsAreFree
<1>7. QED
  BY <1>1, <1>4, <1>5, <1>6

LEMMA NextInvariant == CalendarInvariant /\ [Next]_vars => CalendarInvariant'
<1>1. CalendarInvariant /\ Next => CalendarInvariant'
  BY CreateInvariant, UpdateInvariant, DeleteInvariant DEF Next
<1>2. CalendarInvariant /\ UNCHANGED vars => CalendarInvariant'
  BY DEF vars, CalendarInvariant, TypeOK, CopiesAgree, HoldersAreInvited, UnusedIdsAreFree,
     Holders
<1>3. QED
  BY <1>1, <1>2

(* The copies of an event are equal and on the calendars of exactly its    *)
(* organizer and attendees, after any sequence of creations, updates and   *)
(* deletions.                                                              *)
THEOREM CopiesStayInStep == Spec => []CalendarInvariant
BY InitInvariant, NextInvariant, PTL DEF Spec

(* A deleted event never comes back.                                       *)
THEOREM DeletionIsFinal == Spec => DeletedStaysDeleted
<1> DEFINE Gone == \A id \in 1..used : Holders(id) = {} => Holders(id)' = {}
<1>1. CalendarInvariant /\ [Next]_vars => [Gone]_vars
  <2> SUFFICES ASSUME CalendarInvariant, Next, NEW id \in 1..used, Holders(id) = {}
               PROVE  Holders(id)' = {}
    BY DEF Gone
  <2>1. id \in Ids /\ \A d \in Calendars : copy[d][id] = NoEvent
    BY BoundsAssumption DEF Holders, Ids, CalendarInvariant, TypeOK
  <2>2. ASSUME NEW c \in Calendars, NEW start \in 0..MaxTime, NEW end \in 0..MaxTime,
               NEW attendees \in SUBSET Calendars, CreateEvent(c, start, end, attendees)
        PROVE  \A d \in Calendars : copy'[d][id] = NoEvent
    <3>1. id # used + 1
      BY BoundsAssumption DEF CalendarInvariant, TypeOK
    <3>2. QED
      BY <2>1, <2>2, <3>1 DEF CreateEvent, CalendarInvariant, TypeOK
  <2>3. ASSUME NEW c \in Calendars, NEW i \in Ids, NEW start \in 0..MaxTime,
               NEW end \in 0..MaxTime, NEW given \in BOOLEAN,
               NEW attendees \in SUBSET Calendars,
               UpdateEvent(c, i, start, end, given, attendees)
        PROVE  \A d \in Calendars : copy'[d][id] = NoEvent
    <3>1. id # i
      BY <2>1, <2>3 DEF UpdateEvent
    <3>2. QED
      BY <2>1, <2>3, <3>1 DEF UpdateEvent, CalendarInvariant, TypeOK
  <2>4. ASSUME NEW c \in Calendars, NEW i \in Ids, DeleteEvent(c, i)
        PROVE  \A d \in Calendars : copy'[d][id] = NoEvent
    BY <2>1, <2>4 DEF DeleteEvent, CalendarInvariant, TypeOK
  <2>5. \A d \in Calendars : copy'[d][id] = NoEvent
    BY <2>2, <2>3, <2>4 DEF Next
  <2>6. QED
    BY <2>5 DEF Holders
<1>2. QED
  BY <1>1, CopiesStayInStep, PTL DEF Spec, DeletedStaysDeleted

-----------------------------------------------------------------------------
(* Refinement: every holder's copy is the event, so TheEvent, which picks  *)
(* a holder, is well defined and is what every invited calendar shows.     *)
TheEventIsShown ==
    \A id \in Ids :
        /\ TheEvent(id) = NoEvent <=> Holders(id) = {}
        /\ \A c \in Holders(id) : TheEvent(id) = copy[c][id] /\ copy[c][id] \in Event
        /\ \A d \in Calendars :
              copy[d][id] = IF TheEvent(id) # NoEvent /\ d \in Invited(TheEvent(id))
                            THEN TheEvent(id) ELSE NoEvent

LEMMA TheEventFacts == CalendarInvariant => TheEventIsShown
<1> SUFFICES ASSUME CalendarInvariant, NEW id \in Ids
             PROVE  /\ TheEvent(id) = NoEvent <=> Holders(id) = {}
                    /\ \A c \in Holders(id) : TheEvent(id) = copy[c][id] /\ copy[c][id] \in Event
                    /\ \A d \in Calendars :
                          copy[d][id] = IF TheEvent(id) # NoEvent /\ d \in Invited(TheEvent(id))
                                        THEN TheEvent(id) ELSE NoEvent
  BY DEF TheEventIsShown
<1>1. CASE Holders(id) = {}
  BY <1>1 DEF TheEvent, Holders
<1>2. CASE Holders(id) # {}
  <2>1. PICK h \in Holders(id) : TheEvent(id) = copy[h][id]
    BY <1>2 DEF TheEvent
  <2>2. /\ copy[h][id] \in Event
        /\ Holders(id) = Invited(copy[h][id])
        /\ \A d \in Calendars : copy[d][id] # NoEvent => copy[d][id] = copy[h][id]
    BY CopyFacts DEF Invited
  <2>3. TheEvent(id) # NoEvent
    BY <2>1, <2>2, NoEventAssumption
  <2>4. QED
    BY <1>2, <2>1, <2>2, <2>3 DEF Holders
<1>3. QED
  BY <1>1, <1>2

LEMMA TheEventFactsNext == CalendarInvariant' => TheEventIsShown'
BY TheEventFacts, PTL

(* A step that changes the copies of one event only leaves the others as   *)
(* they were and shows the event on the calendars of the invited.          *)
LEMMA OneEventChanges ==
  ASSUME CalendarInvariant, CalendarInvariant', NEW id \in Ids,
         \A d \in Calendars, i \in Ids \ {id} : copy'[d][i] = copy[d][i]
  PROVE  /\ [i \in Ids |-> TheEvent(i)]' =
               [[i \in Ids |-> TheEvent(i)] EXCEPT ![id] = TheEvent(id)']
         /\ copy' = Shared!Shown([i \in Ids |-> TheEvent(i)]')
<1>1. TheEventIsShown /\ TheEventIsShown'
  BY TheEventFacts, TheEventFactsNext
<1>2. ASSUME NEW i \in Ids \ {id} PROVE TheEvent(i)' = TheEvent(i)
  <2>1. Holders(i)' = Holders(i)
    BY DEF Holders
  <2>2. CASE Holders(i) = {}
    BY <1>1, <2>1, <2>2 DEF TheEventIsShown
  <2>3. CASE Holders(i) # {}
    <3>1. PICK c \in Holders(i) : c \in Calendars
      BY <2>3 DEF Holders
    <3>2. TheEvent(i) = copy[c][i] /\ TheEvent(i)' = copy'[c][i]
      BY <1>1, <2>1, <3>1 DEF TheEventIsShown
    <3>3. QED
      BY <3>1, <3>2
  <2>4. QED
    BY <2>2, <2>3
<1>3. copy' = [d \in Calendars |-> [i \in Ids |-> copy'[d][i]]]
  BY DEF CalendarInvariant, TypeOK
<1>4. copy' = Shared!Shown([i \in Ids |-> TheEvent(i)]')
  <2>1. \A d \in Calendars, i \in Ids :
           copy'[d][i] = IF TheEvent(i)' # NoEvent /\ d \in Invited(TheEvent(i)')
                         THEN TheEvent(i)' ELSE NoEvent
    BY <1>1 DEF TheEventIsShown, Invited
  <2>2. QED
    BY <1>3, <2>1 DEF Shared!Shown, Shared!Invited, Invited
<1>5. QED
  BY <1>2, <1>4

LEMMA CreateRefines ==
  ASSUME CalendarInvariant, CalendarInvariant', NEW c \in Calendars,
         NEW start \in 0..MaxTime, NEW end \in 0..MaxTime,
         NEW attendees \in SUBSET Calendars, CreateEvent(c, start, end, attendees)
  PROVE  Shared!Next
<1>1. PICK id \in Ids : id = used + 1
  BY BoundsAssumption DEF CreateEvent, CalendarInvariant, TypeOK, Ids
<1>2. id \notin 1..used /\ (1..used)' = (1..used) \cup {id}
  BY <1>1, BoundsAssumption DEF CreateEvent, CalendarInvariant, TypeOK
<1>3. \A d \in Calendars, i \in Ids \ {id} : copy'[d][i] = copy[d][i]
  BY <1>1 DEF CreateEvent, CalendarInvariant, TypeOK
<1>4. c \in Holders(id)'
  <2>1. copy'[c][id] =
          [organizer |-> c, start |-> start, end |-> end, attendees |-> attendees]
    BY <1>1 DEF CreateEvent, CalendarInvariant, TypeOK
  <2>2. copy'[c][id] \in Event
    BY <2>1 DEF Event, CreateEvent
  <2>3. QED
    BY <2>2, NoEventAssumption DEF Holders
<1>5. TheEvent(id)' \in Event
  BY <1>4, TheEventFactsNext DEF TheEventIsShown
<1>6. Shared!Create(id)
  BY <1>2, <1>5 DEF Shared!Create
<1>7. QED
  BY <1>3, <1>6, OneEventChanges DEF Shared!Next

LEMMA UpdateRefines ==
  ASSUME CalendarInvariant, CalendarInvariant', NEW c \in Calendars, NEW id \in Ids,
         NEW start \in 0..MaxTime, NEW end \in 0..MaxTime, NEW given \in BOOLEAN,
         NEW attendees \in SUBSET Calendars,
         UpdateEvent(c, id, start, end, given, attendees)
  PROVE  Shared!Next
<1>1. c \in Holders(id) /\ used' = used
  BY DEF UpdateEvent, Holders
<1>2. \A d \in Calendars, i \in Ids \ {id} : copy'[d][i] = copy[d][i]
  BY DEF UpdateEvent, CalendarInvariant, TypeOK
<1>3. TheEvent(id) = copy[c][id] /\ TheEvent(id) \in Event /\ TheEvent(id) # NoEvent
  BY <1>1, TheEventFacts, NoEventAssumption DEF TheEventIsShown
<1>4. PICK d \in Holders(id)' : copy'[d][id].organizer = TheEvent(id).organizer
  <2>1. TheEvent(id).organizer \in Holders(id)
    BY <1>1, <1>3, CopyFacts
  <2>2. PICK o \in Calendars : o = TheEvent(id).organizer /\ copy[o][id] = TheEvent(id)
    BY <1>3, <2>1, TheEventFacts DEF TheEventIsShown, Holders
  <2>3. copy'[o][id] = Merge(TheEvent(id), start, end, given, attendees)
    BY <1>3, <2>2 DEF UpdateEvent, Mirrors, Merge, CalendarInvariant, TypeOK, Event
  <2>4. start < end
    BY DEF UpdateEvent
  <2>5. copy'[o][id] \in Event /\ copy'[o][id].organizer = TheEvent(id).organizer
    BY <1>3, <2>3, <2>4 DEF Merge, Event
  <2>6. QED
    BY <2>5, NoEventAssumption DEF Holders
<1>5. TheEvent(id)' \in Event /\ TheEvent(id)'.organizer = TheEvent(id).organizer
  BY <1>4, TheEventFactsNext DEF TheEventIsShown
<1>6. Shared!Change(id)
  BY <1>1, <1>3, <1>5 DEF Shared!Change
<1>7. QED
  BY <1>2, <1>6, OneEventChanges DEF Shared!Next

LEMMA DeleteRefines ==
  ASSUME CalendarInvariant, CalendarInvariant', NEW c \in Calendars, NEW id \in Ids,
         DeleteEvent(c, id)
  PROVE  Shared!Next
<1>1. c \in Holders(id) /\ Holders(id)' = {} /\ used' = used
  BY DEF DeleteEvent, Holders, CalendarInvariant, TypeOK
<1>2. \A d \in Calendars, i \in Ids \ {id} : copy'[d][i] = copy[d][i]
  BY DEF DeleteEvent, CalendarInvariant, TypeOK
<1>3. TheEvent(id) # NoEvent /\ TheEvent(id)' = NoEvent
  BY <1>1, TheEventFacts, TheEventFactsNext DEF TheEventIsShown
<1>4. Shared!Remove(id)
  BY <1>1, <1>3 DEF Shared!Remove
<1>5. QED
  BY <1>2, <1>4, OneEventChanges DEF Shared!Next

(* The copies behave as one event that is on the calendars of exactly the  *)
(* invited, and whose id is never given out again.                         *)
THEOREM CopiesImplementSharedEvents == Spec => ImplementsSharedEvents
<1>1. Init => Shared!Init
  <2> SUFFICES ASSUME Init PROVE Shared!Init
    OBVIOUS
  <2>1. [id \in Ids |-> TheEvent(id)] = [id \in Ids |-> NoEvent]
    BY DEF Init, TheEvent, Holders
  <2>2. 1..used = {}
    BY DEF Init
  <2>3. copy = Shared!Shown([id \in Ids |-> NoEvent])
    BY DEF Init, Shared!Shown
  <2>4. QED
    BY <2>1, <2>2, <2>3 DEF Shared!Init
<1>2. CalendarInvariant /\ CalendarInvariant' /\ [Next]_vars => [Shared!Next]_(Shared!vars)
  <2> SUFFICES ASSUME CalendarInvariant, CalendarInvariant', [Next]_vars
               PROVE  [Shared!Next]_(Shared!vars)
    OBVIOUS
  <2>1. CASE Next
    BY <2>1, CreateRefines, UpdateRefines, DeleteRefines DEF Next
  <2>2. CASE UNCHANGED vars
    BY <2>2 DEF vars, Shared!vars, TheEvent, Holders
  <2>3. QED
    BY <2>1, <2>2
<1>3. QED
  BY <1>1, <1>2, CopiesStayInStep, PTL DEF Spec, ImplementsSharedEvents, Shared!Spec

-----------------------------------------------------------------------------
(* Induction over numbers and finite sets, and folds over finite sets.     *)

(* A set of numbers has a least one: < on them is well-founded.            *)
LEMMA LeastExists ==
  ASSUME NEW N \in SUBSET Nat, N # {}
  PROVE  \E n \in N : \A m \in N : n <= m
<1>1. PICK n \in N : \A m \in N : <<m, n>> \notin OpToRel(<, Nat)
  BY NatLessThanWellFounded, WFMin
<1>2. \A m \in N : ~(m < n)
  BY <1>1 DEF OpToRel
<1> QED
  BY <1>2

(* A bounded set of numbers has a largest one.                             *)
LEMMA LargestExists ==
  ASSUME NEW N \in SUBSET Nat, N # {}, NEW bound \in Nat, \A n \in N : n <= bound
  PROVE  \E n \in N : \A m \in N : m <= n
<1> DEFINE D == {d \in Nat : bound - d \in N}
<1>1. \A n \in N : bound - n \in D
  OBVIOUS
<1>2. PICK d \in D : \A e \in D : d <= e
  <2>1. D \in SUBSET Nat /\ D # {}
    BY <1>1
  <2> HIDE DEF D
  <2> QED
    BY <2>1, LeastExists
<1>3. bound - d \in N /\ \A m \in N : m <= bound - d
  BY <1>1, <1>2
<1> QED
  BY <1>3

(* A set of numbers with 0 and every successor has them all, because its   *)
(* complement has no least element.                                        *)
LEMMA NaturalInduction ==
  ASSUME NEW T \in SUBSET Nat, 0 \in T, \A n \in T : n + 1 \in T
  PROVE  T = Nat
<1> SUFFICES ASSUME Nat \ T # {} PROVE FALSE
  OBVIOUS
<1>1. PICK n \in Nat \ T : \A m \in Nat \ T : n <= m
  BY LeastExists
<1>2. n # 0 /\ n - 1 \in Nat /\ (n - 1) + 1 = n
  OBVIOUS
<1> QED
  BY <1>1, <1>2

(* A finite set is in T if the empty one is and every other subset is as   *)
(* soon as it is without one of its elements.                              *)
LEMMA FiniteInduction ==
  ASSUME NEW S, IsFiniteSet(S), NEW T, {} \in T,
         \A s \in SUBSET S : s # {} => \E x \in s : (s \ {x} \in T => s \in T)
  PROVE  S \in T
<1> SUFFICES ASSUME S \notin T PROVE FALSE
  OBVIOUS
<1> DEFINE Bad == (SUBSET S) \ T
<1>1. Bad \subseteq FiniteSubsetsOf(S) /\ Bad # {}
  BY FS_FiniteSubsetsOfFinite
<1>2. PICK s \in Bad : \A t \in Bad : <<t, s>> \notin StrictSubsetOrdering(S)
  <2> HIDE DEF Bad
  <2> QED BY <1>1, FS_StrictSubsetOrderingWellFounded, WFMin
<1>3. s # {} /\ s \in SUBSET S
  OBVIOUS
<1>4. PICK x \in s : s \ {x} \in T => s \in T
  BY <1>3
<1>5. s \ {x} \in Bad
  BY <1>3, <1>4
<1>6. <<s \ {x}, s>> \in StrictSubsetOrdering(S)
  BY <1>3, <1>4 DEF StrictSubsetOrdering
<1> QED
  BY <1>2, <1>5, <1>6

(* A fold as functions: pick[s] is the element of s that comes last,       *)
(* op[x][v] the value after x, g[s] the fold over s.                       *)
Picks(pick, S) == \A s \in SUBSET S : s # {} => pick[s] \in s
Operates(op, S, V) == \A x \in S, v \in V : op[x][v] \in V
FoldsTo(g, S, base, pick, op) ==
    \A s \in SUBSET S : g[s] = IF s = {} THEN base ELSE op[pick[s]][g[s \ {pick[s]}]]

(* A fold over a finite set has a value: the function a MapThenFoldSet     *)
(* chooses exists, one size of the subsets after the other.                *)
LEMMA FoldExists ==
  ASSUME NEW S, IsFiniteSet(S), NEW V, NEW base \in V,
         NEW pick, Picks(pick, S), NEW op, Operates(op, S, V)
  PROVE  \E g \in [SUBSET S -> V] : FoldsTo(g, S, base, pick, op)
<1> DEFINE Small(n) == {s \in SUBSET S : Cardinality(s) <= n}
           Value(g, s) == IF s = {} THEN base ELSE op[pick[s]][g[s \ {pick[s]}]]
           Good(n, g) == g \in [Small(n) -> V] /\ \A s \in Small(n) : g[s] = Value(g, s)
           T == {n \in Nat : \E g : Good(n, g)}
<1>1. \A s \in SUBSET S : /\ IsFiniteSet(s) /\ Cardinality(s) \in Nat
                         /\ Cardinality(s) <= Cardinality(S)
  BY FS_Subset, FS_CardinalityType
<1>2. ASSUME NEW s \in SUBSET S, s # {}
      PROVE  Cardinality(s) > 0 /\ Cardinality(s \ {pick[s]}) = Cardinality(s) - 1
  <2>1. Cardinality(s) # 0
    BY <1>1, <1>2, FS_EmptySet
  <2>2. pick[s] \in s
    BY <1>2 DEF Picks
  <2>3. Cardinality(s \ {pick[s]}) = Cardinality(s) - 1
    BY <1>1, <2>2, FS_RemoveElement
  <2> QED
    BY <1>1, <2>1, <2>3
<1>3. 0 \in T
  <2>1. \A s \in Small(0) : s = {}
    <3> SUFFICES ASSUME NEW s \in SUBSET S, Cardinality(s) <= 0, s # {} PROVE FALSE
      OBVIOUS
    <3>1. Cardinality(s) > 0 /\ Cardinality(s) \in Nat
      BY <1>1, <1>2
    <3> QED
      BY <3>1
  <2>2. Good(0, [s \in Small(0) |-> base])
    BY <2>1
  <2> QED
    BY <2>2
<1>4. ASSUME NEW n \in T PROVE n + 1 \in T
  <2>1. PICK g : Good(n, g)
    OBVIOUS
  <2> DEFINE h == [s \in Small(n + 1) |-> IF s \in Small(n) THEN g[s] ELSE Value(g, s)]
  <2>2. ASSUME NEW s \in Small(n + 1), s # {} PROVE s \ {pick[s]} \in Small(n)
    BY <1>1, <1>2, <2>2
  <2>3. \A s \in Small(n) : s \in Small(n + 1)
    BY <1>1
  <2>4. ASSUME NEW s \in Small(n + 1) PROVE Value(h, s) = Value(g, s)
    BY <2>2, <2>3
  <2>5. ASSUME NEW s \in Small(n + 1) PROVE Value(g, s) \in V
    BY <2>1, <2>2 DEF Operates, Picks
  <2>6. \A s \in Small(n + 1) : h[s] = Value(h, s)
    <3> SUFFICES ASSUME NEW s \in Small(n + 1) PROVE h[s] = Value(h, s)
      OBVIOUS
    <3>1. h[s] = Value(g, s)
      BY <2>1
    <3> QED
      BY <2>4, <3>1
  <2>7. h \in [Small(n + 1) -> V]
    BY <2>1, <2>5
  <2>8. Good(n + 1, h)
    BY <2>6, <2>7
  <2> HIDE DEF Good
  <2> QED
    BY <2>8
<1>5. Cardinality(S) \in T
  <2>1. T = Nat
    <3> HIDE DEF T
    <3>1. T \subseteq Nat
      BY DEF T
    <3> QED
      BY <1>3, <1>4, <3>1, NaturalInduction
  <2> QED
    BY <1>1, <2>1
<1>6. Small(Cardinality(S)) = SUBSET S
  BY <1>1
<1>7. PICK g : Good(Cardinality(S), g)
  BY <1>5
<1> QED
  BY <1>6, <1>7 DEF FoldsTo

-----------------------------------------------------------------------------
(* _merge_slots: the loop over the slots, sorted by their start.           *)

(* The slot [t, t+1) is within one of the slots.                           *)
Covers(slots, t) == \E s \in slots : s.start <= t /\ t < s.end
(* In order, with time between one slot and the next.                      *)
Apart(m) == \A i, j \in DOMAIN m : i < j => m[i].end < m[j].start

(* m is the result of merging these slots.                                 *)
MergedFrom(slots, m) ==
    /\ m \in Seq(Slot) /\ Apart(m)
    /\ \A t \in Nat : Covers(ToSet(m), t) <=> Covers(slots, t)
    /\ \A i \in DOMAIN m : \E s \in slots : s.start = m[i].start

(* The times covered by the slots of a sequence.                           *)
LEMMA CoversSeq ==
  ASSUME NEW m, NEW t
  PROVE  Covers(ToSet(m), t) <=> \E i \in DOMAIN m : m[i].start <= t /\ t < m[i].end
BY DEF Covers, ToSet

(* A slot starts before it ends.                                           *)
LEMMA SlotFields ==
  ASSUME NEW s \in Slot
  PROVE  /\ s.start \in Nat /\ s.end \in Nat /\ s.start < s.end
         /\ s = [start |-> s.start, end |-> s.end]
BY DEF Slot

(* Such times make a slot.                                                 *)
LEMMA SlotOf ==
  ASSUME NEW a \in Nat, NEW b \in Nat, a < b
  PROVE  [start |-> a, end |-> b] \in Slot
BY DEF Slot

(* MergeSlot makes the last slot longer, or adds the slot at the end.      *)
LastLonger(m, n, x, new) ==
    /\ n > 0 /\ x.start <= m[n].end
    /\ DOMAIN new = 1..n
    /\ \A i \in 1..n-1 : new[i] = m[i]
    /\ new[n].start = m[n].start
    /\ new[n].end = MaxOf(m[n].end, x.end)

OneMore(m, n, x, new) ==
    /\ n > 0 => m[n].end < x.start
    /\ DOMAIN new = 1..n + 1
    /\ \A i \in 1..n : new[i] = m[i]
    /\ new[n + 1] = x

(* MergeSlot does one of the two.                                          *)
LEMMA MergeSlotShape ==
  ASSUME NEW m \in Seq(Slot), NEW x \in Slot
  PROVE  /\ MergeSlot(m, x) \in Seq(Slot)
         /\ LastLonger(m, Len(m), x, MergeSlot(m, x)) \/ OneMore(m, Len(m), x, MergeSlot(m, x))
<1> DEFINE n == Len(m)
           new == MergeSlot(m, x)
<1>1. n \in Nat /\ DOMAIN m = 1..n /\ \A i \in 1..n : m[i] \in Slot
  OBVIOUS
<1>2. CASE m # <<>> /\ x.start <= Last(m).end
  <2>1. n > 0 /\ n \in 1..n /\ Last(m) = m[n]
    BY <1>2 DEF Last
  <2>2. new = [m EXCEPT ![n].end = MaxOf(m[n].end, x.end)]
    BY <1>2, <2>1 DEF MergeSlot
  <2>3. m[n] \in Slot /\ MaxOf(m[n].end, x.end) \in Nat /\ m[n].end <= MaxOf(m[n].end, x.end)
    BY <1>1, <2>1, SlotFields DEF MaxOf
  <2>4. new = [m EXCEPT ![n] = [start |-> m[n].start, end |-> MaxOf(m[n].end, x.end)]]
    <3>1. [m[n] EXCEPT !.end = MaxOf(m[n].end, x.end)]
             = [start |-> m[n].start, end |-> MaxOf(m[n].end, x.end)]
      BY <2>3 DEF Slot
    <3> QED
      BY <2>2, <3>1
  <2>5. [start |-> m[n].start, end |-> MaxOf(m[n].end, x.end)] \in Slot
    BY <2>3, SlotFields, SlotOf
  <2>6. new \in Seq(Slot)
    BY <2>1, <2>4, <2>5
  <2> QED
    BY <1>1, <1>2, <2>1, <2>4, <2>6 DEF LastLonger
<1>3. CASE ~(m # <<>> /\ x.start <= Last(m).end)
  <2>1. new = Append(m, x)
    BY <1>3 DEF MergeSlot
  <2>2. n > 0 => m[n] \in Slot /\ m[n].end < x.start
    BY <1>1, <1>3, SlotFields DEF Last
  <2> QED
    BY <1>1, <2>1, <2>2 DEF OneMore
<1> QED
  BY <1>2, <1>3

(* Merging the slot that starts last into the others, merged, covers what  *)
(* it covers too, and the merged slots stay apart.                         *)
LEMMA MergeSlotKeeps ==
  ASSUME NEW S \in SUBSET Slot, NEW x \in S, \A y \in S : y.start <= x.start,
         NEW m, MergedFrom(S \ {x}, m), NEW new, new = MergeSlot(m, x)
  PROVE  MergedFrom(S, new)
<1> DEFINE n == Len(m)
<1>0. n \in Nat
  BY DEF MergedFrom
<1>1. m \in Seq(Slot) /\ n \in Nat /\ DOMAIN m = 1..n /\ x \in Slot
      /\ n = Len(m) /\ \A i \in 1..n : m[i] \in Slot
  BY DEF MergedFrom
<1> HIDE DEF n
<1>2. \A i \in 1..n : m[i].start <= x.start
  BY <1>1 DEF MergedFrom
<1>3. \A i \in 1..n : i < n => m[i].end < m[n].start
  BY <1>1 DEF MergedFrom, Apart
<1>4. \A i \in 1..n : /\ m[i].start \in Nat /\ m[i].end \in Nat /\ m[i].start < m[i].end
  BY <1>1, SlotFields
<1>5. x.start \in Nat /\ x.end \in Nat /\ x.start < x.end
  BY <1>1, SlotFields
<1>6. \A t \in Nat : Covers(S, t) <=> (\E i \in 1..n : m[i].start <= t /\ t < m[i].end)
                                      \/ (x.start <= t /\ t < x.end)
  <2> SUFFICES ASSUME NEW t \in Nat
               PROVE  Covers(S, t) <=> (\E i \in 1..n : m[i].start <= t /\ t < m[i].end)
                                      \/ (x.start <= t /\ t < x.end)
    OBVIOUS
  <2>1. Covers(S, t) <=> Covers(S \ {x}, t) \/ (x.start <= t /\ t < x.end)
    BY DEF Covers
  <2>2. Covers(S \ {x}, t) <=> \E i \in 1..n : m[i].start <= t /\ t < m[i].end
    BY <1>1, CoversSeq DEF MergedFrom
  <2> QED
    BY <2>1, <2>2
<1>7. new \in Seq(Slot) /\ (LastLonger(m, n, x, new) \/ OneMore(m, n, x, new))
  BY <1>1, MergeSlotShape
<1>8. CASE LastLonger(m, n, x, new)
  <2> USE <1>8 DEF LastLonger
  <2>1. Apart(new)
    BY <1>1, <1>3, <1>8 DEF Apart, MergedFrom
  <2>2. \A i \in 1..n : new[i].start = m[i].start
    BY <1>1, <1>8
  <2>3. \A i \in DOMAIN new : \E s \in S : s.start = new[i].start
    BY <1>1, <1>8, <2>2 DEF MergedFrom
  <2>4. ASSUME NEW t \in Nat PROVE Covers(ToSet(new), t) <=> Covers(S, t)
    <3>1. Covers(ToSet(new), t) <=> \E i \in 1..n : new[i].start <= t /\ t < new[i].end
      BY <1>8, CoversSeq
    <3>2. (new[n].start <= t /\ t < new[n].end) <=>
             (m[n].start <= t /\ t < m[n].end) \/ (x.start <= t /\ t < x.end)
      BY <1>1, <1>2, <1>4, <1>5, <1>8 DEF MaxOf
    <3>3. (\E i \in 1..n : new[i].start <= t /\ t < new[i].end) <=>
             \/ \E i \in 1..n-1 : m[i].start <= t /\ t < m[i].end
             \/ (new[n].start <= t /\ t < new[n].end)
      BY <1>1, <1>8
    <3>4. (\E i \in 1..n : m[i].start <= t /\ t < m[i].end) <=>
             \/ \E i \in 1..n-1 : m[i].start <= t /\ t < m[i].end
             \/ (m[n].start <= t /\ t < m[n].end)
      BY <1>1, <1>8
    <3> QED
      BY <1>6, <3>1, <3>2, <3>3, <3>4
  <2> QED
    BY <1>7, <2>1, <2>3, <2>4 DEF MergedFrom
<1>9. CASE OneMore(m, n, x, new)
  <2> USE <1>9 DEF OneMore
  <2>1. \A i \in 1..n : m[i].end < x.start
    <3> SUFFICES ASSUME NEW i \in 1..n PROVE m[i].end < x.start
      OBVIOUS
    <3>1. n \in 1..n
      BY <1>1
    <3>2. i = n \/ m[i].end < m[n].start
      BY <1>0, <1>3
    <3> QED
      BY <1>0, <1>4, <1>5, <1>9, <3>1, <3>2
  <2>2. Apart(new)
    <3> SUFFICES ASSUME NEW i \in 1..n + 1, NEW j \in 1..n + 1, i < j
                 PROVE  new[i].end < new[j].start
      BY <1>9 DEF Apart
    <3>1. i \in 1..n
      BY <1>1
    <3>2. CASE j \in 1..n
      BY <1>1, <1>9, <3>1, <3>2 DEF Apart, MergedFrom
    <3>3. CASE j = n + 1
      BY <1>9, <2>1, <3>1, <3>3
    <3> QED
      BY <1>1, <3>2, <3>3
  <2>3. \A i \in DOMAIN new : \E s \in S : s.start = new[i].start
    <3> SUFFICES ASSUME NEW i \in 1..n + 1 PROVE \E s \in S : s.start = new[i].start
      BY <1>9
    <3>1. CASE i \in 1..n
      BY <1>1, <1>9, <3>1 DEF MergedFrom
    <3>2. CASE i = n + 1
      BY <1>9, <3>2
    <3> QED
      BY <1>1, <3>1, <3>2
  <2>4. ASSUME NEW t \in Nat PROVE Covers(ToSet(new), t) <=> Covers(S, t)
    <3>1. Covers(ToSet(new), t) <=> \E i \in 1..n + 1 : new[i].start <= t /\ t < new[i].end
      BY <1>9, CoversSeq
    <3>2. n + 1 \in 1..n + 1 /\ (\A i \in 1..n : i \in 1..n + 1)
          /\ (\A i \in 1..n + 1 : i \in 1..n \/ i = n + 1)
      BY <1>1
    <3>3. (\E i \in 1..n + 1 : new[i].start <= t /\ t < new[i].end) <=>
             (\E i \in 1..n : m[i].start <= t /\ t < m[i].end) \/ (x.start <= t /\ t < x.end)
      BY <1>9, <3>2
    <3> QED
      BY <1>6, <3>1, <3>3
  <2> QED
    BY <1>7, <2>2, <2>3, <2>4 DEF MergedFrom
<1> QED
  BY <1>7, <1>8, <1>9

(* A finite set of slots has one that starts last.                         *)
LEMMA LatestIsLast ==
  ASSUME NEW S \in SUBSET Slot, IsFiniteSet(S), S # {}
  PROVE  Latest(S) \in S /\ \A y \in S : y.start <= Latest(S).start
<1> DEFINE HasLast(s) == \E x \in s : \A y \in s : y.start <= x.start
           T == {s \in SUBSET S : s = {} \/ HasLast(s)}
<1>1. \A s \in SUBSET S : s # {} => \E x \in s : (s \ {x} \in T => s \in T)
  <2> SUFFICES ASSUME NEW s \in SUBSET S, NEW x \in s, s \ {x} \in T
               PROVE  s \in T
    OBVIOUS
  <2>1. \A y \in s : y.start \in Nat
    BY SlotFields
  <2>2. CASE s \ {x} = {}
    <3>1. \A y \in s : y = x
      BY <2>2
    <3> QED
      BY <2>1, <3>1
  <2>3. CASE HasLast(s \ {x})
    <3>1. PICK z \in s \ {x} : \A y \in s \ {x} : y.start <= z.start
      BY <2>3
    <3>2. CASE x.start <= z.start
      BY <3>1, <3>2
    <3>3. CASE z.start <= x.start
      <4>1. \A y \in s : y.start <= x.start
        BY <2>1, <3>1, <3>3
      <4> QED
        BY <4>1
    <3> QED
      BY <2>1, <3>2, <3>3
  <2> QED
    BY <2>2, <2>3
<1>2. S \in T
  <2> HIDE DEF T
  <2>1. {} \in T
    BY DEF T
  <2> QED
    BY <1>1, <2>1, FiniteInduction
<1> QED
  BY <1>2 DEF Latest

(* MergeSlots is a loop over the slots in the order of their start.        *)
LEMMA MergeSlotsUnfolds ==
  ASSUME NEW S \in SUBSET Slot, IsFiniteSet(S)
  PROVE  \E f : /\ \A s \in SUBSET S : f[s] = IF s = {} THEN <<>>
                                              ELSE MergeSlot(f[s \ {Latest(s)}], Latest(s))
                /\ MergeSlots(S) = f[S]
<1> DEFINE Value(f, s) == IF s = {} THEN <<>> ELSE MergeSlot(f[s \ {Latest(s)}], Latest(s))
           Is(f) == f = [s \in SUBSET S |-> Value(f, s)]
<1>1. ASSUME NEW s \in SUBSET S, s # {} PROVE Latest(s) \in s
  BY <1>1, LatestIsLast, FS_Subset
<1>2. \E g : Is(g)
  <2> DEFINE pick == [s \in SUBSET S |-> Latest(s)]
             op == [x \in S |-> [m \in Seq(Slot) |-> MergeSlot(m, x)]]
  <2>1. \A s \in SUBSET S : s # {} => pick[s] \in s
    BY <1>1
  <2>2. \A x \in S, m \in Seq(Slot) : op[x][m] \in Seq(Slot)
    BY MergeSlotShape
  <2>3. PICK g \in [SUBSET S -> Seq(Slot)] : FoldsTo(g, S, <<>>, pick, op)
    <3> HIDE DEF pick, op
    <3>1. <<>> \in Seq(Slot) /\ Picks(pick, S) /\ Operates(op, S, Seq(Slot))
      BY <2>1, <2>2 DEF Picks, Operates
    <3> QED
      BY <3>1, FoldExists
  <2>4. ASSUME NEW s \in SUBSET S PROVE g[s] = Value(g, s)
    <3>1. CASE s # {}
      <4>1. pick[s] = Latest(s) /\ Latest(s) \in S /\ g[s \ {pick[s]}] \in Seq(Slot)
        BY <1>1, <3>1
      <4> QED
        BY <2>3, <3>1, <4>1 DEF FoldsTo
    <3> QED
      BY <2>3, <3>1 DEF FoldsTo
  <2>5. g = [s \in SUBSET S |-> g[s]]
    OBVIOUS
  <2> HIDE DEF Value
  <2> QED
    BY <2>4, <2>5
<1>3. Is(CHOOSE f : Is(f))
  <2> HIDE DEF Is
  <2> QED
    BY <1>2
<1>4. MergeSlots(S) = (CHOOSE f : Is(f))[S]
  BY DEF MergeSlots, MapThenFoldSet
<1> DEFINE f == CHOOSE f : Is(f)
<1> HIDE DEF f
<1>5. \A s \in SUBSET S : f[s] = Value(f, s)
  BY <1>3 DEF f
<1> QED
  BY <1>4, <1>5 DEF f

(* The merged slots cover the times the slots cover, no more and no less,  *)
(* and they are in order and apart, whatever slots overlap, touch or are   *)
(* nested (_merge_slots).                                                  *)
THEOREM SlotsMerged ==
  ASSUME NEW S \in SUBSET Slot, IsFiniteSet(S)
  PROVE  MergedFrom(S, MergeSlots(S))
<1>1. PICK f : /\ \A s \in SUBSET S : f[s] = IF s = {} THEN <<>>
                                              ELSE MergeSlot(f[s \ {Latest(s)}], Latest(s))
               /\ MergeSlots(S) = f[S]
  BY MergeSlotsUnfolds
<1> DEFINE T == {s \in SUBSET S : MergedFrom(s, f[s])}
<1>2. {} \in T
  <2>1. f[{}] = <<>>
    BY <1>1
  <2>2. MergedFrom({}, <<>>)
    BY DEF MergedFrom, Apart, Covers, ToSet
  <2> QED
    BY <2>1, <2>2
<1>3. ASSUME NEW s \in SUBSET S, s # {}
      PROVE  \E x \in s : (s \ {x} \in T => s \in T)
  <2>1. Latest(s) \in s /\ \A y \in s : y.start <= Latest(s).start
    BY <1>3, LatestIsLast, FS_Subset
  <2>2. s \ {Latest(s)} \in T => s \in T
    BY <1>1, <1>3, <2>1, MergeSlotKeeps
  <2> QED
    BY <2>1, <2>2
<1>4. S \in T
  <2> HIDE DEF T
  <2> QED
    BY <1>2, <1>3, FiniteInduction
<1> QED
  BY <1>1, <1>4

-----------------------------------------------------------------------------
(* find_free_slots: the loop over the merged slots.                        *)

(* The state of the loop of find_free_slots.                               *)
Found == [free: Seq(Slot), cursor: Nat]

Nothing(from) == [free |-> <<>>, cursor |-> from]

(* Max is the last of some positions.                                      *)
LEMMA MaxIsLargest ==
  ASSUME NEW n \in Nat, NEW s \in SUBSET (1..n), s # {}
  PROVE  Max(s) \in s /\ \A k \in s : k <= Max(s)
<1>1. \E k \in s : \A l \in s : l <= k
  <2>1. s \in SUBSET Nat /\ \A k \in s : k <= n
    OBVIOUS
  <2> QED
    BY <2>1, LargestExists
<1>2. \A k, l \in s : l <= k <=> k >= l
  OBVIOUS
<1> QED
  BY <1>1, <1>2 DEF Max

(* One round of the loop finds slots only.                                 *)
LEMMA GapBeforeType ==
  ASSUME NEW found \in Found, NEW slot \in Slot, NEW duration \in Nat \ {0}
  PROVE  GapBefore(found, slot, duration) \in Found
<1>1. /\ found.cursor \in Nat /\ found.free \in Seq(Slot)
      /\ slot.start \in Nat /\ slot.end \in Nat
  BY SlotFields DEF Found
<1>2. MaxOf(found.cursor, slot.end) \in Nat
  BY <1>1 DEF MaxOf
<1>3. slot.start - found.cursor >= duration => [start |-> found.cursor, end |-> slot.start] \in Slot
  BY <1>1 DEF Slot
<1> QED
  BY <1>1, <1>2, <1>3 DEF GapBefore, Found

(* The loop of find_free_slots, one merged slot after the other.           *)
LoopOver(m, from, duration, found) ==
    /\ found[0] = Nothing(from)
    /\ \A k \in 1..Len(m) : found[k] = GapBefore(found[k - 1], m[k], duration)
    /\ \A k \in 0..Len(m) : found[k] \in Found

(* The gap after the loop.                                                 *)
LastGap(found, to, duration) ==
    IF to - found.cursor >= duration
    THEN Append(found.free, [start |-> found.cursor, end |-> to])
    ELSE found.free

(* find_free_slots runs this loop over the merged slots and then adds the  *)
(* gap after the last one.                                                 *)
LEMMA FindFreeSlotsUnfolds ==
  ASSUME NEW busy, MergeSlots(busy) \in Seq(Slot), NEW from \in Nat, NEW to \in Nat,
         NEW duration \in Nat \ {0}
  PROVE  \E found : /\ LoopOver(MergeSlots(busy), from, duration, found)
                    /\ FindFreeSlots(busy, from, to, duration)
                          = LastGap(found[Len(MergeSlots(busy))], to, duration)
<1> DEFINE m == MergeSlots(busy)
           n == Len(m)
           S == DOMAIN m
           Value(f, s) == IF s = {} THEN Nothing(from)
                          ELSE GapBefore(f[s \ {Max(s)}], m[Max(s)], duration)
           Is(f) == f = [s \in SUBSET S |-> Value(f, s)]
<1>0. n \in Nat /\ S = 1..n /\ \A k \in S : m[k] \in Slot
  OBVIOUS
<1>1. ASSUME NEW s \in SUBSET S, s # {} PROVE Max(s) \in s /\ \A k \in s : k <= Max(s)
  BY <1>0, <1>1, MaxIsLargest
<1>2. \E g : Is(g)
  <2> DEFINE pick == [s \in SUBSET S |-> Max(s)]
             op == [k \in S |-> [f \in Found |-> GapBefore(f, m[k], duration)]]
  <2>1. \A s \in SUBSET S : s # {} => pick[s] \in s
    BY <1>1
  <2>2. \A k \in S, f \in Found : op[k][f] \in Found
    BY <1>0, GapBeforeType
  <2>3. PICK g \in [SUBSET S -> Found] : FoldsTo(g, S, Nothing(from), pick, op)
    <3>1. Nothing(from) \in Found
      BY DEF Nothing, Found
    <3>2. IsFiniteSet(S)
      BY <1>0, FS_Interval
    <3> HIDE DEF pick, op, S
    <3>3. Picks(pick, S) /\ Operates(op, S, Found)
      BY <2>1, <2>2 DEF Picks, Operates
    <3> QED
      BY <3>1, <3>2, <3>3, FoldExists
  <2>4. ASSUME NEW s \in SUBSET S PROVE g[s] = Value(g, s)
    <3>1. CASE s # {}
      <4>1. pick[s] = Max(s) /\ Max(s) \in S /\ g[s \ {pick[s]}] \in Found
        BY <1>1, <3>1
      <4> QED
        BY <2>3, <3>1, <4>1 DEF FoldsTo
    <3> QED
      BY <2>3, <3>1 DEF FoldsTo
  <2>5. g = [s \in SUBSET S |-> g[s]]
    OBVIOUS
  <2> HIDE DEF Value
  <2> QED
    BY <2>4, <2>5
<1> DEFINE h == CHOOSE f : Is(f)
<1>3. Is(h)
  <2> HIDE DEF Is
  <2> QED
    BY <1>2
<1>4. FindFreeSlots(busy, from, to, duration) = LastGap(h[S], to, duration)
  BY DEF FindFreeSlots, FoldLeft, MapThenFoldSet, LastGap, Nothing
<1> DEFINE found == [k \in 0..n |-> h[1..k]]
<1> HIDE DEF h, m, n
<1>5. \A s \in SUBSET S : h[s] = Value(h, s)
  BY <1>3
<1>6. found[0] = Nothing(from)
  <2>1. {} \in SUBSET S /\ 1..0 = {} /\ 0 \in 0..n
    BY <1>0
  <2>2. h[{}] = Nothing(from)
    BY <1>5, <2>1
  <2> QED
    BY <2>1, <2>2
<1>7. ASSUME NEW k \in 1..n
      PROVE  found[k] = GapBefore(found[k - 1], m[k], duration)
  <2>1. k - 1 \in 0..n /\ k \in 0..n /\ (1..k) \in SUBSET S /\ k \in 1..k
    BY <1>0
  <2>2. Max(1..k) = k
    <3>1. Max(1..k) \in 1..k /\ k <= Max(1..k)
      BY <1>1, <2>1
    <3> QED
      BY <1>0, <3>1
  <2>3. (1..k) \ {k} = 1..k-1
    BY <1>0
  <2>4. h[1..k] = GapBefore(h[1..k-1], m[k], duration)
    BY <1>5, <2>1, <2>2, <2>3
  <2> QED
    BY <2>1, <2>4
<1> HIDE DEF found
<1>8. \A k \in 0..n : found[k] \in Found
  <2> DEFINE T == {k \in Nat : k <= n => found[k] \in Found}
  <2>1. 0 \in T
    <3>1. Nothing(from) \in Found
      BY DEF Nothing, Found
    <3> QED
      BY <1>6, <3>1
  <2>2. ASSUME NEW k \in T PROVE k + 1 \in T
    <3> SUFFICES ASSUME k + 1 <= n PROVE found[k + 1] \in Found
      OBVIOUS
    <3>1. k + 1 \in 1..n /\ (k + 1) - 1 = k /\ k <= n
      BY <1>0
    <3>2. m[k + 1] \in Slot
      BY <1>0, <3>1
    <3>3. found[k + 1] = GapBefore(found[k], m[k + 1], duration)
      BY <1>7, <3>1
    <3> QED
      BY <3>1, <3>2, <3>3, GapBeforeType
  <2>3. T = Nat
    <3> HIDE DEF T
    <3>1. T \in SUBSET Nat
      BY DEF T
    <3> QED
      BY <2>1, <2>2, <3>1, NaturalInduction
  <2> QED
    BY <1>0, <2>3
<1>9. h[S] = found[n]
  BY <1>0 DEF found
<1> QED
  BY <1>4, <1>6, <1>7, <1>8, <1>9 DEF LoopOver, m, n

-----------------------------------------------------------------------------
(* The gaps of a window are the stretches between its merged slots, and    *)
(* the loop finds those.                                                   *)

(* The merged slots m of a window are apart and cover its taken times.     *)
InWindow(m, taken, from, to) ==
    /\ m \in Seq(Slot) /\ Apart(m)
    /\ \A i \in DOMAIN m : from <= m[i].start /\ m[i].end <= to
    /\ \A t \in from..to-1 : t \in taken <=> Covers(ToSet(m), t)

(* The stretch after the k-th slot of m.                                   *)
StretchStart(m, from, k) == IF k = 0 THEN from ELSE m[k].end
StretchEnd(m, to, k) == IF k = Len(m) THEN to ELSE m[k + 1].start
Stretch(m, from, to, k) == [start |-> StretchStart(m, from, k), end |-> StretchEnd(m, to, k)]

Long(g, duration) == g.end - g.start >= duration

(* The stretches after the first k slots that are long enough.             *)
LongStretches(m, from, to, duration, k) ==
    {g \in [start: Nat, end: Nat] :
        Long(g, duration) /\ \E j \in 0..Len(m) : j < k /\ g = Stretch(m, from, to, j)}

InOrder(free) == \A i \in 1..Len(free) - 1 : free[i].end < free[i + 1].start

SlotsOf(m, taken, from, to) ==
    /\ Len(m) \in Nat /\ DOMAIN m = 1..Len(m) /\ m \in Seq(Slot)
    /\ \A i \in 1..Len(m) : /\ m[i] \in Slot
                            /\ m[i].start \in Nat /\ m[i].end \in Nat
                            /\ m[i].start < m[i].end
                            /\ from <= m[i].start /\ m[i].end <= to
    /\ \A i, j \in 1..Len(m) : i < j => m[i].end < m[j].start
    /\ \A t \in from..to-1 : t \in taken <=>
          \E i \in 1..Len(m) : m[i].start <= t /\ t < m[i].end

(* The same, said of the positions of m.                                   *)
LEMMA InWindowFacts ==
  ASSUME NEW m, NEW taken, NEW from \in Nat, NEW to \in Nat, InWindow(m, taken, from, to)
  PROVE  SlotsOf(m, taken, from, to)
<1>1. m \in Seq(Slot) /\ Len(m) \in Nat /\ DOMAIN m = 1..Len(m)
  BY DEF InWindow
<1>2. \A i \in 1..Len(m) : m[i] \in Slot
  BY <1>1
<1>3. \A t \in from..to-1 : t \in taken <=> \E i \in 1..Len(m) : m[i].start <= t /\ t < m[i].end
  BY <1>1, CoversSeq DEF InWindow
<1> QED
  BY <1>1, <1>2, <1>3, SlotFields DEF InWindow, Apart, SlotsOf

(* What is between two merged slots is a gap of the window.                *)
LEMMA StretchIsGap ==
  ASSUME NEW m, NEW taken, NEW from \in Nat, NEW to \in Nat, InWindow(m, taken, from, to),
         from < to, NEW k \in 0..Len(m),
         StretchStart(m, from, k) < StretchEnd(m, to, k)
  PROVE  Stretch(m, from, to, k) \in Gaps(taken, from, to)
<1> DEFINE n == Len(m)
           a == StretchStart(m, from, k)
           b == StretchEnd(m, to, k)
<1>0. k \in 0..n
  OBVIOUS
<1>1. /\ n \in Nat /\ n = Len(m)
      /\ \A i \in 1..n : /\ m[i].start \in Nat /\ m[i].end \in Nat
                         /\ m[i].start < m[i].end
                         /\ from <= m[i].start /\ m[i].end <= to
      /\ \A i, j \in 1..n : i < j => m[i].end < m[j].start
      /\ \A t \in from..to-1 : t \in taken <=> \E i \in 1..n : m[i].start <= t /\ t < m[i].end
  <2>1. SlotsOf(m, taken, from, to)
    BY InWindowFacts
  <2> QED
    BY <2>1, Zenon DEF SlotsOf
<1> HIDE DEF n
<1>2. /\ IF k = 0 THEN a = from ELSE k \in 1..n /\ a = m[k].end
      /\ IF k = n THEN b = to ELSE k + 1 \in 1..n /\ b = m[k + 1].start
  BY <1>0, <1>1 DEF StretchStart, StretchEnd
<1>3. a \in from..to /\ b \in from..to /\ a < b
  <2>1. a < b
    OBVIOUS
  <2> HIDE DEF a, b
  <2> QED
    <3>1. a \in Nat /\ b \in Nat /\ from <= a /\ b <= to
      BY <1>1, <1>2
    <3> QED
      BY <2>1, <3>1
<1> HIDE DEF a, b
<1>4. ASSUME NEW t \in a..b-1 PROVE t \notin taken
  <2> SUFFICES ASSUME NEW i \in 1..n, m[i].start <= t, t < m[i].end PROVE FALSE
    BY <1>1, <1>3
  <2>1. CASE i <= k
    <3>1. k \in 1..n /\ a = m[k].end /\ (i = k \/ m[i].end < m[k].start)
      BY <1>0, <1>1, <1>2, <2>1
    <3> QED
      BY <1>1, <3>1
  <2>2. CASE k < i
    <3>1. k + 1 \in 1..n /\ b = m[k + 1].start /\ (i = k + 1 \/ m[k + 1].end < m[i].start)
      BY <1>0, <1>1, <1>2, <2>2
    <3> QED
      BY <1>1, <1>3, <3>1
  <2> QED
    BY <1>0, <1>1, <2>1, <2>2
<1>5. a = from \/ a - 1 \in taken
  <2> SUFFICES ASSUME a # from PROVE a - 1 \in taken
    OBVIOUS
  <2>1. k \in 1..n /\ a = m[k].end
    BY <1>2
  <2>2. m[k].start <= a - 1 /\ a - 1 < m[k].end /\ a - 1 \in from..to-1
    BY <1>1, <1>3, <2>1
  <2> QED
    BY <1>1, <2>1, <2>2
<1>6. b = to \/ b \in taken
  <2> SUFFICES ASSUME b # to PROVE b \in taken
    OBVIOUS
  <2>1. k + 1 \in 1..n /\ b = m[k + 1].start
    BY <1>2
  <2>2. b < m[k + 1].end /\ b \in from..to-1
    BY <1>1, <1>3, <2>1
  <2> QED
    BY <1>1, <1>3, <2>1, <2>2
<1>7. Stretch(m, from, to, k) = [start |-> a, end |-> b]
  BY DEF Stretch, a, b
<1> QED
  BY <1>3, <1>4, <1>5, <1>6, <1>7 DEF Gaps

(* Every gap of the window is between two merged slots: it starts after    *)
(* the last slot that ends before it, at the very end of that slot.        *)
LEMMA GapIsStretch ==
  ASSUME NEW m, NEW taken, NEW from \in Nat, NEW to \in Nat, InWindow(m, taken, from, to),
         from < to, NEW g \in Gaps(taken, from, to)
  PROVE  \E k \in 0..Len(m) : g = Stretch(m, from, to, k)
<1> DEFINE n == Len(m)
           a == g.start
           b == g.end
           Past == {i \in 0..n : i = 0 \/ m[i].end <= a}
<1>1. /\ n \in Nat /\ n = Len(m)
      /\ \A i \in 1..n : /\ m[i].start \in Nat /\ m[i].end \in Nat
                         /\ m[i].start < m[i].end
                         /\ from <= m[i].start /\ m[i].end <= to
      /\ \A i, j \in 1..n : i < j => m[i].end < m[j].start
      /\ \A t \in from..to-1 : t \in taken <=> \E i \in 1..n : m[i].start <= t /\ t < m[i].end
  <2>1. SlotsOf(m, taken, from, to)
    BY InWindowFacts
  <2> QED
    BY <2>1, Zenon DEF SlotsOf
<1> HIDE DEF n
<1>2. /\ a \in from..to /\ b \in from..to /\ a < b /\ g = [start |-> a, end |-> b]
      /\ \A t \in a..b-1 : t \notin taken
      /\ a = from \/ a - 1 \in taken
      /\ b = to \/ b \in taken
  BY DEF Gaps
<1> HIDE DEF a, b
<1>3. PICK k \in Past : \A i \in Past : i <= k
  <2>1. Past \in SUBSET Nat /\ 0 \in Past /\ \A i \in Past : i <= n
    BY <1>1
  <2> HIDE DEF Past
  <2> QED
    BY <1>1, <2>1, LargestExists
<1>4. k \in 0..n /\ (k = 0 \/ m[k].end <= a)
  OBVIOUS
<1>5. ASSUME NEW i \in 1..n, k < i PROVE b <= m[i].start
  <2>1. a < m[i].end
    BY <1>1, <1>2, <1>3, <1>5
  <2> SUFFICES ASSUME m[i].start < b PROVE FALSE
    BY <1>1, <1>2
  <2>2. CASE m[i].start <= a
    BY <1>1, <1>2, <2>1, <2>2
  <2>3. CASE a < m[i].start
    BY <1>1, <1>2, <2>1, <2>3
  <2> QED
    BY <1>1, <1>2, <2>2, <2>3
<1>6. a = StretchStart(m, from, k)
  <2>1. CASE a = from
    <3>1. k = 0
      BY <1>1, <1>4, <2>1
    <3> QED
      BY <2>1, <3>1 DEF StretchStart
  <2>2. CASE a # from
    <3>1. PICK i \in 1..n : m[i].start <= a - 1 /\ a - 1 < m[i].end
      <4>1. a - 1 \in from..to-1 /\ a - 1 \in taken
        BY <1>2, <2>2
      <4> QED
        BY <1>1, <4>1
    <3>2. i <= k
      BY <1>1, <1>2, <1>4, <1>5, <3>1
    <3>3. k \in 1..n /\ m[k].end <= a
      BY <1>1, <1>4, <3>2
    <3>4. i = k
      <4>1. i = k \/ m[i].end < m[k].start
        BY <1>1, <3>2, <3>3
      <4>2. m[k].start < m[k].end /\ m[k].start \in Nat /\ m[k].end \in Nat /\ m[i].end \in Nat
        BY <1>1, <3>3
      <4> QED
        BY <1>2, <3>1, <3>3, <4>1, <4>2
    <3> QED
      BY <1>1, <1>2, <3>1, <3>3, <3>4 DEF StretchStart
  <2> QED
    BY <2>1, <2>2
<1>7. b = StretchEnd(m, to, k)
  <2>1. CASE b = to
    <3>1. k = n
      BY <1>1, <1>4, <1>5, <2>1
    <3> QED
      BY <1>1, <2>1, <3>1 DEF StretchEnd
  <2>2. CASE b # to
    <3>1. PICK i \in 1..n : m[i].start <= b /\ b < m[i].end
      BY <1>1, <1>2, <2>2
    <3>2. k < i
      <4> SUFFICES ASSUME i <= k PROVE FALSE
        BY <1>4
      <4>1. k \in 1..n /\ m[k].end <= a
        BY <1>1, <1>4
      <4>2. i = k \/ m[i].end < m[k].start
        BY <1>1, <4>1
      <4>3. m[k].start < m[k].end /\ m[k].start \in Nat /\ m[k].end \in Nat /\ m[i].end \in Nat
        BY <1>1, <4>1
      <4> QED
        BY <1>2, <3>1, <4>1, <4>2, <4>3
    <3>3. k + 1 \in 1..n /\ b <= m[k + 1].start
      BY <1>1, <1>4, <1>5, <3>2
    <3>4. i = k + 1
      BY <1>1, <1>2, <1>4, <3>1, <3>2, <3>3
    <3>5. m[k + 1].start = b /\ k # n
      BY <1>1, <1>2, <1>4, <3>1, <3>2, <3>3, <3>4
    <3> QED
      BY <1>1, <3>5 DEF StretchEnd
  <2> QED
    BY <2>1, <2>2
<1> QED
  BY <1>1, <1>2, <1>4, <1>6, <1>7 DEF Stretch

(* new is free with the gap from a to b, if that is long enough.           *)
GapAdded(free, a, b, duration, new) ==
    /\ InOrder(new) /\ \A i \in 1..Len(new) : new[i].end <= b
    /\ ToSet(new) = ToSet(free) \cup {g \in {[start |-> a, end |-> b]} : Long(g, duration)}

(* A gap at the end of those found so far stays in order.                  *)
LEMMA GapAppended ==
  ASSUME NEW free \in Seq(Slot), InOrder(free), NEW a \in Nat, NEW b \in Nat, a <= b,
         \A i \in 1..Len(free) : free[i].end < a, NEW duration \in Nat \ {0}, NEW new,
         new = IF b - a >= duration THEN Append(free, [start |-> a, end |-> b]) ELSE free
  PROVE  GapAdded(free, a, b, duration, new)
<1> DEFINE n == Len(free)
           g == [start |-> a, end |-> b]
<1>1. n \in Nat /\ DOMAIN free = 1..n /\ \A i \in 1..n : free[i] \in Slot
  OBVIOUS
<1>2. \A i \in 1..n : free[i].end \in Nat
  BY <1>1, SlotFields
<1>3. CASE b - a >= duration
  <2>1. /\ Len(new) = n + 1 /\ DOMAIN new = 1..n + 1
        /\ \A i \in 1..n : new[i] = free[i]
        /\ new[n + 1] = g
    BY <1>1, <1>3
  <2>2. \A i \in 1..n + 1 : i \in 1..n \/ i = n + 1
    BY <1>1
  <2> HIDE DEF n
  <2>3. \A i \in 1..n + 1 : new[i].end <= b
    BY <1>2, <2>1, <2>2
  <2>4. InOrder(new)
    <3> SUFFICES ASSUME NEW i \in 1..n PROVE new[i].end < new[i + 1].start
      BY <1>1, <2>1 DEF InOrder
    <3>1. CASE i = n
      BY <1>1, <2>1, <3>1 DEF n
    <3>2. CASE i # n
      <4>1. i \in 1..n - 1 /\ i + 1 \in 1..n
        BY <1>1, <3>2
      <4> QED
        BY <2>1, <4>1 DEF InOrder, n
    <3> QED
      BY <3>1, <3>2
  <2>5. ToSet(new) = ToSet(free) \cup {g}
    <3>1. ToSet(new) = {new[i] : i \in 1..n + 1} /\ ToSet(free) = {free[i] : i \in 1..n}
      BY <1>1, <2>1 DEF ToSet
    <3>2. n + 1 \in 1..n + 1 /\ \A i \in 1..n : i \in 1..n + 1
      BY <1>1
    <3> HIDE DEF g
    <3> QED
      BY <2>1, <2>2, <3>1, <3>2
  <2>6. {x \in {g} : Long(x, duration)} = {g}
    BY <1>3 DEF Long
  <2> QED
    BY <2>1, <2>3, <2>4, <2>5, <2>6 DEF GapAdded
<1>4. CASE ~(b - a >= duration)
  <2>1. {x \in {g} : Long(x, duration)} = {}
    BY <1>4 DEF Long
  <2>2. new = free
    BY <1>4
  <2>3. \A i \in 1..n : free[i].end <= b
    BY <1>1, <1>2
  <2> HIDE DEF g
  <2> QED
    BY <2>1, <2>2, <2>3 DEF GapAdded, g
<1> QED
  BY <1>3, <1>4

(* Where the stretch after the k-th slot starts and ends.                  *)
LEMMA StretchFields ==
  ASSUME NEW m, NEW taken, NEW from \in Nat, NEW to \in Nat, InWindow(m, taken, from, to),
         from < to, NEW k \in 0..Len(m)
  PROVE  /\ StretchStart(m, from, k) \in Nat /\ StretchEnd(m, to, k) \in Nat
         /\ StretchStart(m, from, k) <= StretchEnd(m, to, k)
         /\ k < Len(m) => /\ k + 1 \in 1..Len(m) /\ m[k + 1] \in Slot
                          /\ StretchEnd(m, to, k) = m[k + 1].start
                          /\ StretchStart(m, from, k + 1) = m[k + 1].end
                          /\ StretchEnd(m, to, k) < StretchStart(m, from, k + 1)
<1>1. SlotsOf(m, taken, from, to)
  BY InWindowFacts
<1>2. k + 1 # 0 /\ IF k = 0 THEN StretchStart(m, from, k) = from
                   ELSE k \in 1..Len(m) /\ StretchStart(m, from, k) = m[k].end
  BY <1>1 DEF StretchStart, SlotsOf
<1>3. CASE k = Len(m)
  BY <1>1, <1>2, <1>3 DEF SlotsOf, StretchEnd
<1>4. CASE k < Len(m)
  <2>1. /\ k + 1 \in 1..Len(m) /\ StretchEnd(m, to, k) = m[k + 1].start
        /\ StretchStart(m, from, k + 1) = m[k + 1].end
    <3>1. Len(m) \in Nat /\ k \in Nat /\ k # Len(m) /\ k + 1 # 0 /\ (k + 1) - 1 = k
          /\ k + 1 \in 1..Len(m)
      <4>1. Len(m) \in Nat
        BY <1>1, Zenon DEF SlotsOf
      <4> QED
        BY <1>4, <4>1
    <3> QED
      BY <3>1 DEF StretchEnd, StretchStart
  <2>2. /\ m[k + 1] \in Slot /\ m[k + 1].start \in Nat /\ m[k + 1].end \in Nat
        /\ m[k + 1].start < m[k + 1].end /\ from <= m[k + 1].start
    BY <1>1, <2>1 DEF SlotsOf
  <2>3. k # 0 => m[k].end \in Nat /\ m[k].end < m[k + 1].start
    BY <1>1, <1>2, <2>1 DEF SlotsOf
  <2> QED
    BY <1>2, <2>1, <2>2, <2>3
<1> QED
  <2>1. k = Len(m) \/ k < Len(m)
    BY <1>1 DEF SlotsOf
  <2> QED
    BY <1>3, <1>4, <2>1

(* One more slot adds one stretch at most.                                 *)
LEMMA OneMoreStretch ==
  ASSUME NEW m, NEW taken, NEW from \in Nat, NEW to \in Nat, InWindow(m, taken, from, to),
         from < to, NEW k \in 0..Len(m), NEW duration
  PROVE  LongStretches(m, from, to, duration, k + 1)
            = LongStretches(m, from, to, duration, k)
                 \cup {g \in {Stretch(m, from, to, k)} : Long(g, duration)}
<1>1. Stretch(m, from, to, k) \in [start: Nat, end: Nat]
  BY StretchFields DEF Stretch
<1>2. Len(m) \in Nat
  BY DEF InWindow
<1>3. \A j \in 0..Len(m) : j < k + 1 <=> j < k \/ j = k
  BY <1>2
<1> QED
  BY <1>1, <1>3 DEF LongStretches

(* All stretches that are long enough are all the long gaps.               *)
LEMMA StretchesAreGaps ==
  ASSUME NEW m, NEW taken, NEW from \in Nat, NEW to \in Nat, InWindow(m, taken, from, to),
         from < to, NEW duration \in Nat \ {0}
  PROVE  LongStretches(m, from, to, duration, Len(m) + 1)
            = {g \in Gaps(taken, from, to) : Long(g, duration)}
<1>1. Len(m) \in Nat
  BY DEF InWindow
<1>2. ASSUME NEW g \in LongStretches(m, from, to, duration, Len(m) + 1)
      PROVE  g \in Gaps(taken, from, to) /\ Long(g, duration)
  <2>1. PICK k \in 0..Len(m) : g = Stretch(m, from, to, k)
    BY DEF LongStretches
  <2>2. Long(g, duration) /\ g.start \in Nat /\ g.end \in Nat
    BY DEF LongStretches
  <2>3. g.start < g.end
    BY <2>2 DEF Long
  <2>4. StretchStart(m, from, k) < StretchEnd(m, to, k)
    BY <2>1, <2>3 DEF Stretch
  <2> QED
    BY <2>1, <2>2, <2>4, StretchIsGap
<1>3. ASSUME NEW g \in Gaps(taken, from, to), Long(g, duration)
      PROVE  g \in LongStretches(m, from, to, duration, Len(m) + 1)
  <2>1. PICK k \in 0..Len(m) : g = Stretch(m, from, to, k)
    BY GapIsStretch
  <2>2. k < Len(m) + 1
    BY <1>1
  <2>3. g \in [start: Nat, end: Nat]
    BY StretchFields, <2>1 DEF Stretch
  <2> QED
    BY <1>3, <2>1, <2>2, <2>3 DEF LongStretches
<1> QED
  BY <1>2, <1>3

(* The invariant of the loop after k slots: the cursor is at the end of    *)
(* the k-th, and the long stretches before it have been found, in order.   *)
Offering(found, m, from, to, duration, k) ==
    /\ found \in Found
    /\ found.cursor = StretchStart(m, from, k)
    /\ ToSet(found.free) = LongStretches(m, from, to, duration, k)
    /\ InOrder(found.free)
    /\ \A i \in 1..Len(found.free) : found.free[i].end < found.cursor

(* A round of the loop keeps this.                                         *)
LEMMA LoopStep ==
  ASSUME NEW m, NEW taken, NEW from \in Nat, NEW to \in Nat, InWindow(m, taken, from, to),
         from < to, NEW duration \in Nat \ {0}, NEW k \in 0..Len(m), k < Len(m),
         NEW found, Offering(found, m, from, to, duration, k)
  PROVE  Offering(GapBefore(found, m[k + 1], duration), m, from, to, duration, k + 1)
<1> DEFINE a == StretchStart(m, from, k)
           b == StretchEnd(m, to, k)
           new == GapBefore(found, m[k + 1], duration)
<1>1. /\ a \in Nat /\ b \in Nat /\ a <= b
      /\ m[k + 1] \in Slot /\ b = m[k + 1].start /\ StretchStart(m, from, k + 1) = m[k + 1].end
      /\ b < StretchStart(m, from, k + 1)
  BY StretchFields
<1>2. Stretch(m, from, to, k) = [start |-> a, end |-> b]
  BY DEF Stretch
<1>3. /\ new.free = IF b - a >= duration THEN Append(found.free, [start |-> a, end |-> b])
                    ELSE found.free
      /\ new.cursor = MaxOf(a, m[k + 1].end)
  BY <1>1 DEF GapBefore, Offering
<1>4. found.free \in Seq(Slot) /\ InOrder(found.free)
      /\ \A i \in 1..Len(found.free) : found.free[i].end < a
  BY DEF Offering, Found
<1>5. new \in Found
  BY <1>1, GapBeforeType DEF Offering
<1> HIDE DEF a, b, new
<1>6. GapAdded(found.free, a, b, duration, new.free)
  BY <1>1, <1>3, <1>4, GapAppended
<1>7. new.cursor = StretchStart(m, from, k + 1)
  BY <1>1, <1>3, SlotFields DEF MaxOf
<1>8. \A i \in 1..Len(new.free) : new.free[i].end < new.cursor
  <2> SUFFICES ASSUME NEW i \in 1..Len(new.free) PROVE new.free[i].end < new.cursor
    OBVIOUS
  <2>1. new.free[i].end \in Nat /\ new.cursor \in Nat
    BY <1>5, SlotFields DEF Found
  <2> QED
    BY <1>1, <1>6, <1>7, <2>1 DEF GapAdded
<1>9. ToSet(new.free) = LongStretches(m, from, to, duration, k + 1)
  BY <1>2, <1>6, OneMoreStretch DEF Offering, GapAdded
<1> QED
  BY <1>5, <1>6, <1>7, <1>8, <1>9 DEF Offering, GapAdded, new

(* At the end of the loop all stretches but the last have been found.      *)
LEMMA LoopFindsStretches ==
  ASSUME NEW m, NEW taken, NEW from \in Nat, NEW to \in Nat, InWindow(m, taken, from, to),
         from < to, NEW duration \in Nat \ {0},
         NEW found, LoopOver(m, from, duration, found)
  PROVE  Offering(found[Len(m)], m, from, to, duration, Len(m))
<1> DEFINE T == {k \in Nat : k <= Len(m) => Offering(found[k], m, from, to, duration, k)}
<1>1. Len(m) \in Nat
  BY DEF InWindow
<1>2. 0 \in T
  <2>1. found[0] = Nothing(from)
    BY DEF LoopOver
  <2>2. StretchStart(m, from, 0) = from
    BY DEF StretchStart
  <2>3. LongStretches(m, from, to, duration, 0) = {}
    BY <1>1 DEF LongStretches
  <2>4. Nothing(from) \in Found /\ Nothing(from).cursor = from /\ Nothing(from).free = <<>>
    BY DEF Nothing, Found
  <2>5. ToSet(<<>>) = {} /\ Len(<<>>) = 0
    BY DEF ToSet
  <2>6. Offering(found[0], m, from, to, duration, 0)
    <3> DEFINE none == Nothing(from)
    <3>1. 1..Len(none.free) = {} /\ 1..Len(none.free) - 1 = {} /\ ToSet(none.free) = {}
      BY <2>4, <2>5
    <3>2. none \in Found /\ none.cursor = from
      BY <2>4
    <3> HIDE DEF none
    <3>3. Offering(none, m, from, to, duration, 0)
      BY <2>2, <2>3, <3>1, <3>2 DEF Offering, InOrder
    <3> QED
      BY <2>1, <3>3 DEF none
  <2> QED
    BY <2>6
<1>3. ASSUME NEW k \in T PROVE k + 1 \in T
  <2> SUFFICES ASSUME k + 1 <= Len(m)
               PROVE  Offering(found[k + 1], m, from, to, duration, k + 1)
    OBVIOUS
  <2>1. k \in 0..Len(m) /\ k < Len(m) /\ k + 1 \in 1..Len(m) /\ (k + 1) - 1 = k
    BY <1>1
  <2>2. found[k + 1] = GapBefore(found[k], m[k + 1], duration)
    BY <2>1 DEF LoopOver
  <2>3. Offering(found[k], m, from, to, duration, k)
    BY <1>1, <2>1
  <2> QED
    BY <2>1, <2>2, <2>3, LoopStep
<1>4. T = Nat
  <2> HIDE DEF T
  <2>1. T \in SUBSET Nat
    BY DEF T
  <2> QED
    BY <1>2, <1>3, <2>1, NaturalInduction
<1> QED
  BY <1>1, <1>4

(* What the caller of find_free_slots is promised.                         *)
OffersGaps(free, taken, from, to, duration) ==
    /\ free \in Seq(Slot) /\ InOrder(free)
    /\ ToSet(free) = {g \in Gaps(taken, from, to) : Long(g, duration)}

(* find_free_slots offers the gaps that are long enough, in order.         *)
LEMMA FreeSlotsAreGaps ==
  ASSUME NEW busy, NEW taken, NEW from \in Nat, NEW to \in Nat, from < to,
         InWindow(MergeSlots(busy), taken, from, to), NEW duration \in Nat \ {0}
  PROVE  OffersGaps(FindFreeSlots(busy, from, to, duration), taken, from, to, duration)
<1> DEFINE m == MergeSlots(busy)
           n == Len(m)
           free == FindFreeSlots(busy, from, to, duration)
<1>1. m \in Seq(Slot) /\ n \in Nat /\ n \in 0..Len(m)
  BY DEF InWindow
<1>2. PICK found : LoopOver(m, from, duration, found) /\ free = LastGap(found[n], to, duration)
  BY <1>1, FindFreeSlotsUnfolds
<1> HIDE DEF m, free
<1>3. InWindow(m, taken, from, to)
  BY DEF m
<1>4. Offering(found[n], m, from, to, duration, n)
  BY <1>2, <1>3, LoopFindsStretches
<1> DEFINE last == found[n]
           a == StretchStart(m, from, n)
<1>5. a \in Nat /\ a <= to /\ StretchEnd(m, to, n) = to
  BY <1>1, <1>3, StretchFields DEF StretchEnd
<1>6. /\ last.free \in Seq(Slot) /\ InOrder(last.free) /\ last.cursor = a
      /\ ToSet(last.free) = LongStretches(m, from, to, duration, n)
      /\ \A i \in 1..Len(last.free) : last.free[i].end < a
  BY <1>4 DEF Offering, Found
<1>7. free = IF to - a >= duration THEN Append(last.free, [start |-> a, end |-> to])
             ELSE last.free
  BY <1>2, <1>6 DEF LastGap
<1>8. Stretch(m, from, to, n) = [start |-> a, end |-> to]
  BY <1>5 DEF Stretch
<1> HIDE DEF last, a
<1>9. GapAdded(last.free, a, to, duration, free)
  BY <1>5, <1>6, <1>7, GapAppended
<1>10. ToSet(free) = LongStretches(m, from, to, duration, n + 1)
  BY <1>1, <1>3, <1>6, <1>8, <1>9, OneMoreStretch DEF GapAdded
<1>11. LongStretches(m, from, to, duration, n + 1)
          = {g \in Gaps(taken, from, to) : Long(g, duration)}
  BY <1>3, StretchesAreGaps
<1>12. free \in Seq(Slot)
  <2>1. to - a >= duration => [start |-> a, end |-> to] \in Slot
    BY <1>5 DEF Slot
  <2> QED
    BY <1>6, <1>7, <2>1
<1> QED
  BY <1>9, <1>10, <1>11, <1>12 DEF GapAdded, OffersGaps, free

-----------------------------------------------------------------------------
(* freebusy: the slots are the times of events within the window.          *)

(* Finitely many slots end by some time.                                   *)
LEMMA BoundedSlotsFinite ==
  ASSUME NEW bound \in Nat, NEW S \in SUBSET Slot, \A s \in S : s.end <= bound
  PROVE  IsFiniteSet(S)
<1> DEFINE Pairs == (0..bound) \X (0..bound)
           f == [s \in S |-> <<s.start, s.end>>]
<1>1. IsFiniteSet(Pairs)
  <2>1. IsFiniteSet(0..bound)
    BY FS_Interval
  <2> HIDE DEF Pairs
  <2> QED
    BY <2>1, FS_Product DEF Pairs
<1>2. \A s \in S : f[s] \in Pairs
  BY SlotFields
<1>3. \A s, t \in S : f[s] = f[t] => s = t
  BY SlotFields
<1>4. f \in Injection(S, Pairs)
  BY <1>2, <1>3 DEF Injection, IsInjective
<1> QED
  BY <1>1, <1>4, FS_Injection

(* No slot leaves the window.                                              *)
WithinWindow(slots, from, to) == \A s \in slots : from <= s.start /\ s.end <= to

(* Merged slots stay within the window the slots are in.                   *)
LEMMA MergedStaysWithin ==
  ASSUME NEW from \in Nat, NEW to \in Nat, NEW S \in SUBSET Slot, WithinWindow(S, from, to),
         NEW m, MergedFrom(S, m)
  PROVE  /\ m \in Seq(Slot) /\ ToSet(m) \in SUBSET Slot
         /\ \A i \in DOMAIN m : from <= m[i].start /\ m[i].end <= to
         /\ WithinWindow(ToSet(m), from, to)
<1>1. m \in Seq(Slot)
  BY DEF MergedFrom
<1>2. ASSUME NEW i \in DOMAIN m PROVE m[i] \in Slot /\ from <= m[i].start /\ m[i].end <= to
  <2>1. m[i] \in Slot /\ m[i].start \in Nat /\ m[i].end \in Nat /\ m[i].start < m[i].end
    BY <1>1, SlotFields
  <2>2. PICK s \in S : s.start = m[i].start
    BY DEF MergedFrom
  <2>3. Covers(ToSet(m), m[i].end - 1)
    <3>1. m[i].start <= m[i].end - 1 /\ m[i].end - 1 < m[i].end
      BY <2>1
    <3> QED
      BY <3>1, CoversSeq
  <2>4. m[i].end - 1 \in Nat
    BY <2>1
  <2>5. PICK u \in S : m[i].end - 1 < u.end
    BY <2>3, <2>4 DEF MergedFrom, Covers
  <2>6. u.end \in Nat /\ u.end <= to
    BY SlotFields DEF WithinWindow
  <2> QED
    BY <2>1, <2>2, <2>5, <2>6 DEF WithinWindow
<1> QED
  BY <1>1, <1>2 DEF ToSet, WithinWindow

(* The owner of the calendar is at an event in the slot [t, t+1).          *)
AtEvent(c, t) ==
    \E id \in Ids : copy[c][id] # NoEvent /\ copy[c][id].start <= t /\ t < copy[c][id].end

(* freebusy of a calendar covers the times of its events in the window.    *)
LEMMA BusyCovers ==
  ASSUME TypeOK, NEW c \in Calendars, NEW from \in 0..MaxTime, NEW to \in 0..MaxTime, from < to
  PROVE  /\ Busy(c, from, to) \in SUBSET Slot /\ WithinWindow(Busy(c, from, to), from, to)
         /\ \A t \in from..to-1 : Covers(Busy(c, from, to), t) <=> AtEvent(c, t)
<1> DEFINE events == {copy[c][id] : id \in {i \in Ids : copy[c][i] # NoEvent}}
           Here == {x \in events : x.start < to /\ x.end > from}
           Cut(e) == [start |-> MaxOf(e.start, from), end |-> MinOf(e.end, to)]
           S == {Cut(e) : e \in Here}
<1>0. from \in Nat /\ to \in Nat
  BY BoundsAssumption
<1>1. \A e \in events : e.start \in Nat /\ e.end \in Nat /\ e.start < e.end
  BY BoundsAssumption DEF TypeOK, Event
<1>2. ASSUME NEW e \in Here
      PROVE  /\ Cut(e) \in Slot /\ from <= Cut(e).start /\ Cut(e).end <= to
             /\ \A t \in from..to-1 : Cut(e).start <= t /\ t < Cut(e).end
                                         <=> e.start <= t /\ t < e.end
  <2>1. e.start \in Nat /\ e.end \in Nat /\ e.start < e.end /\ e.start < to /\ e.end > from
    BY <1>1
  <2> HIDE DEF Here, events
  <2> QED
    BY <1>0, <2>1 DEF MaxOf, MinOf, Slot
<1>3. Busy(c, from, to) = ToSet(MergeSlots(S))
  BY DEF Busy
<1>4. ASSUME NEW t \in from..to-1 PROVE Covers(S, t) <=> AtEvent(c, t)
  <2>1. Covers(S, t) <=> \E e \in Here : Cut(e).start <= t /\ t < Cut(e).end
    BY DEF Covers
  <2>2. Covers(S, t) <=> \E e \in Here : e.start <= t /\ t < e.end
    <3> HIDE DEF Here, Cut, S
    <3> QED
      BY <1>2, <2>1
  <2>3. \A e \in events : e.start <= t /\ t < e.end => e \in Here
    BY <1>0, <1>1
  <2>4. (\E e \in Here : e.start <= t /\ t < e.end) <=> \E e \in events : e.start <= t /\ t < e.end
    BY <2>3
  <2> QED
    BY <2>2, <2>4 DEF AtEvent
<1>5. S \in SUBSET Slot /\ WithinWindow(S, from, to)
  <2> HIDE DEF Here, Cut
  <2> QED
    BY <1>2 DEF WithinWindow
<1>6. MergedFrom(S, MergeSlots(S))
  <2>1. IsFiniteSet(S)
    <3> HIDE DEF S
    <3> QED
      BY <1>0, <1>5, BoundedSlotsFinite DEF WithinWindow
  <2> HIDE DEF S
  <2> QED
    BY <1>5, <2>1, SlotsMerged
<1> HIDE DEF S
<1>7. \A t \in from..to-1 : Covers(Busy(c, from, to), t) <=> Covers(S, t)
  BY <1>0, <1>3, <1>6 DEF MergedFrom
<1>8. Busy(c, from, to) \in SUBSET Slot /\ WithinWindow(Busy(c, from, to), from, to)
  BY <1>0, <1>3, <1>5, <1>6, MergedStaysWithin
<1> QED
  BY <1>4, <1>7, <1>8

(* The busy slots of several people, merged, cover the taken times.        *)
LEMMA BusyTogether ==
  ASSUME TypeOK, NEW people \in SUBSET Calendars,
         NEW from \in 0..MaxTime, NEW to \in 0..MaxTime, from < to
  PROVE  InWindow(MergeSlots(UNION {Busy(c, from, to) : c \in people}), Taken(people), from, to)
<1> DEFINE U == UNION {Busy(c, from, to) : c \in people}
<1>0. from \in Nat /\ to \in Nat
  BY BoundsAssumption
<1>1. \A c \in people : c \in Calendars
  OBVIOUS
<1>2. U \in SUBSET Slot /\ WithinWindow(U, from, to)
  BY <1>1, BusyCovers DEF WithinWindow
<1>3. ASSUME NEW t \in from..to-1 PROVE Covers(U, t) <=> t \in Taken(people)
  <2>1. Covers(U, t) <=> \E c \in people : Covers(Busy(c, from, to), t)
    BY DEF Covers
  <2>2. Covers(U, t) <=> \E c \in people : AtEvent(c, t)
    BY <1>1, <2>1, BusyCovers
  <2>3. t \in 0..MaxTime
    BY <1>0, BoundsAssumption
  <2> QED
    BY <2>2, <2>3 DEF Taken, AtEvent
<1> HIDE DEF U
<1>4. IsFiniteSet(U)
  BY <1>0, <1>2, BoundedSlotsFinite DEF WithinWindow
<1>5. MergedFrom(U, MergeSlots(U))
  BY <1>2, <1>4, SlotsMerged
<1>6. \A t \in from..to-1 : t \in Nat
  BY <1>0
<1> QED
  BY <1>0, <1>2, <1>3, <1>5, <1>6, MergedStaysWithin DEF MergedFrom, InWindow, U

(* In a list in order every slot ends before every later one starts.       *)
LEMMA OrderedThroughout ==
  ASSUME NEW free \in Seq(Slot), InOrder(free), NEW i \in 1..Len(free), NEW j \in 1..Len(free),
         i < j
  PROVE  free[i].end < free[j].start
<1> DEFINE T == {k \in Nat : i + 1 + k <= Len(free) => free[i].end < free[i + 1 + k].start}
<1>1. /\ i \in Nat /\ j \in Nat /\ Len(free) \in Nat
      /\ \A k \in 1..Len(free) : free[k] \in Slot
  OBVIOUS
<1>2. 0 \in T
  BY <1>1 DEF InOrder
<1>3. ASSUME NEW k \in T PROVE k + 1 \in T
  <2> SUFFICES ASSUME i + 1 + (k + 1) <= Len(free)
               PROVE  free[i].end < free[i + 1 + (k + 1)].start
    OBVIOUS
  <2> DEFINE m == i + 1 + k
  <2>1. m \in 1..Len(free) - 1 /\ m \in 1..Len(free) /\ m + 1 \in 1..Len(free)
        /\ m + 1 = i + 1 + (k + 1)
    BY <1>1
  <2>2. free[i].end < free[m].start
    BY <2>1
  <2> HIDE DEF m
  <2>3. free[m].end < free[m + 1].start
    BY <2>1 DEF InOrder
  <2>4. /\ free[i].end \in Nat /\ free[m].start \in Nat /\ free[m].end \in Nat
        /\ free[m].start < free[m].end /\ free[m + 1].start \in Nat
    BY <1>1, <2>1, SlotFields
  <2> QED
    BY <2>1, <2>2, <2>3, <2>4
<1>4. T = Nat
  <2> HIDE DEF T
  <2>1. T \in SUBSET Nat
    BY DEF T
  <2> QED
    BY <1>2, <1>3, <2>1, NaturalInduction
<1> DEFINE k == j - (i + 1)
<1>5. k \in Nat /\ i + 1 + k = j
  BY <1>1
<1>6. k \in T
  <2> HIDE DEF T, k
  <2> QED
    BY <1>4, <1>5
<1>7. free[i].end < free[i + 1 + k].start
  <2> HIDE DEF k
  <2> QED
    BY <1>1, <1>5, <1>6
<1> QED
  BY <1>5, <1>7

(* The first of the free slots, as many as the tool offers.                *)
LEMMA FirstOfFree ==
  ASSUME NEW free \in Seq(Slot), InOrder(free), NEW first,
         first = SubSeq(free, 1, MinOf(Len(free), MaxOffers))
  PROVE  /\ ToSet(first) \subseteq ToSet(free) /\ InOrder(first)
         /\ \A g \in ToSet(free) \ ToSet(first) :
               Len(first) = MaxOffers /\ first[MaxOffers].end < g.start
<1> DEFINE n == MinOf(Len(free), MaxOffers)
<1>1. n \in Nat /\ n <= Len(free) /\ (n = MaxOffers \/ n = Len(free)) /\ Len(free) \in Nat
  BY OffersAssumption DEF MinOf
<1> HIDE DEF n
<1>2. /\ first \in Seq(Slot) /\ Len(first) = n /\ DOMAIN first = 1..n
      /\ DOMAIN free = 1..Len(free)
      /\ \A i \in 1..n : first[i] = free[i]
  BY <1>1 DEF n
<1>3. ToSet(first) = {free[i] : i \in 1..n} /\ ToSet(free) = {free[i] : i \in 1..Len(free)}
  BY <1>1, <1>2 DEF ToSet
<1>4. \A i \in 1..n : i \in 1..Len(free)
  BY <1>1
<1>5. InOrder(first)
  <2>1. ASSUME NEW i \in 1..n - 1 PROVE first[i].end < first[i + 1].start
    <3>1. i \in 1..n /\ i + 1 \in 1..n /\ i \in 1..Len(free) - 1
      BY <1>1
    <3> QED
      BY <1>2, <3>1 DEF InOrder
  <2> QED
    BY <1>2, <2>1 DEF InOrder
<1>6. ASSUME NEW g \in ToSet(free) \ ToSet(first)
      PROVE  n = MaxOffers /\ first[MaxOffers].end < g.start
  <2>1. PICK j \in 1..Len(free) : g = free[j]
    BY <1>3
  <2>2. j > n
    BY <1>1, <1>3, <2>1
  <2>3. n = MaxOffers /\ n \in 1..n
    BY <1>1, <2>2, OffersAssumption
  <2>4. free[n].end < free[j].start
    BY <1>1, <2>2, <2>3, OrderedThroughout
  <2> QED
    BY <1>2, <2>1, <2>3, <2>4
<1> QED
  BY <1>2, <1>3, <1>4, <1>5, <1>6

(* check_availability offers longest stretches that are long enough and in *)
(* which nobody is busy, in order, whatever copies the participants hold,  *)
(* and leaves one out only after all it may offer (find_free_slots,        *)
(* _merge_slots, freebusy, free[:5]).                                      *)
THEOREM OfferedTimesAreTheFirstGaps == Spec => []OfferedTimesAreFree
<1>1. CalendarInvariant => OfferedTimesAreFree
  <2> SUFFICES ASSUME TypeOK, NEW people \in SUBSET Calendars,
                      NEW from \in 0..MaxTime, NEW to \in 0..MaxTime, from < to,
                      NEW duration \in 1..MaxTime
               PROVE  LET fitting == {g \in Gaps(Taken(people), from, to) :
                                         g.end - g.start >= duration}
                          free == CheckAvailability(people, from, to, duration)
                      IN
                      /\ ToSet(free) \subseteq fitting
                      /\ \A i \in 1..Len(free) - 1 : free[i].end < free[i + 1].start
                      /\ \A g \in fitting \ ToSet(free) :
                            Len(free) = MaxOffers /\ free[MaxOffers].end < g.start
    BY DEF CalendarInvariant, OfferedTimesAreFree
  <2> DEFINE all == FindFreeSlots(UNION {Busy(c, from, to) : c \in people}, from, to, duration)
             offered == CheckAvailability(people, from, to, duration)
  <2>1. from \in Nat /\ to \in Nat /\ duration \in Nat \ {0}
    BY BoundsAssumption
  <2>2. OffersGaps(all, Taken(people), from, to, duration)
    BY <2>1, BusyTogether, FreeSlotsAreGaps
  <2>3. offered = SubSeq(all, 1, MinOf(Len(all), MaxOffers))
    BY DEF CheckAvailability
  <2> HIDE DEF all, offered
  <2>4. all \in Seq(Slot) /\ InOrder(all)
    BY <2>2 DEF OffersGaps
  <2>5. /\ ToSet(offered) \subseteq ToSet(all) /\ InOrder(offered)
        /\ \A g \in ToSet(all) \ ToSet(offered) :
              Len(offered) = MaxOffers /\ offered[MaxOffers].end < g.start
    BY <2>3, <2>4, FirstOfFree
  <2>6. ToSet(all) = {g \in Gaps(Taken(people), from, to) : g.end - g.start >= duration}
    BY <2>2 DEF OffersGaps, Long
  <2> QED
    BY <2>5, <2>6 DEF InOrder, offered
<1> QED
  BY <1>1, CopiesStayInStep, PTL
=============================================================================
