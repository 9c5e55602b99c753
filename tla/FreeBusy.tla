------------------------------ MODULE FreeBusy ------------------------------
(***************************************************************************)
(* check_availability on the fake calendar: the busy periods of every      *)
(* participant, and the gaps between all of them. Nobody declines here:    *)
(* the tools create attendees who have not answered.                       *)
(***************************************************************************)
EXTENDS FakeCalendar, Integers, SequencesExt

CONSTANT MaxOffers  \* free[:5]

ASSUME OffersAssumption == MaxOffers \in Nat \ {0}

Slot == {s \in [start: Nat, end: Nat] : s.start < s.end}

MaxOf(a, b) == IF a > b THEN a ELSE b
MinOf(a, b) == IF a < b THEN a ELSE b

(* Fault: a slot inside the one before it cuts that one short.             *)
MergeInto(merged, slot) ==
    IF merged # <<>> /\ slot.start <= Last(merged).end
    THEN [merged EXCEPT ![Len(merged)].end = slot.end]
    ELSE Append(merged, slot)

(* Overlapping and adjacent slots, sorted by start, become one.            *)
MergeSlot(merged, slot) ==
    IF merged # <<>> /\ slot.start <= Last(merged).end
    THEN [merged EXCEPT ![Len(merged)].end = MaxOf(@, slot.end)]
    ELSE Append(merged, slot)

(* The last of the slots when they are sorted by their start.              *)
Latest(slots) == CHOOSE s \in slots : \A t \in slots : t.start <= s.start

(* The loop over the sorted slots: the last one is merged last.            *)
MergeSlots(slots) ==
    MapThenFoldSet(LAMBDA slot, merged : MergeSlot(merged, slot), <<>>,
                   LAMBDA slot : slot, Latest, slots)

(* freebusy of one calendar in the window [from, to).                      *)
Busy(c, from, to) ==
    LET events == {copy[c][id] : id \in {i \in Ids : copy[c][i] # NoEvent}} IN
    ToSet(MergeSlots({[start |-> MaxOf(e.start, from), end |-> MinOf(e.end, to)] :
                          e \in {x \in events : x.start < to /\ x.end > from}}))

(* The loop of find_free_slots: the gap before a slot, then the cursor.    *)
GapBefore(found, slot, duration) ==
    [free |-> IF slot.start - found.cursor >= duration
              THEN Append(found.free, [start |-> found.cursor, end |-> slot.start])
              ELSE found.free,
     cursor |-> MaxOf(found.cursor, slot.end)]

FindFreeSlots(busy, from, to, duration) ==
    LET found == FoldLeft(LAMBDA f, slot : GapBefore(f, slot, duration),
                          [free |-> <<>>, cursor |-> from], MergeSlots(busy))
    IN  IF to - found.cursor >= duration
        THEN Append(found.free, [start |-> found.cursor, end |-> to])
        ELSE found.free

(* Only the first of the free slots are offered.                           *)
CheckAvailability(people, from, to, duration) ==
    LET free == FindFreeSlots(UNION {Busy(c, from, to) : c \in people}, from, to, duration)
    IN  SubSeq(free, 1, MinOf(Len(free), MaxOffers))

-----------------------------------------------------------------------------
(* Slots [t, t+1) in which one of these people is at an event.             *)
Taken(people) ==
    {t \in 0..MaxTime : \E c \in people, id \in Ids :
        copy[c][id] # NoEvent /\ copy[c][id].start <= t /\ t < copy[c][id].end}

(* The longest stretches of the window in which nothing is taken.          *)
Gaps(taken, from, to) ==
    {g \in [start: from..to, end: from..to] :
        /\ g.start < g.end
        /\ g.start..g.end-1 \cap taken = {}
        /\ g.start = from \/ g.start - 1 \in taken
        /\ g.end = to \/ g.end \in taken}

(* The times offered are longest stretches of the window that are long     *)
(* enough and in which nobody is busy, in order, whatever copies of shared *)
(* and nested events the participants hold; and they are the first such    *)
(* stretches: one that is not offered comes after as many offers as the    *)
(* tool makes (find_free_slots, check_availability).                       *)
OfferedTimesAreFree ==
    \A people \in SUBSET Calendars : \A from, to \in 0..MaxTime : from < to =>
        LET gaps == Gaps(Taken(people), from, to)
        IN \A duration \in 1..MaxTime :
              LET fitting == {g \in gaps : g.end - g.start >= duration}
                  free == CheckAvailability(people, from, to, duration)
              IN
              /\ ToSet(free) \subseteq fitting
              /\ \A i \in 1..Len(free) - 1 : free[i].end < free[i + 1].start
              /\ \A g \in fitting \ ToSet(free) :
                    Len(free) = MaxOffers /\ free[MaxOffers].end < g.start
=============================================================================
