---------------------------- MODULE FakeCalendar ----------------------------
(***************************************************************************)
(* FakeCalendarProvider: one dictionary of events per calendar. An event   *)
(* with attendees is stored as a copy on the organizer's calendar and on   *)
(* each attendee's; updates and deletions, from any of these calendars,    *)
(* keep the copies in step.                                                *)
(***************************************************************************)
EXTENDS Naturals

CONSTANTS
    Calendars,  \* the calendar of each email address
    MaxEvents,  \* bound on the number of events created
    MaxTime,    \* bound on event times
    NoEvent

Ids == 1..MaxEvents

(* Attendees are their addresses; title, description and the response of   *)
(* an attendee are copied like the times and are left out. An event starts *)
(* before it ends (_start_before_end); a patched copy is not validated     *)
(* again, so that this is up to the check of the merged interval.          *)
Event == {e \in [organizer: Calendars, start: 0..MaxTime, end: 0..MaxTime,
                 attendees: SUBSET Calendars] : e.start < e.end}

ASSUME BoundsAssumption == MaxEvents \in Nat /\ MaxTime \in Nat
ASSUME NoEventAssumption == NoEvent \notin Event

VARIABLES
    copy,   \* copy[c][id]: the copy of event id on calendar c, or NoEvent
    used    \* how many ids the id factory has given out

vars == <<copy, used>>

Invited(e) == {e.organizer} \cup e.attendees

(* _sync_attendee_mirrors writes a copy to these calendars.                *)
Mirrors(e) == e.attendees \ {e.organizer}

Holders(id) == {c \in Calendars : copy[c][id] # NoEvent}

Init ==
    /\ copy = [c \in Calendars |-> [id \in Ids |-> NoEvent]]
    /\ used = 0

(* Fault: the id of a deleted event is given out again.                    *)
CreateEventReusingId(c, start, end, attendees) ==
    LET e == [organizer |-> c, start |-> start, end |-> end, attendees |-> attendees]
    IN  /\ start < end
        /\ \E id \in Ids :
              /\ Holders(id) = {}
              /\ used' = IF id > used THEN id ELSE used
              /\ copy' = [d \in Calendars |->
                             IF d = c \/ d \in Mirrors(e)
                             THEN [copy[d] EXCEPT ![id] = e]
                             ELSE copy[d]]

CreateEvent(c, start, end, attendees) ==
    LET e == [organizer |-> c, start |-> start, end |-> end, attendees |-> attendees]
    IN  /\ used < MaxEvents
        /\ start < end
        /\ used' = used + 1
        /\ copy' = [d \in Calendars |->
                       IF d = c \/ d \in Mirrors(e)
                       THEN [copy[d] EXCEPT ![used + 1] = e]
                       ELSE copy[d]]

(* The event with the patched fields: the merged interval has been checked *)
(* by the caller; attendees stays as it is when the patch has none.        *)
Merge(e, start, end, given, attendees) ==
    [e EXCEPT !.start = start, !.end = end,
              !.attendees = IF given THEN attendees ELSE @]

(* Fault: the copies of removed attendees stay.                            *)
UpdateEventAddingOnly(c, id, start, end, given, attendees) ==
    LET updated == Merge(copy[c][id], start, end, given, attendees)
        After(d) ==
            IF given /\ d \in Mirrors(updated) THEN updated
            ELSE IF copy[d][id] = NoEvent THEN NoEvent
            ELSE Merge(copy[d][id], start, end, given, attendees)
    IN  /\ copy[c][id] # NoEvent
        /\ start < end
        /\ copy' = [d \in Calendars |-> [copy[d] EXCEPT ![id] = After(d)]]
        /\ UNCHANGED used

(* Every calendar that has the event merges the patch into its own copy;   *)
(* with a new attendee list, _reconcile_mirrors takes the event off the    *)
(* calendars of removed attendees and copies it to all the others.         *)
UpdateEvent(c, id, start, end, given, attendees) ==
    LET updated == Merge(copy[c][id], start, end, given, attendees)
        removed == (copy[c][id].attendees \ updated.attendees) \ {updated.organizer}
        After(d) ==
            IF given /\ d \in Mirrors(updated) THEN updated
            ELSE IF copy[d][id] = NoEvent \/ (given /\ d \in removed) THEN NoEvent
            ELSE Merge(copy[d][id], start, end, given, attendees)
    IN  /\ copy[c][id] # NoEvent
        /\ start < end
        /\ copy' = [d \in Calendars |-> [copy[d] EXCEPT ![id] = After(d)]]
        /\ UNCHANGED used

(* Fault: only the calendar's own copy is deleted.                         *)
DeleteOwnCopy(c, id) ==
    /\ copy[c][id] # NoEvent
    /\ copy' = [copy EXCEPT ![c][id] = NoEvent]
    /\ UNCHANGED used

(* Deleting from one calendar deletes every copy.                          *)
DeleteEvent(c, id) ==
    /\ copy[c][id] # NoEvent
    /\ copy' = [d \in Calendars |-> [copy[d] EXCEPT ![id] = NoEvent]]
    /\ UNCHANGED used

(* An update whose patch leaves a time out merges the stored one: start    *)
(* and end below are the merged times. Injected failures, unknown ids and  *)
(* inverted intervals raise before anything is changed.                    *)
Next ==
    \E c \in Calendars :
        \/ \E start, end \in 0..MaxTime, attendees \in SUBSET Calendars :
              \/ CreateEvent(c, start, end, attendees)
              \/ \E id \in Ids, given \in BOOLEAN :
                    UpdateEvent(c, id, start, end, given, attendees)
        \/ \E id \in Ids : DeleteEvent(c, id)

Spec == Init /\ [][Next]_vars

-----------------------------------------------------------------------------
TypeOK ==
    /\ copy \in [Calendars -> [Ids -> Event \cup {NoEvent}]]
    /\ used \in 0..MaxEvents

(* All the copies of an event are equal: an update, whichever calendar it  *)
(* is made on, reaches all of them (update_event).                         *)
CopiesAgree ==
    \A id \in Ids : \A c, d \in Holders(id) : copy[c][id] = copy[d][id]

(* An event is on the calendars of exactly its organizer and attendees:    *)
(* patching attendees adds and removes copies (_reconcile_mirrors).        *)
HoldersAreInvited ==
    \A id \in Ids : \A c \in Holders(id) : Holders(id) = Invited(copy[c][id])

(* An id is unknown until it is given out, and a deleted event leaves no   *)
(* copy behind that could come back to life.                               *)
UnusedIdsAreFree == \A id \in Ids : id > used => Holders(id) = {}

DeletedStaysDeleted ==
    [][\A id \in 1..used : Holders(id) = {} => Holders(id)' = {}]_vars

CalendarInvariant == TypeOK /\ CopiesAgree /\ HoldersAreInvited /\ UnusedIdsAreFree

-----------------------------------------------------------------------------
(* Any holder's copy stands for the event.                                 *)
TheEvent(id) ==
    IF Holders(id) = {} THEN NoEvent ELSE copy[CHOOSE c \in Holders(id) : TRUE][id]

Shared == INSTANCE SharedEvents
             WITH Events <- Event, event <- [id \in Ids |-> TheEvent(id)],
                  made <- 1..used, view <- copy

(* The copies behave as one event that all the invited see and may change  *)
(* (with the copies made and removed by _reconcile_mirrors).               *)
ImplementsSharedEvents == Shared!Spec
=============================================================================
