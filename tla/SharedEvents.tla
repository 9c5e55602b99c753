---------------------------- MODULE SharedEvents ----------------------------
(***************************************************************************)
(* What invitations promise: an event exists once, whoever looks at it;    *)
(* whoever is invited may change or delete it for everybody; it shows on   *)
(* the calendars of exactly the invited; its id is never given out again.  *)
(* FakeCalendar, which keeps a copy per calendar, implements this.         *)
(***************************************************************************)
CONSTANTS Calendars, Ids, Events, NoEvent

VARIABLES
    event,   \* event[id]: the event, or NoEvent before and after its life
    made,    \* the ids given out so far
    view     \* view[c][id]: what calendar c shows of the event

vars == <<event, made, view>>

Invited(e) == {e.organizer} \cup e.attendees

Shown(events) ==
    [c \in Calendars |->
        [id \in Ids |->
            IF events[id] # NoEvent /\ c \in Invited(events[id])
            THEN events[id] ELSE NoEvent]]

Init ==
    /\ event = [id \in Ids |-> NoEvent]
    /\ made = {}
    /\ view = Shown(event)

Create(id) ==
    /\ id \notin made
    /\ event'[id] \in Events
    /\ made' = made \cup {id}

Change(id) ==
    /\ event[id] # NoEvent
    /\ event'[id] \in Events
    /\ event'[id].organizer = event[id].organizer
    /\ UNCHANGED made

Remove(id) ==
    /\ event[id] # NoEvent
    /\ event'[id] = NoEvent
    /\ UNCHANGED made

(* One event at a time is created, changed or removed, and every calendar  *)
(* shows it at once.                                                       *)
Next ==
    \E id \in Ids :
        /\ event' = [event EXCEPT ![id] = event'[id]]
        /\ view' = Shown(event')
        /\ Create(id) \/ Change(id) \/ Remove(id)

Spec == Init /\ [][Next]_vars
=============================================================================
