\* Three calendars, two events, every interval within four instants, every
\* attendee list. The bounded number of events stops the system.
SPECIFICATION Spec
CONSTANTS
    Calendars = {a, b, c}
    MaxEvents = 2
    MaxTime = 3
    MaxOffers = 1
    NoEvent = NoEvent
SYMMETRY Symmetry
CHECK_DEADLOCK FALSE
INVARIANTS CalendarInvariant OfferedTimesAreFree
PROPERTIES DeletedStaysDeleted ImplementsSharedEvents
