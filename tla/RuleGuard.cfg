\* Ten instants around a clock change, three zones, five rules. Nothing stops it.
SPECIFICATION Spec
CONSTANTS
    Day = 6
    Week = 3
    MaxWindowDays = 3
    NoZone = NoZone
    NoEvent = NoEvent
    Zones <- MCZones
    Rules <- MCRules
    MaxInstant = 9
INVARIANTS GuardInvariant VetoesHaveReasons
PROPERTIES WritesObeyRules
