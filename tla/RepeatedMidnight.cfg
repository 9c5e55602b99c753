\* An event that ends at the second of two midnights.
SPECIFICATION Spec
CONSTANTS
    Day = 6
    Week = 3
    MaxWindowDays = 3
    NoZone = NoZone
    NoEvent = NoEvent
    Zones <- MCZones
    Rules <- MCRules
    MaxInstant = 9
INVARIANTS BlockedDaysStayFree
