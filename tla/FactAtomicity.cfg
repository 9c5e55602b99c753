\* upsert_fact against one unlocked write on the shared connection.
SPECIFICATION Spec
CONSTANTS
    Threads = {th1}
    Keys = {k1}
    Values = {v1}
    Storable <- AllStorable
    Rows = {x1}
    MaxLegacy = 1
    MaxWrites = 1
    MaxFacts = 2
    MaxCandidates = 1
CHECK_DEADLOCK FALSE
INVARIANTS AlwaysAnActiveFact
