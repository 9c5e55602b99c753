\* Two threads and a row written twice without the lock, as a session that is
\* created and deleted is; two facts with two values, up to three rows, one of
\* which may be in the file from the start. The bounds stop the system.
SPECIFICATION Spec
CONSTANTS
    Threads = {th1, th2}
    Keys = {k1, k2}
    Values = {v1, v2}
    Storable <- AllStorable
    Rows = {x1}
    MaxLegacy = 1
    MaxWrites = 2
    MaxFacts = 3
    MaxCandidates = 2
SYMMETRY Symmetry
CHECK_DEADLOCK FALSE
INVARIANTS FactInvariant UpsertNeverRefused SupersededByLaterFact AtomicUnlessSplit ExtractionNeverChurns AcknowledgedIsStored
