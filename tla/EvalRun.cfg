\* Two runs of a scenario with one or two sessions. The system stops when all
\* runs have a result.
SPECIFICATION Spec
CONSTANTS
    Users = {u1, u2}
    Kinds = {e1}
    Keys = {k1}
    Values = {v1, v2}
    Texts = {t1, t2}
    Scenarios <- AllScenarios
    MaxAttempts = 3
    Drains = 5
    MaxSteps = 2
    None = None
CHECK_DEADLOCK FALSE
INVARIANTS EvalInvariant VerdictIsEarned HistoryOfThisSession DrainSuffices
PROPERTIES SuiteEnds
