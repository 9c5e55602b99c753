\* What an event interval that ends before it starts does to the turn.
SPECIFICATION Spec
CONSTANTS
    MaxIterations = 2
    MaxAttempts = 3
    MaxCalls = 2
    MaxTurns = 1
CHECK_DEADLOCK FALSE
INVARIANTS InvalidArgumentsFedBack
