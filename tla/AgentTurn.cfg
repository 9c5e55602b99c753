\* Two turns of up to two model calls with tools, two tool calls each, three
\* attempts per provider call; deadlock when the turns are used up.
SPECIFICATION FairSpec
CONSTANTS
    MaxIterations = 2
    MaxAttempts = 3
    MaxCalls = 2
    MaxTurns = 2
CHECK_DEADLOCK FALSE
INVARIANTS TurnInvariant ClaimsAreTrue HonestUnlessAmbiguous AppliedOnceUnlessAmbiguous NoPhantomReply TracesClosed
PROPERTIES TurnEnds
