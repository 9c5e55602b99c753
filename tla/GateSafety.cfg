\* Two users, two tokens, three texts and three turns: consent, expiry, crashes.
\* The bounded clock and the bounded number of requests stop the system.
SPECIFICATION Spec
CONSTANTS
    Users = {u1, u2}
    Tokens = {t1, t2}
    Fingerprints = {f1, f2}
    Texts <- MCTexts
    TTL = 1
    MaxTime = 2
    MaxPosts = 3
SYMMETRY Symmetry
CHECK_DEADLOCK FALSE
INVARIANTS PerformedOnlyWithConsent OneCallPerToken GateInvariant
PROPERTIES OnlyOwnTurnsTouchRows ImplementsConsent
