\* The order of a confirmation when nothing makes clients wait for replies.
SPECIFICATION Spec
CONSTANTS
    Users = {u1}
    Tokens = {t1}
    Fingerprints = {f1}
    Texts <- MCTexts
    TTL = 1
    MaxTime = 1
    MaxPosts = 2
CHECK_DEADLOCK FALSE
INVARIANTS ConfirmedAfterReply
