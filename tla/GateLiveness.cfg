\* Requests competing for the lock, with crashes; no symmetry (liveness).
SPECIFICATION FairSpec
CONSTANTS
    Users = {u1, u2}
    Tokens = {t1}
    Fingerprints = {f1}
    Texts <- MCTwoTexts
    TTL = 1
    MaxTime = 1
    MaxPosts = 3
CHECK_DEADLOCK FALSE
PROPERTIES EveryRequestLeaves
