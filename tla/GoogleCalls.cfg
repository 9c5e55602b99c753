\* A turn beside two logins, within Bounds. The bounded clock stops the system.
SPECIFICATION Spec
CONSTANTS
    Emails = {e1, e2}
    Logins = {l1, l2}
    Browsers = {b1}
    BrowserOf <- OneBrowser
    Requests = {r1, r2}
    Modes = {"google", "fake"}
    SessionTTL = 1
    TokenLife = 2
    MaxTime = 3
    None = None
    MaxAttempts = 3
    MaxPages = 2
    Methods = {"read", "create_event", "update_event", "update_one_end", "delete_event"}
    Skew = 1
CONSTRAINT Bounds
SYMMETRY Symmetry
CHECK_DEADLOCK FALSE
INVARIANTS CallInvariant OneUserPerEmail ActsForOwnAccount NewestGrantStored SentBeforeExpiry LogoutIsFinal
PROPERTIES ReauthIsNeeded CallsShrink ImplementsAttempts
