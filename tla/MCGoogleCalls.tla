---------------------------- MODULE MCGoogleCalls ----------------------------
(* Two callbacks of one browser, of one login or of two logins, beside the *)
(* first attempt of a read: of any accounts before a token is due, of one  *)
(* account while it is; and one login beside any call, with retries and    *)
(* pages, while tokens expire.                                             *)
EXTENDS GoogleCalls, FiniteSets, TLC

OneBrowser == [l \in Logins |-> CHOOSE b \in Browsers : TRUE]

Symmetry == Permutations(Emails) \cup Permutations(Logins) \cup Permutations(Requests)

FirstRead == kind = "read" /\ attempt = 0 /\ left = 1

OneAccount == Cardinality({account[l] : l \in Logins} \ {None}) <= 1

OneLogin ==
    /\ Cardinality({r \in Requests : req[r] # Idle}) <= 1
    /\ Cardinality({l \in Logins : grant[l] # "none"}) <= 1

Bounds ==
    \/ FirstRead /\ clock = 0
    \/ FirstRead /\ clock <= 1 /\ OneAccount /\ mode = "google"
    \/ OneLogin
=============================================================================
