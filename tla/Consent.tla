------------------------------ MODULE Consent ------------------------------
(***************************************************************************)
(* What the confirmation gate promises, without its tables, turns, clock   *)
(* or requests: a token is an offer made to one user, the user's next      *)
(* decision closes every offer made to that user, the offers it agrees to  *)
(* are granted for a while, and a granted offer is performed at most once. *)
(* ConfirmationGate implements this specification.                         *)
(***************************************************************************)
CONSTANTS Users, Tokens

VARIABLES
    phase,  \* phase[t]: how far the offer with token t has come
    owner   \* owner[t]: the user an offer was made to, for the tokens issued

vars == <<phase, owner>>

Phases == {"new", "offered", "granted", "performed", "lapsed"}

OfferedTo(u) == {t \in Tokens : phase[t] = "offered" /\ owner[t] = u}

Granted == {t \in Tokens : phase[t] = "granted"}

Init ==
    /\ phase = [t \in Tokens |-> "new"]
    /\ owner = [t \in {} |-> t]

Offer(t, u) ==
    /\ phase[t] = "new"
    /\ phase' = [phase EXCEPT ![t] = "offered"]
    /\ owner' = [x \in DOMAIN owner \cup {t} |-> IF x = t THEN u ELSE owner[x]]

(* One decision settles all the offers of the user: those in agreed are    *)
(* granted, the others are gone for good.                                  *)
Decide(u, agreed) ==
    /\ agreed \subseteq OfferedTo(u)
    /\ phase' = [t \in Tokens |->
                    IF t \in agreed THEN "granted"
                    ELSE IF t \in OfferedTo(u) THEN "lapsed"
                    ELSE phase[t]]
    /\ UNCHANGED owner

Perform(t) ==
    /\ t \in Granted
    /\ phase' = [phase EXCEPT ![t] = "performed"]
    /\ UNCHANGED owner

(* A grant that is not used in time is lost.                               *)
Lapse(unused) ==
    /\ unused \subseteq Granted
    /\ phase' = [t \in Tokens |-> IF t \in unused THEN "lapsed" ELSE phase[t]]
    /\ UNCHANGED owner

Next ==
    \/ \E t \in Tokens, u \in Users : Offer(t, u)
    \/ \E u \in Users : \E agreed \in SUBSET OfferedTo(u) : Decide(u, agreed)
    \/ \E t \in Granted : Perform(t)
    \/ \E unused \in SUBSET Granted : Lapse(unused)

Spec == Init /\ [][Next]_vars
=============================================================================
