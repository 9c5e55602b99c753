----------------------- MODULE ConfirmationGateProofs -----------------------
(***************************************************************************)
(* Proofs about ConfirmationGate, for every set of users, tokens,          *)
(* arguments and messages and for every bound.                             *)
(***************************************************************************)
EXTENDS ConfirmationGate, TLAPS

(* No request, no row and no token exists when the service is first        *)
(* started, so the invariant holds at once.                                *)
LEMMA InitInvariant == Init => GateInvariant
<1> SUFFICES ASSUME Init PROVE GateInvariant
  OBVIOUS
<1>1. TypeOK
  BY BoundsAssumption DEF Init, TypeOK, Time
<1>2. QED
  BY <1>1 DEF Init, GateInvariant, OneTurnAtATime, GrantedByRunningTurn,
     CallsAsIssued, StagesApart, RowsOfLatestTurn, PerformedOnlyWithConsent,
     OneCallPerToken, CallTokens, PerformedTokens

(* Posting a message only adds to the queue.                               *)
LEMMA PostInvariant ==
  ASSUME GateInvariant, NEW u \in Users, NEW text \in Texts, Post(u, text)
  PROVE  GateInvariant'
<1> USE DEF GateInvariant, Post, gateVars
<1>1. TypeOK'
  <2>1. [id |-> posted + 1, user |-> u, text |-> text, seen |-> answered[u]] \in Request
    BY TextsAssumption, BoundsAssumption DEF TypeOK, Request
  <2>2. queue' \subseteq Request
    BY <2>1 DEF TypeOK
  <2>3. posted' \in 0..MaxPosts
    BY BoundsAssumption DEF TypeOK
  <2>4. QED
    BY <2>2, <2>3 DEF TypeOK
<1>2. QED
  BY <1>1 DEF OneTurnAtATime, GrantedByRunningTurn, CallsAsIssued, Matches, StagesApart,
     RowsOfLatestTurn, PerformedOnlyWithConsent, Consented, OneCallPerToken,
     CallTokens, PerformedTokens

(* A starting turn takes the user's rows, all issued by the turn before,   *)
(* and arms some of them.                                                  *)
LEMMA StartTurnInvariant ==
  ASSUME GateInvariant, NEW r \in queue, StartTurn(r)
  PROVE  GateInvariant'
<1> USE DEF GateInvariant, StartTurn, RowsLeft, Confirmed
<1>1. r \in Request /\ r.user \in Users /\ turnNo[r.user] \in Nat
  BY DEF TypeOK, Request
<1>2. TypeOK'
  <2>1. turnNo' \in [Users -> Nat]
    BY <1>1 DEF TypeOK
  <2>2. rows' \subseteq DOMAIN issued' /\ armed' \subseteq DOMAIN issued'
    BY DEF TypeOK, RowsOf
  <2>3. QED
    BY <1>1, <2>1, <2>2 DEF TypeOK
<1>3. calls = {} /\ armed = {}
  BY DEF OneTurnAtATime
<1>4. OneTurnAtATime'
  BY <1>3 DEF OneTurnAtATime
<1>5. GrantedByRunningTurn'
  <2> SUFFICES ASSUME NEW s \in running', NEW t \in armed' \cup CallTokens(calls')
               PROVE  /\ issued'[t].user = s.user
                      /\ issued'[t].turn + 1 = turnNo'[s.user]
                      /\ issued'[t].at + TTL >= start'
                      /\ UserConfirms(s.text, issued'[t].action)
    BY DEF GrantedByRunningTurn
  <2>1. s = r /\ t \in RowsOf(r.user) /\ Fresh(t) /\ UserConfirms(r.text, issued[t].action)
    BY <1>3 DEF CallTokens
  <2>2. issued[t].user = r.user /\ issued[t].turn = turnNo[r.user]
    BY <2>1 DEF RowsOf, RowsOfLatestTurn
  <2>3. turnNo'[r.user] = turnNo[r.user] + 1
    BY <1>1 DEF TypeOK
  <2>4. QED
    BY <2>1, <2>2, <2>3 DEF Fresh
<1>6. CallsAsIssued'
  BY <1>3 DEF CallsAsIssued
<1>7. StagesApart'
  BY <1>3 DEF StagesApart, CallTokens, PerformedTokens, RowsOf
<1>8. RowsOfLatestTurn'
  <2> SUFFICES ASSUME NEW t \in rows'
               PROVE  issued'[t].turn = turnNo'[issued'[t].user]
    BY DEF RowsOfLatestTurn
  <2>1. t \in rows /\ issued[t].user # r.user /\ issued[t] \in Entry
    BY DEF RowsOf, TypeOK
  <2>2. QED
    BY <2>1, <1>1 DEF RowsOfLatestTurn, TypeOK, Entry
<1>9. PerformedOnlyWithConsent' /\ OneCallPerToken'
  BY DEF PerformedOnlyWithConsent, Consented, OneCallPerToken
<1>10. QED
  BY <1>2, <1>4, <1>5, <1>6, <1>7, <1>8, <1>9

(* A validated call carries what its token was issued for, and its token   *)
(* leaves the armed ones.                                                  *)
LEMMA ValidateInvariant ==
  ASSUME GateInvariant, NEW t \in Tokens, NEW action \in Actions, NEW fp \in Fingerprints,
         Validate(t, action, fp)
  PROVE  GateInvariant'
<1> USE DEF GateInvariant, Validate, requestVars
<1>1. TypeOK'
  BY DEF TypeOK, Call
<1>2. CallTokens(calls') = {t} /\ CallTokens(calls) = {}
  BY DEF CallTokens
<1>3. OneTurnAtATime'
  BY DEF OneTurnAtATime
<1>4. GrantedByRunningTurn'
  BY <1>2 DEF GrantedByRunningTurn
<1>5. CallsAsIssued'
  BY DEF CallsAsIssued, Matches, TypeOK
<1>6. StagesApart'
  BY <1>2 DEF StagesApart, PerformedTokens
<1>7. RowsOfLatestTurn' /\ PerformedOnlyWithConsent' /\ OneCallPerToken'
  BY DEF RowsOfLatestTurn, PerformedOnlyWithConsent, Consented, OneCallPerToken
<1>8. QED
  BY <1>1, <1>3, <1>4, <1>5, <1>6, <1>7

(* A new token is distinct from every token of any stage, and is issued by *)
(* the user's latest turn, the running one.                                *)
LEMMA RequestTokenInvariant ==
  ASSUME GateInvariant, NEW r \in running, NEW t \in Tokens, NEW action \in Actions,
         NEW fp \in Fingerprints, RequestToken(r, t, action, fp)
  PROVE  GateInvariant'
<1> USE DEF GateInvariant, RequestToken, Issue, requestVars
<1>1. r.user \in Users /\ turnNo[r.user] \in Nat
  BY DEF TypeOK, Request
<1>2. /\ DOMAIN issued' = DOMAIN issued \cup {t}
      /\ \A x \in DOMAIN issued : issued'[x] = issued[x]
      /\ issued'[t].user = r.user /\ issued'[t].turn = turnNo[r.user]
      /\ issued'[t] \in Entry
  BY <1>1 DEF TypeOK, Entry
<1>3. TypeOK'
  <2>1. issued' \in [DOMAIN issued' -> Entry]
    BY <1>2 DEF TypeOK
  <2>2. QED
    BY <1>2, <2>1 DEF TypeOK
<1>4. \A x \in armed \cup CallTokens(calls) \cup PerformedTokens : x \in DOMAIN issued
  BY DEF TypeOK, CallTokens, PerformedTokens, CallsAsIssued, PerformedOnlyWithConsent, Consented
<1>5. OneTurnAtATime'
  BY DEF OneTurnAtATime
<1>6. GrantedByRunningTurn'
  BY <1>2, <1>4 DEF GrantedByRunningTurn, CallTokens
<1>7. CallsAsIssued'
  BY <1>2 DEF CallsAsIssued, Matches
<1>8. StagesApart'
  BY <1>4 DEF StagesApart, CallTokens, PerformedTokens
<1>9. RowsOfLatestTurn'
  BY <1>2 DEF RowsOfLatestTurn, TypeOK
<1>10. PerformedOnlyWithConsent' /\ OneCallPerToken'
  BY <1>2 DEF PerformedOnlyWithConsent, Consented, OneCallPerToken
<1>11. QED
  BY <1>3, <1>5, <1>6, <1>7, <1>8, <1>9, <1>10

(* The call under way has the consent GrantedByRunningTurn records, and    *)
(* its token was not performed before.                                     *)
LEMMA PerformCallInvariant ==
  ASSUME GateInvariant, NEW r \in running, NEW c \in calls, PerformCall(r, c)
  PROVE  GateInvariant'
<1> USE DEF GateInvariant, PerformCall, requestVars
<1> DEFINE p == [call |-> c, by |-> r, turn |-> turnNo[r.user], start |-> start]
<1>1. c \in Call /\ r \in Request /\ turnNo[r.user] \in Nat
  BY DEF TypeOK, Request
<1>2. TypeOK'
  <2>1. p \in Performed
    BY <1>1 DEF Performed, TypeOK
  <2>2. QED
    BY <2>1 DEF TypeOK
<1>3. calls' = {} /\ CallTokens(calls') = {} /\ c.token \in CallTokens(calls)
  BY DEF OneTurnAtATime, CallTokens
<1>4. PerformedTokens' = PerformedTokens \cup {c.token}
  <2>1. performed' = Append(performed, p) /\ p.call.token = c.token
    OBVIOUS
  <2> HIDE DEF p, PerformCall
  <2>2. QED
    BY <2>1 DEF PerformedTokens
<1>5. OneTurnAtATime'
  BY <1>3 DEF OneTurnAtATime
<1>6. GrantedByRunningTurn' /\ CallsAsIssued'
  BY <1>3 DEF GrantedByRunningTurn, CallsAsIssued
<1>7. StagesApart'
  BY <1>3, <1>4 DEF StagesApart
<1>8. RowsOfLatestTurn'
  BY DEF RowsOfLatestTurn
<1>9. PerformedOnlyWithConsent'
  <2>1. Consented(p)
    BY <1>1, <1>3 DEF Consented, GrantedByRunningTurn, CallsAsIssued, Matches
  <2>2. QED
    BY <2>1 DEF PerformedOnlyWithConsent, Consented
<1>10. OneCallPerToken'
  <2>1. \A i \in DOMAIN performed : performed[i].call.token # c.token
    BY <1>3 DEF StagesApart, PerformedTokens
  <2>2. performed' = Append(performed, p) /\ p.call.token = c.token
    OBVIOUS
  <2> HIDE DEF p, PerformCall
  <2>3. QED
    BY <2>1, <2>2 DEF OneCallPerToken, TypeOK
<1>11. QED
  BY <1>2, <1>5, <1>6, <1>7, <1>8, <1>9, <1>10

(* Losing calls, armed tokens, the running turn or the queue leaves no     *)
(* token with more rights than before.                                     *)
LEMMA LossInvariant ==
  ASSUME GateInvariant,
         queue' \subseteq queue, running' \subseteq running,
         armed' \subseteq armed, calls' \subseteq calls,
         running' = {} => armed' = {} /\ calls' = {},
         now' \in Time, answered' \in [Users -> Nat],
         UNCHANGED <<posted, start, turnNo, issued, rows, performed>>
  PROVE  GateInvariant'
<1> USE DEF GateInvariant
<1>1. TypeOK'
  BY DEF TypeOK
<1>2. CallTokens(calls') \subseteq CallTokens(calls)
  BY DEF CallTokens
<1>3. OneTurnAtATime' /\ GrantedByRunningTurn' /\ CallsAsIssued'
  BY <1>2 DEF OneTurnAtATime, GrantedByRunningTurn, CallsAsIssued, Matches
<1>4. StagesApart'
  BY <1>2 DEF StagesApart, PerformedTokens
<1>5. RowsOfLatestTurn' /\ PerformedOnlyWithConsent' /\ OneCallPerToken'
  BY DEF RowsOfLatestTurn, PerformedOnlyWithConsent, Consented, OneCallPerToken
<1>6. QED
  BY <1>1, <1>3, <1>4, <1>5

(* Every step of the system preserves the invariant.                       *)
LEMMA NextInvariant == GateInvariant /\ [Next]_vars => GateInvariant'
<1> SUFFICES ASSUME GateInvariant, [Next]_vars PROVE GateInvariant'
  OBVIOUS
<1>1. ASSUME NEW u \in Users, NEW text \in Texts, Post(u, text) PROVE GateInvariant'
  BY <1>1, PostInvariant
<1>2. ASSUME NEW r \in queue, StartTurn(r) PROVE GateInvariant'
  BY <1>2, StartTurnInvariant
<1>3. ASSUME NEW t \in Tokens, NEW action \in Actions, NEW fp \in Fingerprints,
             Validate(t, action, fp)
      PROVE  GateInvariant'
  BY <1>3, ValidateInvariant
<1>4. ASSUME NEW t \in Tokens, NEW action \in Actions, NEW fp \in Fingerprints,
             NEW r \in running, RequestToken(r, t, action, fp)
      PROVE  GateInvariant'
  BY <1>4, RequestTokenInvariant
<1>5. ASSUME NEW c \in calls, NEW r \in running, PerformCall(r, c) PROVE GateInvariant'
  BY <1>5, PerformCallInvariant
<1>6. ASSUME NEW c \in calls, RefuseCall(c) PROVE GateInvariant'
  <2>1. now' \in Time /\ answered' \in [Users -> Nat]
    BY <1>6 DEF RefuseCall, requestVars, GateInvariant, TypeOK
  <2>2. running' = {} => armed' = {} /\ calls' = {}
    BY <1>6 DEF RefuseCall, requestVars, GateInvariant, OneTurnAtATime
  <2>3. QED
    BY <1>6, <2>1, <2>2, LossInvariant DEF RefuseCall, requestVars
<1>7. ASSUME EndTurn, answered' \in [Users -> Nat] PROVE GateInvariant'
  <2>1. now' \in Time
    BY <1>7 DEF EndTurn, GateInvariant, TypeOK
  <2>2. QED
    BY <1>7, <2>1, LossInvariant DEF EndTurn
<1>8. ASSUME NEW r \in running, Reply(r) PROVE GateInvariant'
  <2>1. answered' \in [Users -> Nat]
    BY <1>8 DEF Reply, GateInvariant, TypeOK, Request
  <2>2. QED
    BY <1>7, <1>8, <2>1 DEF Reply
<1>9. CASE Raise
  BY <1>7, <1>9 DEF Raise, GateInvariant, TypeOK
<1>10. CASE Tick
  <2>1. now' \in Time
    BY <1>10, BoundsAssumption DEF Tick, Time, GateInvariant, TypeOK
  <2>2. answered' \in [Users -> Nat] /\ (running' = {} => armed' = {} /\ calls' = {})
    BY <1>10 DEF Tick, requestVars, gateVars, GateInvariant, TypeOK, OneTurnAtATime
  <2>3. QED
    BY <1>10, <2>1, <2>2, LossInvariant DEF Tick, requestVars, gateVars
<1>11. CASE Crash
  <2>1. now' \in Time /\ answered' \in [Users -> Nat]
    BY <1>11 DEF Crash, GateInvariant, TypeOK
  <2>2. QED
    BY <1>11, <2>1, LossInvariant DEF Crash
<1>12. CASE UNCHANGED vars
  <2>1. /\ now' \in Time /\ answered' \in [Users -> Nat]
        /\ running' = {} => armed' = {} /\ calls' = {}
    BY <1>12 DEF vars, requestVars, gateVars, GateInvariant, TypeOK, OneTurnAtATime
  <2>2. QED
    BY <1>12, <2>1, LossInvariant DEF vars, requestVars, gateVars
<1>13. QED
  BY <1>1, <1>2, <1>3, <1>4, <1>5, <1>6, <1>8, <1>9, <1>10, <1>11, <1>12 DEF Next

-----------------------------------------------------------------------------
(* The inductive invariant holds in every reachable state.                 *)
THEOREM GateInvariantHolds == Spec => []GateInvariant
<1>1. QED
  BY InitInvariant, NextInvariant, PTL DEF Spec

(* The variables keep their types.                                         *)
THEOREM GateTypeCorrect == Spec => []TypeOK
<1>1. GateInvariant => TypeOK
  BY DEF GateInvariant
<1>2. QED
  BY <1>1, GateInvariantHolds, PTL

(* No destructive call reaches the calendar without the consent of the     *)
(* user it was offered to, given in that user's very next turn, in time,   *)
(* for that action and those arguments.                                    *)
THEOREM ConsentRequired == Spec => []PerformedOnlyWithConsent
<1>1. GateInvariant => PerformedOnlyWithConsent
  BY DEF GateInvariant
<1>2. QED
  BY <1>1, GateInvariantHolds, PTL

(* One confirmation never performs two calls.                              *)
THEOREM TokensAreSingleUse == Spec => []OneCallPerToken
<1>1. GateInvariant => OneCallPerToken
  BY DEF GateInvariant
<1>2. QED
  BY <1>1, GateInvariantHolds, PTL

(* No pending confirmation outlives the turn after the one that issued it. *)
THEOREM RowsExpireWithNextTurn == Spec => []RowsOfLatestTurn
<1>1. GateInvariant => RowsOfLatestTurn
  BY DEF GateInvariant
<1>2. QED
  BY <1>1, GateInvariantHolds, PTL

(* A turn can only spend tokens an earlier turn of the same user issued.   *)
THEOREM ModelCannotConfirm == Spec => []NoSelfConfirmation
<1>1. GateInvariant => NoSelfConfirmation
  <2> SUFFICES ASSUME GateInvariant, NEW r \in running,
                      NEW t \in armed \cup CallTokens(calls)
               PROVE  issued[t].user = r.user /\ issued[t].turn < turnNo[r.user]
    BY DEF NoSelfConfirmation
  <2>1. issued[t].user = r.user /\ issued[t].turn + 1 = turnNo[r.user]
    BY DEF GateInvariant, GrantedByRunningTurn
  <2>2. t \in DOMAIN issued
    BY DEF GateInvariant, TypeOK, CallsAsIssued, CallTokens
  <2>3. issued[t].turn \in Nat
    BY <2>2 DEF GateInvariant, TypeOK, Entry
  <2>4. QED
    BY <2>1, <2>3
<1>2. QED
  BY <1>1, GateInvariantHolds, PTL

(* A user's rows change only while a turn of that user starts or runs.     *)
THEOREM RowsAreUserScoped == Spec => OnlyOwnTurnsTouchRows
<1> DEFINE Scoped == \A u \in Users :
              RowsOf(u) # RowsOf(u)' => \E r \in running \cup running' : r.user = u
<1>1. GateInvariant /\ [Next]_vars => [Scoped]_vars
  <2> SUFFICES ASSUME GateInvariant, Next, NEW u \in Users, RowsOf(u) # RowsOf(u)'
               PROVE  \E r \in running \cup running' : r.user = u
    BY DEF Scoped
  <2>1. ASSUME UNCHANGED <<issued, rows>> PROVE FALSE
    BY <2>1 DEF RowsOf
  <2>2. ASSUME NEW r \in queue, StartTurn(r) PROVE r.user = u
    BY <2>2 DEF StartTurn, RowsLeft, RowsOf
  <2>3. ASSUME NEW t \in Tokens, NEW action \in Actions, NEW fp \in Fingerprints,
               NEW r \in running, RequestToken(r, t, action, fp)
        PROVE  r.user = u
    BY <2>3 DEF RequestToken, Issue, RowsOf, GateInvariant, TypeOK
  <2>4. \/ \E r \in queue : StartTurn(r)
        \/ \E t \in Tokens, action \in Actions, fp \in Fingerprints, r \in running :
              RequestToken(r, t, action, fp)
    BY <2>1 DEF Next, Post, Validate, PerformCall, RefuseCall, Reply, Raise, EndTurn,
       Tick, Crash, gateVars, requestVars
  <2>5. CASE \E r \in queue : StartTurn(r)
    BY <2>2, <2>5 DEF StartTurn
  <2>6. CASE \E t \in Tokens, action \in Actions, fp \in Fingerprints, r \in running :
              RequestToken(r, t, action, fp)
    BY <2>3, <2>6
  <2>7. QED
    BY <2>4, <2>5, <2>6
<1>2. QED
  BY <1>1, GateInvariantHolds, PTL DEF Spec, OnlyOwnTurnsTouchRows

-----------------------------------------------------------------------------
(* Refinement: with the phase of a token read off the table, the gate, the *)
(* calls under way and the calls performed, every step of the gate is a    *)
(* step of Consent or changes nothing Consent can see.                     *)

(* Steps that leave every stage alone.                                     *)
LEMMA StutterRefines ==
  ASSUME UNCHANGED gateVars
  PROVE  UNCHANGED Offers!vars
BY DEF gateVars, Offers!vars, Phase, CallTokens, PerformedTokens

(* Taking the user's rows decides all the offers made to the user.         *)
LEMMA StartTurnRefines ==
  ASSUME GateInvariant, NEW r \in queue, StartTurn(r)
  PROVE  Offers!Next
<1> USE DEF GateInvariant, StartTurn, RowsLeft, Confirmed
<1>1. calls = {} /\ armed = {} /\ CallTokens(calls) = {} /\ r.user \in Users
  BY DEF OneTurnAtATime, CallTokens, TypeOK, Request
<1>2. Offers!OfferedTo(r.user) = RowsOf(r.user)
  <2>1. \A t \in rows : t \in DOMAIN issued /\ t \in Tokens /\ Phase(t) = "offered"
    BY DEF Phase, TypeOK, StagesApart
  <2>2. \A t \in Tokens : Phase(t) = "offered" => t \in rows
    BY DEF Phase
  <2> HIDE DEF GateInvariant
  <2>3. QED
    BY <2>1, <2>2 DEF Offers!OfferedTo, RowsOf
<1>3. armed' \subseteq Offers!OfferedTo(r.user)
  BY <1>2
<1>4. ASSUME NEW t \in Tokens
      PROVE  Phase(t)' = IF t \in armed' THEN "granted"
                         ELSE IF t \in RowsOf(r.user) THEN "lapsed"
                         ELSE Phase(t)
  <2>1. RowsOf(r.user) \subseteq rows /\ rows \subseteq DOMAIN issued
    BY DEF RowsOf, TypeOK
  <2>2. t \in RowsOf(r.user) => t \notin PerformedTokens
    BY <2>1 DEF StagesApart
  <2>3. /\ PerformedTokens' = PerformedTokens
        /\ CallTokens(calls)' = {}
        /\ issued' = issued
        /\ rows' = rows \ RowsOf(r.user)
        /\ armed' \subseteq RowsOf(r.user)
    BY <1>1 DEF PerformedTokens
  <2> HIDE DEF StartTurn, GateInvariant, RowsLeft, Confirmed
  <2>4. QED
    BY <1>1, <2>1, <2>2, <2>3 DEF Phase
<1>5. Offers!Decide(r.user, armed')
  BY <1>2, <1>3, <1>4 DEF Offers!Decide
<1>6. QED
  BY <1>1, <1>3, <1>5 DEF Offers!Next

(* A validated call keeps its token among the granted ones.                *)
LEMMA ValidateRefines ==
  ASSUME GateInvariant, NEW t \in Tokens, NEW action \in Actions, NEW fp \in Fingerprints,
         Validate(t, action, fp)
  PROVE  UNCHANGED Offers!vars
<1>1. CallTokens(calls) = {} /\ CallTokens(calls)' = {t}
  BY DEF Validate, CallTokens
<1>2. armed \cup CallTokens(calls) = (armed \cup CallTokens(calls))'
  BY <1>1 DEF Validate
<1>3. QED
  BY <1>2 DEF Validate, Offers!vars, Phase, PerformedTokens

(* Issuing a token makes an offer to the user of the turn.                 *)
LEMMA RequestTokenRefines ==
  ASSUME GateInvariant, NEW r \in running, NEW t \in Tokens, NEW action \in Actions,
         NEW fp \in Fingerprints, RequestToken(r, t, action, fp)
  PROVE  Offers!Next
<1>1. r.user \in Users
  BY DEF GateInvariant, TypeOK, Request
<1>2. /\ DOMAIN issued' = DOMAIN issued \cup {t}
      /\ \A x \in DOMAIN issued' : issued'[x].user = IF x = t THEN r.user ELSE issued[x].user
      /\ rows' = rows \cup {t}
      /\ CallTokens(calls)' = CallTokens(calls)
      /\ armed' = armed
      /\ PerformedTokens' = PerformedTokens
      /\ t \notin DOMAIN issued
      /\ t \notin armed \cup CallTokens(calls) \cup PerformedTokens
  <2>1. armed \cup CallTokens(calls) \cup PerformedTokens \subseteq DOMAIN issued
    BY DEF GateInvariant, TypeOK, CallTokens, PerformedTokens, CallsAsIssued,
       PerformedOnlyWithConsent, Consented
  <2>2. QED
    BY <2>1 DEF RequestToken, Issue, CallTokens, PerformedTokens
<1>3. Phase(t) = "new" /\ Phase(t)' = "offered"
  BY <1>2 DEF Phase
<1>4. \A x \in Tokens \ {t} : Phase(x)' = Phase(x)
  BY <1>2 DEF Phase
<1>5. Offers!Offer(t, r.user)
  BY <1>2, <1>3, <1>4 DEF Offers!Offer
<1>6. QED
  BY <1>1, <1>5 DEF Offers!Next

(* The call that reaches the calendar performs its offer.                  *)
LEMMA PerformCallRefines ==
  ASSUME GateInvariant, NEW r \in running, NEW c \in calls, PerformCall(r, c)
  PROVE  Offers!Next
<1>1. /\ calls = {c} /\ CallTokens(calls) = {c.token} /\ CallTokens(calls)' = {}
      /\ c.token \in Tokens /\ c.token \in DOMAIN issued
      /\ c.token \notin rows /\ c.token \notin armed /\ c.token \notin PerformedTokens
      /\ issued' = issued /\ rows' = rows /\ armed' = armed
  BY DEF PerformCall, GateInvariant, OneTurnAtATime, CallTokens, CallsAsIssued, TypeOK,
     StagesApart, requestVars
<1>2. PerformedTokens' = PerformedTokens \cup {c.token}
  <2> DEFINE p == [call |-> c, by |-> r, turn |-> turnNo[r.user], start |-> start]
  <2>1. performed' = Append(performed, p) /\ p.call.token = c.token
    BY DEF PerformCall
  <2> HIDE DEF p
  <2>2. QED
    BY <2>1 DEF PerformedTokens
<1>3. Phase(c.token) = "granted" /\ Phase(c.token)' = "performed"
  BY <1>1, <1>2 DEF Phase
<1>4. \A x \in Tokens \ {c.token} : Phase(x)' = Phase(x)
  BY <1>1, <1>2 DEF Phase
<1>5. Offers!Perform(c.token)
  BY <1>1, <1>3, <1>4 DEF Offers!Perform, Offers!Granted, PerformCall
<1>6. QED
  BY <1>5 DEF Offers!Next, Offers!Perform

(* Grants that a refused call, the end of the turn or a crash drops lapse. *)
LEMMA LossRefines ==
  ASSUME GateInvariant, armed' \subseteq armed, calls' \subseteq calls,
         UNCHANGED <<issued, rows, performed>>
  PROVE  Offers!Next
<1> DEFINE unused == (armed \cup CallTokens(calls)) \ (armed' \cup CallTokens(calls'))
<1>1. /\ CallTokens(calls') \subseteq CallTokens(calls)
      /\ PerformedTokens' = PerformedTokens
  BY DEF CallTokens, PerformedTokens
<1>2. \A t \in armed \cup CallTokens(calls) :
         t \in Tokens /\ t \in DOMAIN issued /\ t \notin rows /\ t \notin PerformedTokens
  BY DEF GateInvariant, TypeOK, CallsAsIssued, StagesApart, CallTokens
<1>3. unused \subseteq Offers!Granted
  BY <1>2 DEF Offers!Granted, Phase
<1>4. \A t \in Tokens : Phase(t)' = IF t \in unused THEN "lapsed" ELSE Phase(t)
  BY <1>1, <1>2 DEF Phase
<1>5. Offers!Lapse(unused)
  BY <1>3, <1>4 DEF Offers!Lapse
<1>6. QED
  BY <1>3, <1>5 DEF Offers!Next

(* The gate implements what Consent promises.                              *)
THEOREM GateImplementsConsent == Spec => ImplementsConsent
<1>1. Init => Offers!Init
  BY DEF Init, Offers!Init, Phase
<1>2. GateInvariant /\ [Next]_vars => [Offers!Next]_(Offers!vars)
  <2> SUFFICES ASSUME GateInvariant, [Next]_vars PROVE [Offers!Next]_(Offers!vars)
    OBVIOUS
  <2>1. ASSUME NEW u \in Users, NEW text \in Texts, Post(u, text)
        PROVE  UNCHANGED Offers!vars
    BY <2>1, StutterRefines DEF Post
  <2>2. ASSUME NEW r \in queue, StartTurn(r) PROVE Offers!Next
    BY <2>2, StartTurnRefines
  <2>3. ASSUME NEW t \in Tokens, NEW action \in Actions, NEW fp \in Fingerprints,
               Validate(t, action, fp)
        PROVE  UNCHANGED Offers!vars
    BY <2>3, ValidateRefines
  <2>4. ASSUME NEW t \in Tokens, NEW action \in Actions, NEW fp \in Fingerprints,
               NEW r \in running, RequestToken(r, t, action, fp)
        PROVE  Offers!Next
    BY <2>4, RequestTokenRefines
  <2>5. ASSUME NEW c \in calls, NEW r \in running, PerformCall(r, c) PROVE Offers!Next
    BY <2>5, PerformCallRefines
  <2>6. ASSUME NEW c \in calls, RefuseCall(c) PROVE Offers!Next
    BY <2>6, LossRefines DEF RefuseCall
  <2>7. ASSUME NEW r \in running, Reply(r) PROVE Offers!Next
    BY <2>7, LossRefines DEF Reply, EndTurn
  <2>8. CASE Raise
    BY <2>8, LossRefines DEF Raise, EndTurn
  <2>9. CASE Tick
    BY <2>9, StutterRefines DEF Tick
  <2>10. CASE Crash
    BY <2>10, LossRefines DEF Crash
  <2>11. CASE UNCHANGED vars
    BY <2>11, StutterRefines DEF vars
  <2>12. QED
    BY <2>1, <2>2, <2>3, <2>4, <2>5, <2>6, <2>7, <2>8, <2>9, <2>10, <2>11 DEF Next
<1>3. QED
  BY <1>1, <1>2, GateInvariantHolds, PTL DEF Spec, ImplementsConsent, Offers!Spec
=============================================================================
