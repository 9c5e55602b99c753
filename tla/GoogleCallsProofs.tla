-------------------------- MODULE GoogleCallsProofs --------------------------
(***************************************************************************)
(* Theorems about the turns on the Google provider beside the logins, for  *)
(* any users, logins, attempts, pages and times.                           *)
(***************************************************************************)
EXTENDS GoogleCalls, WebLoginProofs

Labels == InCall \cup {"idle", "waiting", "done"}

(* The stored token belongs to the account of its user.                    *)
LEMMA StoredToken ==
  ASSUME CallInvariant, NEW u \in Requests, tokens[u] # None
  PROVE  /\ tokens[u] \in Token /\ tokens[u].grant \in Logins
         /\ grant[tokens[u].grant] \in {"alive", "revoked"}
         /\ users[u] # None /\ account[tokens[u].grant] = users[u]
BY CoherentNow, SeenFields, TableTypes DEF CallInvariant, LoginInvariant, Coherent, Token

(* What the tables say of themselves says what is stored for a user.       *)
LEMMA StoredNow == LoginInvariant => NewestGrantStored /\ StoredForOwnAccount
<1> SUFFICES ASSUME LoginInvariant PROVE NewestGrantStored /\ StoredForOwnAccount
  OBVIOUS
<1>1. Coherent(Seen, req, grant, account)
  BY CoherentNow DEF LoginInvariant
<1>2. \A u \in Requests : newest[u] # None =>
          (newest[u].fate \notin {"raced", "undone"} <=> newest[u].fate = "kept")
  BY TableTypes DEF LoginInvariant, Grant
<1>3. NewestGrantStored
  BY <1>1, <1>2, SeenFields DEF Coherent, NewestGrantStored
<1>4. \A s \in Requests : session[s] # None /\ req[s].login # None =>
          users[session[s].user] = account[req[s].login]
  BY <1>1, SeenFields DEF Coherent
<1>5. StoredForOwnAccount
  BY <1>1, <1>4, SeenFields DEF Coherent, StoredForOwnAccount
<1>6. QED
  BY <1>3, <1>5

LEMMA StoredThen == LoginInvariant' => NewestGrantStored' /\ StoredForOwnAccount'
BY StoredNow, PTL

LEMMA SizesOfCalls ==
  ASSUME NEW k, NEW n \in Sizes(k)
  PROVE  n \in 1..Longest /\ n \in Nat
BY CallsAssumption DEF Sizes, Longest

(* The variables of the turn as TypeOK has them.                           *)
LEMMA CallTypes ==
  ASSUME CallInvariant
  PROVE  /\ pc \in Labels /\ caller \in Requests \cup {None} /\ kind \in Methods \cup {"read"}
         /\ left \in Nat /\ attempt \in 0..MaxAttempts - 1 /\ attempt \in Nat
         /\ resent \in BOOLEAN /\ token \in Token \cup {None} /\ asked \in 0..MaxTime
         /\ landed \in Nat /\ ambiguous \in BOOLEAN /\ result \in Errors \cup {"none", "ok"}
         /\ clock \in 0..MaxTime /\ clock \in Nat
         /\ MaxAttempts \in Nat \ {0}
BY CallsAssumption, TimesAssumption DEF CallInvariant, TypeOK, Labels, LoginTypeOK

-----------------------------------------------------------------------------
LEMMA CallInitInvariant == Init => CallInvariant
<1> SUFFICES ASSUME Init PROVE CallInvariant
  OBVIOUS
<1>1. LoginInvariant
  BY LoginInitInvariant DEF Init
<1>2. TypeOK
  <2>1. 0 \in 0..MaxAttempts - 1 /\ 0 \in 0..MaxAttempts /\ 0 \in 0..MaxTime
    BY CallsAssumption, TimesAssumption
  <2>2. QED
    BY <1>1, <2>1 DEF Init, CallInit, LoginInvariant, TypeOK
<1>3. CallUnderWay /\ TokenAtHand
  BY DEF Init, CallInit, CallUnderWay, TokenAtHand, InCall
<1>4. ActsForOwnAccount
  BY <1>1, StoredNow DEF Init, CallInit, ActsForOwnAccount
<1>5. NewestGrantStored
  BY <1>1, StoredNow
<1>6. QED
  BY <1>1, <1>2, <1>3, <1>4, <1>5 DEF CallInvariant

LEMMA WithinAttempts ==
  ASSUME NEW m \in Nat, NEW a \in 0..m - 1, NEW n \in Nat, n <= a + 1
  PROVE  n \in 0..m
OBVIOUS

(* The steps of a turn, which leave the logins and the tables alone.       *)
LEMMA CallStep ==
  ASSUME CallInvariant, UNCHANGED loginVars,
         pc' \in Labels, caller' \in Requests \cup {None}, kind' \in Methods \cup {"read"},
         left' \in Nat, attempt' \in 0..MaxAttempts - 1, resent' \in BOOLEAN,
         token' \in Token \cup {None}, asked' \in 0..MaxTime, landed' \in Nat,
         ambiguous' \in BOOLEAN, result' \in Errors \cup {"none", "ok"},
         CallUnderWay', TokenAtHand',
         pc' \in {"refresh", "save", "send"} =>
             users[caller'] # None /\ account[token'.grant] = users[caller']
  PROVE  CallInvariant'
<1>1. LoginInvariant'
  BY LoginsStay DEF CallInvariant
<1>2. landed' <= attempt' + 1
  BY DEF CallUnderWay
<1>3. landed' \in 0..MaxAttempts
  BY <1>2, CallsAssumption, WithinAttempts
<1>4. TypeOK'
  BY <1>1, <1>3 DEF CallInvariant, TypeOK, LoginInvariant, Labels
<1>5. ActsForOwnAccount'
  BY <1>1, StoredThen DEF ActsForOwnAccount, loginVars, google, tables
<1>6. NewestGrantStored'
  BY <1>1, StoredThen
<1>7. QED
  BY <1>1, <1>4, <1>5, <1>6 DEF CallInvariant

LEMMA ChatInvariant ==
  ASSUME CallInvariant, NEW s \in Requests, Chat(s)
  PROVE  CallInvariant'
<1>1. /\ pc = "idle" /\ session[s] # None /\ pc' = "waiting" /\ caller' = session[s].user
      /\ UNCHANGED <<loginVars, workVars>>
  BY DEF Chat, Live
<1>2. caller' \in Requests /\ caller' # None
  BY <1>1, NoneAssumption, TableTypes DEF CallInvariant, LoginInvariant, Session
<1>3. UNCHANGED <<kind, attempt, left, resent, token, asked, landed, ambiguous, result>>
  BY <1>1 DEF workVars, attemptVars, effectVars
<1>4. CallUnderWay' /\ TokenAtHand'
  BY <1>1, <1>2, <1>3 DEF CallInvariant, CallUnderWay, TokenAtHand, InCall
<1>5. QED
  BY <1>1, <1>2, <1>3, <1>4, CallTypes, CallStep DEF Labels

LEMMA StartTurnInvariant ==
  ASSUME CallInvariant, StartTurn
  PROVE  CallInvariant'
<1>1. /\ pc = "waiting" /\ pc' = "token" /\ kind' \in Methods /\ left' \in Sizes(kind')
      /\ UNCHANGED <<loginVars, caller, attempt, resent, token, asked, landed, ambiguous, result>>
  BY DEF StartTurn, effectVars
<1>2. left' \in 1..Longest /\ left' \in Nat
  BY <1>1, SizesOfCalls
<1>3. CallUnderWay' /\ TokenAtHand'
  BY <1>1, <1>2 DEF CallInvariant, CallUnderWay, TokenAtHand, InCall
<1>4. QED
  BY <1>1, <1>2, <1>3, CallTypes, CallStep DEF Labels, InCall

(* Nothing of a turn is left when it is over or the process has died.      *)
LEMMA ResetFacts ==
  ASSUME CallInvariant, Reset
  PROVE  CallUnderWay' /\ TokenAtHand'
         /\ pc' \in Labels /\ caller' \in Requests \cup {None} /\ kind' \in Methods \cup {"read"}
         /\ left' \in Nat /\ attempt' \in 0..MaxAttempts - 1 /\ resent' \in BOOLEAN
         /\ token' \in Token \cup {None} /\ asked' \in 0..MaxTime /\ landed' \in Nat
         /\ ambiguous' \in BOOLEAN /\ result' \in Errors \cup {"none", "ok"} /\ pc' = "idle"
<1>1. 0 \in 0..MaxAttempts - 1 /\ 0 \in 0..MaxTime
  BY CallsAssumption, TimesAssumption
<1>2. CallUnderWay' /\ TokenAtHand'
  BY DEF Reset, CallUnderWay, TokenAtHand, InCall
<1>3. QED
  BY <1>1, <1>2 DEF Reset, Labels

LEMMA EndTurnInvariant ==
  ASSUME CallInvariant, EndTurn
  PROVE  CallInvariant'
BY ResetFacts, CallStep DEF EndTurn

-----------------------------------------------------------------------------
(* What one request may have done to the calendar.                         *)
Effect ==
    /\ landed' \in {landed, landed + 1}
    /\ ambiguous' \in BOOLEAN

(* An attempt is over: the next one begins with nothing landed twice.      *)
LEMMA AttemptEndsInvariant ==
  ASSUME CallInvariant, pc \in InCall, NEW e \in Errors, AttemptEnds(e),
         UNCHANGED <<loginVars, caller, kind>>, Effect
  PROVE  CallInvariant'
<1>1. /\ caller # None /\ result = "none" /\ landed <= attempt
  BY DEF CallInvariant, CallUnderWay, InCall
<1>2. CASE e \in Retryable /\ attempt < MaxAttempts - 1
  <2>1. /\ pc' = "token" /\ attempt' = attempt + 1 /\ left' \in Sizes(kind) /\ resent' = FALSE
        /\ token' = None /\ asked' = 0 /\ result' = result
    BY <1>2 DEF AttemptEnds
  <2>2. left' \in 1..Longest /\ left' \in Nat
    BY <2>1, SizesOfCalls
  <2>3. attempt' \in 0..MaxAttempts - 1 /\ landed' \in Nat /\ landed' <= attempt'
    BY <1>1, <1>2, <2>1, CallTypes DEF Effect
  <2>4. CallUnderWay' /\ TokenAtHand'
    BY <1>1, <2>1, <2>2, <2>3 DEF CallUnderWay, TokenAtHand, InCall
  <2>5. /\ pc' \in Labels /\ caller' \in Requests \cup {None} /\ kind' \in Methods \cup {"read"}
        /\ resent' \in BOOLEAN /\ token' \in Token \cup {None} /\ asked' \in 0..MaxTime
        /\ ambiguous' \in BOOLEAN /\ result' \in Errors \cup {"none", "ok"}
        /\ pc' \notin {"refresh", "save", "send"}
    <3>1. caller \in Requests \cup {None} /\ kind \in Methods \cup {"read"}
          /\ result \in Errors \cup {"none", "ok"} /\ 0 \in 0..MaxTime
      BY CallTypes, TimesAssumption
    <3>2. pc' \in Labels /\ pc' \notin {"refresh", "save", "send"}
      BY <2>1 DEF Labels, InCall
    <3>3. resent' \in BOOLEAN /\ ambiguous' \in BOOLEAN
      BY <2>1 DEF Effect
    <3>4. QED
      BY <2>1, <3>1, <3>2, <3>3
  <2>6. QED
    BY <2>2, <2>3, <2>4, <2>5, CallStep
<1>3. CASE ~(e \in Retryable /\ attempt < MaxAttempts - 1)
  <2>1. /\ pc' = "done" /\ result' = e /\ left' = 1 /\ resent' = FALSE /\ token' = None /\ asked' = 0
        /\ attempt' = attempt
    BY <1>3 DEF AttemptEnds, Return
  <2>2. landed' \in Nat /\ landed' <= attempt' + 1
    BY <1>1, <2>1, CallTypes DEF Effect
  <2>3. CallUnderWay' /\ TokenAtHand'
    BY <1>1, <2>1, <2>2 DEF CallUnderWay, TokenAtHand, InCall
  <2>4. /\ pc' \in Labels /\ caller' \in Requests \cup {None} /\ kind' \in Methods \cup {"read"}
        /\ resent' \in BOOLEAN /\ token' \in Token \cup {None} /\ asked' \in 0..MaxTime
        /\ ambiguous' \in BOOLEAN /\ result' \in Errors \cup {"none", "ok"}
        /\ pc' \notin {"refresh", "save", "send"} /\ left' \in Nat
        /\ attempt' \in 0..MaxAttempts - 1
    <3>1. caller \in Requests \cup {None} /\ kind \in Methods \cup {"read"}
          /\ 0 \in 0..MaxTime /\ attempt \in 0..MaxAttempts - 1
      BY CallTypes, TimesAssumption
    <3>2. pc' \in Labels /\ pc' \notin {"refresh", "save", "send"}
      BY <2>1 DEF Labels
    <3>3. resent' \in BOOLEAN /\ ambiguous' \in BOOLEAN
      BY <2>1 DEF Effect
    <3>4. QED
      BY <2>1, <3>1, <3>2, <3>3
  <2>5. QED
    BY <2>2, <2>3, <2>4, CallStep
<1>4. QED
  BY <1>2, <1>3

LEMMA RefreshWithInvariant ==
  ASSUME CallInvariant, pc \in {"token", "send"}, NEW again \in BOOLEAN,
         RefreshWith(tokens[caller], again),
         UNCHANGED <<loginVars, caller, kind, effectVars>>
  PROVE  CallInvariant'
<1>1. pc \in InCall /\ landed' = landed /\ ambiguous' = ambiguous
  BY DEF InCall, effectVars
<1>2. CASE tokens[caller] = None \/ ~tokens[caller].refresh
  <2>1. AttemptEnds("AuthError") /\ "AuthError" \in Errors
    BY <1>2 DEF RefreshWith, Errors
  <2>2. Effect
    BY <1>1, CallTypes DEF Effect
  <2>3. QED
    BY <1>1, <2>1, <2>2, AttemptEndsInvariant
<1>3. CASE ~(tokens[caller] = None \/ ~tokens[caller].refresh)
  <2>1. /\ pc' = "refresh" /\ token' = tokens[caller] /\ asked' = 0 /\ resent' = again
        /\ UNCHANGED <<attempt, left, result>>
    BY <1>3 DEF RefreshWith
  <2>2. caller \in Requests /\ tokens[caller] # None
    BY <1>1, <1>3, CallTypes DEF CallInvariant, CallUnderWay, InCall
  <2>3. /\ tokens[caller] \in Token /\ grant[tokens[caller].grant] \in {"alive", "revoked"}
        /\ users[caller] # None /\ account[tokens[caller].grant] = users[caller]
    BY <2>2, StoredToken
  <2>4. CallUnderWay'
    BY <1>1, <2>1 DEF CallInvariant, CallUnderWay, InCall
  <2>5. TokenAtHand'
    BY <2>1, <2>2, <2>3 DEF TokenAtHand, loginVars, tables, google
  <2>6. QED
    BY <1>1, <2>1, <2>2, <2>3, <2>4, <2>5, CallTypes, TimesAssumption, CallStep DEF Labels, InCall
<1>4. QED
  BY <1>2, <1>3

LEMMA GetTokenInvariant ==
  ASSUME CallInvariant, GetToken
  PROVE  CallInvariant'
<1> DEFINE t == tokens[caller]
<1>1. /\ pc = "token" /\ UNCHANGED <<loginVars, caller, kind, landed, ambiguous>>
  BY DEF GetToken, effectVars
<1>2. CASE t # None /\ ~NeedsRefresh(t)
  <2>1. /\ pc' = "send" /\ token' = t /\ asked' = clock
        /\ UNCHANGED <<attempt, left, resent, result>>
    BY <1>2 DEF GetToken, attemptVars
  <2>2. caller \in Requests
    BY <1>1, CallTypes DEF CallInvariant, CallUnderWay
  <2>3. /\ t \in Token /\ grant[t.grant] \in {"alive", "revoked"}
        /\ users[caller] # None /\ account[t.grant] = users[caller]
    BY <1>2, <2>2, StoredToken
  <2>4. CallUnderWay'
    BY <1>1, <2>1 DEF CallInvariant, CallUnderWay, InCall
  <2>5. clock \in Nat /\ clock <= clock + Skew /\ clock + Skew < t.expires
    BY <1>2, <2>3, CallTypes, SkewAssumption DEF NeedsRefresh, Token
  <2>6. TokenAtHand'
    BY <1>1, <1>2, <2>1, <2>3, <2>5 DEF TokenAtHand, loginVars, google
  <2>7. UNCHANGED loginVars /\ pc' \in Labels
    BY <1>1, <2>1 DEF Labels, InCall
  <2> HIDE DEF t
  <2>8. users[caller'] # None /\ account[token'.grant] = users[caller']
    BY <1>1, <2>1, <2>3
  <2>9. QED
    BY <1>1, <2>1, <2>3, <2>4, <2>6, <2>7, <2>8, CallTypes, CallStep
<1>3. CASE ~(t # None /\ ~NeedsRefresh(t))
  BY <1>1, <1>3, RefreshWithInvariant DEF GetToken, effectVars
<1>4. QED
  BY <1>2, <1>3

(* A refreshed token is of the same grant and outlasts the skew.           *)
LEMMA RefreshInvariant ==
  ASSUME CallInvariant, Refresh
  PROVE  CallInvariant'
<1>1. /\ pc = "refresh" /\ pc \in InCall
      /\ UNCHANGED <<loginVars, caller, kind, landed, ambiguous>>
  BY DEF Refresh, effectVars, InCall
<1>2. CASE \E e \in {"ServerError", "MalformedResponseError", "AuthError"} : AttemptEnds(e)
  BY <1>1, <1>2, CallTypes, AttemptEndsInvariant DEF Errors, Retryable, Effect
<1>3. CASE /\ pc' = "save" /\ token' = [token EXCEPT !.expires = clock + TokenLife] /\ asked' = clock
           /\ UNCHANGED <<attempt, left, resent, result>>
  <2>1. /\ token \in Token /\ grant[token.grant] \in {"alive", "revoked"} /\ caller \in Requests
        /\ users[caller] # None /\ account[token.grant] = users[caller]
    BY <1>1, CallTypes DEF CallInvariant, TokenAtHand, ActsForOwnAccount, CallUnderWay
  <2>2. clock \in Nat /\ clock <= clock + Skew /\ clock + Skew < clock + TokenLife
        /\ clock + TokenLife \in Nat
    BY CallTypes, SkewAssumption, TimesAssumption
  <2>3. /\ token' \in Token /\ token'.grant = token.grant /\ token'.refresh = token.refresh
        /\ token'.expires = clock + TokenLife
    BY <1>3, <2>1, <2>2 DEF Token
  <2>4. CallUnderWay'
    BY <1>1, <1>3 DEF CallInvariant, CallUnderWay, InCall
  <2>5. token' # None
    BY <2>3, NoRecordAssumption
  <2>6. TokenAtHand'
    BY <1>1, <1>3, <2>1, <2>2, <2>3, <2>5
       DEF CallInvariant, TokenAtHand, loginVars, google, tables
  <2>7. UNCHANGED loginVars /\ pc' \in Labels
    BY <1>1, <1>3 DEF Labels, InCall
  <2>8. users[caller'] # None /\ account[token'.grant] = users[caller']
    BY <1>1, <2>1, <2>3
  <2>9. asked' \in 0..MaxTime
    BY <1>3, CallTypes
  <2>10. QED
    BY <1>1, <1>3, <2>3, <2>4, <2>6, <2>7, <2>8, <2>9, CallTypes, CallStep
<1>4. QED
  BY <1>2, <1>3 DEF Refresh, attemptVars

(* The refreshed token goes over the row of its user: it is of the grant   *)
(* that is stored there, unless a callback saved another meanwhile.        *)
LEMMA SaveRefreshedInvariant ==
  ASSUME CallInvariant, SaveRefreshed
  PROVE  CallInvariant'
<1>1. /\ pc = "save" /\ pc' = "send" /\ tokens' = [tokens EXCEPT ![caller] = token]
      /\ disk' = [Seen EXCEPT !.tokens = tokens']
      /\ UNCHANGED <<clock, mode, users, session, newest, returned, google, cookie, req>>
      /\ UNCHANGED <<caller, kind, attempt, left, resent, token, asked, landed, ambiguous, result>>
  BY DEF SaveRefreshed, callVars, workVars, attemptVars, effectVars
<1>2. /\ token \in Token /\ grant[token.grant] \in {"alive", "revoked"} /\ caller \in Requests
      /\ users[caller] # None /\ account[token.grant] = users[caller] /\ tokens[caller] # None
  BY <1>1, CallTypes DEF CallInvariant, TokenAtHand, ActsForOwnAccount, CallUnderWay
<1>3. LoginInvariant' /\ LoginTypeOK'
  <2>1. disk' = Seen'
    BY <1>1 DEF Seen
  <2>2. newest[caller].fate = "kept" =>
            token.grant = tokens[caller].grant /\ token.refresh = tokens[caller].refresh
    BY <1>1 DEF CallInvariant, TokenAtHand
  <2>3. LoginInvariant'
    BY <1>1, <1>2, <2>1, <2>2, RefreshedTokenKeeps DEF CallInvariant
  <2>4. QED
    BY <2>3 DEF LoginInvariant
<1>4. TypeOK'
  BY <1>1, <1>3 DEF CallInvariant, TypeOK, InCall
<1>5. CallUnderWay' /\ TokenAtHand'
  BY <1>1 DEF CallInvariant, CallUnderWay, TokenAtHand, InCall, google
<1>6. ActsForOwnAccount'
  BY <1>1, <1>2, <1>3, StoredThen DEF ActsForOwnAccount, google
<1>7. NewestGrantStored'
  BY <1>3, StoredThen
<1>8. QED
  BY <1>3, <1>4, <1>5, <1>6, <1>7 DEF CallInvariant

-----------------------------------------------------------------------------
(* The answers of the Calendar API.                                        *)
LEMMA UnseenIsEffect ==
  ASSUME CallInvariant, LandsUnseen \/ UNCHANGED effectVars
  PROVE  Effect
BY CallTypes DEF LandsUnseen, Effect, effectVars

LEMMA ErrorsOfStatus ==
  ASSUME NEW status \in {400, 403, 404, 410, 429, 500}, NEW quota \in BOOLEAN
  PROVE  ErrorOf(status, quota) \in Errors
BY DEF ErrorOf, Errors, Retryable

LEMMA TransportFailsInvariant ==
  ASSUME CallInvariant, TransportFails
  PROVE  CallInvariant'
<1>1. pc \in InCall /\ "ServerError" \in Errors /\ Effect
  BY UnseenIsEffect DEF TransportFails, InCall, Errors, Retryable
<1>2. QED
  BY <1>1, AttemptEndsInvariant DEF TransportFails, Elsewhere

LEMMA UnauthorizedInvariant ==
  ASSUME CallInvariant, Unauthorized
  PROVE  CallInvariant'
<1>1. pc = "send" /\ pc \in InCall /\ "AuthError" \in Errors /\ Effect
      /\ UNCHANGED <<loginVars, caller, kind, effectVars>>
  BY UnseenIsEffect DEF Unauthorized, InCall, Errors, Elsewhere
<1>2. QED
  BY <1>1, AttemptEndsInvariant, RefreshWithInvariant DEF Unauthorized

LEMMA RefusedInvariant ==
  ASSUME CallInvariant, NEW status \in {400, 403, 404, 410, 429, 500}, NEW quota \in BOOLEAN,
         Refused(status, quota)
  PROVE  CallInvariant'
<1>1. pc \in InCall /\ Effect /\ AttemptEnds(ErrorOf(status, quota))
      /\ UNCHANGED <<loginVars, caller, kind>>
  BY UnseenIsEffect DEF Refused, InCall, Elsewhere
<1>2. QED
  BY <1>1, ErrorsOfStatus, AttemptEndsInvariant

LEMMA BodyRefusedInvariant ==
  ASSUME CallInvariant, BodyRefused
  PROVE  CallInvariant'
<1>1. pc \in InCall /\ UNCHANGED <<loginVars, caller, kind>>
  BY DEF BodyRefused, InCall, Elsewhere
<1>2. Effect
  BY CallTypes DEF BodyRefused, Effect, effectVars
<1>3. \E e \in {"MalformedResponseError", "NotFoundError", "ProviderError", "ValueError"} : AttemptEnds(e)
  BY DEF BodyRefused
<1>4. PICK e \in Errors : AttemptEnds(e)
  BY <1>3 DEF Errors
<1>5. QED
  BY <1>1, <1>2, <1>4, AttemptEndsInvariant

LEMMA AnsweredInvariant ==
  ASSUME CallInvariant, Answered
  PROVE  CallInvariant'
<1>1. /\ pc = "send" /\ ambiguous' = ambiguous /\ UNCHANGED <<loginVars, caller, kind>>
  BY DEF Answered, Elsewhere
<1>2. caller # None /\ result = "none" /\ landed <= attempt /\ left \in 1..Longest
  BY <1>1 DEF CallInvariant, CallUnderWay, InCall
<1>3. CASE left > 1
  <2>1. /\ pc' = "token" /\ left' = left - 1 /\ resent' = FALSE /\ token' = None /\ asked' = 0
        /\ UNCHANGED <<attempt, result, landed>>
    BY <1>3 DEF Answered
  <2>2. left' \in 1..Longest /\ left' \in Nat
    BY <1>2, <1>3, <2>1, CallTypes, CallsAssumption DEF Longest
  <2>3. pc' \in Labels /\ pc' \in InCall /\ pc' \notin {"refresh", "save", "send"} /\ resent' \in BOOLEAN
    BY <2>1 DEF Labels, InCall
  <2>4. CallUnderWay'
    <3>1. landed' <= attempt' /\ landed' <= attempt' + 1
      BY <1>2, <2>1, CallTypes
    <3>2. QED
      BY <1>1, <1>2, <2>1, <2>2, <2>3, <3>1 DEF CallUnderWay
  <2>5. TokenAtHand'
    BY <2>3 DEF TokenAtHand
  <2>6. asked' \in 0..MaxTime
    BY <2>1, TimesAssumption
  <2>7. QED
    BY <1>1, <2>1, <2>2, <2>3, <2>4, <2>5, <2>6, CallTypes, CallStep
<1>4. CASE ~(left > 1)
  <2>1. /\ pc' = "done" /\ result' = "ok" /\ left' = 1 /\ resent' = FALSE /\ token' = None
        /\ asked' = 0 /\ attempt' = attempt /\ landed' \in {landed, landed + 1}
    BY <1>4 DEF Answered, Return
  <2>2. landed' \in Nat /\ landed' <= attempt' + 1
    BY <1>2, <2>1, CallTypes
  <2>3. CallUnderWay' /\ TokenAtHand'
    BY <1>1, <1>2, <2>1, <2>2 DEF CallUnderWay, TokenAtHand, InCall
  <2>4. pc' \in Labels /\ pc' \notin {"refresh", "save", "send"} /\ resent' \in BOOLEAN
    BY <2>1 DEF Labels
  <2>5. asked' \in 0..MaxTime /\ left' \in Nat
    BY <2>1, TimesAssumption
  <2>6. QED
    BY <1>1, <2>1, <2>2, <2>3, <2>4, <2>5, CallTypes, CallStep
<1>5. QED
  BY <1>3, <1>4

LEMMA TurnInvariant ==
  ASSUME CallInvariant, Turn
  PROVE  CallInvariant'
BY StartTurnInvariant, GetTokenInvariant, RefreshInvariant, SaveRefreshedInvariant,
   TransportFailsInvariant, UnauthorizedInvariant, BodyRefusedInvariant, AnsweredInvariant,
   RefusedInvariant DEF Turn

-----------------------------------------------------------------------------
(* The steps beside a turn, which leave its variables alone.               *)
LEMMA BesideStep ==
  ASSUME CallInvariant, LoginInvariant', UNCHANGED <<pc, callVars>>, TokenAtHand',
         pc \in {"refresh", "save", "send"} => Kept
  PROVE  CallInvariant'
<1>1. UNCHANGED <<pc, caller, kind, attempt, left, resent, token, asked, landed, ambiguous, result>>
  BY DEF callVars, workVars, attemptVars, effectVars
<1>2. TypeOK'
  BY <1>1 DEF CallInvariant, TypeOK, LoginInvariant
<1>3. CallUnderWay'
  BY <1>1 DEF CallInvariant, CallUnderWay
<1>4. ActsForOwnAccount'
  <2>1. SUFFICES ASSUME pc \in {"refresh", "save", "send"}
                 PROVE  users'[caller] # None /\ account'[token.grant] = users'[caller]
    BY <1>1, StoredThen DEF ActsForOwnAccount
  <2>2. /\ caller \in Requests /\ token.grant \in Logins /\ grant[token.grant] # "none"
        /\ users[caller] # None /\ account[token.grant] = users[caller]
    BY <2>1, CallTypes DEF CallInvariant, CallUnderWay, TokenAtHand, ActsForOwnAccount, Token
  <2>3. QED
    BY <2>1, <2>2 DEF Kept, GrantsKept, UsersKept
<1>5. QED
  BY <1>2, <1>3, <1>4, StoredThen DEF CallInvariant

LEMMA LoginStepInvariant ==
  ASSUME CallInvariant, LoginStep, UNCHANGED <<pc, callVars>>
  PROVE  CallInvariant'
<1>1. LoginInvariant' /\ Kept /\ UNCHANGED <<clock, tokens, newest>>
  BY LoginStepKeeps, LoginStepSpares DEF CallInvariant
<1>2. UNCHANGED <<pc, caller, token, asked>>
  BY DEF callVars, workVars
<1>3. TokenAtHand'
  <2>1. token \in Token => token.grant \in Logins
    BY DEF Token
  <2>2. QED
    BY <1>1, <1>2, <2>1, CallTypes DEF CallInvariant, TokenAtHand, Kept, GrantsKept
<1>4. QED
  BY <1>1, <1>3, BesideStep

(* A grant saved between the read of the row and the write of the refreshed *)
(* token is marked as raced.                                               *)
LEMMA SaveGrantBesideInvariant ==
  ASSUME CallInvariant, NEW r \in Requests, SaveGrantBeside(r)
  PROVE  CallInvariant'
<1> DEFINE u == req[r].user
           t == req[r].token
           fate == IF pc \in {"refresh", "save"} /\ caller = u THEN "raced" ELSE "kept"
           g == [grant |-> t.grant, refresh |-> t.refresh, fate |-> fate]
<1>1. /\ LoginInvariant' /\ Kept /\ UNCHANGED <<clock, google>>
      /\ \/ UNCHANGED <<tokens, newest>>
         \/ /\ u \in Requests /\ t \in Token /\ tokens' = [tokens EXCEPT ![u] = t]
            /\ newest' = [newest EXCEPT ![u] = g]
  <2>1. SaveGrant(r, fate) /\ fate \in {"kept", "raced"}
    BY DEF SaveGrantBeside
  <2> HIDE DEF fate
  <2>2. QED
    BY <2>1, SaveGrantKeeps DEF CallInvariant
<1>2. UNCHANGED <<pc, caller, token, asked>> /\ UNCHANGED <<pc, callVars>>
  BY DEF SaveGrantBeside, callVars, workVars
<1>3. g.fate = fate
  OBVIOUS
<1>4. tokens \in [Requests -> Token \cup {None}] /\ newest \in [Requests -> Grant \cup {None}]
  BY TableTypes DEF CallInvariant, LoginInvariant
<1> HIDE DEF u, t, g
<1>5. pc \in {"refresh", "save"} => caller \in Requests
  BY CallTypes DEF CallInvariant, CallUnderWay
<1>6. pc \in {"refresh", "save"} =>
          /\ tokens'[caller] # None
          /\ newest'[caller].fate \notin {"raced", "undone"} =>
                 /\ token.grant = tokens'[caller].grant
                 /\ token.refresh = tokens'[caller].refresh
  <2>1. SUFFICES ASSUME pc \in {"refresh", "save"}
                 PROVE  /\ tokens'[caller] # None
                        /\ newest'[caller].fate \notin {"raced", "undone"} =>
                               /\ token.grant = tokens'[caller].grant
                               /\ token.refresh = tokens'[caller].refresh
    OBVIOUS
  <2>2. /\ tokens[caller] # None
        /\ newest[caller].fate \notin {"raced", "undone"} =>
               token.grant = tokens[caller].grant /\ token.refresh = tokens[caller].refresh
    BY <2>1 DEF CallInvariant, TokenAtHand
  <2>3. CASE UNCHANGED <<tokens, newest>>
    BY <2>2, <2>3
  <2>4. CASE /\ u \in Requests /\ t \in Token /\ tokens' = [tokens EXCEPT ![u] = t]
             /\ newest' = [newest EXCEPT ![u] = g]
    <3>1. CASE caller = u
      <4>1. tokens'[caller] = t /\ newest'[caller] = g /\ fate = "raced"
        BY <1>4, <2>1, <2>4, <3>1
      <4>2. QED
        BY <1>3, <2>4, <4>1, NoRecordAssumption
    <3>2. CASE caller # u
      BY <1>4, <1>5, <2>1, <2>2, <2>4, <3>2
    <3>3. QED
      BY <3>1, <3>2
  <2>5. QED
    BY <1>1, <2>3, <2>4
<1>7. TokenAtHand'
  BY <1>1, <1>2, <1>6 DEF CallInvariant, TokenAtHand, google
<1>8. QED
  BY <1>1, <1>2, <1>7, BesideStep

(* Another turn has the lock: this one has no token in hand.               *)
LEMMA OtherTurnInvariant ==
  ASSUME CallInvariant, OtherTurn
  PROVE  CallInvariant'
<1>1. LoginInvariant' /\ pc \in {"idle", "waiting"} /\ UNCHANGED <<pc, callVars>>
  BY UpsertFailsKeeps, TurnCommitsKeeps DEF CallInvariant, OtherTurn
<1>2. TokenAtHand'
  BY <1>1 DEF TokenAtHand
<1>3. QED
  BY <1>1, <1>2, BesideStep

(* The clock waits for the request that is on its way.                     *)
LEMMA TimeInvariant ==
  ASSUME CallInvariant, Time
  PROVE  CallInvariant'
<1>1. /\ LoginInvariant' /\ Kept /\ clock' = clock + 1 /\ UNCHANGED <<tokens, newest, grant>>
      /\ UNCHANGED <<pc, caller, token, asked>> /\ UNCHANGED <<pc, callVars>>
      /\ pc \in {"save", "send"} => clock < asked + Skew
  BY TickKeeps DEF CallInvariant, Time, tables, google, callVars, workVars
<1>2. clock \in Nat /\ asked \in Nat /\ Skew \in Nat
  BY CallTypes, SkewAssumption, TimesAssumption
<1>3. TokenAtHand'
  BY <1>1, <1>2 DEF CallInvariant, TokenAtHand
<1>4. QED
  BY <1>1, <1>3, BesideStep

LEMMA CrashInvariant ==
  ASSUME CallInvariant, Crash
  PROVE  CallInvariant'
<1>1. LoginInvariant'
  BY RestartKeeps DEF CallInvariant, Crash
<1>2. /\ CallUnderWay' /\ TokenAtHand'
      /\ pc' \in Labels /\ caller' \in Requests \cup {None} /\ kind' \in Methods \cup {"read"}
      /\ left' \in Nat /\ attempt' \in 0..MaxAttempts - 1 /\ resent' \in BOOLEAN
      /\ token' \in Token \cup {None} /\ asked' \in 0..MaxTime
      /\ ambiguous' \in BOOLEAN /\ result' \in Errors \cup {"none", "ok"} /\ pc' = "idle"
  BY ResetFacts DEF Crash
<1>3. landed' \in 0..MaxAttempts
  BY CallsAssumption DEF Crash, Reset
<1>4. TypeOK'
  BY <1>1, <1>2, <1>3, CallTypes DEF TypeOK, Labels, LoginInvariant
<1>5. ActsForOwnAccount'
  BY <1>1, <1>2, StoredThen DEF ActsForOwnAccount
<1>6. QED
  BY <1>1, <1>2, <1>4, <1>5, StoredThen DEF CallInvariant

LEMMA NextInvariant == CallInvariant /\ [Next]_vars => CallInvariant'
<1> SUFFICES ASSUME CallInvariant, [Next]_vars
             PROVE  CallInvariant'
  OBVIOUS
<1>1. CASE Turn
  BY <1>1, TurnInvariant
<1>2. CASE EndTurn
  BY <1>2, EndTurnInvariant
<1>3. CASE LoginStep /\ UNCHANGED <<pc, callVars>>
  BY <1>3, LoginStepInvariant
<1>4. CASE \E r \in Requests : SaveGrantBeside(r) \/ Chat(r)
  BY <1>4, SaveGrantBesideInvariant, ChatInvariant
<1>5. CASE Time
  BY <1>5, TimeInvariant
<1>6. CASE Crash
  BY <1>6, CrashInvariant
<1>7. CASE OtherTurn
  BY <1>7, OtherTurnInvariant
<1>8. CASE UNCHANGED vars
  <2>1. LoginInvariant' /\ Kept /\ UNCHANGED <<clock, tokens, newest, grant>>
    BY <1>8, LoginsStay DEF CallInvariant, vars, loginVars, tables, google
  <2>2. UNCHANGED <<pc, caller, token, asked>> /\ UNCHANGED <<pc, callVars>>
    BY <1>8 DEF vars, callVars, workVars
  <2>3. TokenAtHand'
    BY <2>1, <2>2 DEF CallInvariant, TokenAtHand
  <2>4. QED
    BY <2>1, <2>2, <2>3, BesideStep
<1>9. QED
  BY <1>1, <1>2, <1>3, <1>4, <1>5, <1>6, <1>7, <1>8 DEF Next

(* Beside any callbacks, logouts and revocations, a turn has a token of the *)
(* account of its user in hand, and what is stored stays of that account.   *)
THEOREM CallInvariantHolds == Spec => []CallInvariant
<1>1. Init => CallInvariant
  BY CallInitInvariant
<1>2. CallInvariant /\ [Next]_vars => CallInvariant'
  BY NextInvariant
<1>3. QED
  BY <1>1, <1>2, PTL DEF Spec

(* Two first logins with the same email leave one user (_upsert_user).     *)
THEOREM EmailsHaveOneUser == Spec => []OneUserPerEmail
<1>1. CallInvariant => OneUserPerEmail
  BY CoherentNow, SeenFields DEF CallInvariant, LoginInvariant, Coherent, OneUserPerEmail
<1>2. QED
  BY <1>1, CallInvariantHolds, PTL

(* No turn acts with a token, and no user has a row or a session, that      *)
(* another account granted (_load, save_oauth_token).                       *)
THEOREM TurnsActForOwnAccount == Spec => []ActsForOwnAccount
<1>1. CallInvariant => ActsForOwnAccount
  BY DEF CallInvariant
<1>2. QED
  BY <1>1, CallInvariantHolds, PTL

(* What is stored is of the newest grant of its user, unless it was saved   *)
(* while a turn refreshed the one before (_refresh_and_save), or a failing  *)
(* upsert of another thread undid it before its commit (save_oauth_token).  *)
THEOREM NewestGrantsAreStored == Spec => []NewestGrantStored
<1>1. CallInvariant => NewestGrantStored
  BY DEF CallInvariant
<1>2. QED
  BY <1>1, CallInvariantHolds, PTL

LEMMA SentInTime == CallInvariant => SentBeforeExpiry
<1>1. SUFFICES ASSUME CallInvariant, pc = "send"
               PROVE  clock < token.expires
  BY DEF SentBeforeExpiry
<1>2. token \in Token /\ clock <= asked + Skew /\ asked + Skew < token.expires
  BY <1>1, CallTypes DEF CallInvariant, TokenAtHand
<1>3. token.expires \in Nat
  BY <1>2 DEF Token
<1>4. clock \in Nat /\ asked \in Nat /\ Skew \in Nat
  BY <1>1, CallTypes, SkewAssumption, TimesAssumption
<1>5. QED
  BY <1>2, <1>3, <1>4

(* No request is sent with a token that has expired (_EXPIRY_SKEW).         *)
THEOREM RequestsAreSentBeforeExpiry == Spec => []SentBeforeExpiry
BY CallInvariantHolds, SentInTime, PTL

-----------------------------------------------------------------------------
(* An attempt that ends the call ends it with its error.                   *)
LEMMA ResultOfAttempt ==
  ASSUME NEW e, AttemptEnds(e), pc' = "done"
  PROVE  result' = e
BY DEF AttemptEnds, Return

(* Without a refresh token in the row there is none of the newest grant.   *)
LEMMA NothingToRefresh ==
  ASSUME CallInvariant, caller \in Requests, tokens[caller] = None \/ ~tokens[caller].refresh
  PROVE  newest[caller] = None \/ newest[caller].fate \in {"raced", "undone"} \/ ~newest[caller].refresh
BY DEF CallInvariant, NewestGrantStored

(* Re-authentication is asked for when the newest grant cannot be refreshed *)
(* any more, was raced or undone, or Google refuses what the turn sent      *)
(* (AuthError).                                                             *)
THEOREM ReauthIsAskedForWhenNeeded == Spec => ReauthIsNeeded
<1> DEFINE Needed == \/ newest[caller] = None
                     \/ newest[caller].fate \in {"raced", "undone"}
                     \/ ~newest[caller].refresh
                     \/ grant[newest[caller].grant] = "revoked"
                     \/ pc = "refresh" /\ Granted(token)
                     \/ pc = "send" /\ Good(token)
                     \/ pc = "send" /\ resent /\ ~Granted(token)
           A == pc # "done" /\ pc' = "done" /\ result' = "AuthError" => Needed
<1>1. CallInvariant /\ [Next]_vars => [A]_vars
  <2> SUFFICES ASSUME CallInvariant, Next, pc # "done", pc' = "done", result' = "AuthError"
               PROVE  Needed
    OBVIOUS
  <2>1. CASE GetToken
    <3>1. caller \in Requests /\ RefreshWith(tokens[caller], FALSE)
      BY <2>1, CallTypes DEF GetToken, CallInvariant, CallUnderWay
    <3>2. tokens[caller] = None \/ ~tokens[caller].refresh
      BY <3>1 DEF RefreshWith
    <3>3. QED
      BY <3>1, <3>2, NothingToRefresh
  <2>2. CASE Refresh
    <3>1. pc = "refresh" /\ caller \in Requests /\ token # None
          /\ grant[token.grant] \in {"alive", "revoked"} /\ tokens[caller] # None
      BY <2>2, CallTypes DEF Refresh, CallInvariant, CallUnderWay, TokenAtHand
    <3>2. \/ newest[caller] = None
          \/ newest[caller].fate \in {"raced", "undone"}
          \/ newest[caller].grant = token.grant
      BY <3>1 DEF CallInvariant, TokenAtHand, NewestGrantStored
    <3>3. QED
      BY <3>1, <3>2 DEF Granted
  <2>3. CASE Unauthorized
    <3>1. pc = "send" /\ caller \in Requests
      BY <2>3, CallTypes DEF Unauthorized, CallInvariant, CallUnderWay
    <3>2. CASE resent
      <4>1. clock < token.expires
        BY <3>1, SentInTime DEF SentBeforeExpiry
      <4>2. QED
        BY <3>1, <3>2, <4>1 DEF Good
    <3>3. CASE ~resent
      <4>1. tokens[caller] = None \/ ~tokens[caller].refresh
        BY <2>3, <3>3 DEF Unauthorized, RefreshWith
      <4>2. QED
        BY <3>1, <4>1, NothingToRefresh
    <3>4. QED
      BY <3>2, <3>3
  <2>4. ASSUME NEW status \in {400, 403, 404, 410, 429, 500}, NEW quota \in BOOLEAN,
               Refused(status, quota)
        PROVE  Needed
    <3>1. pc = "send" /\ (Good(token) \/ status \in {429, 500}) /\ ErrorOf(status, quota) = "AuthError"
      BY <2>4, ResultOfAttempt DEF Refused
    <3>2. status \notin {429, 500}
      BY <3>1 DEF ErrorOf
    <3>3. QED
      BY <3>1, <3>2
  <2>5. CASE TransportFails
    BY <2>5, ResultOfAttempt DEF TransportFails
  <2>6. CASE BodyRefused
    <3>1. \E e \in {"MalformedResponseError", "NotFoundError", "ProviderError", "ValueError"} : AttemptEnds(e)
      BY <2>6 DEF BodyRefused
    <3>2. QED
      BY <3>1, ResultOfAttempt
  <2>7. CASE Answered
    BY <2>7 DEF Answered, Return
  <2>8. CASE StartTurn \/ SaveRefreshed \/ Time \/ Crash
    BY <2>8 DEF StartTurn, SaveRefreshed, Time, Crash, Reset
  <2>9. CASE \E r \in Requests : SaveGrantBeside(r) \/ Chat(r)
    BY <2>9 DEF SaveGrantBeside, Chat
  <2>10. QED
    BY <2>1, <2>2, <2>3, <2>4, <2>5, <2>6, <2>7, <2>8, <2>9 DEF Next, Turn, EndTurn, OtherTurn
<1>2. QED
  BY <1>1, CallInvariantHolds, PTL DEF Spec, ReauthIsNeeded

-----------------------------------------------------------------------------
(* A session whose logout was answered is dead for good, through rollbacks *)
(* and restarts, unless its DELETE was undone before its commit            *)
(* (delete_session).                                                       *)
THEOREM LogoutsAreFinal == Spec => []LogoutIsFinal
<1>1. CallInvariant => LogoutIsFinal
  BY DEF CallInvariant, LoginInvariant
<1>2. QED
  BY <1>1, CallInvariantHolds, PTL

-----------------------------------------------------------------------------
(* What the attempts still to come may cost.                               *)
Budget == (MaxAttempts - attempt) * (Longest + 1)

LEMMA BudgetFacts ==
  ASSUME CallInvariant
  PROVE  /\ Longest \in Nat /\ Budget \in Nat
         /\ attempt' = attempt => Budget' = Budget
         /\ attempt' = attempt + 1 => Budget = Budget' + Longest + 1 /\ Budget' \in Nat
<1>1. MaxAttempts \in Nat /\ attempt \in Nat /\ attempt <= MaxAttempts - 1
  BY CallTypes
<1>2. Longest \in Nat
  BY CallsAssumption DEF Longest
<1>3. ASSUME NEW n \in Nat, NEW m \in Nat
      PROVE  n * m \in Nat /\ (n + 1) * m = n * m + m
  BY <1>3
<1>4. MaxAttempts - attempt \in Nat /\ MaxAttempts - (attempt + 1) \in Nat /\ Longest + 1 \in Nat
      /\ MaxAttempts - attempt = (MaxAttempts - (attempt + 1)) + 1
  BY <1>1, <1>2
<1>5. (MaxAttempts - attempt) * (Longest + 1)
          = (MaxAttempts - (attempt + 1)) * (Longest + 1) + (Longest + 1)
      /\ (MaxAttempts - attempt) * (Longest + 1) \in Nat
      /\ (MaxAttempts - (attempt + 1)) * (Longest + 1) \in Nat
  BY <1>3, <1>4
<1>6. attempt' = attempt => Budget' = Budget
  BY DEF Budget, Longest
<1>7. attempt' = attempt + 1 => Budget' = (MaxAttempts - (attempt + 1)) * (Longest + 1)
  BY DEF Budget, Longest
<1>8. Budget = (MaxAttempts - attempt) * (Longest + 1)
  BY DEF Budget
<1> DEFINE b == (MaxAttempts - attempt) * (Longest + 1)
           c == (MaxAttempts - (attempt + 1)) * (Longest + 1)
<1>9. Budget = b /\ b = c + (Longest + 1) /\ b \in Nat /\ c \in Nat /\ (attempt' = attempt + 1 => Budget' = c)
  BY <1>5, <1>7, <1>8
<1> HIDE DEF b, c
<1>10. attempt' = attempt + 1 => Budget = Budget' + Longest + 1 /\ Budget' \in Nat
  BY <1>2, <1>9
<1>11. QED
  BY <1>2, <1>6, <1>9, <1>10

(* A failed attempt costs more than its requests.                          *)
LEMMA AttemptsShrink ==
  ASSUME CallInvariant, pc \in InCall, NEW e, AttemptEnds(e), kind' = kind
  PROVE  pc' \notin InCall \/ Work' < Work
<1>1. CASE e \in Retryable /\ attempt < MaxAttempts - 1
  <2>1. pc' = "token" /\ attempt' = attempt + 1 /\ left' \in Sizes(kind) /\ resent' = FALSE
    BY <1>1 DEF AttemptEnds
  <2>2. left' \in 1..Longest /\ left \in 1..Longest /\ left' \in Nat /\ left \in Nat
    BY <2>1, SizesOfCalls, CallTypes DEF CallInvariant, CallUnderWay
  <2>3. Longest \in Nat /\ Budget \in Nat /\ Budget' \in Nat /\ Budget = Budget' + Longest + 1
    BY <2>1, BudgetFacts
  <2>4. Stage[pc] \in 0..3 /\ Stage[pc'] = 3
    BY <2>1 DEF InCall, Stage
  <2> DEFINE w == (Budget + left) * 7 + Stage[pc] + (IF resent THEN 0 ELSE 3)
             v == (Budget' + left') * 7 + 3 + 3
  <2>5. Work = w /\ Work' = v
    BY <2>1, <2>4 DEF Work, Budget, Stage, Longest
  <2>6. v < w
    BY <2>2, <2>3, <2>4
  <2>7. QED
    BY <2>5, <2>6
<1>2. CASE ~(e \in Retryable /\ attempt < MaxAttempts - 1)
  BY <1>2 DEF AttemptEnds, Return, InCall
<1>3. QED
  BY <1>1, <1>2

(* The work of a call whose attempt goes on.                               *)
LEMMA WorkOfAttempt ==
  ASSUME CallInvariant, attempt' = attempt, pc \in InCall, pc' \in InCall,
         left' \in Nat, resent' \in BOOLEAN
  PROVE  /\ Budget \in Nat /\ left \in Nat /\ resent \in BOOLEAN
         /\ Work = (Budget + left) * 7 + Stage[pc] + (IF resent THEN 0 ELSE 3)
         /\ Work' = (Budget + left') * 7 + Stage[pc'] + (IF resent' THEN 0 ELSE 3)
BY BudgetFacts, CallTypes DEF Work, Budget, Stage, Longest

(* Within an attempt a request goes from the token on to its answer, and    *)
(* back to a refresh once.                                                  *)
LEMMA RequestsShrink ==
  ASSUME CallInvariant, pc \in InCall, pc' \in InCall, UNCHANGED attempt,
         \/ /\ left' = left /\ resent' = resent
            /\ \/ pc = "token" /\ pc' \in {"refresh", "send"}
               \/ pc = "refresh" /\ pc' = "save"
               \/ pc = "save" /\ pc' = "send"
         \/ left' = left /\ ~resent /\ resent' = TRUE /\ pc = "send" /\ pc' = "refresh"
         \/ left > 1 /\ left' = left - 1 /\ resent' = FALSE /\ pc = "send" /\ pc' = "token"
  PROVE  Work' < Work
<1>1. left \in Nat /\ left' \in Nat /\ resent \in BOOLEAN /\ resent' \in BOOLEAN
  <2>1. left \in Nat /\ resent \in BOOLEAN
    BY CallTypes
  <2>2. resent' \in BOOLEAN
    BY <2>1
  <2>3. left' = left \/ (left > 1 /\ left' = left - 1)
    OBVIOUS
  <2>4. left' \in Nat
    BY <2>1, <2>3
  <2>5. QED
    BY <2>1, <2>2, <2>4
<1>2. /\ Budget \in Nat
      /\ Work = (Budget + left) * 7 + Stage[pc] + (IF resent THEN 0 ELSE 3)
      /\ Work' = (Budget + left') * 7 + Stage[pc'] + (IF resent' THEN 0 ELSE 3)
  BY <1>1, WorkOfAttempt
<1>3. /\ Stage["token"] = 3 /\ Stage["refresh"] = 2 /\ Stage["save"] = 1 /\ Stage["send"] = 0
  BY DEF Stage
<1>4. QED
  BY <1>1, <1>2, <1>3

LEMMA RefreshShrinks ==
  ASSUME CallInvariant, pc \in {"token", "send"}, NEW again \in BOOLEAN,
         pc = "token" => again = FALSE, pc = "send" => ~resent /\ again = TRUE,
         RefreshWith(tokens[caller], again), kind' = kind
  PROVE  pc' \notin InCall \/ Work' < Work
<1>1. CASE AttemptEnds("AuthError")
  BY <1>1, AttemptsShrink DEF InCall
<1>2. CASE ~AttemptEnds("AuthError")
  <2>1. pc' = "refresh" /\ resent' = again /\ UNCHANGED <<attempt, left>>
    BY <1>2 DEF RefreshWith
  <2>2. pc = "token" => ~resent
    BY DEF CallInvariant, CallUnderWay
  <2>3. resent \in BOOLEAN
    BY CallTypes
  <2>4. QED
    BY <2>1, <2>2, <2>3, RequestsShrink DEF InCall
<1>3. QED
  BY <1>1, <1>2

(* Retries, pages, refreshes and the resend after a 401 do not multiply     *)
(* without bound (_call_provider, _send_authed).                            *)
THEOREM CallsComeToAnEnd == Spec => CallsShrink
<1> DEFINE A == pc \in InCall /\ <<pc, callVars>>' # <<pc, callVars>> => pc' \notin InCall \/ Work' < Work
<1>1. CallInvariant /\ [Next]_vars => [A]_vars
  <2> SUFFICES ASSUME CallInvariant, Next, pc \in InCall, <<pc, callVars>>' # <<pc, callVars>>
               PROVE  pc' \notin InCall \/ Work' < Work
    OBVIOUS
  <2>1. CASE GetToken
    <3>1. CASE RefreshWith(tokens[caller], FALSE)
      BY <2>1, <3>1, RefreshShrinks DEF GetToken
    <3>2. CASE pc' = "send" /\ UNCHANGED attemptVars
      BY <2>1, <3>2, RequestsShrink DEF GetToken, InCall, attemptVars
    <3>3. QED
      BY <2>1, <3>1, <3>2 DEF GetToken
  <2>2. CASE Refresh
    <3>1. CASE \E e \in Errors : AttemptEnds(e)
      BY <2>2, <3>1, AttemptsShrink DEF Refresh
    <3>2. CASE pc' = "save" /\ UNCHANGED attemptVars
      BY <2>2, <3>2, RequestsShrink DEF Refresh, InCall, attemptVars
    <3>3. QED
      BY <2>2, <3>1, <3>2 DEF Refresh, Errors, Retryable
  <2>3. CASE SaveRefreshed
    BY <2>3, RequestsShrink DEF SaveRefreshed, InCall, callVars, workVars, attemptVars
  <2>4. CASE Unauthorized
    BY <2>4, AttemptsShrink, RefreshShrinks, CallTypes DEF Unauthorized, Elsewhere
  <2>5. CASE \E e \in Errors : AttemptEnds(e) /\ kind' = kind
    BY <2>5, AttemptsShrink
  <2>6. CASE TransportFails \/ BodyRefused
    BY <2>5, <2>6 DEF TransportFails, BodyRefused, Elsewhere, Errors, Retryable
  <2>7. CASE \E status \in {400, 403, 404, 410, 429, 500}, quota \in BOOLEAN : Refused(status, quota)
    BY <2>5, <2>7, ErrorsOfStatus DEF Refused, Elsewhere
  <2>8. CASE Answered
    <3>1. CASE left > 1
      BY <2>8, <3>1, RequestsShrink DEF Answered, InCall
    <3>2. CASE ~(left > 1)
      BY <2>8, <3>2 DEF Answered, Return, InCall
    <3>3. QED
      BY <3>1, <3>2
  <2>9. CASE StartTurn \/ EndTurn \/ Crash \/ (\E r \in Requests : Chat(r))
    BY <2>9 DEF StartTurn, EndTurn, Crash, Chat, Reset, InCall
  <2>10. QED
    BY <2>1, <2>2, <2>3, <2>4, <2>6, <2>7, <2>8, <2>9 DEF Next, Turn, SaveGrantBeside, OtherTurn, Time
<1>2. QED
  BY <1>1, CallInvariantHolds, PTL DEF Spec, CallsShrink

-----------------------------------------------------------------------------
(* For the turn, the calls that write are the same.                        *)
LEMMA WritesOfTurns ==
  ASSUME CallInvariant
  PROVE  LET k == IF kind = "update_one_end" THEN "update_event" ELSE kind IN
         /\ kind \in Writes <=> k \in Attempts!Writes
         /\ k = "delete_event" <=> kind = "delete_event"
         /\ k # "get_event"
BY CallTypes, MethodsAssumption DEF Writes, Attempts!Writes

(* What one request did to the calendar unseen, it did for the turn.       *)
LEMMA EffectsOfTurns ==
  ASSUME CallInvariant, pc \in InCall, LandsUnseen
  PROVE  Attempts!LandsUnseen
<1>1. CASE UNCHANGED effectVars
  BY <1>1 DEF effectVars, Attempts!LandsUnseen
<1>2. CASE CanLand /\ landed' = landed + 1 /\ ambiguous' = TRUE
  <2>1. Attempts!CanLand
    BY <1>2, WritesOfTurns DEF CanLand, Attempts!CanLand
  <2>2. landed' > 0
    BY <1>2, CallTypes
  <2>3. QED
    BY <1>2, <2>1, <2>2 DEF Attempts!LandsUnseen
<1>3. QED
  BY <1>1, <1>2 DEF LandsUnseen

(* A step of a request that ends no attempt is none of the turn's.         *)
LEMMA StepsWithinAttempt ==
  ASSUME UNCHANGED <<kind, attempt, landed, ambiguous>>, pc # "done", pc' # "done"
  PROVE  UNCHANGED Attempts!vars
BY DEF Attempts!vars, Attempts!endVars, Attempts!turnVars, Attempts!callVars, Attempts!effectVars

(* An attempt that failed is one for the turn, retried by the same rule.   *)
LEMMA FailedAttempts ==
  ASSUME CallInvariant, pc \in InCall, NEW e \in Errors, AttemptEnds(e), kind' = kind,
         LandsUnseen, e \in Retryable \/ UNCHANGED effectVars \/ kind # "delete_event"
  PROVE  Attempts!AttemptFailsRetryably \/ Attempts!AttemptFails
<1>1. pc # "done" /\ Attempts!LandsUnseen
  BY EffectsOfTurns DEF InCall
<1>2. CASE e \in Retryable /\ attempt < MaxAttempts - 1
  <2>1. pc' = "token" /\ attempt' = attempt + 1
    BY <1>2 DEF AttemptEnds
  <2>2. Attempts!AttemptFailsRetryably
    BY <1>1, <1>2, <2>1
       DEF Attempts!AttemptFailsRetryably, Attempts!endVars, Attempts!turnVars
  <2>3. QED
    BY <2>2
<1>3. CASE ~(e \in Retryable /\ attempt < MaxAttempts - 1)
  <2>1. pc' = "done" /\ attempt' = attempt /\ result' = e /\ e # "ok"
    BY <1>3 DEF AttemptEnds, Return, Errors, Retryable
  <2>2. Attempts!ToolReturns
    BY <1>1, <2>1 DEF Attempts!ToolReturns
  <2>3. CASE e \in Retryable
    BY <1>1, <1>3, <2>1, <2>2, <2>3
       DEF Attempts!AttemptFailsRetryably, Attempts!endVars, Attempts!turnVars
  <2>4. CASE e \notin Retryable
    <3>1. \/ UNCHANGED effectVars
          \/ (IF kind = "update_one_end" THEN "update_event" ELSE kind) # "delete_event"
      BY <2>4
    <3>2. QED
      BY <1>1, <2>1, <2>2, <3>1
         DEF Attempts!AttemptFails, Attempts!endVars, Attempts!turnVars, effectVars
  <2>5. QED
    BY <2>3, <2>4
<1>4. QED
  BY <1>2, <1>3

LEMMA AnsweredAttempts ==
  ASSUME CallInvariant, Answered
  PROVE  AttemptStep
<1>1. pc = "send" /\ kind' = kind /\ ambiguous' = ambiguous
  BY DEF Answered, Elsewhere
<1>2. CASE left > 1
  BY <1>1, <1>2, StepsWithinAttempt DEF Answered, AttemptStep
<1>3. CASE ~(left > 1)
  <2>1. /\ pc' = "done" /\ result' = "ok" /\ attempt' = attempt
        /\ kind \in Writes => CanLand
        /\ landed' = IF kind \in Writes THEN landed + 1 ELSE landed
    BY <1>3 DEF Answered, Return
  <2>2. Attempts!ToolReturns
    BY <1>1, <2>1 DEF Attempts!ToolReturns
  <2>3. kind \in Writes => Attempts!CanLand /\ landed + 1 > 0
    BY <2>1, WritesOfTurns, CallTypes DEF CanLand, Attempts!CanLand
  <2>4. Attempts!AttemptSucceeds
    BY <1>1, <2>1, <2>2, <2>3, WritesOfTurns
       DEF Attempts!AttemptSucceeds, Attempts!endVars, Attempts!turnVars
  <2>5. QED
    BY <2>4 DEF AttemptStep
<1>4. QED
  BY <1>2, <1>3

(* The request layer, with its refreshes, resends, pages and status codes,  *)
(* is to the turn one attempt after the other (_call_provider, _request).   *)
THEOREM RequestsImplementAttempts == Spec => ImplementsAttempts
<1> DEFINE A == pc \in InCall /\ pc' # "idle" => AttemptStep
<1>1. CallInvariant /\ [Next]_vars => [A]_vars
  <2> SUFFICES ASSUME CallInvariant, Next, pc \in InCall, pc' # "idle"
               PROVE  AttemptStep
    OBVIOUS
  <2>1. ASSUME NEW e \in Errors, AttemptEnds(e), kind' = kind, UNCHANGED effectVars
        PROVE  AttemptStep
    BY <2>1, FailedAttempts DEF LandsUnseen, AttemptStep
  <2>2. CASE GetToken
    <3>1. CASE tokens[caller] # None /\ ~NeedsRefresh(tokens[caller])
      BY <2>2, <3>1, StepsWithinAttempt DEF GetToken, InCall, attemptVars, effectVars, AttemptStep
    <3>2. CASE ~(tokens[caller] # None /\ ~NeedsRefresh(tokens[caller]))
      <4>1. RefreshWith(tokens[caller], FALSE) /\ kind' = kind /\ UNCHANGED effectVars
        BY <2>2, <3>2 DEF GetToken
      <4>2. CASE AttemptEnds("AuthError")
        BY <2>1, <4>1, <4>2 DEF Errors
      <4>3. CASE ~AttemptEnds("AuthError")
        BY <4>1, <4>3, StepsWithinAttempt DEF RefreshWith, InCall, effectVars, AttemptStep
      <4>4. QED
        BY <4>2, <4>3
    <3>3. QED
      BY <3>1, <3>2
  <2>3. CASE Refresh
    <3>1. CASE \E e \in Errors : AttemptEnds(e)
      BY <2>1, <2>3, <3>1 DEF Refresh
    <3>2. CASE pc' = "save" /\ UNCHANGED attemptVars
      BY <2>3, <3>2, StepsWithinAttempt DEF Refresh, InCall, attemptVars, effectVars, AttemptStep
    <3>3. QED
      BY <2>3, <3>1, <3>2 DEF Refresh, Errors, Retryable
  <2>4. CASE SaveRefreshed
    BY <2>4, StepsWithinAttempt
       DEF SaveRefreshed, callVars, workVars, attemptVars, effectVars, AttemptStep
  <2>5. CASE TransportFails
    BY <2>5, FailedAttempts DEF TransportFails, Elsewhere, Errors, Retryable, AttemptStep
  <2>6. CASE Unauthorized
    <3>1. kind' = kind /\ UNCHANGED effectVars
      BY <2>6 DEF Unauthorized, Elsewhere
    <3>2. CASE AttemptEnds("AuthError")
      BY <2>1, <3>1, <3>2 DEF Errors
    <3>3. CASE ~AttemptEnds("AuthError")
      BY <2>6, <3>1, <3>3, StepsWithinAttempt
         DEF Unauthorized, RefreshWith, InCall, effectVars, AttemptStep
    <3>4. QED
      BY <3>2, <3>3
  <2>7. ASSUME NEW status \in {400, 403, 404, 410, 429, 500}, NEW quota \in BOOLEAN,
               Refused(status, quota)
        PROVE  AttemptStep
    <3>1. ErrorOf(status, quota) \in Errors /\ AttemptEnds(ErrorOf(status, quota)) /\ kind' = kind
      BY <2>7, ErrorsOfStatus DEF Refused, Elsewhere
    <3>2. LandsUnseen /\ (ErrorOf(status, quota) \in Retryable \/ UNCHANGED effectVars)
      BY <2>7 DEF Refused, LandsUnseen, ErrorOf, Retryable
    <3>3. QED
      BY <3>1, <3>2, FailedAttempts DEF AttemptStep
  <2>8. CASE BodyRefused
    <3>1. kind' = kind /\ kind # "delete_event" /\ LandsUnseen
      BY <2>8 DEF BodyRefused, Elsewhere, LandsUnseen
    <3>2. \E e \in Errors : AttemptEnds(e)
      BY <2>8 DEF BodyRefused, Errors
    <3>3. QED
      BY <3>1, <3>2, FailedAttempts DEF AttemptStep
  <2>9. CASE Answered
    BY <2>9, AnsweredAttempts
  <2>10. CASE StartTurn \/ EndTurn \/ Crash \/ (\E r \in Requests : Chat(r))
    BY <2>10 DEF StartTurn, EndTurn, Crash, Chat, Reset, InCall
  <2>11. CASE UNCHANGED callVars /\ pc' = pc
    BY <2>11, StepsWithinAttempt DEF InCall, callVars, workVars, attemptVars, effectVars, AttemptStep
  <2>12. QED
    BY <2>2, <2>3, <2>4, <2>5, <2>6, <2>7, <2>8, <2>9, <2>10, <2>11
       DEF Next, Turn, SaveGrantBeside, OtherTurn, Time
<1>2. QED
  BY <1>1, CallInvariantHolds, PTL DEF Spec, ImplementsAttempts
=============================================================================
