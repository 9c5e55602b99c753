----------------------------- MODULE GoogleCalls -----------------------------
(***************************************************************************)
(* Turns on the Google provider beside the logins of WebLogin: a chat      *)
(* checks its session, waits for ctx.lock, and its tool call goes through  *)
(* Toolbox._call_provider, GoogleCalendarProvider._request and             *)
(* GoogleTokenManager. Between any two of these steps callbacks, logouts   *)
(* and revocations happen.                                                 *)
(***************************************************************************)
EXTENDS WebLogin

CONSTANTS
    MaxAttempts,  \* MAX_PROVIDER_ATTEMPTS
    Methods,      \* the provider calls that turns make
    MaxPages,     \* bound on the pages of list_events
    Skew          \* _EXPIRY_SKEW

ASSUME CallsAssumption == MaxAttempts \in Nat \ {0} /\ MaxPages \in Nat \ {0}
ASSUME SkewAssumption == Skew \in Nat /\ Skew < TokenLife

VARIABLES
    pc,
    caller,     \* the user of the chat
    kind,       \* the provider call
    left,       \* requests of this attempt still to be answered
    attempt,    \* failed attempts
    resent,     \* this request was refused once and is sent a second time
    token,      \* the token at hand
    asked,      \* when the token was read or refreshed
    landed,     \* how often the call changed the calendar
    ambiguous,  \* a request of the call failed after its write landed
    result      \* how the call ended

attemptVars == <<attempt, left, resent>>
effectVars == <<landed, ambiguous>>
workVars == <<kind, attemptVars, token, asked, effectVars, result>>
callVars == <<caller, workVars>>
vars == <<loginVars, pc, callVars>>

ASSUME MethodsAssumption ==
    Methods \subseteq {"read", "create_event", "update_event", "update_one_end", "delete_event"}

(* update_event with one end of the interval reads the event first.        *)
Writes == Methods \ {"read"}
Sizes(k) == IF k = "read" THEN 1..MaxPages ELSE IF k = "update_one_end" THEN {2} ELSE {1}

Retryable == {"RateLimitError", "ServerError"}
Errors == Retryable \cup {"AuthError", "NotFoundError", "ProviderError",
                          "MalformedResponseError", "ValueError"}

InCall == {"token", "refresh", "save", "send"}

CallInit ==
    /\ pc = "idle"
    /\ caller = None
    /\ kind = "read"
    /\ attempt = 0 /\ left = 1 /\ resent = FALSE
    /\ token = None /\ asked = 0
    /\ landed = 0 /\ ambiguous = FALSE
    /\ result = "none"

Init == LoginInit /\ CallInit

-----------------------------------------------------------------------------
(* chat: _current_user on the event loop, before the wait for the lock.    *)
(* Chats in front of it are a part of its wait: no turn reads a session.   *)
Chat(s) ==
    /\ pc = "idle"
    /\ mode = "google"
    /\ req[s].step \in WithCookie
    /\ Live(s)
    /\ pc' = "waiting"
    /\ caller' = session[s].user
    /\ UNCHANGED <<loginVars, workVars>>

(* _run_turn takes the lock and builds a provider and a token manager for  *)
(* the user that was found before the wait; the session is not read again. *)
(* The model's tool call reaches the provider.                             *)
StartTurn ==
    /\ pc = "waiting"
    /\ pc' = "token"
    /\ kind' \in Methods
    /\ left' \in Sizes(kind')
    /\ UNCHANGED <<loginVars, caller, attempt, resent, token, asked, effectVars, result>>

Reset ==
    /\ pc' = "idle"
    /\ caller' = None
    /\ kind' = "read"
    /\ attempt' = 0 /\ left' = 1 /\ resent' = FALSE
    /\ token' = None /\ asked' = 0
    /\ landed' = 0 /\ ambiguous' = FALSE
    /\ result' = "none"

(* The lock is released; nothing of the turn outlives it.                  *)
EndTurn ==
    /\ pc = "done"
    /\ Reset
    /\ UNCHANGED <<loginVars>>

(* The tool call is over; what is left are the effects of its requests.    *)
Return(r) ==
    /\ pc' = "done"
    /\ result' = r
    /\ left' = 1 /\ resent' = FALSE
    /\ token' = None /\ asked' = 0
    /\ UNCHANGED attempt

(* Fault: one attempt too many.                                            *)
AttemptEndsOnceMore(e) ==
    IF e \in Retryable /\ attempt < MaxAttempts
    THEN /\ pc' = "token"
         /\ attempt' = attempt + 1
         /\ left' \in Sizes(kind)
         /\ resent' = FALSE
         /\ token' = None /\ asked' = 0
         /\ UNCHANGED result
    ELSE Return(e)

(* _call_provider: the attempt ended with this exception. A retry starts   *)
(* the provider's method from its beginning.                               *)
AttemptEnds(e) ==
    IF e \in Retryable /\ attempt < MaxAttempts - 1
    THEN /\ pc' = "token"
         /\ attempt' = attempt + 1
         /\ left' \in Sizes(kind)
         /\ resent' = FALSE
         /\ token' = None /\ asked' = 0
         /\ UNCHANGED result
    ELSE Return(e)

(* _refresh_and_save up to the request.                                    *)
RefreshWith(t, again) ==
    IF t = None \/ ~t.refresh
    THEN AttemptEnds("AuthError")
    ELSE /\ pc' = "refresh"
         /\ token' = t /\ asked' = 0
         /\ resent' = again
         /\ UNCHANGED <<attempt, left, result>>

(* Fault: the skew is forgotten.                                           *)
NeedsRefreshWhenExpired(t) == clock >= t.expires

(* get_access_token: with a row that is missing, or too near its expiry.   *)
NeedsRefresh(t) == clock + Skew >= t.expires

GetToken ==
    LET t == tokens[caller] IN
    /\ pc = "token"
    /\ IF t # None /\ ~NeedsRefresh(t)
       THEN /\ pc' = "send"
            /\ token' = t /\ asked' = clock
            /\ UNCHANGED <<attemptVars, result>>
       ELSE RefreshWith(t, FALSE)
    /\ UNCHANGED <<loginVars, caller, kind, effectVars>>

Granted(t) == grant[t.grant] = "alive"

(* Fault: the refresh token is dropped if the reply has none.              *)
RefreshDroppingToken ==
    /\ pc = "refresh"
    /\ Granted(token)
    /\ pc' = "save"
    /\ token' = [token EXCEPT !.expires = clock + TokenLife, !.refresh = FALSE]
    /\ asked' = clock
    /\ UNCHANGED <<attemptVars, result>>
    /\ UNCHANGED <<loginVars, caller, kind, effectVars>>

(* The token endpoint answers: it is out of reach, sends another status    *)
(* than 200, a body without a token, or a token; the refresh token is kept. *)
Refresh ==
    /\ pc = "refresh"
    /\ \/ AttemptEnds("ServerError")
       \/ AttemptEnds("MalformedResponseError")
       \/ AttemptEnds("AuthError")
       \/ /\ Granted(token)
          /\ pc' = "save"
          /\ token' = [token EXCEPT !.expires = clock + TokenLife]
          /\ asked' = clock
          /\ UNCHANGED <<attemptVars, result>>
    /\ UNCHANGED <<loginVars, caller, kind, effectVars>>

(* save_oauth_token of the token manager, under the lock: no turn rolls    *)
(* back between its statement and its commit.                              *)
SaveRefreshed ==
    /\ pc = "save"
    /\ pc' = "send"
    /\ tokens' = [tokens EXCEPT ![caller] = token]
    /\ disk' = [Seen EXCEPT !.tokens = tokens']
    /\ UNCHANGED <<clock, mode, users, session, newest, returned, google, cookie, req, callVars>>

-----------------------------------------------------------------------------
(* One answer of the Calendar API, or none (_send_authed).                 *)

Good(t) == Granted(t) /\ clock < t.expires

(* Only the last request of a call that writes may change the calendar; a  *)
(* deleted event cannot be deleted again.                                  *)
CanLand ==
    /\ Good(token)
    /\ kind \in Writes
    /\ left = 1
    /\ kind = "delete_event" => landed = 0

LandsUnseen ==
    \/ UNCHANGED effectVars
    \/ CanLand /\ landed' = landed + 1 /\ ambiguous' = TRUE

Elsewhere == UNCHANGED <<loginVars, caller, kind>>

(* httpx raises: the request may or may not have arrived.                  *)
TransportFails ==
    /\ pc = "send"
    /\ LandsUnseen
    /\ AttemptEnds("ServerError")
    /\ Elsewhere

(* Faults: every 401 leads to another refresh; the token at hand is        *)
(* refreshed, which another login may have replaced.                       *)
UnauthorizedAgain ==
    /\ pc = "send"
    /\ RefreshWith(tokens[caller], TRUE)
    /\ UNCHANGED effectVars
    /\ Elsewhere

UnauthorizedKeeping ==
    /\ pc = "send"
    /\ IF resent THEN AttemptEnds("AuthError") ELSE RefreshWith(token, TRUE)
    /\ UNCHANGED effectVars
    /\ Elsewhere

(* The first 401 makes force_refresh read the row anew; a second ends it.  *)
Unauthorized ==
    /\ pc = "send"
    /\ IF resent THEN AttemptEnds("AuthError") ELSE RefreshWith(tokens[caller], TRUE)
    /\ UNCHANGED effectVars
    /\ Elsewhere

(* _raise_for_status and _map_403.                                         *)
ErrorOf(status, quota) ==
    IF status = 403 THEN (IF quota THEN "RateLimitError" ELSE "AuthError")
    ELSE IF status \in {404, 410} THEN "NotFoundError"
    ELSE IF status = 429 THEN "RateLimitError"
    ELSE IF status >= 500 THEN "ServerError"
    ELSE "ProviderError"

(* A token that is not good gets a 401 before Google looks at the request, *)
(* unless the service is overloaded.                                       *)
Refused(status, quota) ==
    /\ pc = "send"
    /\ Good(token) \/ status \in {429, 500}
    /\ IF status >= 500 THEN LandsUnseen ELSE UNCHANGED effectVars
    /\ AttemptEnds(ErrorOf(status, quota))
    /\ Elsewhere

(* A 2xx answer with a body the caller cannot use: not the JSON object it  *)
(* should be, an all-day event, a cancelled one; a free/busy answer that   *)
(* leaves a calendar out; or the interval the patch results in is invalid. *)
(* The body of a deletion is not read.                                     *)
BodyRefused ==
    /\ pc = "send"
    /\ Good(token)
    /\ kind # "delete_event"
    /\ \E e \in IF kind = "read" THEN {"MalformedResponseError", "NotFoundError", "ProviderError"}
                ELSE IF left = 2 THEN {"MalformedResponseError", "NotFoundError", "ValueError"}
                ELSE {"MalformedResponseError"} :
          AttemptEnds(e)
    /\ IF CanLand THEN landed' = landed + 1 /\ ambiguous' = TRUE
       ELSE UNCHANGED effectVars
    /\ Elsewhere

(* Fault: the method returns after its first request.                      *)
AnsweredAtOnce ==
    /\ pc = "send"
    /\ Good(token)
    /\ landed' = IF CanLand THEN landed + 1 ELSE landed
    /\ Return("ok")
    /\ UNCHANGED ambiguous
    /\ Elsewhere

(* The next page, or the patch after the read; or the method returns.      *)
Answered ==
    /\ pc = "send"
    /\ Good(token)
    /\ IF left > 1
       THEN /\ pc' = "token"
            /\ left' = left - 1
            /\ resent' = FALSE
            /\ token' = None /\ asked' = 0
            /\ UNCHANGED <<attempt, result, landed>>
       ELSE /\ kind \in Writes => CanLand
            /\ landed' = IF kind \in Writes THEN landed + 1 ELSE landed
            /\ Return("ok")
    /\ UNCHANGED ambiguous
    /\ Elsewhere

Turn ==
    \/ StartTurn \/ GetToken \/ Refresh \/ SaveRefreshed
    \/ TransportFails \/ Unauthorized \/ BodyRefused \/ Answered
    \/ \E status \in {400, 403, 404, 410, 429, 500}, quota \in BOOLEAN : Refused(status, quota)

-----------------------------------------------------------------------------
(* The callback's save, which takes no lock.                               *)
SaveGrantBeside(r) ==
    /\ SaveGrant(r, IF pc \in {"refresh", "save"} /\ caller = req[r].user
                    THEN "raced" ELSE "kept")
    /\ UNCHANGED <<pc, callVars>>

(* Another turn has the lock, and stores facts.                            *)
OtherTurn ==
    /\ pc \in {"idle", "waiting"}
    /\ UpsertFails \/ TurnCommits
    /\ UNCHANGED <<pc, callVars>>

(* A request reaches Google before Skew has gone by (its timeout is 10 s). *)
Time ==
    /\ Tick
    /\ pc \in {"save", "send"} => clock < asked + Skew
    /\ UNCHANGED <<pc, callVars>>

Crash == Restart /\ Reset

(* The end of a turn changes nothing that others see: it comes first.      *)
Next ==
    \/ Turn
    \/ EndTurn
    \/ /\ pc # "done"
       /\ \/ LoginStep /\ UNCHANGED <<pc, callVars>>
          \/ \E r \in Requests : SaveGrantBeside(r) \/ Chat(r)
          \/ OtherTurn
          \/ Time
          \/ Crash

Spec == Init /\ [][Next]_vars

-----------------------------------------------------------------------------
TypeOK ==
    /\ LoginTypeOK
    /\ pc \in InCall \cup {"idle", "waiting", "done"}
    /\ caller \in Requests \cup {None}
    /\ kind \in Methods \cup {"read"}
    /\ left \in Nat
    /\ attempt \in 0..MaxAttempts - 1
    /\ resent \in BOOLEAN
    /\ token \in Token \cup {None}
    /\ asked \in 0..MaxTime
    /\ landed \in 0..MaxAttempts
    /\ ambiguous \in BOOLEAN
    /\ result \in Errors \cup {"none", "ok"}

(* Whatever logins, logouts and refreshes happen meanwhile, what is stored *)
(* for a user, and what the requests of a turn carry, was granted by the   *)
(* account of that user (_load, _refresh_and_save).                        *)
ActsForOwnAccount ==
    /\ StoredForOwnAccount
    /\ pc \in {"refresh", "save", "send"} =>
           users[caller] # None /\ account[token.grant] = users[caller]

(* The stored payload is of the grant a callback saved last, with the      *)
(* refresh token that came with it if one did. There are two exceptions,   *)
(* since a callback has no lock: it saved the grant between the moment a   *)
(* refresh read the row and the moment it wrote it, or a failing upsert of *)
(* another thread rolled the grant back before the callback committed it.  *)
NewestGrantStored ==
    \A u \in Requests : newest[u] # None /\ newest[u].fate \notin {"raced", "undone"} =>
        /\ tokens[u] # None
        /\ tokens[u].grant = newest[u].grant
        /\ tokens[u].refresh = newest[u].refresh

(* "Needs re-authentication" is not said to a user whose newest grant is   *)
(* good and has a refresh token, unless that grant was saved during a      *)
(* refresh or rolled back before its commit, or Google refuses what is     *)
(* good, or the token that was refused twice is of an older grant, revoked *)
(* after it was refreshed.                                                 *)
ReauthIsNeeded ==
    [][(pc # "done" /\ pc' = "done" /\ result' = "AuthError") =>
          \/ newest[caller] = None
          \/ newest[caller].fate \in {"raced", "undone"}
          \/ ~newest[caller].refresh
          \/ grant[newest[caller].grant] = "revoked"
          \/ pc = "refresh" /\ Granted(token)
          \/ pc = "send" /\ Good(token)
          \/ pc = "send" /\ resent /\ ~Granted(token)]_vars

(* The skew covers the time a request takes: no request is sent with a     *)
(* token that has expired when it arrives.                                 *)
SentBeforeExpiry == pc = "send" => clock < token.expires

(* What is left to do: attempts, requests of the attempt, the resend and   *)
(* the steps of a request.                                                 *)
Stage == [token |-> 3, refresh |-> 2, save |-> 1, send |-> 0]
Longest == IF MaxPages > 2 THEN MaxPages ELSE 2
Work == ((MaxAttempts - attempt) * (Longest + 1) + left) * 7
            + Stage[pc] + (IF resent THEN 0 ELSE 3)

(* Every step of a call leaves less to do, so that neither pages, nor the  *)
(* resend after a 401, nor the retries around them multiply without bound. *)
CallsShrink ==
    [][(pc \in InCall /\ <<pc, callVars>>' # <<pc, callVars>>) =>
          pc' \notin InCall \/ Work' < Work]_vars

(* What these properties rest on. An attempt that changed the calendar is  *)
(* over, and nothing of an earlier call is left when one begins.           *)
CallUnderWay ==
    /\ pc # "idle" => caller # None
    /\ pc \in {"idle", "waiting"} => attempt = 0 /\ landed = 0
    /\ pc # "done" => result = "none" /\ landed <= attempt
    /\ landed <= attempt + 1
    /\ pc \in {"idle", "waiting", "token"} => ~resent
    /\ pc \in InCall => left \in 1..Longest

(* The token at hand is what is stored for the caller, unless a callback   *)
(* saved its grant meanwhile, and it does not expire within the skew.      *)
TokenAtHand ==
    /\ pc \in {"refresh", "save", "send"} =>
           token # None /\ grant[token.grant] \in {"alive", "revoked"}
    /\ pc \in {"refresh", "save"} =>
           /\ tokens[caller] # None
           /\ newest[caller].fate \notin {"raced", "undone"} =>
                  token.grant = tokens[caller].grant /\ token.refresh = tokens[caller].refresh
    /\ pc \in {"save", "send"} => clock <= asked + Skew /\ asked + Skew < token.expires

CallInvariant ==
    /\ TypeOK
    /\ LoginInvariant
    /\ CallUnderWay
    /\ TokenAtHand
    /\ ActsForOwnAccount
    /\ NewestGrantStored

(* For the turn, the request layer with its refreshes, resends, pages and  *)
(* status codes is one attempt after the other of AgentTurn.               *)
Attempts == INSTANCE AgentTurn WITH
    MaxIterations <- 1, MaxCalls <- 1, MaxTurns <- 1,
    pc <- IF pc = "done" THEN "model" ELSE "attempt",
    turn <- 1,
    iteration <- 1,
    todo <- IF pc = "done" THEN 0 ELSE 1,
    made <- 1,
    kind <- IF kind = "update_one_end" THEN "update_event" ELSE kind,
    applied <- IF landed > 0 THEN {1} ELSE {},
    mutations <- IF pc = "done" /\ result = "ok" /\ kind \in Writes THEN {1} ELSE {},
    reply <- "none", history <- <<>>, raised <- {}, traces <- <<"open">>, lost <- {}

AttemptStep ==
    \/ UNCHANGED Attempts!vars
    \/ Attempts!AttemptSucceeds
    \/ Attempts!AttemptFailsRetryably
    \/ Attempts!AttemptFails

ImplementsAttempts ==
    [][(pc \in InCall /\ pc' # "idle") => AttemptStep]_vars
=============================================================================
