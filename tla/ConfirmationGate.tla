-------------------------- MODULE ConfirmationGate --------------------------
(***************************************************************************)
(* The two-step confirmation of destructive calendar actions, as the web   *)
(* application runs it: chat requests queue on the process lock, each turn *)
(* builds a new gate, takes the user's pending confirmations from the      *)
(* store and arms those the message confirms, and the model's tool calls   *)
(* either spend an armed token or issue a new one.                         *)
(*                                                                         *)
(* The language model is unconstrained: in a turn it may call update_event *)
(* or delete_event any number of times, with any arguments and any token.  *)
(* The store outlives a crash; queue, lock and gate do not.                *)
(***************************************************************************)
EXTENDS Naturals, Sequences

CONSTANTS
    Users,
    Tokens,        \* the random confirmation tokens; bounds how many are issued
    Fingerprints,  \* the canonical arguments a call can have
    Texts,         \* the messages users send
    TTL,           \* PENDING_CONFIRMATION_TTL
    MaxTime,       \* bound on the clock
    MaxPosts       \* bound on the number of chat requests

Actions == {"update_event", "delete_event"}

(* The echo words of an action ("delete", "cancel", ...) are represented by *)
(* the action itself, the base vocabulary by "base", any other word by      *)
(* "foreign".                                                               *)
Words == {"base", "foreign"} \cup Actions

Text == [question: BOOLEAN, declines: BOOLEAN, long: BOOLEAN, leads: BOOLEAN,
         words: SUBSET Words]

UserConfirms(text, action) ==
    /\ ~text.question
    /\ ~text.declines
    /\ ~text.long
    /\ text.leads
    /\ text.words \subseteq {"base", action}

Time == 0..MaxTime

ASSUME TextsAssumption == Texts \subseteq Text
ASSUME BoundsAssumption == TTL \in Nat /\ MaxTime \in Nat /\ MaxPosts \in Nat

VARIABLES
    now,
    posted,     \* number of chat requests so far
    queue,      \* requests waiting for ctx.lock, in no order: the lock is not fair
    running,    \* the request whose turn holds ctx.lock: at most one
    start,      \* when the latest turn started
    turnNo,     \* turnNo[u]: how many turns of u have started
    answered,   \* answered[u]: the latest turn of u whose reply was returned
    issued,     \* issued[t]: what token t was issued for (partial function)
    rows,       \* the tokens in the table pending_confirmations
    armed,      \* the keys of gate._armed
    calls,      \* validated calls on their way to the calendar
    performed   \* the destructive calls that reached the calendar, in order

gateVars == <<issued, rows, armed, calls, performed>>
requestVars == <<posted, queue, running, start, turnNo, answered>>
vars == <<now, requestVars, gateVars>>

(* seen is the latest answered turn when the user sent the message.        *)
Request == [id: 1..MaxPosts, user: Users, text: Texts, seen: Nat]

(* turn and at are when the token was issued; turn is not in the table.    *)
Entry == [user: Users, action: Actions, fp: Fingerprints, at: Time, turn: Nat]

Call == [token: Tokens, action: Actions, fp: Fingerprints]

Performed == [call: Call, by: Request, turn: Nat, start: Time]

CallTokens(cs) == {c.token : c \in cs}
PerformedTokens == {performed[i].call.token : i \in DOMAIN performed}

Init ==
    /\ now = 0
    /\ posted = 0
    /\ queue = {}
    /\ running = {}
    /\ start = 0
    /\ turnNo = [u \in Users |-> 0]
    /\ answered = [u \in Users |-> 0]
    /\ issued = [t \in {} |-> t]
    /\ rows = {}
    /\ armed = {}
    /\ calls = {}
    /\ performed = <<>>

-----------------------------------------------------------------------------
(* A user sends a message, from any tab: nothing makes a client wait for   *)
(* the reply to the one before.                                            *)
Post(u, text) ==
    /\ posted < MaxPosts
    /\ posted' = posted + 1
    /\ queue' = queue \cup {[id |-> posted + 1, user |-> u, text |-> text,
                             seen |-> answered[u]]}
    /\ UNCHANGED <<now, running, start, turnNo, answered, gateVars>>

RowsOf(u) == {t \in rows : issued[t].user = u}

(* Fault: expired rows still arm.                                          *)
FreshForever(t) == TRUE

Fresh(t) == issued[t].at + TTL >= now

(* take_pending_confirmations returns the user's rows that are no older    *)
(* than the TTL; new_turn arms those whose action the message confirms.    *)
Confirmed(r) ==
    {t \in RowsOf(r.user) : Fresh(t) /\ UserConfirms(r.text, issued[t].action)}

(* Faults: the rows are read but not deleted; the rows of every user are   *)
(* deleted.                                                                *)
RowsLeftUndeleted(r) == rows
RowsLeftOfNobody(r) == {}

(* The DELETE takes all of the user's rows, expired or not.                *)
RowsLeft(r) == rows \ RowsOf(r.user)

(* ctx.lock is acquired, the loop is rebuilt and Toolbox.new_turn runs.    *)
StartTurn(r) ==
    /\ running = {}
    /\ running' = {r}
    /\ queue' = queue \ {r}
    /\ start' = now
    /\ turnNo' = [turnNo EXCEPT ![r.user] = @ + 1]
    /\ rows' = RowsLeft(r)
    /\ armed' = Confirmed(r)
    /\ UNCHANGED <<now, posted, answered, issued, calls, performed>>

(* Fault: the arguments of the call are not compared.                      *)
MatchesAction(t, action, fp) == issued[t].action = action

Matches(t, action, fp) == issued[t].action = action /\ issued[t].fp = fp

(* Fault: the token stays armed after it was spent.                        *)
ValidateReusably(t, action, fp) ==
    /\ running # {}
    /\ calls = {}
    /\ t \in armed
    /\ Matches(t, action, fp)
    /\ calls' = {[token |-> t, action |-> action, fp |-> fp]}
    /\ UNCHANGED <<now, requestVars, issued, rows, armed, performed>>

(* gate.validate: the token of a call is spent only if it is armed for      *)
(* exactly this action and these arguments.                                 *)
Validate(t, action, fp) ==
    /\ running # {}
    /\ calls = {}
    /\ t \in armed
    /\ Matches(t, action, fp)
    /\ armed' = armed \ {t}
    /\ calls' = {[token |-> t, action |-> action, fp |-> fp]}
    /\ UNCHANGED <<now, requestVars, issued, rows, performed>>

(* What a new token stands for is written to its row.                      *)
Issue(r, t, action, fp) ==
    issued' = [x \in DOMAIN issued \cup {t} |->
                  IF x = t
                  THEN [user |-> r.user, action |-> action, fp |-> fp,
                        at |-> now, turn |-> turnNo[r.user]]
                  ELSE issued[x]]

(* gate.request: any call that does not validate (the model can always     *)
(* leave the token out) issues a new token and returns                     *)
(* confirmation_required.                                                  *)
RequestToken(r, t, action, fp) ==
    /\ calls = {}
    /\ t \notin DOMAIN issued
    /\ Issue(r, t, action, fp)
    /\ rows' = rows \cup {t}
    /\ UNCHANGED <<now, requestVars, armed, calls, performed>>

(* The validated call reaches the calendar, or is vetoed by a rule or      *)
(* refused by the provider; its token is spent either way.                 *)
PerformCall(r, c) ==
    /\ performed' = Append(performed, [call |-> c, by |-> r,
                                       turn |-> turnNo[r.user], start |-> start])
    /\ calls' = calls \ {c}
    /\ UNCHANGED <<now, requestVars, issued, rows, armed>>

RefuseCall(c) ==
    /\ calls' = calls \ {c}
    /\ UNCHANGED <<now, requestVars, issued, rows, armed, performed>>

(* Fault: the lock is not released.                                        *)
EndTurnKeepsLock ==
    /\ calls = {}
    /\ armed' = {}
    /\ UNCHANGED <<now, posted, queue, running, start, turnNo, issued, rows, calls, performed>>

(* The turn returns a reply, or an exception escapes it; in both cases the *)
(* lock is released and the gate is dropped.                               *)
EndTurn ==
    /\ calls = {}
    /\ running' = {}
    /\ armed' = {}
    /\ UNCHANGED <<now, posted, queue, start, turnNo, issued, rows, calls, performed>>

Reply(r) ==
    /\ EndTurn
    /\ answered' = [answered EXCEPT ![r.user] = turnNo[r.user]]

Raise ==
    /\ running # {}
    /\ EndTurn
    /\ UNCHANGED answered

Tick ==
    /\ now < MaxTime
    /\ now' = now + 1
    /\ UNCHANGED <<requestVars, gateVars>>

(* The process dies: whatever is not in the store is gone.                 *)
Crash ==
    /\ queue \cup running # {}
    /\ queue' = {}
    /\ running' = {}
    /\ armed' = {}
    /\ calls' = {}
    /\ UNCHANGED <<now, posted, start, turnNo, answered, issued, rows, performed>>

Next ==
    \/ \E u \in Users, text \in Texts : Post(u, text)
    \/ \E r \in queue : StartTurn(r)
    \/ \E t \in Tokens, action \in Actions, fp \in Fingerprints :
          \/ Validate(t, action, fp)
          \/ \E r \in running : RequestToken(r, t, action, fp)
    \/ \E c \in calls : RefuseCall(c) \/ \E r \in running : PerformCall(r, c)
    \/ \E r \in running : Reply(r)
    \/ Raise
    \/ Tick
    \/ Crash

Spec == Init /\ [][Next]_vars

(* A turn is finite (twelve iterations, bounded retries, client timeouts), *)
(* so it ends; a free lock is taken by some waiting request, though not by *)
(* any particular one.                                                     *)
Fairness ==
    /\ WF_vars(\E r \in queue : StartTurn(r))
    /\ WF_vars(\E c \in calls : RefuseCall(c) \/ \E r \in running : PerformCall(r, c))
    /\ WF_vars(Raise \/ \E r \in running : Reply(r))

FairSpec == Spec /\ Fairness

-----------------------------------------------------------------------------
TypeOK ==
    /\ now \in Time
    /\ posted \in 0..MaxPosts
    /\ queue \subseteq Request
    /\ running \subseteq Request
    /\ start \in Time
    /\ turnNo \in [Users -> Nat]
    /\ answered \in [Users -> Nat]
    /\ DOMAIN issued \subseteq Tokens
    /\ issued \in [DOMAIN issued -> Entry]
    /\ rows \subseteq DOMAIN issued
    /\ armed \subseteq DOMAIN issued
    /\ calls \subseteq Call
    /\ performed \in Seq(Performed)

(* A destructive call reaches the calendar only on the say-so of the user  *)
(* it was offered to: the user's very next turn, started within the TTL    *)
(* by a message that confirms that action, for that action and arguments.  *)
(* (new_turn, validate, take_pending_confirmations)                        *)
Consented(p) ==
    LET e == issued[p.call.token]
    IN  /\ p.call.token \in DOMAIN issued
        /\ e.user = p.by.user
        /\ e.action = p.call.action
        /\ e.fp = p.call.fp
        /\ p.turn = e.turn + 1
        /\ e.at + TTL >= p.start
        /\ UserConfirms(p.by.text, e.action)

PerformedOnlyWithConsent == \A i \in DOMAIN performed : Consented(performed[i])

(* One confirmation performs one call, whatever crashes, failing turns and *)
(* repeated tool calls come between (validate is single-use, and a row is  *)
(* deleted before its token is armed).                                     *)
OneCallPerToken ==
    \A i, j \in DOMAIN performed :
        performed[i].call.token = performed[j].call.token => i = j

(* Every row a user has in the table was issued by the user's latest turn: *)
(* no confirmation outlives the turn after the one that issued it, not     *)
(* even across a restart (take_pending_confirmations).                     *)
RowsOfLatestTurn == \A t \in rows : issued[t].turn = turnNo[issued[t].user]

(* The model cannot confirm on the user's behalf: a token that can be      *)
(* spent now was never issued by the turn that is running.                 *)
NoSelfConfirmation ==
    \A r \in running, t \in armed \cup CallTokens(calls) :
        issued[t].user = r.user /\ issued[t].turn < turnNo[r.user]

(* A user's pending confirmations change only in that user's own turns: no *)
(* other user's message arms, cancels or spends them.                      *)
OnlyOwnTurnsTouchRows ==
    [][\A u \in Users :
          RowsOf(u) # RowsOf(u)' => \E r \in running \cup running' : r.user = u]_vars

(* Every chat request that waits for the lock is served, or lost in a      *)
(* crash: no turn keeps the lock for ever (with ctx.lock in _run_turn).    *)
EveryRequestLeaves ==
    \A i \in 1..MaxPosts :
        (\E r \in queue : r.id = i) ~> ~(\E r \in queue \cup running : r.id = i)

(* What the properties above rest on: while a turn runs, the tokens it may *)
(* spend are its own user's, were issued by the turn before, were fresh    *)
(* and confirmed when it started; a row, an armed token, a call under way  *)
(* and a performed call are never the same token.                          *)
OneTurnAtATime ==
    /\ \A r, s \in running : r = s
    /\ \A c, d \in calls : c = d
    /\ running = {} => armed = {} /\ calls = {}

GrantedByRunningTurn ==
    \A r \in running, t \in armed \cup CallTokens(calls) :
        /\ issued[t].user = r.user
        /\ issued[t].turn + 1 = turnNo[r.user]
        /\ issued[t].at + TTL >= start
        /\ UserConfirms(r.text, issued[t].action)

CallsAsIssued ==
    \A c \in calls : c.token \in DOMAIN issued /\ Matches(c.token, c.action, c.fp)

StagesApart ==
    /\ \A t \in rows : t \notin armed \cup CallTokens(calls) \cup PerformedTokens
    /\ \A t \in armed : t \notin CallTokens(calls) \cup PerformedTokens
    /\ \A t \in CallTokens(calls) : t \notin PerformedTokens

GateInvariant ==
    /\ TypeOK
    /\ OneTurnAtATime
    /\ GrantedByRunningTurn
    /\ CallsAsIssued
    /\ StagesApart
    /\ RowsOfLatestTurn
    /\ PerformedOnlyWithConsent
    /\ OneCallPerToken

(* The documented order of a confirmation: a token arms on a message the   *)
(* user sent after the turn that issued it had answered.                   *)
ConfirmedAfterReply ==
    \A r \in running, t \in armed : r.seen >= issued[t].turn

-----------------------------------------------------------------------------
(* The phase of each offer, as Consent sees it.                            *)
Phase(t) ==
    IF t \notin DOMAIN issued THEN "new"
    ELSE IF t \in PerformedTokens THEN "performed"
    ELSE IF t \in armed \cup CallTokens(calls) THEN "granted"
    ELSE IF t \in rows THEN "offered"
    ELSE "lapsed"

Offers == INSTANCE Consent
            WITH phase <- [t \in Tokens |-> Phase(t)],
                 owner <- [t \in DOMAIN issued |-> issued[t].user]

(* The gate with its table, turns and crashes implements Consent.          *)
ImplementsConsent == Offers!Spec
=============================================================================
