----------------------------- MODULE AgentTurn -----------------------------
(***************************************************************************)
(* The turns of one user: AgentLoop.run_turn with the Toolbox and its      *)
(* provider retries. The model answers with a final text or with tool      *)
(* calls; a provider request may fail before or after its write landed in  *)
(* the calendar, and may be retried. What the user is told at the end      *)
(* comes from the list of mutations the Toolbox recorded.                  *)
(***************************************************************************)
EXTENDS Naturals, Sequences

CONSTANTS
    MaxIterations,  \* MAX_ITERATIONS
    MaxAttempts,    \* MAX_PROVIDER_ATTEMPTS
    MaxCalls,       \* bound on the tool calls of one response
    MaxTurns        \* bound on the number of turns

ASSUME PositiveAssumption ==
    /\ MaxIterations \in Nat \ {0}
    /\ MaxAttempts \in Nat \ {0}
    /\ MaxCalls \in Nat \ {0}
    /\ MaxTurns \in Nat

VARIABLES
    pc,
    turn,        \* number of the latest turn; also of its trace
    iteration,   \* model calls made in this turn
    todo,        \* tool calls of the response still to run
    made,        \* tool calls run in this turn: the number of the current one
    kind,        \* what the provider call under way does
    attempt,     \* failed attempts of the provider call under way
    landed,      \* how often the current call changed the calendar
    applied,     \* the calls of this turn whose change was made
    mutations,   \* mutations_this_turn: the calls that recorded one
    ambiguous,   \* a request of this turn failed after its write landed
    reply,       \* final_text of this turn
    history,     \* the messages table: the role and the turn of each message
    raised,      \* the turns an exception escaped, and why
    traces,      \* traces[n]: whether the trace of turn n is open or closed
    lost         \* turns that were running when the process died, and where

turnVars == <<turn, history, traces, lost>>
endVars == <<reply, raised>>
callVars == <<kind, attempt, landed>>
effectVars == <<applied, mutations, ambiguous>>
vars == <<pc, iteration, todo, made, endVars, turnVars, callVars, effectVars>>

(* get_event is the read inside update_event, before its rule check.       *)
Kinds == {"read", "get_event", "create_event", "update_event", "delete_event"}
Writes == {"create_event", "update_event", "delete_event"}

(* final_text: None, a model text, NO_REPLY, BAIL_MESSAGE, the bail message *)
(* that lists mutations, or _confirm_mutations.                            *)
Replies == {"none", "text", "no_reply", "nothing_changed", "changes_applied", "confirmed"}

Init ==
    /\ pc = "idle"
    /\ turn = 0
    /\ iteration = 0
    /\ todo = 0
    /\ made = 0
    /\ kind = "read"
    /\ attempt = 0
    /\ landed = 0
    /\ applied = {}
    /\ mutations = {}
    /\ ambiguous = FALSE
    /\ reply = "none"
    /\ raised = {}
    /\ history = <<>>
    /\ traces = <<>>
    /\ lost = {}

-----------------------------------------------------------------------------
(* begin_request, new_turn and add_message; the loop is built anew.        *)
StartTurn ==
    /\ pc = "idle"
    /\ turn < MaxTurns
    /\ turn' = turn + 1
    /\ traces' = Append(traces, "open")
    /\ history' = Append(history, [role |-> "user", turn |-> turn'])
    /\ pc' = "model"
    /\ iteration' = 0
    /\ todo' = 0
    /\ made' = 0
    /\ kind' = "read"
    /\ attempt' = 0
    /\ landed' = 0
    /\ applied' = {}
    /\ mutations' = {}
    /\ ambiguous' = FALSE
    /\ reply' = "none"
    /\ UNCHANGED <<raised, lost>>

(* Fault: an empty reply is passed on although something was changed.      *)
DecideVerbatim(text) ==
    /\ pc' = "final"
    /\ reply' = text
    /\ UNCHANGED <<iteration, todo, made, raised, turnVars, callVars, effectVars>>

(* The turn goes to its finally clause with this final_text. An empty reply *)
(* after a recorded mutation becomes a confirmation of the mutations. The  *)
(* extraction of facts in between is best effort and is left out.          *)
Decide(text) ==
    /\ pc' = "final"
    /\ reply' = IF text = "no_reply" /\ mutations # {} THEN "confirmed" ELSE text
    /\ UNCHANGED <<iteration, todo, made, raised, turnVars, callVars, effectVars>>

(* An exception escapes the loop; final_text stays None.                   *)
RaiseFor(why) ==
    /\ pc' = "final"
    /\ raised' = raised \cup {[turn |-> turn, why |-> why]}
    /\ UNCHANGED <<iteration, made, reply, turnVars, callVars>>

ModelStops ==
    /\ pc = "model"
    /\ iteration < MaxIterations
    /\ \E text \in {"text", "no_reply"} : Decide(text)

ModelCallsTools ==
    /\ pc = "model"
    /\ iteration < MaxIterations
    /\ iteration' = iteration + 1
    /\ todo' \in 1..MaxCalls
    /\ pc' = "tool"
    /\ UNCHANGED <<made, endVars, turnVars, callVars, effectVars>>

ModelFails ==
    /\ pc = "model"
    /\ iteration < MaxIterations
    /\ RaiseFor("model")
    /\ UNCHANGED <<todo, effectVars>>

(* The loop guard: _bail_message.                                          *)
Bail ==
    /\ pc = "model"
    /\ iteration = MaxIterations
    /\ Decide(IF mutations = {} THEN "nothing_changed" ELSE "changes_applied")

(* The result of the current tool call is appended to the messages.        *)
ToolReturns ==
    /\ todo' = todo - 1
    /\ pc' = IF todo = 1 THEN "model" ELSE "tool"

(* Tool calls that end without the provider: unknown tools, arguments the  *)
(* argument model refuses, unconfirmed destructive calls, rule violations, *)
(* contact lookups. save_profile_fact records a mutation of the store.     *)
LocalTool ==
    /\ pc = "tool"
    /\ made' = made + 1
    /\ ToolReturns
    /\ \/ UNCHANGED <<applied, mutations>>
       \/ /\ applied' = applied \cup {made'}
          /\ mutations' = mutations \cup {made'}
    /\ UNCHANGED <<iteration, endVars, turnVars, callVars, ambiguous>>

(* EventDraft and EventPatch check start < end outside the try of their    *)
(* handlers, and execute_tool only catches what the argument model raises. *)
InvalidInterval ==
    /\ pc = "tool"
    /\ RaiseFor("invalid_arguments")
    /\ UNCHANGED <<todo, effectVars>>

(* Fault: the mutation is recorded before it is made.                      *)
CallProviderRecorded ==
    /\ pc = "tool"
    /\ pc' = "attempt"
    /\ made' = made + 1
    /\ kind' \in Kinds
    /\ attempt' = 0
    /\ landed' = 0
    /\ mutations' = mutations \cup {made'}
    /\ UNCHANGED <<iteration, todo, endVars, turnVars, applied, ambiguous>>

CallProvider ==
    /\ pc = "tool"
    /\ pc' = "attempt"
    /\ made' = made + 1
    /\ kind' \in Kinds
    /\ attempt' = 0
    /\ landed' = 0
    /\ UNCHANGED <<iteration, todo, endVars, turnVars, effectVars>>

-----------------------------------------------------------------------------
(* One attempt of _call_provider.                                          *)

(* A deleted event cannot be deleted again; everything else can be redone. *)
CanLand == kind \in Writes /\ (kind = "delete_event" => landed = 0)

(* Fault: the request is made again although it succeeded.                 *)
AttemptSucceedsAgain ==
    /\ pc = "attempt"
    /\ kind \in Writes
    /\ CanLand
    /\ landed' = landed + 1
    /\ applied' = applied \cup {made}
    /\ UNCHANGED <<pc, todo, iteration, made, endVars, turnVars, kind, attempt, mutations, ambiguous>>

AttemptSucceeds ==
    /\ pc = "attempt"
    /\ kind # "get_event"
    /\ kind \in Writes => CanLand
    /\ IF kind \in Writes
       THEN /\ landed' = landed + 1
            /\ applied' = applied \cup {made}
            /\ mutations' = mutations \cup {made}
       ELSE UNCHANGED <<landed, applied, mutations>>
    /\ ToolReturns
    /\ UNCHANGED <<iteration, made, endVars, turnVars, kind, attempt, ambiguous>>

(* The current event is read: the rule check vetoes the new times, or the  *)
(* patch is built and sent, or it cannot be built.                         *)
CurrentEventRead ==
    /\ pc = "attempt"
    /\ kind = "get_event"
    /\ \/ /\ ToolReturns
          /\ UNCHANGED <<iteration, made, endVars, turnVars, callVars, effectVars>>
       \/ /\ kind' = "update_event"
          /\ attempt' = 0
          /\ UNCHANGED <<pc, iteration, todo, made, endVars, turnVars, landed, effectVars>>
       \/ /\ RaiseFor("invalid_arguments")
          /\ UNCHANGED <<todo, effectVars>>

(* The request may have changed the calendar although it failed.           *)
LandsUnseen ==
    \/ UNCHANGED <<landed, applied, ambiguous>>
    \/ /\ CanLand
       /\ landed' = landed + 1
       /\ applied' = applied \cup {made}
       /\ ambiguous' = TRUE

(* Faults: one attempt too many; the attempts are not counted.             *)
AttemptFailsOnceMore ==
    /\ pc = "attempt"
    /\ LandsUnseen
    /\ IF attempt < MaxAttempts
       THEN attempt' = attempt + 1 /\ UNCHANGED <<pc, todo>>
       ELSE ToolReturns /\ UNCHANGED attempt
    /\ UNCHANGED <<iteration, made, endVars, turnVars, kind, mutations>>

AttemptFailsForEver ==
    /\ pc = "attempt"
    /\ attempt' = (attempt + 1) % MaxAttempts
    /\ UNCHANGED <<pc, todo, iteration, made, endVars, turnVars, kind, landed, effectVars>>

(* 429, 5xx and transport errors are retried, with a sleep, up to the limit. *)
AttemptFailsRetryably ==
    /\ pc = "attempt"
    /\ LandsUnseen
    /\ IF attempt < MaxAttempts - 1
       THEN attempt' = attempt + 1 /\ UNCHANGED <<pc, todo>>
       ELSE ToolReturns /\ UNCHANGED attempt
    /\ UNCHANGED <<iteration, made, endVars, turnVars, kind, mutations>>

(* Not found, refused, unauthorized, an invalid merged interval; or, after *)
(* a create or an update landed, a body that cannot be parsed.             *)
AttemptFails ==
    /\ pc = "attempt"
    /\ \/ UNCHANGED <<landed, applied, ambiguous>>
       \/ kind # "delete_event" /\ LandsUnseen
    /\ ToolReturns
    /\ UNCHANGED <<iteration, made, endVars, turnVars, kind, attempt, mutations>>

-----------------------------------------------------------------------------
(* The finally clause.                                                     *)

(* Fault: a turn that raised leaves an assistant message.                  *)
SaveReplyAlways ==
    /\ pc = "final"
    /\ pc' = "closing"
    /\ history' = Append(history, [role |-> "assistant", turn |-> turn])
    /\ UNCHANGED <<iteration, todo, made, endVars, turn, traces, lost, callVars, effectVars>>

(* Only a turn that ended on purpose has an assistant message.             *)
SaveReply ==
    /\ pc = "final"
    /\ pc' = "closing"
    /\ history' = IF reply = "none" THEN history
                  ELSE Append(history, [role |-> "assistant", turn |-> turn])
    /\ UNCHANGED <<iteration, todo, made, endVars, turn, traces, lost, callVars, effectVars>>

(* Fault: the trace of a turn that raised is not closed.                   *)
CloseTraceOfReply ==
    /\ pc = "closing"
    /\ pc' = "idle"
    /\ traces' = IF reply = "none" THEN traces ELSE [traces EXCEPT ![turn] = "closed"]
    /\ UNCHANGED <<iteration, todo, made, endVars, turn, history, lost, callVars, effectVars>>

CloseTrace ==
    /\ pc = "closing"
    /\ pc' = "idle"
    /\ traces' = [traces EXCEPT ![turn] = "closed"]
    /\ UNCHANGED <<iteration, todo, made, endVars, turn, history, lost, callVars, effectVars>>

(* The process dies in the middle of a turn.                               *)
Crash ==
    /\ pc # "idle"
    /\ pc' = "idle"
    /\ lost' = lost \cup {[turn |-> turn, at |-> pc]}
    /\ UNCHANGED <<iteration, todo, made, endVars, turn, history, traces, callVars, effectVars>>

Next ==
    \/ StartTurn
    \/ ModelStops \/ ModelCallsTools \/ ModelFails \/ Bail
    \/ LocalTool \/ InvalidInterval \/ CallProvider
    \/ AttemptSucceeds \/ CurrentEventRead \/ AttemptFailsRetryably \/ AttemptFails
    \/ SaveReply \/ CloseTrace
    \/ Crash

Spec == Init /\ [][Next]_vars

(* Model and provider requests return or time out, and a running turn      *)
(* takes its next step.                                                    *)
FairSpec == Spec /\ WF_vars(Next /\ pc # "idle")

-----------------------------------------------------------------------------
Labels == {"idle", "model", "tool", "attempt", "final", "closing"}

TypeOK ==
    /\ pc \in Labels
    /\ turn \in 0..MaxTurns
    /\ iteration \in 0..MaxIterations
    /\ todo \in 0..MaxCalls
    /\ made \in Nat
    /\ kind \in Kinds
    /\ attempt \in 0..MaxAttempts - 1
    /\ landed \in 0..MaxAttempts
    /\ applied \subseteq 1..made
    /\ mutations \subseteq 1..made
    /\ ambiguous \in BOOLEAN
    /\ reply \in Replies
    /\ raised \subseteq [turn: 1..turn, why: {"model", "invalid_arguments"}]
    /\ history \in Seq([role: {"user", "assistant"}, turn: 1..turn])
    /\ traces \in Seq({"open", "closed"})
    /\ Len(traces) = turn
    /\ lost \subseteq [turn: 1..turn, at: Labels]

(* Whatever the bail message or the confirmation lists was really done     *)
(* (mutations_this_turn is appended to after the provider returned).       *)
ClaimsAreTrue == mutations \subseteq applied

(* A reply that reports no change tells the truth, as long as no request   *)
(* failed after its write had landed (_bail_message, _confirm_mutations).  *)
HonestUnlessAmbiguous ==
    reply \in {"nothing_changed", "no_reply"} /\ ~ambiguous => applied = {}

(* A single tool call changes the calendar once, unless a retry followed a *)
(* request that failed after it landed (_call_provider).                   *)
AppliedOnceUnlessAmbiguous == landed > 1 => ambiguous

Raised(n) == \E x \in raised : x.turn = n
Died(n) == \E x \in lost : x.turn = n
Over(n) == n = turn => pc = "idle"

(* Every assistant message in the history follows the user message of its  *)
(* own turn, and is no phantom: that turn did not raise and, if the        *)
(* process died in it, had decided its reply and had only its trace left   *)
(* to close. And no reply is missing: every other turn that is over has    *)
(* its assistant message (the finally clause of run_turn).                 *)
NoPhantomReply ==
    /\ \A i \in DOMAIN history :
          history[i].role = "assistant" =>
              /\ i > 1
              /\ history[i - 1] = [role |-> "user", turn |-> history[i].turn]
              /\ ~Raised(history[i].turn)
              /\ \A x \in lost : x.turn = history[i].turn => x.at = "closing"
    /\ \A n \in 1..turn :
          Over(n) /\ ~Raised(n) /\ ~Died(n) =>
              \E i \in DOMAIN history : history[i] = [role |-> "assistant", turn |-> n]

(* Once a turn is over its trace is closed, unless the process died in it. *)
TracesClosed ==
    \A n \in 1..turn : traces[n] = "open" => Died(n) \/ ~Over(n)

(* What these properties rest on. A turn that has changed something knows  *)
(* it, unless a failure was ambiguous, and a silent reply means that it    *)
(* recorded nothing.                                                       *)
EffectsAccounted ==
    /\ ~ambiguous => applied \subseteq mutations
    /\ reply \in {"nothing_changed", "no_reply"} => mutations = {}

(* A call under way changed the calendar at most once per failed attempt,  *)
(* and only by failures that were ambiguous.                               *)
AttemptAccounted ==
    pc = "attempt" =>
        /\ todo > 0 /\ made > 0
        /\ landed <= attempt
        /\ landed > 0 => kind \in Writes /\ ambiguous

(* Before its end a turn has neither replied nor raised, and the message   *)
(* it answers is the last of the history; at its end it has done one of    *)
(* the two.                                                                *)
TurnUnderWay ==
    /\ pc # "idle" => ~Died(turn)
    /\ pc \in {"final", "closing"} /\ reply = "none" => Raised(turn)
    /\ pc = "closing" /\ reply # "none" =>
           \E i \in DOMAIN history : history[i] = [role |-> "assistant", turn |-> turn]
    /\ pc # "idle" => turn > 0
    /\ pc = "tool" => todo > 0
    /\ pc \in {"model", "tool", "attempt"} => reply = "none"
    /\ pc \in {"model", "tool", "attempt"} \/ (pc = "final" /\ reply # "none") =>
           ~Raised(turn)
    /\ pc \in {"model", "tool", "attempt", "final"} =>
           /\ history # <<>>
           /\ history[Len(history)] = [role |-> "user", turn |-> turn]
           /\ \A i \in DOMAIN history :
                  history[i].role = "assistant" => history[i].turn # turn

TurnInvariant ==
    /\ TypeOK
    /\ ClaimsAreTrue
    /\ EffectsAccounted
    /\ AttemptAccounted
    /\ TurnUnderWay
    /\ AppliedOnceUnlessAmbiguous
    /\ NoPhantomReply
    /\ TracesClosed

(* Iterations and retries are bounded, so every turn ends.                 *)
TurnEnds == pc # "idle" ~> pc = "idle"

(* Invalid tool arguments are fed back as error results: they never make   *)
(* the turn raise.                                                         *)
InvalidArgumentsFedBack == \A x \in raised : x.why # "invalid_arguments"
=============================================================================
