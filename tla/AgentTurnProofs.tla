--------------------------- MODULE AgentTurnProofs ---------------------------
(***************************************************************************)
(* Proofs about AgentTurn, for every number of iterations, attempts, tool  *)
(* calls per response and turns.                                           *)
(***************************************************************************)
EXTENDS AgentTurn, TLAPS

Message(n) == [role: {"user", "assistant"}, turn: 1..n]

UnderWay == {"model", "tool", "attempt"}

USE DEF Labels, Raised, Died, Over

LEMMA InitInvariant == Init => TurnInvariant
<1> SUFFICES ASSUME Init PROVE TurnInvariant
  OBVIOUS
<1>1. TypeOK
  <2>1. history \in Seq([role: {"user", "assistant"}, turn: 1..turn])
    <3>1. history \in Seq(Message(turn))
      BY DEF Init
    <3>2. QED
      BY <3>1 DEF Message
  <2>2. traces \in Seq({"open", "closed"}) /\ Len(traces) = turn
    BY DEF Init
  <2>3. /\ turn \in 0..MaxTurns /\ iteration \in 0..MaxIterations /\ todo \in 0..MaxCalls
        /\ attempt \in 0..MaxAttempts - 1 /\ landed \in 0..MaxAttempts
    BY PositiveAssumption DEF Init
  <2>4. /\ pc = "idle" /\ made \in Nat /\ kind \in Kinds /\ reply \in Replies
        /\ applied = {} /\ mutations = {} /\ raised = {} /\ lost = {} /\ ambiguous \in BOOLEAN
    BY DEF Init, Kinds, Replies
  <2>5. QED
    BY <2>1, <2>2, <2>3, <2>4 DEF TypeOK
<1>2. QED
  BY <1>1 DEF Init, TurnInvariant, ClaimsAreTrue, EffectsAccounted, AttemptAccounted,
     TurnUnderWay, AppliedOnceUnlessAmbiguous, NoPhantomReply, TracesClosed

(* The messages of a history stay messages when there are more turns.      *)
LEMMA MoreTurns ==
  ASSUME NEW n \in Nat, NEW s \in Seq(Message(n))
  PROVE  s \in Seq(Message(n + 1))
<1>1. Message(n) \subseteq Message(n + 1)
  BY DEF Message
<1>2. /\ Len(s) \in Nat
      /\ s = [i \in 1..Len(s) |-> s[i]]
      /\ \A i \in 1..Len(s) : s[i] \in Message(n + 1)
  BY <1>1
<1>3. QED
  BY <1>2

LEMMA Counted ==
  ASSUME NEW m \in Nat, NEW n \in {m, m + 1}, n > 0, NEW s \in SUBSET (1..m)
  PROVE  s \subseteq 1..n /\ s \cup {n} \subseteq 1..n
OBVIOUS

(* A turn begins with nothing made, nothing said and its own user message. *)
LEMMA StartTurnInvariant ==
  ASSUME TurnInvariant, StartTurn
  PROVE  TurnInvariant'
<1> USE DEF TurnInvariant, StartTurn
<1>1. turn \in Nat /\ turn' = turn + 1 /\ turn' \in 1..MaxTurns
  BY PositiveAssumption DEF TypeOK
<1>2. history \in Seq(Message(turn))
  BY DEF TypeOK, Message
<1>3. history \in Seq(Message(turn'))
  BY <1>1, <1>2, MoreTurns
<1>4. history' \in Seq(Message(turn'))
  BY <1>1, <1>3 DEF Message
<1>5. traces' \in Seq({"open", "closed"}) /\ Len(traces') = turn'
  BY <1>1 DEF TypeOK
<1>6. TypeOK'
  <2>1. raised' \subseteq [turn: 1..turn', why: {"model", "invalid_arguments"}]
    BY <1>1 DEF TypeOK
  <2>2. lost' \subseteq [turn: 1..turn', at: Labels]
    BY <1>1 DEF TypeOK
  <2>3. /\ iteration' \in 0..MaxIterations /\ todo' \in 0..MaxCalls
        /\ attempt' \in 0..MaxAttempts - 1 /\ landed' \in 0..MaxAttempts
    BY PositiveAssumption
  <2>4. /\ pc' = "model" /\ made' \in Nat /\ kind' \in Kinds /\ reply' \in Replies
        /\ applied' = {} /\ mutations' = {} /\ ambiguous' \in BOOLEAN
    BY DEF Kinds, Replies
  <2>5. history' \in Seq([role: {"user", "assistant"}, turn: 1..turn'])
    BY <1>4 DEF Message
  <2> HIDE DEF StartTurn, TurnInvariant
  <2>6. QED
    BY <1>1, <1>5, <2>1, <2>2, <2>3, <2>4, <2>5 DEF TypeOK
<1>7. /\ DOMAIN history' = 1..Len(history) + 1
      /\ \A i \in DOMAIN history : history'[i] = history[i]
      /\ history'[Len(history')] = [role |-> "user", turn |-> turn']
  BY <1>2
<1>8. \A i \in DOMAIN history : history[i].turn # turn'
  <2>1. \A i \in DOMAIN history : history[i] \in Message(turn)
    BY <1>2
  <2>2. \A m \in Message(turn) : m.turn # turn'
    BY <1>1 DEF Message
  <2>3. QED
    BY <2>1, <2>2
<1>9. /\ \A x \in raised : x.turn # turn'
      /\ \A x \in lost : x.turn # turn'
  BY <1>1 DEF TypeOK
<1>10. TurnUnderWay'
  BY <1>1, <1>2, <1>4, <1>7, <1>8, <1>9 DEF TurnUnderWay
<1>11. NoPhantomReply'
  <2>1. /\ DOMAIN history = 1..Len(history) /\ DOMAIN history \subseteq DOMAIN history'
        /\ history'[Len(history')].role = "user"
    BY <1>2, <1>7
  <2>2. \A i \in DOMAIN history' : history'[i].role = "assistant" => i \in DOMAIN history
    BY <1>2, <1>7, <2>1
  <2>3. \A i \in DOMAIN history : i > 1 => i - 1 \in DOMAIN history
    BY <1>2
  <2>4. ASSUME NEW i \in DOMAIN history', history'[i].role = "assistant"
        PROVE  /\ i > 1
               /\ history'[i - 1] = [role |-> "user", turn |-> history'[i].turn]
               /\ \A x \in raised' : x.turn # history'[i].turn
               /\ \A x \in lost' : x.turn = history'[i].turn => x.at = "closing"
    <3>1. i \in DOMAIN history /\ history[i].role = "assistant" /\ history'[i] = history[i]
      BY <1>7, <2>2, <2>4
    <3>2. /\ i > 1 /\ history[i - 1] = [role |-> "user", turn |-> history[i].turn]
          /\ ~Raised(history[i].turn)
          /\ \A x \in lost : x.turn = history[i].turn => x.at = "closing"
      BY <3>1 DEF NoPhantomReply
    <3>3. history'[i - 1] = history[i - 1]
      BY <1>7, <2>3, <3>1, <3>2
    <3>4. raised' = raised /\ lost' = lost
      OBVIOUS
    <3> HIDE DEF StartTurn, TurnInvariant
    <3> QED
      BY <3>1, <3>2, <3>3, <3>4
  <2>5. ASSUME NEW n \in 1..turn', Over(n)', ~Raised(n)', ~Died(n)'
        PROVE  \E i \in DOMAIN history' : history'[i] = [role |-> "assistant", turn |-> n]
    <3>1. n \in 1..turn /\ Over(n) /\ ~Raised(n) /\ ~Died(n)
      BY <1>1, <2>5
    <3>2. PICK i \in DOMAIN history : history[i] = [role |-> "assistant", turn |-> n]
      BY <3>1 DEF NoPhantomReply
    <3> QED
      BY <1>7, <2>1, <3>2
  <2> HIDE DEF StartTurn, TurnInvariant
  <2> QED
    BY <2>4, <2>5 DEF NoPhantomReply
<1>12. TracesClosed'
  BY <1>1 DEF TracesClosed, TypeOK
<1>13. QED
  BY <1>6, <1>10, <1>11, <1>12 DEF ClaimsAreTrue, EffectsAccounted, AttemptAccounted,
     AppliedOnceUnlessAmbiguous

(* The steps of a turn before its end touch neither history nor traces.    *)
LEMMA StepUnderWay ==
  ASSUME TurnInvariant, pc \in UnderWay, pc' \in UnderWay, pc' = "tool" => todo' > 0,
         UNCHANGED <<endVars, turnVars>>
  PROVE  TurnUnderWay' /\ NoPhantomReply' /\ TracesClosed'
BY DEF TurnInvariant, UnderWay, endVars, turnVars, TurnUnderWay, NoPhantomReply, TracesClosed

(* The model's final text, or the text of the loop guard.                  *)
LEMMA DecideInvariant ==
  ASSUME TurnInvariant, NEW text \in Replies \ {"none", "confirmed"}, Decide(text), pc = "model",
         text = "nothing_changed" => mutations = {}
  PROVE  TurnInvariant'
<1> USE DEF TurnInvariant, Decide, turnVars, callVars, effectVars
<1>1. TypeOK'
  BY DEF TypeOK, Replies
<1>2. ClaimsAreTrue' /\ EffectsAccounted' /\ AttemptAccounted' /\ AppliedOnceUnlessAmbiguous'
  BY DEF ClaimsAreTrue, EffectsAccounted, AttemptAccounted, AppliedOnceUnlessAmbiguous
<1>3. TurnUnderWay' /\ NoPhantomReply' /\ TracesClosed'
  BY DEF TurnUnderWay, NoPhantomReply, TracesClosed
<1>4. QED
  BY <1>1, <1>2, <1>3

(* An exception escapes a turn that has no assistant message yet.          *)
LEMMA RaiseInvariant ==
  ASSUME TurnInvariant, NEW why \in {"model", "invalid_arguments"}, RaiseFor(why),
         pc \in UnderWay, UNCHANGED <<todo, effectVars>>
  PROVE  TurnInvariant'
<1> USE DEF TurnInvariant, RaiseFor, UnderWay, turnVars, callVars, effectVars
<1>1. TypeOK'
  <2>1. turn \in 1..turn
    BY DEF TypeOK, TurnUnderWay
  <2>2. QED
    BY <2>1 DEF TypeOK
<1>2. ClaimsAreTrue' /\ EffectsAccounted' /\ AttemptAccounted' /\ AppliedOnceUnlessAmbiguous'
  BY DEF ClaimsAreTrue, EffectsAccounted, AttemptAccounted, AppliedOnceUnlessAmbiguous
<1>3. TurnUnderWay' /\ TracesClosed'
  <2>1. turn \in 1..turn /\ \E x \in raised' : x.turn = turn
    <3>1. [turn |-> turn, why |-> why] \in raised' /\ [turn |-> turn, why |-> why].turn = turn
      OBVIOUS
    <3>2. turn \in 1..turn
      BY DEF TypeOK, TurnUnderWay
    <3> QED
      BY <3>1, <3>2
  <2>2. QED
    BY <2>1 DEF TurnUnderWay, TracesClosed
<1>4. NoPhantomReply'
  BY DEF TurnUnderWay, NoPhantomReply
<1>5. QED
  BY <1>1, <1>2, <1>3, <1>4

LEMMA ModelCallsToolsInvariant ==
  ASSUME TurnInvariant, ModelCallsTools
  PROVE  TurnInvariant'
<1> USE DEF TurnInvariant, ModelCallsTools, endVars, turnVars, callVars, effectVars
<1>1. TypeOK'
  BY PositiveAssumption DEF TypeOK
<1>2. TurnUnderWay' /\ NoPhantomReply' /\ TracesClosed'
  BY StepUnderWay, PositiveAssumption DEF UnderWay
<1>3. QED
  BY <1>1, <1>2 DEF ClaimsAreTrue, EffectsAccounted, AttemptAccounted, AppliedOnceUnlessAmbiguous

(* A tool call without the provider makes and records its change together. *)
LEMMA LocalToolInvariant ==
  ASSUME TurnInvariant, LocalTool
  PROVE  TurnInvariant'
<1> USE DEF TurnInvariant, LocalTool, ToolReturns, endVars, turnVars, callVars
<1>1. todo \in 1..MaxCalls /\ made \in Nat /\ made' = made + 1
  BY PositiveAssumption DEF TypeOK, TurnUnderWay
<1>2. TypeOK'
  <2>1. applied' \subseteq 1..made' /\ mutations' \subseteq 1..made'
    <3>1. made \in Nat /\ applied \in SUBSET (1..made) /\ mutations \in SUBSET (1..made)
      BY DEF TypeOK
    <3>2. made' \in {made, made + 1} /\ made' > 0
      BY <1>1
    <3>3. applied' \in {applied, applied \cup {made'}} /\ mutations' \in {mutations, mutations \cup {made'}}
      OBVIOUS
    <3> QED
      BY <3>1, <3>2, <3>3, Counted
  <2>2. todo' \in 0..MaxCalls /\ pc' \in {"model", "tool"} /\ made' \in Nat
    BY <1>1, PositiveAssumption
  <2>3. QED
    BY <2>1, <2>2 DEF TypeOK
<1>3. TurnUnderWay' /\ NoPhantomReply' /\ TracesClosed'
  BY <1>1, StepUnderWay, PositiveAssumption DEF UnderWay
<1>4. ClaimsAreTrue' /\ EffectsAccounted'
  BY DEF ClaimsAreTrue, EffectsAccounted, TurnUnderWay
<1>5. QED
  BY <1>2, <1>3, <1>4 DEF AttemptAccounted, AppliedOnceUnlessAmbiguous

(* A provider call begins with no request made.                            *)
LEMMA CallProviderInvariant ==
  ASSUME TurnInvariant, CallProvider
  PROVE  TurnInvariant'
<1> USE DEF TurnInvariant, CallProvider, endVars, turnVars, effectVars
<1>1. todo \in 1..MaxCalls /\ made \in Nat /\ made' = made + 1
  BY PositiveAssumption DEF TypeOK, TurnUnderWay
<1>2. TypeOK'
  <2>1. applied' \subseteq 1..made' /\ mutations' \subseteq 1..made'
    <3>1. made \in Nat /\ applied \in SUBSET (1..made) /\ mutations \in SUBSET (1..made)
      BY DEF TypeOK
    <3>2. made' \in {made, made + 1} /\ made' > 0
      BY <1>1
    <3>3. applied' \in {applied, applied \cup {made'}} /\ mutations' \in {mutations, mutations \cup {made'}}
      OBVIOUS
    <3> QED
      BY <3>1, <3>2, <3>3, Counted
  <2>2. attempt' \in 0..MaxAttempts - 1 /\ landed' \in 0..MaxAttempts
    BY PositiveAssumption
  <2>3. QED
    BY <1>1, <2>1, <2>2 DEF TypeOK
<1>3. TurnUnderWay' /\ NoPhantomReply' /\ TracesClosed'
  BY StepUnderWay DEF UnderWay
<1>4. QED
  BY <1>1, <1>2, <1>3 DEF ClaimsAreTrue, EffectsAccounted, AttemptAccounted,
     AppliedOnceUnlessAmbiguous

(* What is known of the call under way before one of its attempts ends.    *)
LEMMA AttemptState ==
  ASSUME TurnInvariant, pc = "attempt"
  PROVE  /\ todo \in 1..MaxCalls /\ made \in Nat \ {0}
         /\ attempt \in 0..MaxAttempts - 1 /\ landed \in 0..attempt
         /\ landed > 0 => kind \in Writes /\ ambiguous
         /\ reply = "none" /\ mutations \subseteq applied
         /\ applied \subseteq 1..made
         /\ ~ambiguous => applied \subseteq mutations
BY PositiveAssumption
   DEF TurnInvariant, TypeOK, AttemptAccounted, TurnUnderWay, ClaimsAreTrue, EffectsAccounted

(* The provider returned: the change is recorded.                          *)
LEMMA AttemptSucceedsInvariant ==
  ASSUME TurnInvariant, AttemptSucceeds
  PROVE  TurnInvariant'
<1> USE DEF AttemptSucceeds, ToolReturns, endVars, turnVars
<1> TypeOK
  BY DEF TurnInvariant
<1>1. /\ todo \in 1..MaxCalls /\ made \in Nat \ {0}
      /\ attempt \in 0..MaxAttempts - 1 /\ landed \in 0..attempt
      /\ landed > 0 => ambiguous
      /\ reply = "none" /\ mutations \subseteq applied
      /\ applied \subseteq 1..made
      /\ ~ambiguous => applied \subseteq mutations
  BY AttemptState
<1>2. TypeOK'
  <2>1. applied' \subseteq 1..made' /\ mutations' \subseteq 1..made'
    <3>1. made \in Nat /\ applied \in SUBSET (1..made) /\ mutations \in SUBSET (1..made)
      BY DEF TypeOK
    <3>2. made' \in {made, made + 1} /\ made' > 0
      BY <1>1
    <3>3. applied' \in {applied, applied \cup {made'}} /\ mutations' \in {mutations, mutations \cup {made'}}
      OBVIOUS
    <3> QED
      BY <3>1, <3>2, <3>3, Counted
  <2>2. attempt' \in 0..MaxAttempts - 1 /\ landed' \in 0..MaxAttempts
    BY <1>1, PositiveAssumption DEF TypeOK
  <2>3. todo' \in 0..MaxCalls /\ pc' \in {"model", "tool", "attempt"} /\ ambiguous' \in BOOLEAN
    BY <1>1, PositiveAssumption DEF TypeOK
  <2>4. QED
    BY <2>1, <2>2, <2>3 DEF TypeOK
<1>3. TurnUnderWay' /\ NoPhantomReply' /\ TracesClosed'
  BY <1>1, StepUnderWay, PositiveAssumption DEF UnderWay
<1>4. ClaimsAreTrue' /\ EffectsAccounted'
  BY <1>1 DEF ClaimsAreTrue, EffectsAccounted
<1>5. AppliedOnceUnlessAmbiguous'
  BY <1>1 DEF AppliedOnceUnlessAmbiguous, TurnInvariant
<1>6. QED
  BY <1>2, <1>3, <1>4, <1>5, <1>1 DEF TurnInvariant, AttemptAccounted

(* The read inside update_event changes nothing, however it ends.          *)
LEMMA CurrentEventReadInvariant ==
  ASSUME TurnInvariant, CurrentEventRead
  PROVE  TurnInvariant'
<1> USE DEF CurrentEventRead
<1>1. /\ todo \in 1..MaxCalls /\ made \in Nat \ {0}
      /\ landed = 0
  BY AttemptState DEF Writes
<1>2. CASE ToolReturns /\ UNCHANGED <<iteration, made, endVars, turnVars, callVars, effectVars>>
  <2> USE <1>2 DEF ToolReturns, endVars, turnVars, callVars, effectVars
  <2>1. TypeOK'
    BY <1>1, PositiveAssumption DEF TypeOK, TurnInvariant
  <2>2. TurnUnderWay' /\ NoPhantomReply' /\ TracesClosed'
    BY <1>1, StepUnderWay, PositiveAssumption DEF UnderWay
  <2>3. QED
    BY <2>1, <2>2, <1>1 DEF TurnInvariant, ClaimsAreTrue, EffectsAccounted, AttemptAccounted,
       AppliedOnceUnlessAmbiguous
<1>3. CASE /\ kind' = "update_event"
           /\ attempt' = 0
           /\ UNCHANGED <<pc, iteration, todo, made, endVars, turnVars, landed, effectVars>>
  <2> USE <1>3 DEF endVars, turnVars, effectVars
  <2>1. TypeOK'
    BY PositiveAssumption DEF TypeOK, TurnInvariant, Kinds
  <2>2. TurnUnderWay' /\ NoPhantomReply' /\ TracesClosed'
    BY StepUnderWay DEF UnderWay
  <2>3. QED
    BY <2>1, <2>2, <1>1 DEF TurnInvariant, ClaimsAreTrue, EffectsAccounted, AttemptAccounted,
       AppliedOnceUnlessAmbiguous
<1>4. CASE RaiseFor("invalid_arguments") /\ UNCHANGED <<todo, effectVars>>
  BY <1>4, RaiseInvariant DEF UnderWay
<1>5. QED
  BY <1>2, <1>3, <1>4

(* Every attempt that failed may have landed; if it did, that is ambiguous. *)
LEMMA AttemptFailsRetryablyInvariant ==
  ASSUME TurnInvariant, AttemptFailsRetryably
  PROVE  TurnInvariant'
<1> USE DEF AttemptFailsRetryably, ToolReturns, LandsUnseen, CanLand, endVars, turnVars
<1> TypeOK
  BY DEF TurnInvariant
<1>1. /\ todo \in 1..MaxCalls /\ made \in Nat \ {0}
      /\ attempt \in 0..MaxAttempts - 1 /\ landed \in 0..attempt
      /\ landed > 0 => kind \in Writes /\ ambiguous
      /\ reply = "none" /\ mutations \subseteq applied
      /\ applied \subseteq 1..made
      /\ ~ambiguous => applied \subseteq mutations
  BY AttemptState
<1>2. TypeOK'
  <2>1. applied' \subseteq 1..made' /\ mutations' \subseteq 1..made'
    <3>1. made \in Nat /\ applied \in SUBSET (1..made) /\ mutations \in SUBSET (1..made)
      BY DEF TypeOK
    <3>2. made' \in {made, made + 1} /\ made' > 0
      BY <1>1
    <3>3. applied' \in {applied, applied \cup {made'}} /\ mutations' \in {mutations, mutations \cup {made'}}
      OBVIOUS
    <3> QED
      BY <3>1, <3>2, <3>3, Counted
  <2>2. attempt' \in 0..MaxAttempts - 1 /\ landed' \in 0..MaxAttempts
    BY <1>1, PositiveAssumption DEF TypeOK
  <2>3. todo' \in 0..MaxCalls /\ pc' \in {"model", "tool", "attempt"}
    BY <1>1, PositiveAssumption DEF TypeOK
  <2>4. ambiguous' \in {ambiguous, TRUE}
    OBVIOUS
  <2>5. ambiguous' \in BOOLEAN
    BY <2>4, Zenon DEF TypeOK
  <2>6. QED
    BY <2>1, <2>2, <2>3, <2>5 DEF TypeOK
<1>3. TurnUnderWay' /\ NoPhantomReply' /\ TracesClosed'
  BY <1>1, StepUnderWay, PositiveAssumption DEF UnderWay
<1>4. ClaimsAreTrue' /\ EffectsAccounted'
  BY <1>1 DEF ClaimsAreTrue, EffectsAccounted
<1>5. AppliedOnceUnlessAmbiguous'
  BY <1>1 DEF AppliedOnceUnlessAmbiguous
<1>6. AttemptAccounted'
  BY <1>1, PositiveAssumption DEF AttemptAccounted
<1>7. QED
  BY <1>2, <1>3, <1>4, <1>5, <1>6 DEF TurnInvariant

LEMMA AttemptFailsInvariant ==
  ASSUME TurnInvariant, AttemptFails
  PROVE  TurnInvariant'
<1> USE DEF AttemptFails, ToolReturns, LandsUnseen, CanLand, endVars, turnVars
<1> TypeOK
  BY DEF TurnInvariant
<1>1. /\ todo \in 1..MaxCalls /\ made \in Nat \ {0}
      /\ attempt \in 0..MaxAttempts - 1 /\ landed \in 0..attempt
      /\ landed > 0 => kind \in Writes /\ ambiguous
      /\ reply = "none" /\ mutations \subseteq applied
      /\ applied \subseteq 1..made
      /\ ~ambiguous => applied \subseteq mutations
  BY AttemptState
<1>2. TypeOK'
  <2>1. applied' \subseteq 1..made' /\ mutations' \subseteq 1..made'
    <3>1. made \in Nat /\ applied \in SUBSET (1..made) /\ mutations \in SUBSET (1..made)
      BY DEF TypeOK
    <3>2. made' \in {made, made + 1} /\ made' > 0
      BY <1>1
    <3>3. applied' \in {applied, applied \cup {made'}} /\ mutations' \in {mutations, mutations \cup {made'}}
      OBVIOUS
    <3> QED
      BY <3>1, <3>2, <3>3, Counted
  <2>2. attempt' \in 0..MaxAttempts - 1 /\ landed' \in 0..MaxAttempts
    BY <1>1, PositiveAssumption DEF TypeOK
  <2>3. todo' \in 0..MaxCalls /\ pc' \in {"model", "tool", "attempt"}
    BY <1>1, PositiveAssumption DEF TypeOK
  <2>4. ambiguous' \in {ambiguous, TRUE}
    OBVIOUS
  <2>5. ambiguous' \in BOOLEAN
    BY <2>4, Zenon DEF TypeOK
  <2>6. QED
    BY <2>1, <2>2, <2>3, <2>5 DEF TypeOK
<1>3. TurnUnderWay' /\ NoPhantomReply' /\ TracesClosed'
  BY <1>1, StepUnderWay, PositiveAssumption DEF UnderWay
<1>4. ClaimsAreTrue' /\ EffectsAccounted'
  BY <1>1 DEF ClaimsAreTrue, EffectsAccounted
<1>5. AppliedOnceUnlessAmbiguous'
  BY <1>1 DEF AppliedOnceUnlessAmbiguous
<1>6. AttemptAccounted'
  BY <1>1 DEF AttemptAccounted
<1>7. QED
  BY <1>2, <1>3, <1>4, <1>5, <1>6 DEF TurnInvariant

(* The assistant message, if there is one, follows the user message of its *)
(* turn, and the turn did not raise.                                       *)
LEMMA SaveReplyInvariant ==
  ASSUME TurnInvariant, SaveReply
  PROVE  TurnInvariant'
<1> USE DEF TurnInvariant, SaveReply, endVars, callVars, effectVars
<1>1. turn \in 1..turn /\ history \in Seq(Message(turn)) /\ Len(history) \in Nat \ {0}
  BY DEF TypeOK, TurnUnderWay, Message
<1>2. history' \in Seq(Message(turn))
  BY <1>1 DEF Message
<1>3. TypeOK'
  BY <1>2 DEF TypeOK, Message
<1>4. TurnUnderWay' /\ TracesClosed'
  <2>1. reply # "none" =>
            /\ Len(history) + 1 \in DOMAIN history'
            /\ history'[Len(history) + 1] = [role |-> "assistant", turn |-> turn]
    BY <1>1
  <2>2. QED
    BY <2>1 DEF TurnUnderWay, TracesClosed
<1>5. NoPhantomReply'
  <2>1. CASE reply = "none"
    BY <2>1 DEF NoPhantomReply
  <2>2. CASE reply # "none"
    <3> DEFINE last == Len(history) + 1
    <3>1. /\ DOMAIN history' = 1..last
          /\ \A i \in 1..Len(history) : history'[i] = history[i]
          /\ history'[last] = [role |-> "assistant", turn |-> turn]
      BY <1>1, <2>2
    <3>2. history'[last - 1] = [role |-> "user", turn |-> turn]
      BY <1>1, <3>1 DEF TurnUnderWay
    <3>3. (\A x \in raised' : x.turn # turn) /\ \A x \in lost' : x.turn # turn
      BY <2>2 DEF TurnUnderWay
    <3>8. ASSUME NEW n \in 1..turn', Over(n)', ~Raised(n)', ~Died(n)'
          PROVE  \E i \in DOMAIN history' : history'[i] = [role |-> "assistant", turn |-> n]
      <4>1. n \in 1..turn /\ Over(n) /\ ~Raised(n) /\ ~Died(n)
        BY <3>8
      <4>2. PICK i \in DOMAIN history : history[i] = [role |-> "assistant", turn |-> n]
        BY <4>1 DEF NoPhantomReply
      <4> QED
        BY <1>1, <3>1, <4>2
    <3>4. SUFFICES ASSUME NEW i \in 1..last, history'[i].role = "assistant"
                   PROVE  /\ i > 1
                          /\ history'[i - 1] = [role |-> "user", turn |-> history'[i].turn]
                          /\ \A x \in raised' : x.turn # history'[i].turn
                          /\ \A x \in lost' : x.turn = history'[i].turn => x.at = "closing"
      BY <3>1, <3>8 DEF NoPhantomReply
    <3>5. CASE i = last
      BY <1>1, <3>1, <3>2, <3>3, <3>5
    <3>6. CASE i \in 1..Len(history)
      <4>1. /\ i > 1
            /\ history[i - 1] = [role |-> "user", turn |-> history[i].turn]
            /\ \A x \in raised : x.turn # history[i].turn
            /\ \A x \in lost : x.turn = history[i].turn => x.at = "closing"
        BY <1>1, <3>1, <3>4, <3>6 DEF NoPhantomReply
      <4>2. i - 1 \in 1..Len(history)
        BY <1>1, <3>6, <4>1
      <4>3. QED
        BY <3>1, <3>6, <4>1, <4>2
    <3>7. QED
      BY <1>1, <3>5, <3>6
  <2>3. QED
    BY <2>1, <2>2
<1>6. QED
  BY <1>3, <1>4, <1>5 DEF ClaimsAreTrue, EffectsAccounted, AttemptAccounted,
     AppliedOnceUnlessAmbiguous

LEMMA CloseTraceInvariant ==
  ASSUME TurnInvariant, CloseTrace
  PROVE  TurnInvariant'
<1> USE DEF TurnInvariant, CloseTrace, endVars, callVars, effectVars
<1>1. turn \in 1..turn /\ traces \in Seq({"open", "closed"}) /\ Len(traces) = turn
  BY DEF TypeOK, TurnUnderWay
<1>2. traces' \in Seq({"open", "closed"}) /\ Len(traces') = turn
  BY <1>1
<1>3. TypeOK'
  BY <1>2 DEF TypeOK
<1>4. TurnUnderWay' /\ NoPhantomReply'
  BY DEF TurnUnderWay, NoPhantomReply
<1>5. TracesClosed'
  BY <1>1 DEF TracesClosed
<1>6. QED
  BY <1>3, <1>4, <1>5 DEF ClaimsAreTrue, EffectsAccounted, AttemptAccounted,
     AppliedOnceUnlessAmbiguous

LEMMA CrashInvariant ==
  ASSUME TurnInvariant, Crash
  PROVE  TurnInvariant'
<1> USE DEF TurnInvariant, Crash, endVars, callVars, effectVars
<1>1. TypeOK'
  <2>1. turn' = turn /\ turn \in 1..turn /\ lost \subseteq [turn: 1..turn, at: Labels]
    BY DEF TypeOK, TurnUnderWay
  <2>2. lost' \subseteq [turn: 1..turn', at: Labels]
    <3>1. [turn |-> turn, at |-> pc] \in [turn: 1..turn, at: Labels]
      BY <2>1 DEF TypeOK
    <3> HIDE DEF Labels
    <3> QED
      BY <2>1, <3>1
  <2>3. QED
    BY <2>2 DEF TypeOK
<1>4. \E x \in lost' : x.turn = turn
  <2>1. [turn |-> turn, at |-> pc] \in lost' /\ [turn |-> turn, at |-> pc].turn = turn
    OBVIOUS
  <2> QED
    BY <2>1
<1>2. TracesClosed'
  BY <1>4 DEF TracesClosed
<1>5. NoPhantomReply'
  <2>1. ASSUME NEW i \in DOMAIN history, history[i].role = "assistant",
               history[i].turn = turn
        PROVE  pc = "closing"
    BY <2>1 DEF TypeOK, TurnUnderWay
  <2>2. \A x \in lost' : x \in lost \/ (x.turn = turn /\ x.at = pc)
    OBVIOUS
  <2>3. \A n \in 1..turn : Over(n)' /\ ~Died(n)' => Over(n) /\ ~Died(n)
    BY <1>4
  <2>4. QED
    BY <2>1, <2>2, <2>3 DEF NoPhantomReply
<1>3. QED
  BY <1>1, <1>2, <1>5 DEF ClaimsAreTrue, EffectsAccounted, AttemptAccounted, TurnUnderWay,
     AppliedOnceUnlessAmbiguous

LEMMA StutterInvariant ==
  ASSUME TurnInvariant, UNCHANGED vars
  PROVE  TurnInvariant'
BY DEF vars, endVars, turnVars, callVars, effectVars, TurnInvariant, TypeOK, ClaimsAreTrue,
   EffectsAccounted, AttemptAccounted, TurnUnderWay, AppliedOnceUnlessAmbiguous, NoPhantomReply,
   TracesClosed

LEMMA NextInvariant == TurnInvariant /\ [Next]_vars => TurnInvariant'
<1> SUFFICES ASSUME TurnInvariant, [Next]_vars PROVE TurnInvariant'
  OBVIOUS
<1>1. CASE StartTurn
  BY <1>1, StartTurnInvariant
<1>2. CASE ModelStops
  <2>1. PICK text \in {"text", "no_reply"} : Decide(text)
    BY <1>2 DEF ModelStops
  <2>2. QED
    BY <1>2, <2>1, DecideInvariant DEF ModelStops, Replies
<1>3. CASE ModelCallsTools
  BY <1>3, ModelCallsToolsInvariant
<1>4. CASE ModelFails
  BY <1>4, RaiseInvariant DEF ModelFails, UnderWay
<1>5. CASE Bail
  <2> DEFINE text == IF mutations = {} THEN "nothing_changed" ELSE "changes_applied"
  <2>1. text \in Replies \ {"none", "confirmed"}
    BY DEF Replies
  <2>2. pc = "model" /\ Decide(text)
    BY <1>5 DEF Bail
  <2>3. text = "nothing_changed" => mutations = {}
    OBVIOUS
  <2> HIDE DEF text
  <2>4. QED
    BY <2>1, <2>2, <2>3, DecideInvariant
<1>6. CASE LocalTool
  BY <1>6, LocalToolInvariant
<1>7. CASE InvalidInterval
  BY <1>7, RaiseInvariant DEF InvalidInterval, UnderWay
<1>8. CASE CallProvider
  BY <1>8, CallProviderInvariant
<1>9. CASE AttemptSucceeds
  BY <1>9, AttemptSucceedsInvariant
<1>10. CASE CurrentEventRead
  BY <1>10, CurrentEventReadInvariant
<1>11. CASE AttemptFailsRetryably
  BY <1>11, AttemptFailsRetryablyInvariant
<1>12. CASE AttemptFails
  BY <1>12, AttemptFailsInvariant
<1>13. CASE SaveReply
  BY <1>13, SaveReplyInvariant
<1>14. CASE CloseTrace
  BY <1>14, CloseTraceInvariant
<1>15. CASE Crash
  BY <1>15, CrashInvariant
<1>16. CASE UNCHANGED vars
  BY <1>16, StutterInvariant
<1>17. QED
  BY <1>1, <1>2, <1>3, <1>4, <1>5, <1>6, <1>7, <1>8, <1>9, <1>10, <1>11, <1>12, <1>13,
     <1>14, <1>15, <1>16 DEF Next

-----------------------------------------------------------------------------
(* The inductive invariant of run_turn and _call_provider: types, what was *)
(* applied and recorded, and the state of the attempt, history and traces. *)
THEOREM TurnInvariantHolds == Spec => []TurnInvariant
<1>1. QED
  BY InitInvariant, NextInvariant, PTL DEF Spec

(* mutations_this_turn only holds changes that were made: no confirmation  *)
(* and no bail message claims another, after any failures and retries.     *)
THEOREM RepliesClaimOnlyTheTruth == Spec => []ClaimsAreTrue
<1>1. TurnInvariant => ClaimsAreTrue
  BY DEF TurnInvariant
<1>2. QED
  BY <1>1, TurnInvariantHolds, PTL

(* "Nothing was changed" and an empty reply are true unless a request of   *)
(* the turn failed after its write had landed (_bail_message).             *)
THEOREM SilenceIsHonest == Spec => []HonestUnlessAmbiguous
<1>1. TurnInvariant => HonestUnlessAmbiguous
  BY DEF TurnInvariant, EffectsAccounted, HonestUnlessAmbiguous
<1>2. QED
  BY <1>1, TurnInvariantHolds, PTL

(* However many attempts _call_provider makes, a call changes the calendar *)
(* once, unless one of them failed after its write had landed.             *)
THEOREM CallsApplyOnce == Spec => []AppliedOnceUnlessAmbiguous
<1>1. TurnInvariant => AppliedOnceUnlessAmbiguous
  BY DEF TurnInvariant
<1>2. QED
  BY <1>1, TurnInvariantHolds, PTL

(* An assistant message answers the user message before it, in a turn that *)
(* did not raise and did not die before its reply was stored; every turn   *)
(* that neither raised nor died has its assistant message.                 *)
THEOREM RepliesBelongToTheirTurn == Spec => []NoPhantomReply
<1>1. TurnInvariant => NoPhantomReply
  BY DEF TurnInvariant
<1>2. QED
  BY <1>1, TurnInvariantHolds, PTL

(* Only the trace of the running turn, or of one in which the process      *)
(* died, is open (end_request in the finally clause).                      *)
THEOREM FinishedTurnsAreTraced == Spec => []TracesClosed
<1>1. TurnInvariant => TracesClosed
  BY DEF TurnInvariant
<1>2. QED
  BY <1>1, TurnInvariantHolds, PTL

-----------------------------------------------------------------------------
(* A turn cannot go on for ever (the part of TurnEnds that needs no        *)
(* fairness). The steps of one tool call: the call itself and, if it is an *)
(* update, the attempts to read the event and those to write it.           *)
CallSteps == 2 * MaxAttempts + 1
(* One round of the loop: an answer of the model and its tool calls.       *)
RoundSteps == MaxCalls * CallSteps + 1
(* What is left when the model is asked: the rounds, and the last three    *)
(* steps (the answer that stops the loop, the reply, the trace).           *)
RoundsLeft == (MaxIterations - iteration) * RoundSteps + 3
(* What is left of a call of the provider; a read is followed by its       *)
(* write.                                                                  *)
AttemptsLeft == (MaxAttempts - attempt) + IF kind = "get_event" THEN MaxAttempts ELSE 0

(* A bound on the steps that are left of this turn.                        *)
Work ==
    CASE pc = "idle" -> 0
      [] pc = "closing" -> 1
      [] pc = "final" -> 2
      [] pc = "model" -> RoundsLeft
      [] pc = "tool" -> RoundsLeft + todo * CallSteps
      [] pc = "attempt" -> RoundsLeft + (todo - 1) * CallSteps + AttemptsLeft

(* The work of a turn that has just started.                               *)
Longest == MaxIterations * RoundSteps + 3

(* A step starts a turn with the whole work, or leaves less of it.         *)
LessToDo == Work \in Nat /\ IF pc = "idle" THEN Work' = Longest ELSE Work' < Work

(* Every step inside a turn leaves less to do (run_turn, _call_provider).  *)
TurnsShrink == [][LessToDo]_vars

(* Products are kept away from the solver in three facts.                  *)
LEMMA OneLess ==
  ASSUME NEW a \in Nat \ {0}, NEW b \in Nat
  PROVE  a * b = (a - 1) * b + b /\ (a - 1) * b \in Nat
OBVIOUS

(* A product grows with its factors.                                       *)
LEMMA NoMore ==
  ASSUME NEW a \in Nat, NEW b \in Nat, NEW c \in Nat, a <= b
  PROVE  a * c \in Nat /\ a * c <= b * c
<1>1. b * c = a * c + (b - a) * c /\ (b - a) * c \in Nat /\ a * c \in Nat
  OBVIOUS
<1> QED
  BY <1>1

(* A sum grows with its last term.                                         *)
LEMMA Sums ==
  ASSUME NEW a \in Nat, NEW b \in Nat, NEW c \in Nat, NEW d \in Nat, c < d
  PROVE  a + b + c < a + (b + d) /\ a + b + c < a + b + d
OBVIOUS

(* The steps of a call and of a round are numbers.                         *)
LEMMA StepFacts ==
  /\ CallSteps \in Nat /\ CallSteps = 2 * MaxAttempts + 1
  /\ RoundSteps \in Nat /\ RoundSteps = MaxCalls * CallSteps + 1
  /\ MaxCalls * CallSteps \in Nat
<1>1. CallSteps \in Nat
  BY PositiveAssumption DEF CallSteps
<1>2. MaxCalls * CallSteps \in Nat
  <2> HIDE DEF CallSteps
  <2> QED
    BY <1>1, PositiveAssumption
<1> QED
  BY <1>1, <1>2 DEF CallSteps, RoundSteps

(* The calls of a round fit into it, and one of them less is CallSteps     *)
(* less.                                                                   *)
LEMMA RoundFacts ==
  ASSUME TypeOK
  PROVE  /\ RoundsLeft \in Nat /\ RoundsLeft >= 3
         /\ todo * CallSteps \in Nat /\ todo * CallSteps < RoundSteps
         /\ todo > 0 => /\ (todo - 1) * CallSteps \in Nat
                        /\ todo * CallSteps = (todo - 1) * CallSteps + CallSteps
<1>1. /\ MaxIterations - iteration \in Nat
      /\ todo \in Nat /\ todo <= MaxCalls /\ MaxCalls \in Nat
  BY PositiveAssumption DEF TypeOK
<1>2. (MaxIterations - iteration) * RoundSteps \in Nat
  BY <1>1, StepFacts, NoMore
<1>3. todo * CallSteps \in Nat /\ todo * CallSteps <= MaxCalls * CallSteps
  BY <1>1, StepFacts, NoMore
<1>4. todo > 0 => /\ (todo - 1) * CallSteps \in Nat
                  /\ todo * CallSteps = (todo - 1) * CallSteps + CallSteps
  BY <1>1, StepFacts, OneLess
<1> QED
  BY <1>2, <1>3, <1>4, StepFacts DEF RoundsLeft

(* A tool that returns leaves the calls after it.                          *)
LEMMA ReturnLeaves ==
  ASSUME TypeOK, ToolReturns, todo > 0, iteration' = iteration
  PROVE  Work' = RoundsLeft + (todo - 1) * CallSteps
<1>1. RoundsLeft' = RoundsLeft /\ CallSteps' = CallSteps /\ todo' = todo - 1
  BY DEF RoundsLeft, RoundSteps, CallSteps, ToolReturns
<1>2. CASE todo = 1
  <2>1. pc' = "model" /\ (todo - 1) * CallSteps = 0
    BY <1>2, StepFacts DEF ToolReturns
  <2> QED
    BY <1>1, <2>1, RoundFacts DEF Work
<1>3. CASE todo # 1
  BY <1>1, <1>3 DEF Work, ToolReturns
<1> QED
  BY <1>2, <1>3

(* Every step of a turn leaves less work: a round is worth more than all   *)
(* of its calls, and a call more than all of its attempts.                 *)
LEMMA WorkShrinks ==
  ASSUME TurnInvariant, Next, pc # "idle"
  PROVE  Work' < Work
<1> USE DEF TurnInvariant
<1>1. /\ RoundsLeft \in Nat /\ RoundsLeft >= 3
      /\ todo * CallSteps \in Nat /\ todo * CallSteps < RoundSteps
      /\ todo > 0 => /\ (todo - 1) * CallSteps \in Nat
                     /\ todo * CallSteps = (todo - 1) * CallSteps + CallSteps
  BY RoundFacts
<1>0. RoundsLeft \in Nat
  BY <1>1
<1>2. /\ MaxAttempts \in Nat \ {0} /\ CallSteps \in Nat /\ CallSteps = 2 * MaxAttempts + 1
      /\ RoundSteps \in Nat
  BY StepFacts, PositiveAssumption
<1>3. /\ pc \in {"model", "tool", "attempt", "final", "closing"}
      /\ attempt \in Nat /\ MaxAttempts - attempt \in Nat \ {0}
      /\ MaxAttempts - attempt <= MaxAttempts
      /\ pc \in {"tool", "attempt"} => todo > 0
  BY PositiveAssumption DEF TypeOK, TurnUnderWay, AttemptAccounted
<1>4. /\ AttemptsLeft \in Nat \ {0} /\ AttemptsLeft <= 2 * MaxAttempts
      /\ kind = "get_event" => AttemptsLeft > MaxAttempts
  BY <1>2, <1>3 DEF AttemptsLeft
<1>5. pc \in {"model", "tool", "attempt"} => Work >= 3 /\ Work \in Nat
  BY <1>1, <1>3, <1>4 DEF Work
<1>6. CASE pc' = "final" /\ pc \in {"model", "tool", "attempt"}
  BY <1>5, <1>6 DEF Work
<1>7. CASE ToolReturns /\ iteration' = iteration /\ pc \in {"tool", "attempt"}
  <2>1. Work' = RoundsLeft + (todo - 1) * CallSteps
    BY <1>3, <1>7, ReturnLeaves
  <2>2. (todo - 1) * CallSteps \in Nat /\ todo * CallSteps = (todo - 1) * CallSteps + CallSteps
    BY <1>1, <1>3, <1>7
  <2> DEFINE rest == (todo - 1) * CallSteps
             all == todo * CallSteps
  <2>3. Work = IF pc = "tool" THEN RoundsLeft + all ELSE RoundsLeft + rest + AttemptsLeft
    BY <1>7 DEF Work
  <2> HIDE DEF rest, all
  <2> QED
    BY <1>1, <1>2, <1>4, <2>1, <2>2, <2>3 DEF rest, all
<1>8. CASE ModelCallsTools
  <2>1. /\ pc = "model" /\ pc' = "tool" /\ iteration' = iteration + 1 /\ iteration < MaxIterations
        /\ TypeOK' /\ MaxIterations - iteration \in Nat \ {0}
        /\ MaxIterations \in Nat /\ iteration \in Nat
    BY <1>8, ModelCallsToolsInvariant, PositiveAssumption DEF ModelCallsTools, TypeOK
  <2>2. todo' * CallSteps \in Nat /\ todo' * CallSteps < RoundSteps
    <3>1. todo' \in Nat /\ todo' <= MaxCalls /\ MaxCalls \in Nat
      BY <2>1, PositiveAssumption DEF TypeOK
    <3> QED
      BY <3>1, StepFacts, NoMore
  <2>3. RoundsLeft = RoundsLeft' + RoundSteps /\ RoundsLeft' \in Nat
    <3> DEFINE left == MaxIterations - iteration
    <3>1. /\ left * RoundSteps = (left - 1) * RoundSteps + RoundSteps
          /\ (left - 1) * RoundSteps \in Nat
      <4> HIDE DEF left
      <4> QED
        BY <1>2, <2>1, OneLess DEF left
    <3>2. RoundsLeft' = (left - 1) * RoundSteps + 3
      <4>1. MaxIterations - iteration' = left - 1
        BY <2>1
      <4> QED
        BY <4>1 DEF RoundsLeft, RoundSteps, CallSteps
    <3> QED
      BY <1>2, <3>1, <3>2 DEF RoundsLeft
  <2>4. Work = RoundsLeft /\ Work' = RoundsLeft' + todo' * CallSteps
    BY <2>1 DEF Work, CallSteps
  <2> DEFINE all == todo' * CallSteps
             left == RoundsLeft'
  <2> HIDE DEF all, left
  <2>5. /\ Work = left + RoundSteps /\ Work' = left + all
        /\ left \in Nat /\ all \in Nat /\ all < RoundSteps
    BY <2>2, <2>3, <2>4 DEF all, left
  <2> QED
    BY <1>2, <2>5
<1>9. CASE CallProvider
  <2> DEFINE rest == (todo - 1) * CallSteps
             all == todo * CallSteps
  <2>1. rest \in Nat /\ all = rest + CallSteps
    BY <1>1, <1>3, <1>9 DEF CallProvider
  <2>2. Work = RoundsLeft + all
    BY <1>9 DEF Work, CallProvider
  <2>3. Work' = RoundsLeft + rest + AttemptsLeft'
    BY <1>9 DEF Work, CallProvider, RoundsLeft, RoundSteps, CallSteps
  <2>4. AttemptsLeft' \in Nat /\ AttemptsLeft' <= 2 * MaxAttempts
    BY <1>2, <1>9 DEF CallProvider, AttemptsLeft
  <2> HIDE DEF rest, all
  <2> QED
    <3>1. AttemptsLeft' \in Nat /\ AttemptsLeft' < CallSteps /\ CallSteps \in Nat
      BY <1>2, <2>4
    <3>2. RoundsLeft + rest + AttemptsLeft' < RoundsLeft + (rest + CallSteps)
      BY <1>0, <2>1, <3>1, Sums
    <3> QED
      BY <2>1, <2>2, <2>3, <3>2
<1>10. CASE pc = "attempt" /\ pc' = "attempt" /\ iteration' = iteration /\ todo' = todo
              /\ AttemptsLeft' \in Nat /\ AttemptsLeft' < AttemptsLeft
  <2> DEFINE rest == (todo - 1) * CallSteps
  <2>1. rest \in Nat
    BY <1>1, <1>3, <1>10
  <2>2. Work = RoundsLeft + rest + AttemptsLeft /\ Work' = RoundsLeft + rest + AttemptsLeft'
    BY <1>10 DEF Work, RoundsLeft, RoundSteps, CallSteps
  <2> HIDE DEF rest
  <2> QED
    <3>1. AttemptsLeft \in Nat /\ AttemptsLeft' \in Nat /\ AttemptsLeft' < AttemptsLeft
      BY <1>4, <1>10
    <3>2. RoundsLeft + rest + AttemptsLeft' < RoundsLeft + rest + AttemptsLeft
      BY <1>0, <2>1, <3>1, Sums
    <3> QED
      BY <2>2, <3>2
<1>11. CASE CurrentEventRead
  <2>1. CASE kind' = "update_event" /\ attempt' = 0 /\ UNCHANGED <<pc, iteration, todo>>
    <3>1. AttemptsLeft' = MaxAttempts
      BY <1>2, <2>1 DEF AttemptsLeft
    <3> QED
      BY <1>2, <1>4, <1>10, <1>11, <2>1, <3>1 DEF CurrentEventRead
  <2> QED
    BY <1>6, <1>7, <1>11, <2>1 DEF CurrentEventRead, RaiseFor
<1>12. CASE AttemptFailsRetryably
  <2>1. CASE attempt < MaxAttempts - 1 /\ attempt' = attempt + 1 /\ UNCHANGED <<pc, todo>>
    <3>1. AttemptsLeft' \in Nat /\ AttemptsLeft' < AttemptsLeft
      BY <1>2, <1>3, <1>12, <2>1 DEF AttemptsLeft, AttemptFailsRetryably
    <3> QED
      BY <1>10, <1>12, <2>1, <3>1 DEF AttemptFailsRetryably
  <2> QED
    BY <1>7, <1>12, <2>1 DEF AttemptFailsRetryably
<1>13. CASE SaveReply \/ CloseTrace \/ Crash
  <2>1. CASE Crash
    <3>1. Work > 0
      BY <1>3, <1>5 DEF Work
    <3> QED
      BY <2>1, <3>1 DEF Crash, Work
  <2>2. CASE SaveReply
    <3>1. Work = 2 /\ Work' = 1
      BY <2>2 DEF SaveReply, Work
    <3> QED
      BY <3>1
  <2>3. CASE CloseTrace
    <3>1. Work = 1 /\ Work' = 0
      BY <2>3 DEF CloseTrace, Work
    <3> QED
      BY <3>1
  <2> QED
    BY <1>13, <2>1, <2>2, <2>3
<1>14. CASE ModelStops \/ Bail
  BY <1>6, <1>14 DEF ModelStops, Bail, Decide
<1>15. CASE ModelFails \/ InvalidInterval
  BY <1>6, <1>15 DEF ModelFails, InvalidInterval, RaiseFor
<1>16. CASE LocalTool
  BY <1>7, <1>16 DEF LocalTool
<1>17. CASE AttemptSucceeds \/ AttemptFails
  BY <1>7, <1>17 DEF AttemptSucceeds, AttemptFails
<1> QED
  BY <1>8, <1>9, <1>11, <1>12, <1>13, <1>14, <1>15, <1>16, <1>17 DEF Next, StartTurn

(* A turn starts with the whole work (run_turn).                           *)
LEMMA StartedWork ==
  ASSUME StartTurn
  PROVE  Work' = Longest
<1>1. pc' = "model" /\ iteration' = 0
  BY DEF StartTurn
<1>2. RoundsLeft' = (MaxIterations - 0) * RoundSteps + 3
  BY <1>1 DEF RoundsLeft, RoundSteps, CallSteps
<1>3. MaxIterations - 0 = MaxIterations
  BY PositiveAssumption
<1> QED
  BY <1>1, <1>2, <1>3 DEF Work, Longest

(* The work left is a number, so it does not shrink for ever.              *)
LEMMA WorkIsCounted ==
  ASSUME TurnInvariant
  PROVE  Work \in Nat
<1> USE DEF TurnInvariant
<1>1. pc \in {"idle", "closing", "final"} => Work \in Nat
  BY DEF Work
<1>2. pc \in {"model", "tool"} => Work \in Nat
  BY RoundFacts DEF Work
<1>3. CASE pc = "attempt"
  <2> DEFINE rest == (todo - 1) * CallSteps
  <2>1. rest \in Nat
    BY <1>3, RoundFacts DEF AttemptAccounted
  <2>2. AttemptsLeft \in Nat
    BY PositiveAssumption DEF AttemptsLeft, TypeOK
  <2>3. RoundsLeft \in Nat
    BY RoundFacts
  <2>4. Work = RoundsLeft + rest + AttemptsLeft
    BY <1>3 DEF Work
  <2> HIDE DEF rest
  <2> QED
    BY <2>1, <2>2, <2>3, <2>4
<1> QED
  BY <1>1, <1>2, <1>3 DEF TypeOK

(* Whatever the model and the provider do, a turn has at most Longest      *)
(* steps: the iterations of run_turn, the retries of _call_provider and    *)
(* the calls of an answer end, in every order and with every failure.      *)
THEOREM TurnsComeToAnEnd == Spec => TurnsShrink
<1>1. TurnInvariant /\ [Next]_vars => [LessToDo]_vars
  <2> SUFFICES ASSUME TurnInvariant, Next
               PROVE  LessToDo
    OBVIOUS
  <2>1. CASE pc = "idle"
    <3>1. StartTurn
      BY <2>1 DEF Next, ModelStops, ModelCallsTools, ModelFails, Bail, LocalTool,
         InvalidInterval, CallProvider, AttemptSucceeds, CurrentEventRead,
         AttemptFailsRetryably, AttemptFails, SaveReply, CloseTrace, Crash
    <3> QED
      BY <2>1, <3>1, StartedWork, WorkIsCounted DEF LessToDo
  <2> QED
    BY <2>1, WorkShrinks, WorkIsCounted DEF LessToDo
<1> QED
  BY <1>1, TurnInvariantHolds, PTL DEF Spec, TurnsShrink
=============================================================================
