------------------------------ MODULE EvalRun ------------------------------
(***************************************************************************)
(* The evaluation harness: run_scenario plays the sessions of a scenario   *)
(* with the real agent, a store that is reopened for every session and one *)
(* fake calendar with injected failures; then the scorers judge the state  *)
(* that is left. The agent is a choice of tool calls and of a reply.       *)
(***************************************************************************)
EXTENDS Integers, Sequences

CONSTANTS
    Users,
    Kinds,        \* events that no criterion of _event_matches tells apart
    Keys,         \* keys of facts
    Values,       \* values of facts
    Texts,        \* replies that no needle and no criterion tells apart
    Scenarios,    \* the scenarios that are run
    MaxAttempts,  \* MAX_PROVIDER_ATTEMPTS
    Drains,       \* tries of _safe_list_events before its last one
    MaxSteps,     \* bound on the tool calls of a turn
    None

ASSUME BoundsAssumption == MaxAttempts \in Nat \ {0} /\ Drains \in Nat /\ MaxSteps \in Nat
ASSUME NoneAssumption == None \notin Values \cup Texts

Tools == {"list_events", "create_event", "delete_event", "save_profile_fact"}

Event == [user: Users, kind: Kinds]
Facts == [Users \X Keys -> Values \cup {None}]

(* An expectation names what it accepts: the kinds that match, the values  *)
(* that contain value_contains, the texts that contain the needle.         *)
Expectations ==
    [events: SUBSET [user: Users, kinds: SUBSET Kinds, present: BOOLEAN],
     facts: SUBSET [user: Users, key: Keys, values: SUBSET Values, present: BOOLEAN],
     must_call: SUBSET Tools, must_not_call: SUBSET Tools,
     reply: SUBSET SUBSET Texts,
     judge: SUBSET Int]

(* Only declared users occur (_users_are_declared). failures: how often    *)
(* list_events is made to fail, retryable: by a rate limit or a 5xx.       *)
(* sound: seeds and failures are such that _setup_world does not raise     *)
(* (no unknown action, no event that ends before it starts).               *)
Scenario(s) ==
    /\ s.runs \in 1..5
    /\ s.events \subseteq Event
    /\ s.facts \in Facts
    /\ s.failures \in Nat
    /\ s.retryable \in BOOLEAN
    /\ s.sound \in BOOLEAN
    /\ s.sessions \in Seq([user: Users, turns: Nat])
    /\ s.run_judge \in BOOLEAN

ASSUME ScenariosAssumption == \A s \in Scenarios : Scenario(s)

VARIABLES
    scenario,
    pc,
    session,   \* number of the session, 0 before the first
    turn,      \* turns begun in this session
    steps,     \* tool calls of this turn
    provider,  \* the fake calendar, with the list_events failures still queued
    store,     \* the database in the workdir, None once the workdir is gone
    said,      \* replies of this session
    replies,   \* final_replies
    context,   \* the sessions of the messages this turn's prompt has
    results    \* the results of the runs

vars == <<scenario, pc, session, turn, steps, provider, store, said, replies, context, results>>

Init ==
    /\ scenario \in Scenarios
    /\ pc = "between"
    /\ session = 0 /\ turn = 0 /\ steps = 0
    /\ provider = None
    /\ store = None
    /\ said = <<>> /\ replies = <<>> /\ context = <<>>
    /\ results = <<>>

-----------------------------------------------------------------------------
Turns == scenario.sessions[session].turns

(* Fault: the calendar of the run before is used again.                    *)
SetupReusing ==
    /\ pc = "between"
    /\ Len(results) < scenario.runs
    /\ scenario.sound
    /\ provider' = [calendar |-> scenario.events,
                    failures |-> scenario.failures
                                    + (IF provider = None THEN 0 ELSE provider.failures)]
    /\ store' = [facts |-> scenario.facts, messages |-> <<>>, called |-> {}]
    /\ replies' = <<>>
    /\ session' = 0
    /\ pc' = "session"
    /\ UNCHANGED <<scenario, turn, steps, said, context, results>>

(* A new workdir, a new calendar and _setup_world.                         *)
Setup ==
    /\ pc = "between"
    /\ Len(results) < scenario.runs
    /\ scenario.sound
    /\ provider' = [calendar |-> scenario.events, failures |-> scenario.failures]
    /\ store' = [facts |-> scenario.facts, messages |-> <<>>, called |-> {}]
    /\ replies' = <<>>
    /\ session' = 0
    /\ pc' = "session"
    /\ UNCHANGED <<scenario, turn, steps, said, context, results>>

Fails(why) ==
    /\ results' = Append(results, [error |-> why, passed |-> FALSE])
    /\ pc' = "over"

(* _setup_world raises: some of the facts, then of the events, then of the *)
(* failures are there.                                                     *)
SetupFails ==
    /\ pc = "between"
    /\ Len(results) < scenario.runs
    /\ ~scenario.sound
    /\ \E known \in SUBSET (Users \X Keys), events \in SUBSET scenario.events,
          failures \in 0..scenario.failures :
          /\ events # {} => known = Users \X Keys
          /\ failures > 0 => events = scenario.events
          /\ provider' = [calendar |-> events, failures |-> failures]
          /\ store' = [facts |-> [x \in Users \X Keys |->
                                     IF x \in known THEN scenario.facts[x] ELSE None],
                       messages |-> <<>>, called |-> {}]
    /\ replies' = <<>>
    /\ session' = 0
    /\ Fails("setup")
    /\ UNCHANGED <<scenario, turn, steps, said, context>>

(* Fault: the boundary check is off by one.                                *)
OpenSessionKeeping ==
    /\ pc = "session"
    /\ session < Len(scenario.sessions)
    /\ session' = session + 1
    /\ store' = IF session > 1 THEN [store EXCEPT !.messages = <<>>] ELSE store
    /\ turn' = 0
    /\ said' = <<>>
    /\ pc' = "turns"
    /\ UNCHANGED <<scenario, steps, provider, replies, context, results>>

(* _run_session: the store is reopened; a restart deletes the messages.    *)
OpenSession ==
    /\ pc = "session"
    /\ session < Len(scenario.sessions)
    /\ session' = session + 1
    /\ store' = IF session > 0 THEN [store EXCEPT !.messages = <<>>] ELSE store
    /\ turn' = 0
    /\ said' = <<>>
    /\ pc' = "turns"
    /\ UNCHANGED <<scenario, steps, provider, replies, context, results>>

(* run_turn up to the prompt.                                              *)
StartTurn ==
    /\ pc = "turns"
    /\ turn < Turns
    /\ turn' = turn + 1
    /\ steps' = 0
    /\ store' = [store EXCEPT !.messages = Append(@, session)]
    /\ context' = store'.messages
    /\ pc' = "agent"
    /\ UNCHANGED <<scenario, session, provider, said, replies, results>>

CloseSession ==
    /\ pc = "turns"
    /\ turn = Turns
    /\ replies' = replies \o said
    /\ pc' = "session"
    /\ UNCHANGED <<scenario, session, turn, steps, provider, store, said, context, results>>

-----------------------------------------------------------------------------
(* Queued failures that one tool call uses up: _call_provider retries.     *)
ConsumedAlways(queued) == MaxAttempts
Consumed(queued) ==
    LET tries == IF scenario.retryable THEN MaxAttempts ELSE 1 IN
    IF queued < tries THEN queued ELSE tries

Call ==
    /\ pc = "agent"
    /\ steps < MaxSteps
    /\ steps' = steps + 1
    /\ UNCHANGED <<scenario, pc, session, turn, said, replies, context, results>>

Traced(tool) == store.called \cup {tool}

ListEvents ==
    /\ Call
    /\ provider' = [provider EXCEPT !.failures = @ - Consumed(@)]
    /\ store' = [store EXCEPT !.called = Traced("list_events")]

(* Whether the write succeeds or not, its tool call has a span.            *)
WriteCalendar(tool, events) ==
    /\ Call
    /\ provider' \in {provider, [provider EXCEPT !.calendar = events]}
    /\ store' = [store EXCEPT !.called = Traced(tool)]

SaveFact(u, k, v) ==
    /\ Call
    /\ store' = [store EXCEPT !.called = Traced("save_profile_fact"), !.facts[<<u, k>>] = v]
    /\ UNCHANGED provider

(* The turn ends with a reply; the extractor may have saved a fact.        *)
Reply(text) ==
    /\ pc = "agent"
    /\ said' = Append(said, text)
    /\ \E k \in Keys, v \in Values :
          store' \in {[store EXCEPT !.messages = Append(@, session)],
                      [store EXCEPT !.messages = Append(@, session),
                                    !.facts[<<scenario.sessions[session].user, k>>] = v]}
    /\ pc' = "turns"
    /\ UNCHANGED <<scenario, session, turn, steps, provider, replies, context, results>>

-----------------------------------------------------------------------------
(* The scorers.                                                            *)

ScoreEvents(listed) ==
    {x.present = (\E e \in listed : e.user = x.user /\ e.kind \in x.kinds) :
        x \in scenario.expect.events}

ScoreFacts ==
    {IF x.present THEN store.facts[<<x.user, x.key>>] \in x.values
     ELSE store.facts[<<x.user, x.key>>] = None : x \in scenario.expect.facts}

ScoreTrajectory ==
    {(t \in store.called) : t \in scenario.expect.must_call}
        \cup {(t \notin store.called) : t \in scenario.expect.must_not_call}

ScoreReply ==
    {replies # <<>> /\ replies[Len(replies)] \in texts : texts \in scenario.expect.reply}

(* _select_reply: an index of Python, which counts from the end if it is   *)
(* negative.                                                               *)
HasReply(target) == target >= -Len(replies) /\ target < Len(replies)

(* A judge that fails, or has no reply to judge, is a failed check.        *)
ScoreJudge ==
    IF ~scenario.run_judge \/ scenario.expect.judge = {} THEN {{}}
    ELSE IF \E target \in scenario.expect.judge : ~HasReply(target) THEN {{FALSE}, {FALSE, TRUE}}
    ELSE {{FALSE}, {TRUE}, {FALSE, TRUE}}

Checks(listed, judged) ==
    ScoreEvents(listed) \cup ScoreFacts \cup ScoreTrajectory \cup ScoreReply \cup judged

(* RunResult.passed: no check at all is not a pass.                        *)
Passed(checks) == checks = {TRUE}

(* Fault: a failure while the events are listed counts as no events.       *)
SafeListOrNothing(queued) == {IF queued > 0 THEN {} ELSE provider.calendar}

(* _safe_list_events of the first user uses up the queue, or raises.       *)
SafeList(queued) == IF queued > Drains THEN {} ELSE {provider.calendar}

(* Fault: an exception of a run ends the suite.                            *)
AgentRaisesThrough ==
    /\ pc = "agent"
    /\ pc' = "stopped"
    /\ UNCHANGED <<scenario, session, turn, steps, provider, store, said, replies, context,
                   results>>

(* The turn raises; the replies of this session are not in the result.     *)
AgentRaises ==
    /\ pc = "agent"
    /\ Fails("agent")
    /\ UNCHANGED <<scenario, session, turn, steps, provider, store, said, replies, context>>

Score ==
    /\ pc = "session"
    /\ session = Len(scenario.sessions)
    /\ IF SafeList(provider.failures) = {}
       THEN Fails("scoring")
       ELSE \E listed \in SafeList(provider.failures), judged \in ScoreJudge :
               /\ results' = Append(results, [error |-> "none",
                                              passed |-> Passed(Checks(listed, judged))])
               /\ pc' = "over"
    /\ UNCHANGED <<scenario, session, turn, steps, provider, store, said, replies, context>>

(* The finally clause: the workdir is removed.                             *)
Cleanup ==
    /\ pc = "over"
    /\ pc' = "between"
    /\ store' = None
    /\ context' = <<>>
    /\ UNCHANGED <<scenario, session, turn, steps, provider, said, replies, results>>

Next ==
    \/ Setup \/ SetupFails \/ OpenSession \/ StartTurn \/ CloseSession
    \/ ListEvents
    \/ \E e \in Event :
          \/ WriteCalendar("create_event", provider.calendar \cup {e})
          \/ WriteCalendar("delete_event", provider.calendar \ {e})
    \/ \E k \in Keys, v \in Values : SaveFact(scenario.sessions[session].user, k, v)
    \/ \E text \in Texts : Reply(text)
    \/ AgentRaises \/ Score \/ Cleanup

(* Model and judge answer or raise, so the harness takes its next step.    *)
Spec == Init /\ [][Next]_vars /\ WF_vars(Next)

-----------------------------------------------------------------------------
Provider == [calendar: SUBSET Event, failures: 0..scenario.failures]
Store == [facts: Facts, messages: Seq(1..session), called: SUBSET Tools]

TypeOK ==
    /\ scenario \in Scenarios
    /\ pc \in {"between", "session", "turns", "agent", "over"}
    /\ session \in 0..Len(scenario.sessions)
    /\ turn \in Nat
    /\ steps \in 0..MaxSteps
    /\ provider \in Provider \cup {None} /\ (pc # "between" => provider \in Provider)
    /\ IF pc = "between" THEN store = None ELSE store \in Store
    /\ said \in Seq(Texts) /\ replies \in Seq(Texts) /\ context \in Seq(1..session)
    /\ results \in Seq([error: {"none", "setup", "agent", "scoring"}, passed: BOOLEAN])
    /\ Len(results) <= scenario.runs

(* What the scenario expects of the world that the agent left.             *)
Met ==
    LET expect == scenario.expect
        fact(x) == store.facts[<<x.user, x.key>>] IN
    /\ \A x \in expect.events :
          x.present <=> {e \in provider.calendar : e.user = x.user /\ e.kind \in x.kinds} # {}
    /\ \A x \in expect.facts : IF x.present THEN fact(x) \in x.values ELSE fact(x) = None
    /\ expect.must_call \subseteq store.called
    /\ expect.must_not_call \cap store.called = {}
    /\ \A texts \in expect.reply : said # <<>> => said[Len(said)] \in texts

(* A run only passes if the calendar, the facts, the tools called in any   *)
(* session and the last reply are what the scenario expects, whatever      *)
(* failures are still queued when they are read; above all, what should be *)
(* absent is not taken for absent because it could not be listed.          *)
VerdictIsEarned == pc = "over" /\ results[Len(results)].passed => Met

(* Conversation history is cleared at every session boundary: a prompt has *)
(* messages of its own session only (module docstring of runner.py).       *)
HistoryOfThisSession ==
    pc = "agent" => \A i \in DOMAIN context : context[i] = session

(* Leftover failures never make the scoring crash, unless the scenario     *)
(* itself queued more than _safe_list_events drains (runs share nothing).  *)
DrainSuffices ==
    \A i \in DOMAIN results : results[i].error = "scoring" => scenario.failures > Drains

(* What these properties rest on: where the run is, whose messages the      *)
(* store has, and that the replies end with those of the last session.     *)
RunUnderWay ==
    /\ pc = "between" => context = <<>>
    /\ pc \in {"session", "turns", "agent"} => Len(results) < scenario.runs
    /\ pc \in {"turns", "agent"} => session > 0
    /\ pc = "over" => results # <<>>

MessagesOfThisSession ==
    /\ pc \in {"turns", "agent"} => \A i \in DOMAIN store.messages : store.messages[i] = session
    /\ pc = "session" /\ session = 0 => store.messages = <<>>
    /\ pc = "agent" => context = store.messages

LastReply ==
    /\ scenario.sessions = <<>> => said = <<>>
    /\ pc = "session" /\ session > 0 /\ said # <<>> =>
          replies # <<>> /\ replies[Len(replies)] = said[Len(said)]

EvalInvariant ==
    /\ TypeOK
    /\ RunUnderWay
    /\ MessagesOfThisSession
    /\ LastReply
    /\ VerdictIsEarned
    /\ DrainSuffices

(* A run that fails does not stop the suite: every run has a result.       *)
SuiteEnds == <>[](pc = "between" /\ Len(results) = scenario.runs)
=============================================================================
