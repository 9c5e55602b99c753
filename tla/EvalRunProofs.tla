---------------------------- MODULE EvalRunProofs ----------------------------
(***************************************************************************)
(* Theorems about the evaluation harness, for any scenarios, agents,       *)
(* injected failures and numbers of runs, sessions and turns.              *)
(***************************************************************************)
EXTENDS EvalRun, TLAPS

Result == [error: {"none", "setup", "agent", "scoring"}, passed: BOOLEAN]

LEMMA SeqOfMore ==
  ASSUME NEW A, NEW B, A \subseteq B, NEW s \in Seq(A)
  PROVE  s \in Seq(B)
<1>1. Len(s) \in Nat /\ s \in [1..Len(s) -> A]
  OBVIOUS
<1>2. s \in [1..Len(s) -> B]
  BY <1>1
<1> QED
  BY <1>1, <1>2

LEMMA Appended ==
  ASSUME NEW A, NEW s \in Seq(A), NEW x \in A
  PROVE  /\ Append(s, x) \in Seq(A) /\ Append(s, x) # <<>>
         /\ Len(Append(s, x)) = Len(s) + 1 /\ Append(s, x)[Len(Append(s, x))] = x
         /\ \A i \in DOMAIN Append(s, x) : Append(s, x)[i] = x \/ (i \in DOMAIN s /\ Append(s, x)[i] = s[i])
OBVIOUS

LEMMA Joined ==
  ASSUME NEW A, NEW s \in Seq(A), NEW t \in Seq(A)
  PROVE  /\ s \o t \in Seq(A)
         /\ t # <<>> => s \o t # <<>> /\ (s \o t)[Len(s \o t)] = t[Len(t)]
<1>1. s \o t \in Seq(A) /\ Len(s \o t) = Len(s) + Len(t)
  OBVIOUS
<1>2. ASSUME t # <<>>
      PROVE  s \o t # <<>> /\ (s \o t)[Len(s \o t)] = t[Len(t)]
  <2>1. Len(t) \in Nat /\ Len(t) > 0 /\ Len(s) \in Nat
    BY <1>2
  <2> QED
    BY <1>1, <2>1
<1> QED
  BY <1>1, <1>2

(* What a scenario is made of.                                             *)
LEMMA ScenarioFacts ==
  ASSUME TypeOK
  PROVE  /\ scenario.runs \in Nat /\ scenario.runs >= 1 /\ scenario.events \subseteq Event
         /\ scenario.facts \in Facts /\ scenario.failures \in Nat
         /\ scenario.sessions \in Seq([user: Users, turns: Nat])
         /\ Len(scenario.sessions) \in Nat /\ session \in Nat
         /\ session > 0 => session \in 1..session /\ scenario.sessions[session].user \in Users
<1>1. scenario.runs \in 1..5 /\ scenario.events \subseteq Event
      /\ scenario.facts \in Facts /\ scenario.failures \in Nat
      /\ scenario.sessions \in Seq([user: Users, turns: Nat])
  BY ScenariosAssumption DEF TypeOK, Scenario
<1>2. Len(scenario.sessions) \in Nat /\ session \in 0..Len(scenario.sessions)
  BY <1>1 DEF TypeOK
<1>3. session \in Nat /\ (session > 0 => session \in 1..session)
  BY <1>2
<1>4. session > 0 => scenario.sessions[session] \in [user: Users, turns: Nat]
  <2>1. \A R : \A q \in Seq(R) : \A i \in 1..Len(q) : q[i] \in R
    OBVIOUS
  <2>2. session > 0 => session \in 1..Len(scenario.sessions)
    BY <1>2
  <2> QED
    BY <1>1, <2>1, <2>2
<1>5. scenario.runs \in Nat /\ scenario.runs >= 1
  BY <1>1
<1> QED
  BY <1>1, <1>2, <1>3, <1>4, <1>5

(* The database with other messages.                                       *)
LEMMA StoreWith ==
  ASSUME NEW n \in Nat, NEW k \in Nat, NEW m \in Seq(1..n),
         NEW s \in [facts: Facts, messages: Seq(1..k), called: SUBSET Tools]
  PROVE  /\ [s EXCEPT !.messages = m] \in [facts: Facts, messages: Seq(1..n), called: SUBSET Tools]
         /\ [s EXCEPT !.messages = m].messages = m
         /\ [s EXCEPT !.messages = m].facts = s.facts
         /\ [s EXCEPT !.messages = m].called = s.called
<1>1. [s EXCEPT !.messages = m] = [facts |-> s.facts, messages |-> m, called |-> s.called]
  OBVIOUS
<1>2. s.facts \in Facts /\ s.called \in SUBSET Tools
  OBVIOUS
<1> QED
  BY <1>1, <1>2

LEMMA InitInvariant == Init => EvalInvariant
<1> SUFFICES ASSUME Init PROVE EvalInvariant
  OBVIOUS
<1>1. scenario.sessions \in Seq([user: Users, turns: Nat]) /\ scenario.runs \in 1..5
  BY ScenariosAssumption DEF Init, Scenario
<1>2. 0 \in 0..Len(scenario.sessions) /\ 0 \in 0..MaxSteps /\ 0 <= scenario.runs
  BY <1>1, BoundsAssumption
<1>3. TypeOK
  BY <1>2 DEF Init, TypeOK
<1> QED
  BY <1>3 DEF Init, EvalInvariant, RunUnderWay, MessagesOfThisSession, LastReply, VerdictIsEarned,
     DrainSuffices

-----------------------------------------------------------------------------
LEMMA SetupInvariant ==
  ASSUME EvalInvariant, Setup
  PROVE  EvalInvariant'
<1>1. /\ pc = "between" /\ pc' = "session" /\ session' = 0 /\ Len(results) < scenario.runs
      /\ provider' = [calendar |-> scenario.events, failures |-> scenario.failures]
      /\ store' = [facts |-> scenario.facts, messages |-> <<>>, called |-> {}]
      /\ replies' = <<>> /\ context = <<>>
      /\ UNCHANGED <<scenario, turn, steps, said, context, results>>
  BY DEF Setup, EvalInvariant, RunUnderWay
<1>2. TypeOK
  BY DEF EvalInvariant
<1>3. TypeOK'
  <2>1. provider' \in Provider' /\ store' \in Store'
    BY <1>1, <1>2, ScenarioFacts DEF Provider, Store
  <2>2. session' \in 0..Len(scenario.sessions) /\ context' \in Seq(1..session')
    BY <1>1, <1>2, ScenarioFacts
  <2> QED
    BY <1>1, <1>2, <2>1, <2>2 DEF TypeOK
<1> QED
  BY <1>1, <1>3 DEF EvalInvariant, RunUnderWay, MessagesOfThisSession, LastReply, VerdictIsEarned,
     DrainSuffices

(* The messages of an earlier session are gone.                            *)
LEMMA OpenSessionInvariant ==
  ASSUME EvalInvariant, OpenSession
  PROVE  EvalInvariant'
<1>1. /\ pc = "session" /\ pc' = "turns" /\ session < Len(scenario.sessions) /\ session' = session + 1
      /\ store' = IF session > 0 THEN [store EXCEPT !.messages = <<>>] ELSE store
      /\ turn' = 0 /\ said' = <<>>
      /\ UNCHANGED <<scenario, steps, provider, replies, context, results>>
  BY DEF OpenSession
<1>2. TypeOK /\ session \in Nat /\ store \in Store
  BY <1>1, ScenarioFacts DEF EvalInvariant, TypeOK
<1>3. store' \in Store' /\ store'.messages = <<>>
  <2>1. CASE session > 0
    <3>1. session' \in Nat /\ <<>> \in Seq(1..session')
      BY <1>1, <1>2
    <3> QED
      BY <1>1, <1>2, <2>1, <3>1, StoreWith DEF Store
  <2>2. CASE ~(session > 0)
    BY <1>1, <1>2, <2>2 DEF Store, EvalInvariant, MessagesOfThisSession
  <2> QED
    BY <2>1, <2>2
<1>4. TypeOK'
  <2>1. session' \in 0..Len(scenario.sessions) /\ 0 \in Nat
    BY <1>1, <1>2, ScenarioFacts
  <2>2. context' \in Seq(1..session')
    BY <1>1, <1>2, SeqOfMore DEF TypeOK
  <2>3. provider' \in Provider'
    BY <1>1, <1>2 DEF TypeOK, Provider
  <2> QED
    BY <1>1, <1>2, <1>3, <2>1, <2>2, <2>3 DEF TypeOK
<1>5. session' > 0 /\ \A i \in DOMAIN store'.messages : store'.messages[i] = session'
  BY <1>1, <1>2, <1>3
<1> QED
  BY <1>1, <1>4, <1>5 DEF EvalInvariant, RunUnderWay, MessagesOfThisSession, LastReply,
     VerdictIsEarned, DrainSuffices

LEMMA StartTurnInvariant ==
  ASSUME EvalInvariant, StartTurn
  PROVE  EvalInvariant'
<1>1. /\ pc = "turns" /\ pc' = "agent" /\ turn' = turn + 1 /\ steps' = 0
      /\ store' = [store EXCEPT !.messages = Append(@, session)] /\ context' = store'.messages
      /\ UNCHANGED <<scenario, session, provider, said, replies, results>>
  BY DEF StartTurn
<1>2. TypeOK /\ store \in Store /\ provider \in Provider /\ session \in 1..session
  BY <1>1, ScenarioFacts DEF EvalInvariant, RunUnderWay, TypeOK
<1>3. /\ store.messages \in Seq(1..session) /\ store' \in Store
      /\ store'.messages = Append(store.messages, session)
  <2>1. store.messages \in Seq(1..session)
    BY <1>2 DEF Store
  <2>2. session \in Nat /\ Append(store.messages, session) \in Seq(1..session)
    BY <1>2, <2>1, Appended, ScenarioFacts
  <2> QED
    BY <1>1, <1>2, <2>1, <2>2, StoreWith DEF Store
<1>4. store'.messages \in Seq(1..session)
      /\ \A i \in DOMAIN store'.messages : store'.messages[i] = session
  BY <1>1, <1>2, <1>3, Appended DEF EvalInvariant, MessagesOfThisSession
<1>5. TypeOK'
  <2>1. turn' \in Nat /\ 0 \in 0..MaxSteps
    BY <1>1, <1>2, BoundsAssumption DEF TypeOK
  <2>2. store' \in Store' /\ provider' \in Provider'
    BY <1>1, <1>2, <1>3 DEF Store, Provider
  <2> QED
    BY <1>1, <1>2, <1>4, <2>1, <2>2 DEF TypeOK
<1> QED
  BY <1>1, <1>4, <1>5 DEF EvalInvariant, RunUnderWay, MessagesOfThisSession, LastReply,
     VerdictIsEarned, DrainSuffices

LEMMA CloseSessionInvariant ==
  ASSUME EvalInvariant, CloseSession
  PROVE  EvalInvariant'
<1>1. /\ pc = "turns" /\ pc' = "session" /\ replies' = replies \o said
      /\ UNCHANGED <<scenario, session, turn, steps, provider, store, said, context, results>>
  BY DEF CloseSession
<1>2. TypeOK /\ store \in Store /\ provider \in Provider /\ session \in Nat /\ session > 0
  BY <1>1, ScenarioFacts DEF EvalInvariant, RunUnderWay, TypeOK
<1>3. replies' \in Seq(Texts) /\ (said # <<>> => replies' # <<>> /\ replies'[Len(replies')] = said[Len(said)])
  BY <1>1, <1>2, Joined DEF TypeOK
<1>4. TypeOK'
  BY <1>1, <1>2, <1>3 DEF TypeOK, Store, Provider
<1> QED
  BY <1>1, <1>2, <1>3, <1>4 DEF EvalInvariant, RunUnderWay, MessagesOfThisSession, LastReply,
     VerdictIsEarned, DrainSuffices

-----------------------------------------------------------------------------
(* A call of the agent: the messages stay, the calendar and the facts are   *)
(* what they may be.                                                        *)
LEMMA CallInvariant ==
  ASSUME EvalInvariant, Call, provider' \in Provider, store' \in Store,
         store'.messages = store.messages
  PROVE  EvalInvariant'
<1>1. /\ pc = "agent" /\ steps < MaxSteps /\ steps' = steps + 1
      /\ UNCHANGED <<scenario, pc, session, turn, said, replies, context, results>>
  BY DEF Call
<1>2. steps' \in 0..MaxSteps
  BY <1>1, BoundsAssumption DEF EvalInvariant, TypeOK
<1>3. TypeOK'
  BY <1>1, <1>2 DEF EvalInvariant, TypeOK, Store, Provider
<1> QED
  BY <1>1, <1>3 DEF EvalInvariant, RunUnderWay, MessagesOfThisSession, LastReply,
     VerdictIsEarned, DrainSuffices

LEMMA AgentFacts ==
  ASSUME EvalInvariant, pc = "agent"
  PROVE  /\ TypeOK /\ provider \in Provider /\ store \in Store
         /\ session \in 1..session /\ scenario.sessions[session].user \in Users
         /\ provider.failures \in 0..scenario.failures /\ provider.calendar \subseteq Event
         /\ store.facts \in Facts /\ store.messages \in Seq(1..session) /\ store.called \subseteq Tools
BY ScenarioFacts DEF EvalInvariant, TypeOK, RunUnderWay, Provider, Store

LEMMA TracedStore ==
  ASSUME EvalInvariant, pc = "agent", NEW tool \in Tools
  PROVE  /\ [store EXCEPT !.called = Traced(tool)] \in Store
         /\ [store EXCEPT !.called = Traced(tool)].messages = store.messages
<1>1. [store EXCEPT !.called = Traced(tool)]
          = [facts |-> store.facts, messages |-> store.messages, called |-> Traced(tool)]
  BY AgentFacts DEF Store
<1>2. Traced(tool) \subseteq Tools
  BY AgentFacts DEF Traced
<1> QED
  BY <1>1, <1>2, AgentFacts DEF Store

(* A call uses up no more failures than are queued.                        *)
LEMMA ConsumedFacts ==
  ASSUME NEW queued \in Nat, NEW most \in Nat, queued <= most
  PROVE  queued - Consumed(queued) \in 0..most
BY BoundsAssumption DEF Consumed

LEMMA ListEventsInvariant ==
  ASSUME EvalInvariant, ListEvents
  PROVE  EvalInvariant'
<1>1. pc = "agent" /\ Call /\ "list_events" \in Tools
      /\ provider' = [provider EXCEPT !.failures = @ - Consumed(@)]
      /\ store' = [store EXCEPT !.called = Traced("list_events")]
  BY DEF ListEvents, Call, Tools
<1>2. provider' = [calendar |-> provider.calendar,
                   failures |-> provider.failures - Consumed(provider.failures)]
  BY <1>1, AgentFacts DEF Provider
<1>3. provider.failures - Consumed(provider.failures) \in 0..scenario.failures
  <2>1. scenario.failures \in Nat /\ provider.failures \in 0..scenario.failures
    BY <1>1, AgentFacts, ScenarioFacts
  <2>2. provider.failures \in Nat /\ provider.failures <= scenario.failures
    BY <2>1
  <2> QED
    BY <2>1, <2>2, ConsumedFacts
<1>4. provider' \in Provider
  BY <1>1, <1>2, <1>3, AgentFacts DEF Provider
<1> QED
  BY <1>1, <1>4, TracedStore, CallInvariant

LEMMA WriteCalendarInvariant ==
  ASSUME EvalInvariant, NEW tool \in Tools, NEW events, pc = "agent" => events \subseteq Event,
         WriteCalendar(tool, events)
  PROVE  EvalInvariant'
<1>1. pc = "agent" /\ Call /\ store' = [store EXCEPT !.called = Traced(tool)]
      /\ provider' \in {provider, [provider EXCEPT !.calendar = events]}
  BY DEF WriteCalendar, Call
<1>2. [provider EXCEPT !.calendar = events] = [calendar |-> events, failures |-> provider.failures]
  BY <1>1, AgentFacts DEF Provider
<1>3. provider' \in Provider
  BY <1>1, <1>2, AgentFacts DEF Provider
<1> QED
  BY <1>1, <1>3, TracedStore, CallInvariant

(* A fact of a user of the scenario.                                       *)
LEMMA FactsWith ==
  ASSUME NEW f \in Facts, NEW u \in Users, NEW k \in Keys, NEW v \in Values
  PROVE  [f EXCEPT ![<<u, k>>] = v] \in Facts
BY DEF Facts

LEMMA SaveFactInvariant ==
  ASSUME EvalInvariant, NEW k \in Keys, NEW v \in Values,
         SaveFact(scenario.sessions[session].user, k, v)
  PROVE  EvalInvariant'
<1> DEFINE u == scenario.sessions[session].user
           tool == "save_profile_fact"
<1>1. pc = "agent" /\ Call /\ provider' = provider /\ tool \in Tools
      /\ store' = [store EXCEPT !.called = Traced(tool), !.facts[<<u, k>>] = v]
  BY DEF SaveFact, Call, Tools
<1>2. Traced(tool) \subseteq Tools /\ u \in Users
  BY <1>1, AgentFacts DEF Traced
<1> HIDE DEF u, tool
<1>3. store' = [facts |-> [store.facts EXCEPT ![<<u, k>>] = v], messages |-> store.messages,
                called |-> Traced(tool)]
  BY <1>1, AgentFacts DEF Store
<1>4. [store.facts EXCEPT ![<<u, k>>] = v] \in Facts
  BY <1>1, <1>2, AgentFacts, FactsWith
<1>5. store' \in Store /\ store'.messages = store.messages
  BY <1>1, <1>2, <1>3, <1>4, AgentFacts DEF Store
<1> QED
  BY <1>1, <1>5, AgentFacts, CallInvariant

LEMMA ReplyInvariant ==
  ASSUME EvalInvariant, NEW text \in Texts, Reply(text)
  PROVE  EvalInvariant'
<1> DEFINE u == scenario.sessions[session].user
           m == Append(store.messages, session)
<1>1. /\ pc = "agent" /\ pc' = "turns" /\ said' = Append(said, text)
      /\ UNCHANGED <<scenario, session, turn, steps, provider, replies, context, results>>
  BY DEF Reply
<1>2. PICK k \in Keys, v \in Values :
         store' \in {[store EXCEPT !.messages = Append(@, session)],
                     [store EXCEPT !.messages = Append(@, session), !.facts[<<u, k>>] = v]}
  BY DEF Reply
<1>3. /\ m \in Seq(1..session) /\ \A i \in DOMAIN m : m[i] = session
  BY <1>1, AgentFacts, Appended DEF EvalInvariant, MessagesOfThisSession
<1>4. u \in Users /\ TypeOK
  BY <1>1, AgentFacts
<1>5. store' \in {[facts |-> store.facts, messages |-> m, called |-> store.called],
                  [facts |-> [store.facts EXCEPT ![<<u, k>>] = v], messages |-> m,
                   called |-> store.called]}
  BY <1>1, <1>2, AgentFacts DEF Store
<1> HIDE DEF u, m
<1>6. [store.facts EXCEPT ![<<u, k>>] = v] \in Facts
  BY <1>1, <1>4, AgentFacts, FactsWith
<1>7. store' \in Store /\ store'.messages = m
  <2>1. \A f \in Facts : [facts |-> f, messages |-> m, called |-> store.called] \in Store
    BY <1>1, <1>3, AgentFacts DEF Store
  <2>2. store.facts \in Facts
    BY <1>1, AgentFacts
  <2> QED
    BY <1>5, <1>6, <2>1, <2>2
<1>8. said' \in Seq(Texts)
  BY <1>1, <1>4, Appended DEF TypeOK
<1>9. TypeOK'
  BY <1>1, <1>4, <1>7, <1>8, AgentFacts DEF TypeOK, Store, Provider
<1>10. scenario.sessions # <<>>
  <2>1. session \in Nat /\ session > 0 /\ session \in 0..Len(scenario.sessions)
    BY <1>1, <1>4, ScenarioFacts DEF EvalInvariant, RunUnderWay, TypeOK
  <2> QED
    BY <2>1
<1> QED
  BY <1>1, <1>3, <1>7, <1>9, <1>10 DEF EvalInvariant, RunUnderWay, MessagesOfThisSession, LastReply,
     VerdictIsEarned, DrainSuffices

-----------------------------------------------------------------------------
(* A run has its result, and the results before it stay.                   *)
LEMMA ResultAppended ==
  ASSUME EvalInvariant, pc \in {"session", "agent"}, pc' = "over",
         NEW why \in {"none", "setup", "agent", "scoring"}, NEW passed \in BOOLEAN,
         results' = Append(results, [error |-> why, passed |-> passed]),
         why = "scoring" => scenario.failures > Drains,
         passed => Met,
         UNCHANGED <<scenario, session, turn, steps, provider, store, said, replies, context>>
  PROVE  EvalInvariant'
<1> DEFINE x == [error |-> why, passed |-> passed]
<1>1. TypeOK /\ store \in Store /\ provider \in Provider /\ Len(results) < scenario.runs
      /\ scenario.runs \in Nat
  BY ScenarioFacts DEF EvalInvariant, RunUnderWay, TypeOK
<1>2. x \in Result /\ results \in Seq(Result)
  BY <1>1 DEF TypeOK, Result
<1>3. x.error = why /\ x.passed = passed /\ results' = Append(results, x)
  OBVIOUS
<1> HIDE DEF x
<1>4. /\ results' \in Seq(Result) /\ results' # <<>> /\ Len(results') = Len(results) + 1
      /\ results'[Len(results')] = x
      /\ \A i \in DOMAIN results' : results'[i] = x \/ (i \in DOMAIN results /\ results'[i] = results[i])
  BY <1>2, <1>3, Appended
<1>5. TypeOK'
  <2>1. Len(results') <= scenario.runs
    BY <1>1, <1>2, <1>4
  <2> QED
    BY <1>1, <1>4, <2>1 DEF TypeOK, Store, Provider, Result
<1>6. VerdictIsEarned'
  <2>1. Met' = Met
    BY DEF Met
  <2> QED
    BY <1>3, <1>4, <2>1 DEF VerdictIsEarned
<1>7. DrainSuffices'
  BY <1>3, <1>4 DEF EvalInvariant, DrainSuffices
<1> QED
  BY <1>4, <1>5, <1>6, <1>7 DEF EvalInvariant, RunUnderWay, MessagesOfThisSession, LastReply

(* A setup that raises leaves a part of its world; the run has its result. *)
LEMMA SetupFailsInvariant ==
  ASSUME EvalInvariant, SetupFails
  PROVE  EvalInvariant'
<1> DEFINE x == [error |-> "setup", passed |-> FALSE]
<1>1. /\ pc = "between" /\ pc' = "over" /\ session' = 0 /\ Len(results) < scenario.runs
      /\ results' = Append(results, x) /\ replies' = <<>>
      /\ UNCHANGED <<scenario, turn, steps, said, context>>
  BY DEF SetupFails, Fails
<1>2. TypeOK /\ scenario.runs \in Nat /\ context = <<>>
  BY <1>1, ScenarioFacts DEF EvalInvariant, RunUnderWay
<1>3. PICK known \in SUBSET (Users \X Keys), events \in SUBSET scenario.events,
           failures \in 0..scenario.failures :
         /\ provider' = [calendar |-> events, failures |-> failures]
         /\ store' = [facts |-> [y \in Users \X Keys |->
                                   IF y \in known THEN scenario.facts[y] ELSE None],
                      messages |-> <<>>, called |-> {}]
  BY DEF SetupFails
<1>4. provider' \in Provider'
  <2>1. events \subseteq Event
    BY <1>2, <1>3, ScenarioFacts
  <2> QED
    BY <1>1, <1>3, <2>1 DEF Provider
<1>5. store' \in Store'
  <2>1. [y \in Users \X Keys |-> IF y \in known THEN scenario.facts[y] ELSE None] \in Facts
    BY <1>2, ScenarioFacts DEF Facts
  <2>2. <<>> \in Seq(1..session')
    OBVIOUS
  <2> QED
    BY <1>3, <2>1, <2>2 DEF Store
<1>6. x \in Result /\ x.error = "setup" /\ x.passed = FALSE /\ results \in Seq(Result)
  BY <1>2 DEF Result, TypeOK
<1> HIDE DEF x
<1>7. /\ results' \in Seq(Result) /\ results' # <<>> /\ Len(results') = Len(results) + 1
      /\ results'[Len(results')] = x
      /\ \A i \in DOMAIN results' :
            results'[i] = x \/ (i \in DOMAIN results /\ results'[i] = results[i])
  BY <1>1, <1>6, Appended
<1>8. TypeOK'
  <2>1. Len(results') <= scenario.runs
    BY <1>1, <1>2, <1>6, <1>7
  <2>2. session' \in 0..Len(scenario.sessions) /\ context' \in Seq(1..session')
        /\ replies' \in Seq(Texts)
    BY <1>1, <1>2, ScenarioFacts
  <2> QED
    BY <1>1, <1>2, <1>4, <1>5, <1>7, <2>1, <2>2 DEF TypeOK, Result
<1> QED
  BY <1>1, <1>6, <1>7, <1>8 DEF EvalInvariant, RunUnderWay, MessagesOfThisSession, LastReply,
     VerdictIsEarned, DrainSuffices

LEMMA AgentRaisesInvariant ==
  ASSUME EvalInvariant, AgentRaises
  PROVE  EvalInvariant'
BY ResultAppended DEF AgentRaises, Fails

(* All checks hold: then the world is what the scenario expects. The last   *)
(* reply of all sessions is the last of the last session, if that had one. *)
LEMMA PassedIsMet ==
  ASSUME EvalInvariant, pc = "session", session = Len(scenario.sessions),
         NEW judged, Passed(Checks(provider.calendar, judged))
  PROVE  Met
<1>1. \A b \in Checks(provider.calendar, judged) : b = TRUE
  BY DEF Passed
<1>2. \A b \in ScoreEvents(provider.calendar) \cup ScoreFacts \cup ScoreTrajectory \cup ScoreReply : b = TRUE
  BY <1>1 DEF Checks
<1>3. \A x \in scenario.expect.events :
         x.present <=> {e \in provider.calendar : e.user = x.user /\ e.kind \in x.kinds} # {}
  <2> SUFFICES ASSUME NEW x \in scenario.expect.events
               PROVE  x.present <=> {e \in provider.calendar : e.user = x.user /\ e.kind \in x.kinds} # {}
    OBVIOUS
  <2>1. (x.present = (\E e \in provider.calendar : e.user = x.user /\ e.kind \in x.kinds)) = TRUE
    BY <1>2 DEF ScoreEvents
  <2> QED
    BY <2>1
<1>4. \A x \in scenario.expect.facts :
         IF x.present THEN store.facts[<<x.user, x.key>>] \in x.values
         ELSE store.facts[<<x.user, x.key>>] = None
  BY <1>2 DEF ScoreFacts
<1>5. scenario.expect.must_call \subseteq store.called
  BY <1>2 DEF ScoreTrajectory
<1>6. scenario.expect.must_not_call \cap store.called = {}
  BY <1>2 DEF ScoreTrajectory
<1>7. \A texts \in scenario.expect.reply : said # <<>> => said[Len(said)] \in texts
  <2> SUFFICES ASSUME NEW texts \in scenario.expect.reply, said # <<>>
               PROVE  said[Len(said)] \in texts
    OBVIOUS
  <2>1. replies # <<>> /\ replies[Len(replies)] \in texts
    BY <1>2 DEF ScoreReply
  <2>2. session > 0
    <3>1. TypeOK /\ scenario.sessions # <<>>
      BY DEF EvalInvariant, LastReply
    <3>2. scenario.sessions \in Seq([user: Users, turns: Nat])
      BY <3>1, ScenarioFacts
    <3> QED
      BY <3>1, <3>2
  <2> QED
    BY <2>1, <2>2 DEF EvalInvariant, LastReply
<1> QED
  BY <1>3, <1>4, <1>5, <1>6, <1>7 DEF Met

LEMMA ScoreInvariant ==
  ASSUME EvalInvariant, Score
  PROVE  EvalInvariant'
<1>1. /\ pc = "session" /\ session = Len(scenario.sessions)
      /\ UNCHANGED <<scenario, session, turn, steps, provider, store, said, replies, context>>
  BY DEF Score
<1>2. CASE provider.failures > Drains
  <2>1. Fails("scoring")
    BY <1>2 DEF Score, SafeList
  <2>2. scenario.failures > Drains
    <3>1. TypeOK /\ provider \in Provider
      BY <1>1 DEF EvalInvariant, TypeOK
    <3>2. provider.failures \in 0..scenario.failures /\ scenario.failures \in Nat
      BY <3>1, ScenarioFacts DEF Provider
    <3>3. Drains \in Nat
      BY BoundsAssumption
    <3> QED
      BY <1>2, <3>2, <3>3
  <2> QED
    BY <1>1, <2>1, <2>2, ResultAppended DEF Fails
<1>3. CASE ~(provider.failures > Drains)
  <2>1. PICK judged \in ScoreJudge :
           /\ results' = Append(results, [error |-> "none",
                                          passed |-> Passed(Checks(provider.calendar, judged))])
           /\ pc' = "over"
    BY <1>3 DEF Score, SafeList
  <2>2. Passed(Checks(provider.calendar, judged)) \in BOOLEAN
    BY DEF Passed
  <2>3. Passed(Checks(provider.calendar, judged)) => Met
    BY <1>1, PassedIsMet
  <2> QED
    BY <1>1, <2>1, <2>2, <2>3, ResultAppended
<1> QED
  BY <1>2, <1>3

LEMMA CleanupInvariant ==
  ASSUME EvalInvariant, Cleanup
  PROVE  EvalInvariant'
<1>1. /\ pc = "over" /\ pc' = "between" /\ store' = None /\ context' = <<>>
      /\ UNCHANGED <<scenario, session, turn, steps, provider, said, replies, results>>
  BY DEF Cleanup
<1>2. TypeOK'
  BY <1>1 DEF EvalInvariant, TypeOK, Provider
<1> QED
  BY <1>1, <1>2 DEF EvalInvariant, RunUnderWay, MessagesOfThisSession, LastReply, VerdictIsEarned,
     DrainSuffices

LEMMA NextInvariant == EvalInvariant /\ [Next]_vars => EvalInvariant'
<1> SUFFICES ASSUME EvalInvariant, [Next]_vars
             PROVE  EvalInvariant'
  OBVIOUS
<1>1. CASE Setup \/ OpenSession \/ StartTurn \/ CloseSession
  BY <1>1, SetupInvariant, OpenSessionInvariant, StartTurnInvariant, CloseSessionInvariant
<1>2. CASE ListEvents \/ AgentRaises \/ Score \/ Cleanup \/ SetupFails
  BY <1>2, ListEventsInvariant, AgentRaisesInvariant, ScoreInvariant, CleanupInvariant,
     SetupFailsInvariant
<1>3. ASSUME NEW e \in Event,
             \/ WriteCalendar("create_event", provider.calendar \cup {e})
             \/ WriteCalendar("delete_event", provider.calendar \ {e})
      PROVE  EvalInvariant'
  <2>1. pc = "agent" => provider.calendar \subseteq Event
    BY AgentFacts
  <2>2. "create_event" \in Tools /\ "delete_event" \in Tools
    BY DEF Tools
  <2> QED
    BY <1>3, <2>1, <2>2, WriteCalendarInvariant
<1>4. ASSUME NEW k \in Keys, NEW v \in Values, SaveFact(scenario.sessions[session].user, k, v)
      PROVE  EvalInvariant'
  BY <1>4, SaveFactInvariant
<1>5. ASSUME NEW text \in Texts, Reply(text)
      PROVE  EvalInvariant'
  BY <1>5, ReplyInvariant
<1>6. CASE UNCHANGED vars
  <2>1. Met' = Met
    BY <1>6 DEF vars, Met
  <2> QED
    BY <1>6, <2>1 DEF vars, EvalInvariant, TypeOK, Provider, Store, RunUnderWay,
       MessagesOfThisSession, LastReply, VerdictIsEarned, DrainSuffices
<1> QED
  BY <1>1, <1>2, <1>3, <1>4, <1>5, <1>6 DEF Next

(* Through every run, what the scorers read is what this run's sessions     *)
(* left: stores, calendars, replies and histories do not mix.              *)
THEOREM EvalInvariantHolds == Spec => []EvalInvariant
<1> QED
  BY InitInvariant, NextInvariant, PTL DEF Spec

(* No run passes by mistake: then the calendar, the facts, the tools called *)
(* and the last reply are what the scenario expects (the scorers,           *)
(* _safe_list_events).                                                      *)
THEOREM VerdictsAreEarned == Spec => []VerdictIsEarned
<1>1. EvalInvariant => VerdictIsEarned
  BY DEF EvalInvariant
<1> QED
  BY <1>1, EvalInvariantHolds, PTL

(* A prompt has messages of its own session only (_run_session).           *)
THEOREM HistoriesAreOfOneSession == Spec => []HistoryOfThisSession
<1>1. EvalInvariant => HistoryOfThisSession
  BY DEF EvalInvariant, MessagesOfThisSession, HistoryOfThisSession
<1> QED
  BY <1>1, EvalInvariantHolds, PTL

(* Scoring only fails on failures the scenario itself queued, more than the *)
(* drain takes (_safe_list_events, _setup_world).                           *)
THEOREM DrainsSuffice == Spec => []DrainSuffices
<1>1. EvalInvariant => DrainSuffices
  BY DEF EvalInvariant
<1> QED
  BY <1>1, EvalInvariantHolds, PTL

-----------------------------------------------------------------------------
(* A suite cannot go on for ever (the part of SuiteEnds that needs no      *)
(* fairness).                                                              *)
InSession == pc \in {"turns", "agent"}

(* What is left of a suite, outermost loop first: runs, the phases of the  *)
(* run around its sessions, sessions, the session's end, turns, the turn's *)
(* end, tool calls.                                                        *)
Left == <<scenario.runs - Len(results),
          IF pc = "over" THEN 2 ELSE IF pc = "between" THEN 1 ELSE 0,
          Len(scenario.sessions) - session,
          IF InSession THEN 1 ELSE 0,
          IF InSession THEN Turns - turn ELSE 0,
          IF pc = "agent" THEN 1 ELSE 0,
          MaxSteps - steps>>

(* What is left shrinks in the lexicographic order on seven numbers.       *)
CloserToEnd ==
    /\ \A i \in 1..7 : Left[i] \in Nat
    /\ \E i \in 1..7 : Left'[i] < Left[i] /\ \A j \in 1..i-1 : Left'[j] = Left[j]

(* Every step of the suite brings it closer to its end (run_scenario).     *)
SuiteShrinks == [][CloserToEnd]_vars

(* No session has more turns than its scenario lists.                      *)
TurnsOfSession == InSession => turn <= Turns

(* The turns of a listed session are a number.                             *)
LEMMA SessionTurns ==
  ASSUME TypeOK, NEW i \in 1..Len(scenario.sessions)
  PROVE  scenario.sessions[i].turns \in Nat
<1>1. scenario.sessions \in Seq([user: Users, turns: Nat])
  BY ScenarioFacts
<1>2. \A R : \A q \in Seq(R) : \A n \in 1..Len(q) : q[n] \in R
  OBVIOUS
<1>3. scenario.sessions[i] \in [user: Users, turns: Nat]
  BY <1>1, <1>2
<1> QED
  BY <1>3

(* So are those of the session that is played.                             *)
LEMMA TurnsFacts ==
  ASSUME EvalInvariant, InSession
  PROVE  Turns \in Nat
<1>1. TypeOK /\ session \in 1..Len(scenario.sessions)
  BY ScenarioFacts DEF EvalInvariant, RunUnderWay, TypeOK, InSession
<1> QED
  BY <1>1, SessionTurns DEF Turns

(* StartTurn stops at the last turn, and a new session starts from none.   *)
LEMMA TurnsInvariant ==
  ASSUME EvalInvariant, EvalInvariant', TurnsOfSession, [Next]_vars
  PROVE  TurnsOfSession'
<1> SUFFICES ASSUME InSession' PROVE turn' <= Turns'
  BY DEF TurnsOfSession
<1>1. CASE OpenSession
  <2>1. session + 1 \in 1..Len(scenario.sessions)
    BY <1>1, ScenarioFacts DEF OpenSession, EvalInvariant, TypeOK
  <2>2. Turns' \in Nat
    BY <1>1, <2>1, SessionTurns DEF OpenSession, EvalInvariant, Turns
  <2> QED
    BY <1>1, <2>2 DEF OpenSession
<1>2. CASE StartTurn
  BY <1>2, TurnsFacts DEF StartTurn, Turns, EvalInvariant, TypeOK, InSession
<1>3. CASE UNCHANGED <<scenario, session, turn>> /\ InSession
  BY <1>3 DEF TurnsOfSession, Turns
<1>4. CASE Setup \/ SetupFails \/ CloseSession \/ AgentRaises \/ Score \/ Cleanup
  BY <1>4 DEF Setup, SetupFails, CloseSession, AgentRaises, Score, Cleanup, Fails, InSession
<1>5. ASSUME Call PROVE turn' <= Turns'
  BY <1>3, <1>5 DEF Call, InSession
<1> QED
  BY <1>1, <1>2, <1>3, <1>4, <1>5
     DEF Next, vars, ListEvents, WriteCalendar, SaveFact, Reply, InSession

(* All of what is left is counted by numbers.                              *)
LEMMA LeftCounts ==
  ASSUME EvalInvariant, TurnsOfSession
  PROVE  \A i \in 1..7 : Left[i] \in Nat
<1>1. /\ Len(results) \in Nat /\ Len(results) <= scenario.runs /\ scenario.runs \in Nat
      /\ session \in 0..Len(scenario.sessions) /\ Len(scenario.sessions) \in Nat
      /\ turn \in Nat /\ steps \in 0..MaxSteps /\ MaxSteps \in Nat
  BY ScenarioFacts, BoundsAssumption DEF EvalInvariant, TypeOK
<1>2. /\ scenario.runs - Len(results) \in Nat /\ Len(scenario.sessions) - session \in Nat
      /\ MaxSteps - steps \in Nat
  BY <1>1
<1>3. InSession => Turns - turn \in Nat
  BY <1>1, TurnsFacts DEF TurnsOfSession
<1> QED
  BY <1>2, <1>3 DEF Left

(* Each action decreases one number and keeps those before it.             *)
LEMMA NextDecreases ==
  ASSUME EvalInvariant, EvalInvariant', TurnsOfSession, TurnsOfSession', Next
  PROVE  \E i \in 1..7 : Left'[i] < Left[i] /\ \A j \in 1..i-1 : Left'[j] = Left[j]
<1>0. /\ Len(results) \in Nat /\ scenario.runs \in Nat /\ Len(scenario.sessions) \in Nat
      /\ session \in Nat /\ turn \in Nat /\ steps \in Nat /\ MaxSteps \in Nat
  BY ScenarioFacts, BoundsAssumption DEF EvalInvariant, TypeOK
<1>1. CASE Setup
  <2>1. Left'[1] = Left[1] /\ Left'[2] = 0 /\ Left[2] = 1
    BY <1>1 DEF Setup, Left
  <2> QED
    BY <2>1
<1>2. CASE OpenSession
  <2>1. /\ Left'[1] = Left[1] /\ Left'[2] = Left[2]
        /\ Left'[3] = Len(scenario.sessions) - (session + 1)
        /\ Left[3] = Len(scenario.sessions) - session
    BY <1>2 DEF OpenSession, Left
  <2>2. Left'[3] < Left[3]
    BY <1>0, <2>1
  <2> QED
    BY <2>1, <2>2
<1>3. CASE StartTurn
  <2>1. /\ Left'[1] = Left[1] /\ Left'[2] = Left[2] /\ Left'[3] = Left[3] /\ Left'[4] = Left[4]
        /\ Left'[5] = Turns - (turn + 1) /\ Left[5] = Turns - turn
    BY <1>3 DEF StartTurn, Left, InSession, Turns
  <2>2. Turns \in Nat
    BY <1>3, TurnsFacts DEF StartTurn, InSession
  <2>3. Left'[5] < Left[5]
    BY <1>0, <2>1, <2>2
  <2> QED
    BY <2>1, <2>3
<1>4. CASE CloseSession
  <2>1. /\ Left'[1] = Left[1] /\ Left'[2] = Left[2] /\ Left'[3] = Left[3]
        /\ Left'[4] = 0 /\ Left[4] = 1
    BY <1>4 DEF CloseSession, Left, InSession
  <2> QED
    BY <2>1
<1>5. CASE Call
  <2>1. /\ Left'[1] = Left[1] /\ Left'[2] = Left[2] /\ Left'[3] = Left[3] /\ Left'[4] = Left[4]
        /\ Left'[5] = Left[5] /\ Left'[6] = Left[6]
        /\ Left'[7] = MaxSteps - (steps + 1) /\ Left[7] = MaxSteps - steps
    BY <1>5 DEF Call, Left, InSession, Turns
  <2>2. Left'[7] < Left[7]
    BY <1>0, <2>1
  <2> QED
    BY <2>1, <2>2
<1>6. ASSUME NEW text \in Texts, Reply(text)
      PROVE  \E i \in 1..7 : Left'[i] < Left[i] /\ \A j \in 1..i-1 : Left'[j] = Left[j]
  <2>1. /\ Left'[1] = Left[1] /\ Left'[2] = Left[2] /\ Left'[3] = Left[3] /\ Left'[4] = Left[4]
        /\ Left'[5] = Left[5] /\ Left'[6] = 0 /\ Left[6] = 1
    BY <1>6 DEF Reply, Left, InSession, Turns
  <2> QED
    BY <2>1
<1>7. CASE AgentRaises \/ Score \/ SetupFails
  <2>1. scenario' = scenario /\ Len(results') = Len(results) + 1
    <3>1. \A R, x : \A q \in Seq(R) : Len(Append(q, x)) = Len(q) + 1
      OBVIOUS
    <3>2. \E result : results' = Append(results, result)
      BY <1>7 DEF AgentRaises, Score, SetupFails, Fails
    <3> QED
      BY <1>7, <3>1, <3>2 DEF AgentRaises, Score, SetupFails, EvalInvariant, TypeOK
  <2>2. Left'[1] = scenario.runs - (Len(results) + 1) /\ Left[1] = scenario.runs - Len(results)
    BY <2>1 DEF Left
  <2>3. Left'[1] < Left[1]
    BY <1>0, <2>2
  <2> QED
    BY <2>3
<1>8. CASE Cleanup
  <2>1. Left'[1] = Left[1] /\ Left'[2] = 1 /\ Left[2] = 2
    BY <1>8 DEF Cleanup, Left
  <2> QED
    BY <2>1
<1> QED
  BY <1>1, <1>2, <1>3, <1>4, <1>5, <1>6, <1>7, <1>8
     DEF Next, ListEvents, WriteCalendar, SaveFact

(* No step of run_scenario, of a session or of its turns is repeated       *)
(* without end: a failing run, a turn that raises and scoring that raises  *)
(* too only bring the suite closer to its last result.                     *)
THEOREM SuitesComeToAnEnd == Spec => SuiteShrinks
<1>1. Init => TurnsOfSession
  BY DEF Init, TurnsOfSession, InSession
<1>2. EvalInvariant /\ EvalInvariant' /\ TurnsOfSession /\ [Next]_vars => TurnsOfSession'
  BY TurnsInvariant
<1>3. EvalInvariant /\ EvalInvariant' /\ TurnsOfSession /\ TurnsOfSession' /\ [Next]_vars
         => [CloserToEnd]_vars
  BY LeftCounts, NextDecreases DEF CloserToEnd
<1> QED
  BY <1>1, <1>2, <1>3, EvalInvariantHolds, PTL DEF Spec, SuiteShrinks
=============================================================================
