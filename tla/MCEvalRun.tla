----------------------------- MODULE MCEvalRun -----------------------------
(* Scenarios of one or two sessions: an event that must not be there, with *)
(* a queue that is drained; a fact that must be found in a second session; *)
(* a queue that is longer than the drain; and a setup that raises.         *)
EXTENDS EvalRun

NoFacts == [x \in Users \X Keys |-> None]

Nothing == [events |-> {}, facts |-> {}, must_call |-> {}, must_not_call |-> {},
            reply |-> {}, judge |-> {}]

Seeds == {[user |-> u, kind |-> k] : u \in Users, k \in Kinds}

Plain == [runs |-> 2, events |-> {}, facts |-> NoFacts, failures |-> 0, retryable |-> TRUE,
          sound |-> TRUE, run_judge |-> FALSE, sessions |-> <<>>, expect |-> Nothing]

EventsAbsent ==
    {[Plain EXCEPT !.events = Seeds, !.failures = n, !.retryable = r,
                   !.sessions = <<[user |-> u, turns |-> 1]>>,
                   !.expect = [Nothing EXCEPT
                        !.events = {[user |-> u, kinds |-> Kinds, present |-> FALSE]},
                        !.must_not_call = {"create_event"}]] :
        n \in {0, Drains, Drains + 1}, r \in BOOLEAN, u \in Users}

FactsRecalled ==
    {[Plain EXCEPT !.runs = 1, !.sessions = <<[user |-> u, turns |-> 1], [user |-> v, turns |-> 1]>>,
                   !.run_judge = j,
                   !.expect = [Nothing EXCEPT
                        !.facts = {[user |-> u, key |-> k, values |-> {w}, present |-> TRUE]},
                        !.must_call = {"list_events"},
                        !.reply = {{t}},
                        !.judge = g]] :
        j \in BOOLEAN, g \in {{-1}, {-2, 2}}, u \in Users, v \in Users, k \in Keys,
        w \in Values, t \in Texts}

NothingChecked == {[Plain EXCEPT !.sessions = <<[user |-> u, turns |-> 2]>>] : u \in Users}

(* The seeds are not accepted, or a failure of an unknown action is queued *)
(* behind two of list_events.                                              *)
NotSetUp ==
    {[Plain EXCEPT !.sound = FALSE, !.events = Seeds, !.facts = f, !.failures = 2,
                   !.sessions = <<[user |-> u, turns |-> 1]>>] :
        f \in {NoFacts, [x \in Users \X Keys |-> CHOOSE v \in Values : TRUE]}, u \in Users}

AllScenarios == EventsAbsent \cup FactsRecalled \cup NothingChecked \cup NotSetUp
=============================================================================
