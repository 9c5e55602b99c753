----------------------------- MODULE RuleGuard -----------------------------
(***************************************************************************)
(* Rules at the tool layer: Toolbox.create_event and update_event ask the  *)
(* rule engine before they write. An update reads the event, checks the    *)
(* interval the patch would give it and sends the patch; the calendar      *)
(* belongs to its user, who may move or delete the event in between. Of    *)
(* the calendar there is one event, and an event is its interval.          *)
(***************************************************************************)
EXTENDS RuleEngine

CONSTANTS
    Zones,      \* the time zones in use
    Rules,      \* the rule facts the user may teach
    MaxInstant, \* bound on event times
    NoEvent

ASSUME ZonesAssumption ==
    /\ Zones \subseteq Zone
    /\ \A z \in Zones : DatesInOrder(z)
    /\ NoZone \notin Zones

ASSUME RulesAssumption == Rules \subseteq RuleIn(Zones)

Instants == 0..MaxInstant

Interval == {iv \in [start: Instants, end: Instants] : iv.start < iv.end}

ASSUME IntervalAssumption == MaxInstant \in Nat /\ NoEvent \notin Interval

VARIABLES
    userZone,   \* user.timezone
    rules,      \* the active rule facts of the user
    event,      \* the event on the calendar, or NoEvent
    step,       \* how far the tool call under way has come
    checked,    \* the interval the rules were asked about, NoEvent between calls
    patch,      \* which ends of it the write sets
    moved       \* history: the event changed after the call read it

vars == <<userZone, rules, event, step, checked, patch, moved>>

Steps == {"idle", "vetoed", "create", "validate", "patch"}

Init ==
    /\ userZone \in Zones \cup {NoZone}
    /\ rules = {}
    /\ event = NoEvent
    /\ step = "idle"
    /\ checked = NoEvent
    /\ patch = {}
    /\ moved = FALSE

-----------------------------------------------------------------------------
(* upsert_fact of a rule, by a tool call or the extraction after a turn;   *)
(* both are in turns, which do not overlap. A rule replaces the active one *)
(* of its key.                                                             *)
SaveRule(rule) ==
    /\ step = "idle"
    /\ rules' = {r \in rules : r.key # rule.key} \cup {rule}
    /\ UNCHANGED <<userZone, event, step, checked, patch, moved>>

Vetoed(iv) == \E r \in rules : Vetoes(r, userZone, iv.start, iv.end)

(* The answer of RuleEngine.check, and where the call goes on without veto. *)
Check(iv, next) ==
    /\ checked' = iv
    /\ step' = IF Vetoed(iv) THEN "vetoed" ELSE next
    /\ moved' = FALSE

(* create_event; an inverted interval raises before the write.             *)
CreateCall(iv) ==
    /\ step = "idle"
    /\ event = NoEvent
    /\ Check(iv, "create")
    /\ patch' = {"start", "end"}
    /\ UNCHANGED <<userZone, rules, event>>

Merged(iv, ends, base) ==
    [start |-> IF "start" \in ends THEN iv.start ELSE base.start,
     end |-> IF "end" \in ends THEN iv.end ELSE base.end]

(* A patch of one end is validated against the event before it is sent.    *)
FirstStep(ends) == IF ends = {"start", "end"} THEN "patch" ELSE "validate"

(* Fault: the patch is checked as if it set both ends.                     *)
UpdateCallUnmerged(iv, ends) ==
    /\ step = "idle"
    /\ event # NoEvent
    /\ Check(iv, FirstStep(ends))
    /\ patch' = ends
    /\ UNCHANGED <<userZone, rules, event>>

(* update_event with a spent confirmation: get_event, then the check of    *)
(* the merged interval. An inverted one raises (both ends given) or is     *)
(* refused (one given), whatever the check says. A patch of neither end is *)
(* not checked and changes no times.                                       *)
UpdateCall(iv, ends) ==
    LET merged == Merged(iv, ends, event)
    IN  /\ step = "idle"
        /\ event # NoEvent
        /\ merged \in Interval
        /\ Check(merged, FirstStep(ends))
        /\ patch' = ends
        /\ UNCHANGED <<userZone, rules, event>>

(* _validate_merged_interval reads the event once more; it looks at the    *)
(* order of the ends only, and the rules are not asked again.              *)
Validate ==
    /\ step = "validate"
    /\ event # NoEvent
    /\ Merged(checked, patch, event) \in Interval
    /\ step' = "patch"
    /\ UNCHANGED <<userZone, rules, event, checked, patch, moved>>

(* The call returns, and its variables are gone.                           *)
Finish ==
    /\ step' = "idle"
    /\ checked' = NoEvent
    /\ patch' = {}
    /\ moved' = FALSE

(* A failed request is made again, from the validation on.                 *)
Retry ==
    /\ step = "patch"
    /\ step' = FirstStep(patch)
    /\ UNCHANGED <<userZone, rules, event, checked, patch, moved>>

(* The new event; a creation made twice (AgentTurn) makes it twice.        *)
WriteNew ==
    /\ step = "create"
    /\ event' = checked
    /\ Finish
    /\ UNCHANGED <<userZone, rules>>

(* The calendar merges the patch into the event it has by then, and        *)
(* refuses an interval that is inverted. The response may be lost, and the *)
(* patch be sent again.                                                    *)
WritePatch ==
    /\ step = "patch"
    /\ event # NoEvent
    /\ event' = Merged(checked, patch, event)
    /\ event' \in Interval
    /\ \/ Finish
       \/ step' = FirstStep(patch) /\ UNCHANGED <<checked, patch, moved>>
    /\ UNCHANGED <<userZone, rules>>

(* No write: the call was vetoed or refused, or it failed.                 *)
Return ==
    /\ step # "idle"
    /\ Finish
    /\ UNCHANGED <<userZone, rules, event>>

(* The user, or a guest who may, moves, creates or deletes the event in    *)
(* another client; nothing makes that wait for the call. An event that is  *)
(* still to be created cannot be moved.                                    *)
MoveOutside(iv) ==
    /\ step # "create"
    /\ event # iv
    /\ event' = iv
    /\ moved' = (step # "idle")
    /\ UNCHANGED <<userZone, rules, step, checked, patch>>

Next ==
    \/ \E rule \in Rules : SaveRule(rule)
    \/ \E iv \in Interval :
          \/ CreateCall(iv)
          \/ \E ends \in {{"start"}, {"end"}, {"start", "end"}} : UpdateCall(iv, ends)
    \/ \E iv \in Interval \cup {NoEvent} : MoveOutside(iv)
    \/ Validate \/ Retry \/ WriteNew \/ WritePatch \/ Return

Spec == Init /\ [][Next]_vars

-----------------------------------------------------------------------------
TypeOK ==
    /\ userZone \in Zones \cup {NoZone}
    /\ rules \subseteq Rules
    /\ event \in Interval \cup {NoEvent}
    /\ step \in Steps
    /\ checked \in Interval \cup {NoEvent}
    /\ step # "idle" => checked \in Interval
    /\ patch \subseteq {"start", "end"}
    /\ moved \in BOOLEAN

Broken(iv) == {r \in rules : Violates(r, userZone, iv.start, iv.end)}

(* What no assistant's write may do: leave the event in breach of a rule   *)
(* that was active. Two gaps are known and named: the event was moved      *)
(* after the call read it, and the event ends at a repeated midnight.      *)
WritesObeyRules ==
    [][event' # event /\ step \in {"create", "patch"} /\ ~moved /\ ~moved'
          => \A r \in Broken(event') : EndsAtRepeatedMidnight(r, userZone, event'.end)]_vars

(* What a write and a veto rest on: the answer the rules gave of the       *)
(* interval is still theirs, and unless the event was moved the patch still *)
(* results in it.                                                          *)
OneRulePerKey == \A r, s \in rules : r.key = s.key => r = s

AnswerStands ==
    /\ step \in {"create", "validate", "patch"} => ~Vetoed(checked)
    /\ step = "vetoed" => Vetoed(checked)

ResultIsChecked ==
    step \in {"validate", "patch"} /\ ~moved =>
        event \in Interval /\ Merged(checked, patch, event) = checked

(* Between a check and its write the answer of the rule engine stays good: *)
(* no rule is taught, and one rule per key is in force (create_event,      *)
(* update_event, upsert_fact).                                             *)
GuardInvariant == TypeOK /\ OneRulePerKey /\ AnswerStands /\ ResultIsChecked

(* A veto has a reason: a rule the interval breaks, or a clock change so   *)
(* near that the engine decides to be careful.                             *)
VetoesHaveReasons ==
    step = "vetoed" =>
        \E r \in rules :
            \/ r \in Broken(checked)
            \/ NearClockChange(r, userZone, checked.start, checked.end)

(* Every date that the event touches is looked at: no event that the       *)
(* assistant was free to write is on a blocked weekday.                    *)
BlockedDaysStayFree ==
    step = "create" => \A r \in Broken(checked) : r.key # "no_meetings_on"
=============================================================================
