---------------------------- MODULE MCRuleGuard ----------------------------
(* Small instances of RuleGuard for TLC: days of six units.               *)
EXTENDS RuleGuard, TLC

(* Two hours each: from midnight on, and before midnight, they are         *)
(* repeated; from midnight on they are skipped.                            *)
MCZones == {[change |-> 6, before |-> 2, after |-> 0],
            [change |-> 6, before |-> 0, after |-> -2],
            [change |-> 6, before |-> 0, after |-> 2]}

Rule(key, limit, days, zone) ==
    [key |-> key, limit |-> limit, days |-> days, zone |-> zone]

(* Cutoffs inside the hours that are repeated or skipped.                  *)
MCRules == {Rule("no_meetings_before", 1, {}, NoZone),
            Rule("no_meetings_after", 5, {}, NoZone),
            Rule("no_meetings_on", 0, {0}, NoZone),
            Rule("no_meetings_on", 0, {1, 2}, NoZone),
            Rule("max_meeting_minutes", 3, {}, NoZone)}
=============================================================================
