----------------------------- MODULE RuleEngine -----------------------------
(***************************************************************************)
(* The user's scheduling rules: what the rule engine vetoes, next to what  *)
(* the rules mean. The engine computes with windows and dates of the local *)
(* calendar; the meaning of a rule speaks of the single instants that the  *)
(* half-open event [start, end) occupies.                                  *)
(***************************************************************************)
EXTENDS LocalTime

CONSTANTS
    Week,           \* days in a week; a weekday is a number below it
    MaxWindowDays,  \* _MAX_WINDOW_DAYS
    NoZone          \* no time zone, or a name zoneinfo does not know

ASSUME WeekAssumption ==
    /\ Week \in Nat \ {0}
    /\ MaxWindowDays \in Nat
    /\ MaxWindowDays >= Week

Keys == {"no_meetings_before", "no_meetings_after", "no_meetings_on",
         "max_meeting_minutes"}

Weekdays == 0..Week-1
Weekday(d) == d % Week

(* limit is the cutoff, which is a time of a day, or the longest duration; *)
(* days are for no_meetings_on. A rule whose value is malformed is refused *)
(* when saved.                                                             *)
RuleIn(zones) ==
    {r \in [key: Keys, limit: Nat, days: SUBSET Weekdays, zone: zones \cup {NoZone}] :
        r.key \in {"no_meetings_before", "no_meetings_after"} => r.limit < Day}

(* _tz: the rule's own time zone, the user's, or UTC.                      *)
ZoneOf(rule, userZone) ==
    IF rule.zone # NoZone THEN rule.zone
    ELSE IF userZone # NoZone THEN userZone
    ELSE Utc

-----------------------------------------------------------------------------
(* Fault: windows are computed for the first reading of repeated times.    *)
WindowTouchedInFirstFold(z, d, from, to, start, end) ==
    LET t0 == Timestamp(z, Midnight(d) + from, 0)
        t1 == Timestamp(z, Midnight(d) + to, 0)
    IN  t1 > t0 /\ start < t1 /\ end > t0

(* The event touches the window [from, to) of day d, in either reading.    *)
WindowTouched(z, d, from, to, start, end) ==
    \E fold \in {0, 1} :
        LET t0 == Timestamp(z, Midnight(d) + from, fold)
            t1 == Timestamp(z, Midnight(d) + to, fold)
        IN  t1 > t0 /\ start < t1 /\ end > t0

(* _overlaps_daily_window; to = Day is midnight. The loop over the days    *)
(* from the event's first to its last.                                     *)
OverlapsDailyWindow(z, from, to, start, end) ==
    /\ from # to
    /\ \/ (Local(z, end) - Local(z, start)) \div Day > MaxWindowDays
       \/ \E d \in Date(Local(z, start))..Date(Local(z, end)) :
             WindowTouched(z, d, from, to, start, end)

(* Fault: the day on whose midnight the event ends counts as touched.      *)
TouchesWeekdayInclusive(z, days, start, end) ==
    \E d \in Date(Local(z, start))..Date(Local(z, end)) : Weekday(d) \in days

(* _no_meetings_on: the last date is that of the end less one microsecond, *)
(* subtracted from the wall-clock time; an event that is still going on    *)
(* after MaxWindowDays is taken to hit a blocked day. No days: the rule is *)
(* malformed and skipped.                                                  *)
TouchesWeekday(z, days, start, end) ==
    LET first == Date(Local(z, start))
        last == Date(Local(z, end) - 1)
    IN  /\ days # {}
        /\ \/ \E d \in first..last : Weekday(d) \in days
           \/ last - first >= MaxWindowDays

(* The checkers of the four rules.                                         *)
Vetoes(rule, userZone, start, end) ==
    LET z == ZoneOf(rule, userZone)
    IN  \/ /\ rule.key = "no_meetings_before"
           /\ OverlapsDailyWindow(z, 0, rule.limit, start, end)
        \/ /\ rule.key = "no_meetings_after"
           /\ OverlapsDailyWindow(z, rule.limit, Day, start, end)
        \/ /\ rule.key = "no_meetings_on"
           /\ TouchesWeekday(z, rule.days, start, end)
        \/ /\ rule.key = "max_meeting_minutes"
           /\ end - start > rule.limit

-----------------------------------------------------------------------------
(* What the rules mean.                                                    *)
TimeOfDay(w) == w - Midnight(Date(w))

Forbids(rule, userZone, i) ==
    LET w == Local(ZoneOf(rule, userZone), i)
    IN  \/ rule.key = "no_meetings_before" /\ TimeOfDay(w) < rule.limit
        \/ rule.key = "no_meetings_after" /\ TimeOfDay(w) >= rule.limit
        \/ rule.key = "no_meetings_on" /\ Weekday(Date(w)) \in rule.days

Violates(rule, userZone, start, end) ==
    \/ \E i \in start..end-1 : Forbids(rule, userZone, i)
    \/ rule.key = "max_meeting_minutes" /\ end - start > rule.limit

(* The end of the event is the very instant at which midnight is repeated: *)
(* the last date of no_meetings_on is then the day before.                 *)
EndsAtRepeatedMidnight(rule, userZone, end) ==
    LET z == ZoneOf(rule, userZone)
    IN  /\ rule.key = "no_meetings_on"
        /\ end = z.change
        /\ Date(Local(z, end) - 1) < Date(Local(z, end - 1))

(* The event comes within the length of the clock change of it.            *)
NearClockChange(rule, userZone, start, end) ==
    LET z == ZoneOf(rule, userZone)
        shift == IF z.after > z.before THEN z.after - z.before ELSE z.before - z.after
    IN  start < z.change + shift /\ end > z.change - shift
=============================================================================
