-------------------------- MODULE RuleGuardProofs --------------------------
(***************************************************************************)
(* Theorems about the rule engine and the tool layer that asks it, for any *)
(* length of the day and the week, any zones with one clock change and any *)
(* rules. First the arithmetic of dates, then what the two loops over days *)
(* find, then that no write of the assistant breaks a rule.                *)
(***************************************************************************)
EXTENDS RuleGuard, TLAPS

(* A time lies in the day of its date.                                     *)
LEMMA DateFacts ==
    ASSUME NEW w \in Int
    PROVE  /\ Date(w) \in Int
           /\ Midnight(Date(w)) \in Int
           /\ Midnight(Date(w)) <= w
           /\ w < Midnight(Date(w)) + Day
BY DayAssumption DEF Date, Midnight

LEMMA DatesMonotone ==
    ASSUME NEW v \in Int, NEW w \in Int, v <= w
    PROVE  Date(v) <= Date(w)
BY DayAssumption DEF Date

(* Of two instants the later one never has the earlier date.               *)
LEMMA LocalDatesInOrder ==
    ASSUME NEW z \in Zone, DatesInOrder(z),
           NEW i \in Int, NEW j \in Int, i <= j
    PROVE  Date(Local(z, i)) <= Date(Local(z, j))
<1> DEFINE eve == z.change - 1 + z.before
           dawn == z.change + z.after
<1>1. eve \in Int /\ dawn \in Int /\ Local(z, i) \in Int /\ Local(z, j) \in Int
  BY DEF Zone, Local
<1>2. Date(eve) \in Int /\ Date(dawn) \in Int
      /\ Date(Local(z, i)) \in Int /\ Date(Local(z, j)) \in Int
  BY <1>1, DateFacts
<1>3. CASE i < z.change /\ j >= z.change
  <2>1. Local(z, i) <= eve /\ dawn <= Local(z, j)
    BY <1>3 DEF Zone, Local
  <2>2. Date(Local(z, i)) <= Date(eve) /\ Date(dawn) <= Date(Local(z, j))
    BY <1>1, <2>1, DatesMonotone
  <2>3. Date(eve) <= Date(dawn)
    BY DEF DatesInOrder
  <2> QED
    BY <1>2, <2>2, <2>3
<1>4. CASE ~(i < z.change /\ j >= z.change)
  <2>1. Local(z, i) <= Local(z, j)
    BY <1>4 DEF Zone, Local
  <2> QED
    BY <1>1, <2>1, DatesMonotone
<1> QED
  BY <1>3, <1>4

(* An instant whose wall-clock time is in a window is in it in one of the  *)
(* two readings of its ends.                                               *)
LEMMA ReadingFound ==
    ASSUME NEW z \in Zone, NEW i \in Int, NEW w0 \in Int, NEW w1 \in Int,
           w0 <= Local(z, i), Local(z, i) < w1
    PROVE  \E fold \in {0, 1} :
              Timestamp(z, w0, fold) <= i /\ i < Timestamp(z, w1, fold)
<1>1. CASE i < z.change
  <2>1. Timestamp(z, w0, 0) <= i /\ i < Timestamp(z, w1, 0)
    BY <1>1 DEF Zone, Local, Timestamp
  <2> QED
    BY <2>1
<1>2. CASE i >= z.change
  <2>1. Timestamp(z, w0, 1) <= i /\ i < Timestamp(z, w1, 1)
    BY <1>2 DEF Zone, Local, Timestamp
  <2> QED
    BY <2>1
<1> QED
  BY <1>1, <1>2 DEF Zone

-----------------------------------------------------------------------------
(* The daily window never under-blocks: an event that occupies an instant  *)
(* of the window, however its clock reads, is found                        *)
(* (_overlaps_daily_window).                                               *)
THEOREM DailyWindowNeverUnderBlocks ==
    ASSUME NEW z \in Zone, DatesInOrder(z),
           NEW from \in Int, NEW to \in Int,
           NEW start \in Int, NEW end \in Int, NEW i \in start..end-1,
           from <= TimeOfDay(Local(z, i)), TimeOfDay(Local(z, i)) < to
    PROVE  OverlapsDailyWindow(z, from, to, start, end)
<1> DEFINE d == Date(Local(z, i))
           w0 == Midnight(d) + from
           w1 == Midnight(d) + to
<1>1. Local(z, i) \in Int /\ Local(z, start) \in Int /\ Local(z, end) \in Int
  BY DEF Zone, Local
<1>2. d \in Int /\ Midnight(d) \in Int
      /\ Date(Local(z, start)) \in Int /\ Date(Local(z, end)) \in Int
  BY <1>1, DateFacts
<1>3. w0 \in Int /\ w1 \in Int /\ w0 <= Local(z, i) /\ Local(z, i) < w1
  BY <1>1, <1>2 DEF TimeOfDay
<1>4. d \in Date(Local(z, start))..Date(Local(z, end))
  BY <1>2, LocalDatesInOrder
<1>5. PICK fold \in {0, 1} : Timestamp(z, w0, fold) <= i /\ i < Timestamp(z, w1, fold)
  <2> HIDE DEF w0, w1
  <2> QED
    BY <1>3, ReadingFound
<1>6. Timestamp(z, w0, fold) \in Int /\ Timestamp(z, w1, fold) \in Int
  BY <1>3 DEF Timestamp, Zone
<1>7. WindowTouched(z, d, from, to, start, end)
  BY <1>5, <1>6 DEF WindowTouched
<1>8. from # to
  BY <1>1, <1>2 DEF TimeOfDay
<1> QED
  BY <1>4, <1>7, <1>8 DEF OverlapsDailyWindow

(* A blocked weekday is missed only if the event ends at the instant at    *)
(* which midnight is repeated (_no_meetings_on).                           *)
THEOREM WeekdayMissedOnlyAtRepeatedMidnight ==
    ASSUME NEW z \in Zone, DatesInOrder(z), NEW days,
           NEW start \in Int, NEW end \in Int, NEW i \in start..end-1,
           Weekday(Date(Local(z, i))) \in days,
           ~(end = z.change /\ Date(Local(z, end) - 1) < Date(Local(z, end - 1)))
    PROVE  TouchesWeekday(z, days, start, end)
<1> DEFINE first == Date(Local(z, start))
           last == Date(Local(z, end) - 1)
<1>1. Local(z, i) \in Int /\ Local(z, start) \in Int /\ Local(z, end - 1) \in Int
      /\ Local(z, end) - 1 \in Int
  BY DEF Zone, Local
<1>2. Date(Local(z, i)) \in Int /\ first \in Int /\ last \in Int
      /\ Date(Local(z, end - 1)) \in Int
  BY <1>1, DateFacts
<1>3. first <= Date(Local(z, i)) /\ Date(Local(z, i)) <= Date(Local(z, end - 1))
  BY LocalDatesInOrder
<1>4. Date(Local(z, end - 1)) <= last
  <2>1. CASE end = z.change
    BY <1>2, <2>1
  <2>2. CASE end # z.change
    <3>1. Local(z, end) - 1 = Local(z, end - 1)
      BY <2>2 DEF Zone, Local
    <3> QED
      BY <1>2, <3>1
  <2> QED
    BY <2>1, <2>2
<1>5. Date(Local(z, i)) \in first..last
  BY <1>2, <1>3, <1>4
<1> QED
  BY <1>5 DEF TouchesWeekday

LEMMA ZoneOfRule ==
    ASSUME NEW rule \in Rules, NEW user \in Zones \cup {NoZone}
    PROVE  ZoneOf(rule, user) \in Zone /\ DatesInOrder(ZoneOf(rule, user))
<1>1. Utc \in Zone
  BY DEF Utc, Zone
<1>2. DatesInOrder(Utc)
  <2>1. Date(0 - 1 + 0) <= Date(0 + 0)
    BY DatesMonotone
  <2> QED
    BY <2>1 DEF DatesInOrder, Utc
<1>3. rule.zone \in Zones \cup {NoZone}
  BY RulesAssumption DEF RuleIn
<1> QED
  BY <1>1, <1>2, <1>3, ZonesAssumption DEF ZoneOf

(* Whatever breaks a rule is vetoed by it, except at a repeated midnight.  *)
LEMMA BreachesAreVetoed ==
    ASSUME NEW rule \in Rules, NEW user \in Zones \cup {NoZone},
           NEW start \in Int, NEW end \in Int,
           Violates(rule, user, start, end),
           ~EndsAtRepeatedMidnight(rule, user, end)
    PROVE  Vetoes(rule, user, start, end)
<1> DEFINE z == ZoneOf(rule, user)
<1>1. z \in Zone /\ DatesInOrder(z)
  BY ZoneOfRule
<1>2. rule.limit \in Int /\ Day \in Int
  BY RulesAssumption, DayAssumption DEF RuleIn
<1>3. CASE rule.key = "max_meeting_minutes" /\ end - start > rule.limit
  BY <1>3 DEF Vetoes
<1>4. CASE \E i \in start..end-1 : Forbids(rule, user, i)
  <2>1. PICK i \in start..end-1 : Forbids(rule, user, i)
    BY <1>4
  <2>2. /\ Local(z, i) \in Int
        /\ 0 <= TimeOfDay(Local(z, i))
        /\ TimeOfDay(Local(z, i)) < Day
    <3>1. Local(z, i) \in Int
      BY <1>1 DEF Zone, Local
    <3> QED
      BY <3>1, DateFacts, DayAssumption DEF TimeOfDay
  <2> HIDE DEF z
  <2>3. CASE rule.key = "no_meetings_before" /\ TimeOfDay(Local(z, i)) < rule.limit
    <3>1. OverlapsDailyWindow(z, 0, rule.limit, start, end)
      BY <1>1, <1>2, <2>2, <2>3, DailyWindowNeverUnderBlocks
    <3> QED
      BY <2>3, <3>1 DEF Vetoes, z
  <2>4. CASE rule.key = "no_meetings_after" /\ TimeOfDay(Local(z, i)) >= rule.limit
    <3>1. OverlapsDailyWindow(z, rule.limit, Day, start, end)
      BY <1>1, <1>2, <2>2, <2>4, DailyWindowNeverUnderBlocks
    <3> QED
      BY <2>4, <3>1 DEF Vetoes, z
  <2>5. CASE rule.key = "no_meetings_on" /\ Weekday(Date(Local(z, i))) \in rule.days
    <3>1. ~(end = z.change /\ Date(Local(z, end) - 1) < Date(Local(z, end - 1)))
      BY <2>5 DEF EndsAtRepeatedMidnight, z
    <3>2. TouchesWeekday(z, rule.days, start, end)
      BY <1>1, <2>5, <3>1, WeekdayMissedOnlyAtRepeatedMidnight
    <3> QED
      BY <2>5, <3>2 DEF Vetoes, z
  <2> QED
    BY <2>1, <2>3, <2>4, <2>5 DEF Forbids, z
<1> QED
  BY <1>3, <1>4 DEF Violates

-----------------------------------------------------------------------------
LEMMA InitInvariant == Init => GuardInvariant
BY DEF Init, GuardInvariant, TypeOK, OneRulePerKey, AnswerStands, ResultIsChecked, Steps

(* One step per action of RuleGuard.                                       *)
LEMMA NextInvariant == GuardInvariant /\ [Next]_vars => GuardInvariant'
<1> SUFFICES ASSUME GuardInvariant, [Next]_vars
             PROVE  GuardInvariant'
  OBVIOUS
<1> USE DEF GuardInvariant
<1>1. ASSUME NEW rule \in Rules, SaveRule(rule)
      PROVE  GuardInvariant'
  BY <1>1 DEF SaveRule, TypeOK, OneRulePerKey, AnswerStands, ResultIsChecked
<1>2. ASSUME NEW iv \in Interval, CreateCall(iv)
      PROVE  GuardInvariant'
  BY <1>2 DEF CreateCall, Check, Vetoed, TypeOK, Steps, OneRulePerKey, AnswerStands,
       ResultIsChecked
<1>3. ASSUME NEW iv \in Interval, NEW ends \in {{"start"}, {"end"}, {"start", "end"}},
             UpdateCall(iv, ends)
      PROVE  GuardInvariant'
  <2>1. event \in Interval
    BY <1>3 DEF UpdateCall, TypeOK
  <2>2. Merged(Merged(iv, ends, event), ends, event) = Merged(iv, ends, event)
    BY DEF Merged
  <2>3. TypeOK' /\ OneRulePerKey'
    BY <1>3 DEF UpdateCall, Check, FirstStep, TypeOK, Steps, OneRulePerKey
  <2>4. AnswerStands'
    BY <1>3 DEF UpdateCall, Check, FirstStep, Vetoed, AnswerStands
  <2>5. ResultIsChecked'
    BY <1>3, <2>1, <2>2 DEF UpdateCall, Check, ResultIsChecked
  <2> QED
    BY <2>3, <2>4, <2>5
<1>4. ASSUME NEW iv \in Interval \cup {NoEvent}, MoveOutside(iv)
      PROVE  GuardInvariant'
  BY <1>4 DEF MoveOutside, Vetoed, TypeOK, OneRulePerKey, AnswerStands,
       ResultIsChecked, Steps
<1>5. ASSUME Validate
      PROVE  GuardInvariant'
  BY <1>5 DEF Validate, Vetoed, TypeOK, Steps, OneRulePerKey, AnswerStands,
       ResultIsChecked
<1>6. ASSUME Retry
      PROVE  GuardInvariant'
  BY <1>6 DEF Retry, FirstStep, Vetoed, TypeOK, Steps, OneRulePerKey, AnswerStands,
       ResultIsChecked
<1>7. ASSUME WriteNew
      PROVE  GuardInvariant'
  BY <1>7 DEF WriteNew, Finish, TypeOK, Steps, OneRulePerKey, AnswerStands,
       ResultIsChecked
<1>8. ASSUME WritePatch
      PROVE  GuardInvariant'
  <2>1. TypeOK' /\ OneRulePerKey'
    BY <1>8 DEF WritePatch, Finish, FirstStep, TypeOK, Steps, OneRulePerKey
  <2>2. AnswerStands'
    BY <1>8 DEF WritePatch, Finish, FirstStep, Vetoed, AnswerStands
  <2>3. Merged(checked, patch, Merged(checked, patch, event)) = Merged(checked, patch, event)
    BY DEF Merged
  <2>4. ResultIsChecked'
    BY <1>8, <2>3 DEF WritePatch, Finish, FirstStep, ResultIsChecked
  <2> QED
    BY <2>1, <2>2, <2>4
<1>9. ASSUME Return
      PROVE  GuardInvariant'
  BY <1>9 DEF Return, Finish, TypeOK, Steps, OneRulePerKey, AnswerStands, ResultIsChecked
<1>10. ASSUME UNCHANGED vars
      PROVE  GuardInvariant'
  BY <1>10 DEF vars, Vetoed, TypeOK, OneRulePerKey, AnswerStands, ResultIsChecked
<1> QED
  BY <1>1, <1>2, <1>3, <1>4, <1>5, <1>6, <1>7, <1>8, <1>9, <1>10 DEF Next

(* The answer of the rule engine is still good when the write is sent.     *)
THEOREM GuardInvariantHolds == Spec => []GuardInvariant
<1> QED
  BY InitInvariant, NextInvariant, PTL DEF Spec

(* No write of the assistant leaves the event in breach of an active rule, *)
(* unless the event was moved after the check or ends at a repeated        *)
(* midnight (create_event and update_event with their rule checker).       *)
THEOREM AssistantObeysRules == Spec => WritesObeyRules
<1> DEFINE Obeys ==
        event' # event /\ step \in {"create", "patch"} /\ ~moved /\ ~moved'
          => \A r \in Broken(event') : EndsAtRepeatedMidnight(r, userZone, event'.end)
<1>1. ASSUME GuardInvariant, [Next]_vars
      PROVE  [Obeys]_vars
  <2> SUFFICES ASSUME event' # event, step \in {"create", "patch"}, ~moved, ~moved',
                      NEW r \in Broken(event')
               PROVE  EndsAtRepeatedMidnight(r, userZone, event'.end)
    OBVIOUS
  <2>1. event' = checked
    <3>1. WriteNew \/ WritePatch
      BY <1>1 DEF Next, SaveRule, CreateCall, UpdateCall, Check, MoveOutside, Validate,
           Retry, Return, vars
    <3> QED
      BY <1>1, <3>1 DEF WriteNew, WritePatch, GuardInvariant, ResultIsChecked
  <2>2. checked \in Interval /\ ~Vetoed(checked)
    BY <1>1 DEF GuardInvariant, TypeOK, AnswerStands
  <2>3. /\ r \in Rules
        /\ userZone \in Zones \cup {NoZone}
        /\ Violates(r, userZone, checked.start, checked.end)
        /\ ~Vetoes(r, userZone, checked.start, checked.end)
    BY <1>1, <2>1, <2>2 DEF GuardInvariant, TypeOK, Broken, Vetoed
  <2>4. checked.start \in Int /\ checked.end \in Int
    BY <2>2, IntervalAssumption DEF Interval, Instants
  <2> QED
    BY <2>1, <2>3, <2>4, BreachesAreVetoed
<1> QED
  BY <1>1, GuardInvariantHolds, PTL DEF Spec, WritesObeyRules

-----------------------------------------------------------------------------
(* The engine does not over-block: what the loops over days find, an event  *)
(* that is not near a clock change really touches.                         *)

LEMMA DaysApart ==
    ASSUME NEW a \in Int, NEW b \in Int, a <= b
    PROVE  a * Day <= b * Day /\ a * Day \in Int /\ b * Day \in Int
BY DayAssumption

LEMMA DateOfTime ==
    ASSUME NEW d \in Int, NEW w \in Int, Midnight(d) <= w, w < Midnight(d) + Day
    PROVE  Date(w) = d
<1> DEFINE e == Date(w)
<1>1. e \in Int /\ e * Day <= w /\ w < e * Day + Day /\ d * Day <= w /\ w < d * Day + Day
  BY DateFacts DEF Midnight
<1> HIDE DEF e
<1>2. Day \in Nat \ {0} /\ d * Day \in Int /\ e * Day \in Int
  BY <1>1, DayAssumption
<1>3. (e + 1) * Day = e * Day + Day /\ (d + 1) * Day = d * Day + Day
  BY <1>1, <1>2
<1>4. ~(e + 1 <= d)
  BY <1>1, <1>2, <1>3, DaysApart
<1>5. ~(d + 1 <= e)
  BY <1>1, <1>2, <1>3, DaysApart
<1>6. e = d
  BY <1>1, <1>4, <1>5
<1> QED
  BY <1>6 DEF e

(* Away from the clock change the zone has one offset: what a window of     *)
(* instants touches, its window of wall-clock times does.                  *)
LEMMA OneOffset ==
    ASSUME NEW z \in Zone, NEW start \in Int, NEW end \in Int, start < end,
           NEW shift \in Int, shift = (IF z.after > z.before THEN z.after - z.before ELSE z.before - z.after),
           ~(start < z.change + shift /\ end > z.change - shift)
    PROVE  \E o \in Int :
              /\ \A i \in start..end : Local(z, i) = i + o
              /\ \A w \in Int, fold \in {0, 1} :
                    /\ Timestamp(z, w, fold) < end => w < end + o
                    /\ start < Timestamp(z, w, fold) => start + o < w
<1>1. CASE end <= z.change - shift
  <2>1. \A i \in start..end : Local(z, i) = i + z.before
    BY <1>1 DEF Zone, Local
  <2>2. ASSUME NEW w \in Int, NEW fold \in {0, 1}
        PROVE  /\ Timestamp(z, w, fold) < end => w < end + z.before
               /\ start < Timestamp(z, w, fold) => start + z.before < w
    BY <1>1 DEF Zone, Timestamp
  <2> QED
    BY <2>1, <2>2 DEF Zone
<1>2. CASE start >= z.change + shift
  <2>1. \A i \in start..end : Local(z, i) = i + z.after
    BY <1>2 DEF Zone, Local
  <2>2. ASSUME NEW w \in Int, NEW fold \in {0, 1}
        PROVE  /\ Timestamp(z, w, fold) < end => w < end + z.after
               /\ start < Timestamp(z, w, fold) => start + z.after < w
    BY <1>2 DEF Zone, Timestamp
  <2> QED
    BY <2>1, <2>2 DEF Zone
<1> QED
  BY <1>1, <1>2 DEF Zone

(* The instant that the window of a day and the event have in common.      *)
LEMMA WindowReached ==
    ASSUME NEW z \in Zone, NEW start \in Int, NEW end \in Int, start < end, NEW o \in Int,
           \A i \in start..end : Local(z, i) = i + o,
           \A w \in Int, fold \in {0, 1} :
              /\ Timestamp(z, w, fold) < end => w < end + o
              /\ start < Timestamp(z, w, fold) => start + o < w,
           NEW from \in 0..Day-1, NEW to \in 1..Day, from < to,
           OverlapsDailyWindow(z, from, to, start, end)
    PROVE  \E i \in start..end-1 :
              from <= TimeOfDay(Local(z, i)) /\ TimeOfDay(Local(z, i)) < to
<1>1. Day \in Nat \ {0} /\ from \in Int /\ to \in Int /\ 0 <= from /\ to <= Day
  BY DayAssumption
<1>2. Local(z, start) = start + o /\ Local(z, end) = end + o
  OBVIOUS
<1>3. ASSUME NEW d \in Int, NEW x \in Int, Midnight(d) + from <= x, x < Midnight(d) + to,
             start + o <= x, x < end + o
      PROVE  \E i \in start..end-1 :
                from <= TimeOfDay(Local(z, i)) /\ TimeOfDay(Local(z, i)) < to
  <2>1. Midnight(d) \in Int
    BY <1>1 DEF Midnight
  <2>2. Date(x) = d
    BY <1>1, <1>3, <2>1, DateOfTime
  <2>3. x - o \in start..end-1 /\ Local(z, x - o) = x
    <3>1. x - o \in start..end /\ x - o \in start..end-1 /\ (x - o) + o = x
      BY <1>3
    <3> QED
      BY <3>1
  <2>4. from <= TimeOfDay(x) /\ TimeOfDay(x) < to
    BY <1>1, <1>3, <2>1, <2>2 DEF TimeOfDay
  <2> QED
    BY <2>3, <2>4
<1>4. CASE (Local(z, end) - Local(z, start)) \div Day > MaxWindowDays
  <2> DEFINE q == Date(end - start)
             d == Date(start + o) + 1
  <2>1. q \in Int /\ q * Day <= end - start /\ q > MaxWindowDays
    <3>1. end - start \in Int /\ Local(z, end) - Local(z, start) = end - start
      BY <1>2
    <3> QED
      BY <1>4, <3>1, DateFacts DEF Date, Midnight
  <2>2. 2 <= q
    BY <2>1, WeekAssumption
  <2>3. d \in Int /\ Midnight(d) > start + o /\ Midnight(d) <= start + o + Day /\ Midnight(d) \in Int
    <3> DEFINE f == Date(start + o)
    <3>1. f \in Int /\ f * Day \in Int /\ f * Day <= start + o /\ start + o < f * Day + Day
      BY DateFacts DEF Midnight
    <3> HIDE DEF f
    <3>2. (f + 1) * Day = f * Day + Day
      BY <1>1, <3>1
    <3>3. f + 1 \in Int /\ Midnight(f + 1) = f * Day + Day
      BY <3>1, <3>2 DEF Midnight
    <3>4. Midnight(f + 1) > start + o /\ Midnight(f + 1) <= start + o + Day /\ Midnight(f + 1) \in Int
      BY <1>1, <3>1, <3>3
    <3> QED
      BY <3>3, <3>4 DEF f
  <2> HIDE DEF q, d
  <2>4. 2 * Day <= end - start
    <3>1. 2 * Day <= q * Day /\ q * Day \in Int
      BY <2>1, <2>2, DaysApart
    <3> QED
      BY <1>1, <2>1, <3>1
  <2>5. Midnight(d) + from \in Int /\ start + o <= Midnight(d) + from /\ Midnight(d) + from < end + o
        /\ Midnight(d) + from < Midnight(d) + to
    BY <1>1, <2>3, <2>4
  <2> QED
    BY <1>3, <2>3, <2>5
<1>5. CASE \E d \in Date(start + o)..Date(end + o) : WindowTouched(z, d, from, to, start, end)
  <2>1. PICK d \in Date(start + o)..Date(end + o) : WindowTouched(z, d, from, to, start, end)
    BY <1>5
  <2>2. d \in Int /\ Midnight(d) \in Int
    <3>1. Date(start + o) \in Int /\ Date(end + o) \in Int
      BY DateFacts
    <3>2. d \in Int
      BY <3>1
    <3> QED
      BY <1>1, <3>2 DEF Midnight
  <2>3. PICK fold \in {0, 1} : start < Timestamp(z, Midnight(d) + to, fold)
                               /\ Timestamp(z, Midnight(d) + from, fold) < end
    <3>1. ASSUME NEW t \in Int, end > t PROVE t < end
      BY <3>1
    <3>2. Timestamp(z, Midnight(d) + from, 0) \in Int /\ Timestamp(z, Midnight(d) + from, 1) \in Int
      BY <1>1, <2>2 DEF Timestamp, Zone
    <3> QED
      BY <2>1, <3>1, <3>2 DEF WindowTouched
  <2>4. Midnight(d) + from \in Int /\ Midnight(d) + to \in Int
    BY <1>1, <2>2
  <2>5. Midnight(d) + from < end + o /\ start + o < Midnight(d) + to
    BY <2>3, <2>4
  <2> DEFINE x == IF start + o > Midnight(d) + from THEN start + o ELSE Midnight(d) + from
  <2>6. /\ x \in Int /\ Midnight(d) + from <= x /\ x < Midnight(d) + to
        /\ start + o <= x /\ x < end + o
    BY <1>1, <2>2, <2>5
  <2> HIDE DEF x
  <2> QED
    BY <1>3, <2>2, <2>6
<1> QED
  BY <1>2, <1>4, <1>5 DEF OverlapsDailyWindow

(* In a week of dates every weekday comes.                                 *)
LEMMA WeekdayOf ==
    ASSUME NEW m \in Int, NEW k \in Weekdays
    PROVE  Weekday(m * Week + k) = k
<1> DEFINE d == m * Week + k
           p == d \div Week
           e == d % Week
<1>1. Week \in Nat \ {0} /\ k \in Int /\ 0 <= k /\ k < Week /\ m * Week \in Int /\ d \in Int
  BY WeekAssumption DEF Weekdays
<1>2. p \in Int /\ e \in Int /\ 0 <= e /\ e < Week /\ d = p * Week + e /\ p * Week \in Int
  <2> HIDE DEF d
  <2> QED
    BY <1>1
<1>3. m * Week + k = p * Week + e
  BY <1>2
<1> HIDE DEF d, p, e
<1>4. (m + 1) * Week = m * Week + Week /\ (p + 1) * Week = p * Week + Week
  BY <1>1, <1>2
<1>5. \A x, y \in Int : x <= y => x * Week <= y * Week
  BY <1>1
<1>6. ~(m + 1 <= p) /\ ~(p + 1 <= m)
  BY <1>1, <1>2, <1>3, <1>4, <1>5
<1>7. m = p
  BY <1>2, <1>6
<1>8. e = k
  BY <1>1, <1>2, <1>3, <1>7
<1> QED
  BY <1>8 DEF e, d, Weekday

WeekdaysIn(first, last) == {Weekday(d) : d \in first..last}

LEMMA WeekHasEveryDay ==
    ASSUME NEW first \in Int, NEW last \in Int, last - first >= Week
    PROVE  Weekdays \subseteq WeekdaysIn(first, last)
<1> SUFFICES ASSUME NEW k \in Weekdays
             PROVE  \E d \in first..last : Weekday(d) = k
  BY DEF WeekdaysIn
<1> DEFINE a == first - k
           r == a % Week
           q == a \div Week
<1>1. Week \in Nat \ {0} /\ k \in Int /\ 0 <= k /\ k < Week /\ a \in Int
  BY WeekAssumption DEF Weekdays
<1>2. q \in Int /\ r \in Int /\ 0 <= r /\ r < Week /\ a = q * Week + r /\ q * Week \in Int
  BY <1>1
<1>3. first = q * Week + k + r
  BY <1>1, <1>2
<1> HIDE DEF a, r, q
<1>4. CASE r = 0
  <2>1. first = q * Week + k /\ first \in first..last
    BY <1>1, <1>2, <1>3, <1>4
  <2> QED
    BY <1>2, <2>1, WeekdayOf
<1>5. CASE r > 0
  <2>1. (q + 1) * Week = q * Week + Week /\ q + 1 \in Int
    BY <1>1, <1>2
  <2>2. (q + 1) * Week + k \in first..last
    BY <1>1, <1>2, <1>3, <1>5, <2>1
  <2> QED
    BY <2>1, <2>2, WeekdayOf
<1> QED
  BY <1>2, <1>4, <1>5

(* The instant of the event that is on the blocked weekday.                *)
LEMMA WeekdayReached ==
    ASSUME NEW z \in Zone, NEW start \in Int, NEW end \in Int, start < end, NEW o \in Int,
           \A i \in start..end : Local(z, i) = i + o,
           NEW days \in SUBSET Weekdays, TouchesWeekday(z, days, start, end)
    PROVE  \E i \in start..end-1 : Weekday(Date(Local(z, i))) \in days
<1> DEFINE first == Date(start + o)
           last == Date(end + o - 1)
<1>1. Local(z, start) = start + o /\ Local(z, end) = end + o
  OBVIOUS
<1>2. /\ first \in Int /\ last \in Int /\ Day \in Nat \ {0}
      /\ first * Day \in Int /\ start + o < first * Day + Day
      /\ last * Day \in Int /\ last * Day <= end + o - 1
  BY DateFacts, DayAssumption DEF Midnight
<1>3. \E d \in first..last : Weekday(d) \in days
  <2>1. CASE last - first >= MaxWindowDays
    <3>1. PICK k \in days : TRUE
      BY DEF TouchesWeekday
    <3>2. last - first >= Week /\ k \in Weekdays
      <4> HIDE DEF first, last
      <4> QED
        BY <1>2, <2>1, WeekAssumption
    <3> HIDE DEF first, last
    <3>3. first \in Int /\ last \in Int
      BY <1>2
    <3>4. Weekdays \subseteq WeekdaysIn(first, last)
      BY <3>2, <3>3, WeekHasEveryDay
    <3> QED
      BY <3>1, <3>2, <3>4 DEF WeekdaysIn
  <2> QED
    BY <1>1, <2>1 DEF TouchesWeekday
<1> HIDE DEF first, last
<1>4. PICK d \in first..last : Weekday(d) \in days
  BY <1>3
<1>5. CASE d = first
  <2>1. start \in start..end-1 /\ Local(z, start) = start + o
    BY <1>1
  <2> QED
    BY <1>4, <1>5, <2>1 DEF first
<1>6. CASE d # first
  <2>1. d \in Int /\ first + 1 <= d /\ d <= last /\ first + 1 \in Int
    BY <1>2, <1>6
  <2>2. (first + 1) * Day = first * Day + Day
    BY <1>2
  <2>3. d * Day \in Int /\ first * Day + Day <= d * Day /\ d * Day <= last * Day
    BY <1>2, <2>1, <2>2, DaysApart
  <2>4. d * Day - o \in start..end-1 /\ d * Day - o \in start..end /\ (d * Day - o) + o = d * Day
    BY <1>2, <2>3
  <2>5. Date(d * Day) = d
    <3>1. Midnight(d) <= d * Day /\ d * Day < Midnight(d) + Day
      BY <1>2, <2>3 DEF Midnight
    <3> QED
      BY <2>1, <2>3, <3>1, DateOfTime
  <2>6. Local(z, d * Day - o) = d * Day
    BY <2>4
  <2> QED
    BY <1>4, <2>4, <2>5, <2>6
<1> QED
  BY <1>5, <1>6

(* A rule that vetoes an event away from the clock change is broken by it. *)
LEMMA VetoesAreBreaches ==
    ASSUME NEW rule \in Rules, NEW user \in Zones \cup {NoZone},
           NEW start \in Int, NEW end \in Int, start < end,
           Vetoes(rule, user, start, end), ~NearClockChange(rule, user, start, end)
    PROVE  Violates(rule, user, start, end)
<1> DEFINE z == ZoneOf(rule, user)
           shift == IF z.after > z.before THEN z.after - z.before ELSE z.before - z.after
<1>1. z \in Zone /\ shift \in Int
  BY ZoneOfRule DEF Zone
<1>2. ~(start < z.change + shift /\ end > z.change - shift)
  BY DEF NearClockChange
<1>3. rule.limit \in Nat /\ rule.days \in SUBSET Weekdays /\ Day \in Nat \ {0}
      /\ (rule.key \in {"no_meetings_before", "no_meetings_after"} => rule.limit < Day)
  BY RulesAssumption, DayAssumption DEF RuleIn
<1> HIDE DEF z
<1>4. PICK o \in Int :
         /\ \A i \in start..end : Local(z, i) = i + o
         /\ \A w \in Int, fold \in {0, 1} :
               /\ Timestamp(z, w, fold) < end => w < end + o
               /\ start < Timestamp(z, w, fold) => start + o < w
  BY <1>1, <1>2, OneOffset
<1>5. CASE rule.key = "no_meetings_before" /\ OverlapsDailyWindow(z, 0, rule.limit, start, end)
  <2>1. rule.limit # 0
    BY <1>5 DEF OverlapsDailyWindow
  <2>2. 0 \in 0..Day-1 /\ rule.limit \in 1..Day /\ 0 < rule.limit
    BY <1>3, <1>5, <2>1
  <2>3. \E i \in start..end-1 : 0 <= TimeOfDay(Local(z, i)) /\ TimeOfDay(Local(z, i)) < rule.limit
    BY <1>1, <1>4, <1>5, <2>2, WindowReached
  <2> QED
    BY <1>5, <2>3 DEF Violates, Forbids, z
<1>6. CASE rule.key = "no_meetings_after" /\ OverlapsDailyWindow(z, rule.limit, Day, start, end)
  <2>1. rule.limit \in 0..Day-1 /\ Day \in 1..Day /\ rule.limit < Day
    BY <1>3, <1>6
  <2>2. \E i \in start..end-1 : rule.limit <= TimeOfDay(Local(z, i)) /\ TimeOfDay(Local(z, i)) < Day
    BY <1>1, <1>4, <1>6, <2>1, WindowReached
  <2>3. PICK i \in start..end-1 : rule.limit <= TimeOfDay(Local(z, i))
    BY <2>2
  <2>4. TimeOfDay(Local(z, i)) >= rule.limit
    <3>1. Local(z, i) \in Int
      BY <1>1 DEF Zone, Local
    <3>2. TimeOfDay(Local(z, i)) \in Int
      BY <3>1, DateFacts DEF TimeOfDay
    <3> QED
      BY <1>3, <2>3, <3>2
  <2> QED
    BY <1>6, <2>4 DEF Violates, Forbids, z
<1>7. CASE rule.key = "no_meetings_on" /\ TouchesWeekday(z, rule.days, start, end)
  <2>1. \E i \in start..end-1 : Weekday(Date(Local(z, i))) \in rule.days
    BY <1>1, <1>3, <1>4, <1>7, WeekdayReached
  <2> QED
    BY <1>7, <2>1 DEF Violates, Forbids, z
<1>8. CASE rule.key = "max_meeting_minutes" /\ end - start > rule.limit
  BY <1>8 DEF Violates
<1> QED
  BY <1>5, <1>6, <1>7, <1>8 DEF Vetoes, z

(* The engine vetoes nothing for no reason: the interval breaks a rule, or  *)
(* comes so near to a clock change that both readings count                *)
(* (_overlaps_daily_window, _no_meetings_on).                              *)
THEOREM NoVetoWithoutReason == Spec => []VetoesHaveReasons
<1>1. GuardInvariant => VetoesHaveReasons
  <2> SUFFICES ASSUME GuardInvariant, step = "vetoed"
               PROVE  \E r \in rules : \/ r \in Broken(checked)
                                       \/ NearClockChange(r, userZone, checked.start, checked.end)
    BY DEF VetoesHaveReasons
  <2>1. PICK r \in rules : Vetoes(r, userZone, checked.start, checked.end)
    BY DEF GuardInvariant, AnswerStands, Vetoed
  <2>2. /\ r \in Rules /\ userZone \in Zones \cup {NoZone}
        /\ checked.start \in Int /\ checked.end \in Int /\ checked.start < checked.end
    BY IntervalAssumption DEF GuardInvariant, TypeOK, Interval, Instants
  <2> QED
    BY <2>1, <2>2, VetoesAreBreaches DEF Broken
<1> QED
  BY <1>1, GuardInvariantHolds, PTL
=============================================================================
