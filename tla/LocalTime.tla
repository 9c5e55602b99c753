----------------------------- MODULE LocalTime -----------------------------
(***************************************************************************)
(* Instants and wall-clock times in a time zone with one clock change, as  *)
(* datetime and zoneinfo (PEP 495) convert them. A wall-clock time counts  *)
(* the units since the midnight of day 0; a unit is the resolution of      *)
(* datetime. Around the change wall-clock times are skipped or repeated,   *)
(* and fold tells the two readings of a time apart.                        *)
(***************************************************************************)
EXTENDS Integers

CONSTANT Day   \* units in a day

ASSUME DayAssumption == Day \in Nat \ {0}

(* The offset from UTC is before until the instant change, then after.     *)
Zone == [change: Int, before: Int, after: Int]

Utc == [change |-> 0, before |-> 0, after |-> 0]

Local(z, i) == IF i < z.change THEN i + z.before ELSE i + z.after

(* The instant of a wall-clock time. A time in the skipped hour is read    *)
(* with the offset before the change for fold 0, after it for fold 1.      *)
Timestamp(z, w, fold) ==
    LET hi == IF z.after > z.before THEN z.after ELSE z.before
        lo == IF z.after > z.before THEN z.before ELSE z.after
    IN  IF w < z.change + (IF fold = 0 THEN hi ELSE lo)
        THEN w - z.before
        ELSE w - z.after

Date(w) == w \div Day
Midnight(d) == d * Day

(* The clock change does not turn the calendar back to the day before:     *)
(* true of the rules in force today, though not of the change from 00:01   *)
(* to 23:01 that St. John's used until 2011.                               *)
DatesInOrder(z) == Date(z.change - 1 + z.before) <= Date(z.change + z.after)
=============================================================================
