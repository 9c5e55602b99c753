--------------------------- MODULE MCFakeCalendar ---------------------------
(* Small instances of FakeCalendar for TLC.                                *)
EXTENDS FreeBusy, TLC

Symmetry == Permutations(Calendars)
=============================================================================
