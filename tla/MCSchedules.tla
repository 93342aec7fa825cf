---------------------------- MODULE MCSchedules ----------------------------
(* Instances of Schedules for TLC. The wall clock of `skips` jumps forward *)
(* two minutes, that of `repeats` back by two.                             *)
EXTENDS Schedules, TLC

CONSTANTS skips, repeats, timer, press

TwoCrons == skips :> {3, 6} @@ repeats :> {3, 4}
TwoZones ==
  skips :> [before |-> 0, after |-> 2, at |-> 2]
  @@ repeats :> [before |-> 2, after |-> 0, at |-> 2]
TwoSchedules == <<skips, repeats>>
=============================================================================
