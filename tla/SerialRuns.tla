----------------------------- MODULE SerialRuns -----------------------------
(***************************************************************************)
(* What the runner promises about executions: they never overlap, because  *)
(* they share one Spark session, one runtime-variable store and one global *)
(* buffer of deferred warnings (main.py, route `run`). A run executes at   *)
(* most once; it may also end without executing, and the process may die   *)
(* and end all of them together.                                           *)
(***************************************************************************)
CONSTANT Runs
VARIABLE state

Init == state = [r \in Runs |-> "waiting"]

Start(r) ==
  /\ state[r] = "waiting"
  /\ \A s \in Runs : state[s] # "executing"
  /\ state' = [state EXCEPT ![r] = "executing"]

End(S) ==
  state' = [r \in Runs |-> IF r \in S THEN "ended" ELSE state[r]]

Next == (\E r \in Runs : Start(r)) \/ (\E S \in SUBSET Runs : End(S))

Spec == Init /\ [][Next]_state

=============================================================================
