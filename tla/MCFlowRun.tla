----------------------------- MODULE MCFlowRun -----------------------------
(* Instances of FlowRun for TLC: a stage that is written inline, one of a bare *)
(* file and one of a Job.                                                      *)
EXTENDS FlowRun

MixedOwner == [s \in 1..N |-> IF s = 1 THEN "nobody" ELSE IF s = 2 THEN "file" ELSE "job"]
=============================================================================
