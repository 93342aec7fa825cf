----------------------------- MODULE MCRunSlot -----------------------------
(* Instances of RunSlot for TLC. Requests are interchangeable, so the runs   *)
(* that check safety only may treat them as a symmetry set.                  *)
EXTENDS RunSlot, TLC

Symmetry == Permutations(Runs)
=============================================================================
