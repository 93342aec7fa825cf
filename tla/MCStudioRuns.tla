---------------------------- MODULE MCStudioRuns ----------------------------
(***************************************************************************)
(* Instances of StudioRuns for TLC: two documents, A and B, whose editors  *)
(* share one panel and whose runs share one runner; the editor is that of  *)
(* a Job or that of a Pipeline, chosen in the initial state.               *)
(***************************************************************************)
EXTENDS StudioRuns, TLC
CONSTANTS A, B

MCDocs == {A, B}
Either == Permutations(MCDocs)
MCTwins == {"job", "pipeline"}
=============================================================================
