---------------------------- MODULE MCEditorSave ----------------------------
(* Instances of EditorSave for TLC.                                        *)
EXTENDS EditorSave, TLC

CONSTANTS jobA, jobB

TwoJobs == {jobA, jobB}
Symmetric == Permutations(TwoJobs)
=============================================================================
