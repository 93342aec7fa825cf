---------------------------- MODULE SharedRecord ----------------------------
(***************************************************************************)
(* What a shared library promises to the person at one of its editors: a   *)
(* record saved by somebody else is only replaced by a save that drops      *)
(* nothing this person has not been shown, unless they chose to overwrite. *)
(* Whoever else writes the record builds on what it holds, or removes it.  *)
(***************************************************************************)
CONSTANTS Jobs, Edits

VARIABLES
  held,   \* the edits each record on disk holds
  shown,  \* the edits of each record this person has had on screen
  chosen  \* records whose conflict this person chose to overwrite

Init ==
  /\ held = [j \in Jobs |-> {}]
  /\ shown = [j \in Jobs |-> {}]
  /\ chosen \in SUBSET Jobs

Becomes(j, new) == held' = [held EXCEPT ![j] = new] /\ new \subseteq Edits

Save(j) == held[j] \ held'[j] \subseteq shown[j] /\ Becomes(j, held'[j])

Overwrite(j) == j \in chosen /\ Becomes(j, held'[j])

Elsewhere(j) ==
  /\ held[j] \subseteq held'[j] \/ held'[j] = {}
  /\ Becomes(j, held'[j])

\* Being shown something and choosing may go with any of these, or with none.
Next ==
  /\ \A j \in Jobs : shown[j] \subseteq shown'[j]
  /\ \/ held' = held
     \/ \E j \in Jobs : Save(j) \/ Overwrite(j) \/ Elsewhere(j)

Spec == Init /\ [][Next]_<<held, shown, chosen>>
=============================================================================
