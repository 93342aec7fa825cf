------------------------------ MODULE Timeline ------------------------------
(***************************************************************************)
(* What undo and redo promise: the versions of a document in the order they *)
(* were made, and which of them is on screen. A gesture adds one version    *)
(* and drops those that were undone, whatever it is made of; a field typed  *)
(* into goes on with the version it began, which is the latest there is. No *)
(* change is made but by one of the two.                                    *)
(***************************************************************************)
EXTENDS Integers, Sequences

CONSTANTS Limit, NoField

VARIABLES
  versions,
  at,      \* the version on screen
  half,    \* the gesture under way is not over
  typing,  \* the field the latest change was typed into, or NoField
  made     \* changes made since the document was opened

timeline == <<versions, at, half, typing, made>>

Start == /\ Len(versions) = 1
         /\ at = 1 /\ half = FALSE /\ typing = NoField /\ made = 0

\* The oldest version goes when there are too many.
Kept(s) == IF Len(s) > Limit + 1 THEN SubSeq(s, Len(s) - Limit, Len(s)) ELSE s

Do ==
  /\ ~half
  /\ at' = Len(versions')
  /\ versions' = Kept(Append(SubSeq(versions, 1, at), versions'[at']))
  /\ half' \in BOOLEAN
  /\ made' = made + 1

\* The rest of a gesture, or more of what is typed into one field.
GoOn ==
  /\ half \/ (typing # NoField /\ typing' = typing)
  /\ at = Len(versions) /\ Len(versions') = at
  /\ versions' = [versions EXCEPT ![at] = versions'[at]]
  /\ at' = at /\ half' = FALSE
  /\ made' = made + 1

Move(place) ==
  /\ ~half /\ at' = place
  /\ typing' = NoField /\ UNCHANGED <<versions, half, made>>

Undo == at > 1 /\ Move(at - 1)

Redo == at < Len(versions) /\ Move(at + 1)

\* Another document.
Reset == /\ ~half
         /\ Len(versions') = 1 /\ at' = 1
         /\ half' = FALSE /\ typing' = NoField /\ made' = 0

Gesture == Do \/ GoOn \/ Undo \/ Redo

Next == Gesture \/ Reset

OneDocument == Start /\ [][Gesture]_timeline
Spec == Start /\ [][Next]_timeline
=============================================================================
