--------------------------- MODULE EditorImports ---------------------------
(***************************************************************************)
(* The canvas, what is compiled from it, and the JSON drawn again.         *)
(***************************************************************************)
EXTENDS EditorCompiles, Decompiler

(* The JSON of a job drawn again (the JSON panel, a pasted pipeline, a     *)
(* file saved by hand) is a sound graph with nothing to spare, and is that *)
(* JSON when it is compiled: joins with their right-hand chains, datasets  *)
(* and the scope of the quarantine included ("The inverse of               *)
(* buildValidations", toGraph.ts:370-375).                                 *)
RoundTrip ==
  \A c \in {Compile(graph)} : c.errors = {} =>
    \A again \in {ToGraph(c.pipeline)} :
      Sound(again) /\ Compile(again) = [pipeline |-> c.pipeline, errors |-> {}, unused |-> {}]
=============================================================================
