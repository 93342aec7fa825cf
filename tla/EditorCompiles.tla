--------------------------- MODULE EditorCompiles ---------------------------
(***************************************************************************)
(* The canvas with everything that reads it: what the compiler makes of a  *)
(* graph that can be drawn, and whether the editor, the import and the     *)
(* linter agree with it. The framework runs the main transformations, then *)
(* the rules in one block and the datasets of the block, then the branch   *)
(* of each output (the comment of compileGraph, toJson.ts:614-616).        *)
(***************************************************************************)
EXTENDS EditorGraph, CanvasSteps

StepWhats(steps) == [i \in DOMAIN steps |-> steps[i].what]

\* What is drawn between the source and a destination, muted boxes left out.
DrawnTo(g, sink) == WhatsOf(g, Middle(ChainTo(g, sink)))

(* Every destination gets what is drawn on its way, in that order, however *)
(* the chains are shared and wherever the rules stand; no destination that *)
(* is drawn is dropped (compileGraph, toJson.ts:526-709).                  *)
RunsAsDrawn ==
  \A c \in {Compile(graph)}, sinks \in {MainSinks(graph)} :
    LET p == c.pipeline
    IN c.errors = {} =>
         /\ Len(p.outputs) = Len(sinks)
         /\ \A i \in DOMAIN sinks :
              /\ p.outputs[i].what = What(graph, sinks[i])
              /\ DrawnTo(graph, sinks[i])
                   = StepWhats(p.steps) \o p.rules \o StepWhats(p.outputs[i].steps)

\* The rules a run counts: one for each target.
RunRules(rules) ==
  FlattenSeq(<<>> \o [i \in DOMAIN rules |-> [t \in DOMAIN RuleCodes[rules[i]] |-> rules[i]]])
Paints(g, p, lanes) ==
  /\ WhatsOf(g, lanes.input) = <<p.input>>
  /\ WhatsOf(g, lanes.transformation) = StepWhats(p.steps)
  /\ WhatsOf(g, lanes.validation) = RunRules(p.rules)
  /\ WhatsOf(g, lanes.output) = [i \in DOMAIN p.outputs |-> p.outputs[i].what]
  /\ DOMAIN lanes.written = DOMAIN p.written
  /\ \A r \in DOMAIN p.written : What(g, lanes.written[r]) = p.written[r].what

InOrder(at, ids) == \A i, j \in DOMAIN ids : i < j => at[ids[i]] <= at[ids[j]]
Counts(at, lanes) ==
  /\ InOrder(at, lanes.input \o lanes.transformation \o lanes.validation)
  /\ InOrder(at, lanes.output)
  /\ \A n \in ToSet(lanes.validation), r \in DOMAIN lanes.written, s \in ToSet(lanes.output) :
       at[n] < at[lanes.written[r]] /\ at[lanes.written[r]] < at[s]

(* A step a run reports by its position in the JSON is painted on the box  *)
(* it was compiled from: the lanes of the editor have an entry for every   *)
(* position, in the compiler's order, a rule with several targets one for  *)
(* each of them; and the numbers on the boxes count the steps of a run in  *)
(* the order they run (editor.ts:1044-1260, stepNodes.ts:64-74).           *)
StepsFindTheirBoxes ==
  \A c \in {Compile(graph)} : c.errors = {} =>
    \A lanes \in {StepNodeLanes(graph)}, at \in {NodeOrdinals(graph)} :
      Paints(graph, c.pipeline, lanes) /\ Counts(at, lanes)

Reported(g) == UNION {LintErrors(g)[check] : check \in DOMAIN LintErrors(g)}

\* What the linter says of a graph that compiles: a rule is muted; a union is fed
\* through a muted join, which the linter follows to both of its inputs and the
\* compiler to the main one.
MutedRules(g) == {n \in DOMAIN g.nodes : Kind(g, n) = "validation" /\ g.nodes[n].muted}
FedThroughMuted(g) ==
  {n \in Active(g, "transform") :
     \E m \in Ancestors(g, ParentsOn(g, n, "inRight")) : What(g, m) \in Dual /\ g.nodes[m].muted}
Excused(g) ==
  [orphan |-> {}, branch |-> MutedRules(g), split |-> {}, second |-> FedThroughMuted(g),
   unfilled |-> {}]

\* What the compiler refuses and the linter does not see. A chain that begins at a
\* muted transformation reaches no source, and the linter, which asks for an input of
\* the boxes that are not muted, finds none missing (lint.ts:371-373, toJson.ts:377-385,
\* 587-589). A rule may not stand in a second input (toJson.ts:395-400), and the linter
\* asks only that it stand on the trunk, which a second input may be taken from
\* (lint.ts:403). Nothing in the linter asks that all destinations read one source
\* (toJson.ts:581-585).
MutedHeads(g) ==
  {n \in DOMAIN g.nodes : /\ Kind(g, n) = "transform" /\ g.nodes[n].muted
                          /\ ParentsOn(g, n, "in") = {} /\ \E l \in g.links : l.from = n}
FedThroughTrunkRule(g) ==
  {n \in Active(g, "transform") :
     \E m \in Ancestors(g, ParentsOn(g, n, "inRight")) \intersect Trunk(g) :
       Kind(g, m) = "validation"}
Overlooked(g) ==
  {"two-inputs"}
    \union (IF MutedHeads(g) # {} THEN {"no-source", "no-destination"} ELSE {})
    \union (IF FedThroughTrunkRule(g) # {} THEN {"side-chain"} ELSE {})

(* The linter, whose errors keep a job from being run (RunPanel.tsx:468),  *)
(* finds none in a graph that compiles with every box in it used, but for  *)
(* the two above. And whatever the compiler refuses in a graph, a box with *)
(* an error shows it, or the job is said to lack an output or an input,    *)
(* but for what the linter overlooks.                                      *)
LintAgrees ==
  \A c \in {Compile(graph)} :
    /\ c.errors = {} /\ c.unused = {} =>
         \A check \in DOMAIN LintErrors(graph) : LintErrors(graph)[check] \subseteq Excused(graph)[check]
    /\ c.errors \ Overlooked(graph) # {} => Reported(graph) # {} \/ Lacking(graph)
=============================================================================
