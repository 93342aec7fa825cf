---------------------------- MODULE CanvasSteps ----------------------------
(***************************************************************************)
(* Two readings of a graph that must agree with the compiler's: the editor *)
(* finds the box of a step of a run, and numbers the boxes (the functions  *)
(* at the end of store/editor.ts, lib/runner/stepNodes.ts); the linter     *)
(* says what keeps a job from running (lib/validation/lint.ts).            *)
(***************************************************************************)
EXTENDS Compiler

\* The chains of the destinations that reach a source, in the order of the boxes.
Destinations(g) == Among(MainSinks(g), {s \in ToSet(MainSinks(g)) : ChainFault(g, s) = "none"})
MiddlesOf(g) == {Middle(ChainTo(g, s)) : s \in ToSet(Destinations(g))}

\* sharedChainOf: up to the last rule, or all of it.
SharedChainOf(g, prefix) ==
  LET rules == {i \in DOMAIN prefix : Kind(g, prefix[i]) = "validation"}
  IN SubSeq(prefix, 1, IF rules = {} THEN Len(prefix) ELSE Max(rules))
SharedChain(g) == Given(SharedPrefix(MiddlesOf(g)), LAMBDA prefix : SharedChainOf(g, prefix))

MainChainTransformNodeIds(g) == OfKind(g, SharedChain(g), "transform")

\* Mutant of ValidationNodeIdsInOrder: one entry for each box.
ValidationNodeIdsByBox(g) == OfKind(g, SharedChain(g), "validation")

\* A rule stands once for each of its targets.
Targets(g, n) == [t \in DOMAIN RuleCodes[What(g, n)] |-> n]
EachTarget(g, rules) == FlattenSeq(<<>> \o [i \in DOMAIN rules |-> Targets(g, rules[i])])
ValidationNodeIdsInOrder(g) ==
  Given(OfKind(g, SharedChain(g), "validation"), LAMBDA rules : EachTarget(g, rules))

SourceId(g) ==
  IF Destinations(g) = <<>> THEN {} ELSE {ChainTo(g, Destinations(g)[1])[1]}

\* stepNodeLanes and nodeIdForStep: where a step of a run is, if anywhere.
StepNodeLanes(g) ==
  [input |-> SetToSeq(SourceId(g)), transformation |-> MainChainTransformNodeIds(g),
   validation |-> ValidationNodeIdsInOrder(g), output |-> Destinations(g),
   written |-> IF ValidationNodeIdsInOrder(g) = <<>> THEN <<>> ELSE SideSinks(g)]
NodeIdForStep(lanes, scope, index) ==
  IF index \in DOMAIN lanes[scope] THEN {lanes[scope][index]} ELSE {}

\* nodeOrdinals: the boxes in the order they run, each where it comes first.
RolesInOrder(g) == Among(<<"report", "valid", "invalid">>, DOMAIN SideSinks(g))
Quality(g) ==
  Given(RolesInOrder(g), LAMBDA roles :
    FlattenSeq(<<>> \o [i \in DOMAIN roles |-> Numbered(HoldersOf(g, roles[i]))]))
Branch(g, shared, sink) ==
  Given(ChainTo(g, sink), LAMBDA chain : SubSeq(chain, Len(shared) + 2, Len(chain)))
OrderOf(g, shared, sinks) ==
  SetToSeq(SourceId(g)) \o shared
    \o (IF OfKind(g, shared, "validation") # <<>> THEN Quality(g) ELSE <<>>)
    \o FlattenSeq(<<>> \o [i \in DOMAIN sinks |-> Branch(g, shared, sinks[i])])
Ordered(g) ==
  Given(SharedChain(g), LAMBDA shared :
    Given(Destinations(g), LAMBDA sinks : OrderOf(g, shared, sinks)))
FirstIn(order, n) == CHOOSE i \in DOMAIN order : order[i] = n /\ \A j \in 1 .. i - 1 : order[j] # n
NodeOrdinals(g) ==
  Given(Ordered(g), LAMBDA order :
    [n \in ToSet(order) |-> Cardinality({order[j] : j \in 1 .. FirstIn(order, n)})])
-----------------------------------------------------------------------------
(* lint.ts: the structure.                                                 *)

\* buildContext: linearChainTo and the trunk.
LinearChainTo(g, end) ==
  LET walk == ChainToSink(g, end)
  IN IF walk.problem # "none" THEN <<>>
     ELSE Among(walk.nodes, {n \in DOMAIN g.nodes : ~g.nodes[n].muted})

\* Mutant of SinkChains: a dataset of the validations ends a chain too.
SinkChainsOfAll(g) ==
  {c \in {LinearChainTo(g, n) : n \in {m \in DOMAIN g.nodes : Kind(g, m) = "sink"}} :
     c # <<>> /\ Kind(g, c[1]) = "source"}

SinkChains(g) ==
  {c \in {LinearChainTo(g, n) : n \in {m \in DOMAIN g.nodes :
            Kind(g, m) = "sink" /\ ~IsValidationSink(g.nodes[m])}} :
     c # <<>> /\ Kind(g, c[1]) = "source"}
\* collectAncestors, over every input.
Above(g, ids) == ids \union {l.from : l \in {k \in g.links : k.to \in ids}}
Ancestors(g, ids) ==
  LET above[i \in 0 .. Cardinality(DOMAIN g.nodes)] ==
        IF i = 0 THEN ids ELSE Given(above[i - 1], LAMBDA so_far : Above(g, so_far))
  IN above[Cardinality(DOMAIN g.nodes)]

\* No destination reaches a source yet: what the first source feeds, the second inputs
\* left out.
RightChain(g) ==
  Ancestors(g, UNION {ParentsOn(g, n, "inRight") : n \in {m \in DOMAIN g.nodes : What(g, m) \in Dual}})
FirstSource(g) ==
  LET sources == {n \in DOMAIN g.nodes : Kind(g, n) = "source"}
      main == sources \ RightChain(g)
  IN IF sources = {} THEN {} ELSE {Min(IF main # {} THEN main ELSE sources)}
Onward(g, ids) ==
  ids \union ({l.to : l \in {k \in g.links : k.from \in ids /\ k.at = "in"}} \ RightChain(g))
FlowOf(g) ==
  LET flow[i \in 0 .. Cardinality(DOMAIN g.nodes)] ==
        IF i = 0 THEN FirstSource(g) ELSE Given(flow[i - 1], LAMBDA so_far : Onward(g, so_far))
  IN flow[Cardinality(DOMAIN g.nodes)]
Trunk(g) ==
  IF SinkChains(g) = {} THEN FlowOf(g)
  ELSE {c[1] : c \in SinkChains(g)} \union ToSet(SharedPrefix({Middle(c) : c \in SinkChains(g)}))

\* hasValidationBothWays.
FedThrough(g, n) == {m \in DOMAIN g.nodes \ {n} : n \in ToSet(ChainToSink(g, m).nodes)}
BetweenRules(g, n) ==
  LET onTrunk(ids) == \E r \in ids \intersect Trunk(g) : Kind(g, r) = "validation"
  IN onTrunk(ToSet(ChainToSink(g, n).nodes) \ {n}) /\ onTrunk(FedThrough(g, n))

Active(g, kind) == {n \in DOMAIN g.nodes : Kind(g, n) = kind /\ ~g.nodes[n].muted}

\* checkStructure, and the second input in checkTransforms.
Orphans(g) ==
  {n \in Active(g, "transform") \union Active(g, "validation") \union ToSet(MainSinks(g)) :
     ParentsOn(g, n, "in") = {}}
OffTheTrunk(g) == {n \in DOMAIN g.nodes \ Trunk(g) : Kind(g, n) = "validation"}
Split(g) == {n \in Active(g, "transform") \intersect Trunk(g) : BetweenRules(g, n)}
SecondInputs(g) ==
  {n \in Active(g, "transform") : What(g, n) \in Dual /\
     (\/ ParentsOn(g, n, "inRight") = {}
      \/ /\ What(g, n) \notin SubPipelines
         /\ \E m \in Ancestors(g, ParentsOn(g, n, "inRight")) : m \in Active(g, "transform"))}

\* checkValidationSinks: a role held once, by a box some rule of the trunk fills.
Unfilled(g) ==
  {n \in DOMAIN g.nodes : IsValidationSink(g.nodes[n]) /\
     (\/ Active(g, "validation") \intersect Trunk(g) = {}
      \/ n # Min({m \in DOMAIN g.nodes : g.nodes[m].role = g.nodes[n].role}))}

\* checkStructure, of the job as a whole: an output and an input are asked for.
Lacking(g) == MainSinks(g) = <<>> \/ \A n \in DOMAIN g.nodes : Kind(g, n) # "source"

\* lintJob: the boxes with an error, under the name of the check.
LintErrors(g) ==
  [orphan |-> Orphans(g), branch |-> OffTheTrunk(g), split |-> Split(g),
   second |-> SecondInputs(g), unfilled |-> Unfilled(g)]
=============================================================================
