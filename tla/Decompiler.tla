----------------------------- MODULE Decompiler -----------------------------
(***************************************************************************)
(* From the JSON of a pipeline back to the canvas: lib/compiler/toGraph.ts.*)
(* Boxes are numbered in the order the import draws them.                  *)
(***************************************************************************)
EXTENDS Compiler

\* A fold whose steps are worked out once each.
Fold(Op(_, _), base, seq) ==
  FoldLeft(LAMBDA so_far, next : Given(so_far, LAMBDA v : Op(v, next)), base, seq)

Blank == [nodes |-> <<>>, links |-> {}, tail |-> 0]
Datum(kind, what) == [kind |-> kind, what |-> what, role |-> "none", muted |-> FALSE, codes |-> {}]

\* A box at the end of the chain being drawn, or one that nothing feeds yet.
Draw(b, d) == [b EXCEPT !.nodes = Append(@, d), !.tail = Len(b.nodes) + 1]
Link(a, n, handle) == {[from |-> a, to |-> n, at |-> handle]}
Chained(b, d) ==
  [Draw(b, d) EXCEPT !.links = b.links \union Link(b.tail, Len(b.nodes) + 1, "in")]

\* importTransformation: the box, and the chain that ends at its second input.
RECURSIVE ImportTransformation(_, _)
ImportSide(b, n, what, side) ==
  LET source == Draw(b, Datum("source", side.input))
      end == IF what \in SubPipelines THEN Fold(ImportTransformation, source, side.steps)
             ELSE source
  IN [end EXCEPT !.links = @ \union Link(end.tail, n, "inRight"), !.tail = n]
ImportTransformation(b, step) ==
  LET drawn == Chained(b, Datum("transform", step.what))
  IN IF step.side = <<>> THEN drawn
     ELSE ImportSide(drawn, drawn.tail, step.what, step.side[1])

\* Mutant of Owners: one code of a rule draws its link.
OwnersOfAny(b, rules, scope) ==
  {n \in rules : ToSet(RuleCodes[b.nodes[n].what]) \intersect scope # {}}

\* The datasets of the block: a scope is drawn from the rules all of whose codes
\* it names, and a box without one hangs from the last rule.
Owners(b, rules, scope) ==
  {n \in rules : RuleCodes[b.nodes[n].what] # <<>> /\ ToSet(RuleCodes[b.nodes[n].what]) \subseteq scope}
ImportDataset(b, role, written, rules) ==
  LET owners == Owners(b, rules, written.scope)
      claimed == UNION {ToSet(RuleCodes[b.nodes[n].what]) : n \in owners}
      box == Len(b.nodes) + 1
  IN [b EXCEPT
        !.nodes = Append(@, [Datum("sink", written.what) EXCEPT
                               !.role = role, !.codes = written.scope \ claimed]),
        !.links = @ \union IF owners # {} THEN UNION {Link(n, box, "inScope") : n \in owners}
                           ELSE Link(Max(rules), box, "in")]

\* importValidations: the rules one after the other, then their datasets.
ImportValidations(b, p) ==
  LET ruled == Fold(LAMBDA c, what : Chained(c, Datum("validation", what)), b, p.rules)
      rules == Len(b.nodes) + 1 .. Len(ruled.nodes)
      roles == SelectSeq(<<"report", "valid", "invalid">>, LAMBDA r : r \in DOMAIN p.written)
  IN IF p.rules = <<>> THEN b
     ELSE Fold(LAMBDA c, role : ImportDataset(c, role, p.written[role], rules), ruled, roles)

\* Every output is a branch of its own from the end of the shared chain.
ImportOutput(b, trunk, output) ==
  Chained(Fold(ImportTransformation, [b EXCEPT !.tail = trunk], output.steps),
          Datum("sink", output.what))

\* pipelineToGraph.
ToGraph(p) ==
  LET shared == Fold(ImportTransformation, Draw(Blank, Datum("source", p.input)), p.steps)
      branched(ruled) == Fold(LAMBDA b, output : ImportOutput(b, ruled.tail, output), ruled, p.outputs)
      drawn(b) == [nodes |-> b.nodes, links |-> b.links]
  IN Given(Given(shared, LAMBDA b : ImportValidations(b, p)),
           LAMBDA ruled : Given(branched(ruled), drawn))
=============================================================================
