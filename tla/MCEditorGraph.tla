--------------------------- MODULE MCEditorGraph ---------------------------
(* Instances of EditorImports for TLC.                                     *)
EXTENDS EditorImports

AllWhats == {"orders", "filter", "join", "union", "notNull", "range", "table"}
Datum2(kind, what, role) == [Datum(kind, what) EXCEPT !.role = role]
MCForms == [w \in AllWhats |-> CASE w = "notNull" -> {"range"} [] OTHER -> {}]
MCRuleCodes == [w \in AllWhats |-> CASE w = "notNull" -> <<"a", "b">> [] OTHER -> <<"b">>]
MCPalette == {Datum("transform", "filter"), Datum("validation", "range"),
              Datum("sink", "table"), Datum2("sink", "table", "invalid")}

Plain(what) == [what |-> what, side |-> <<>>]
With2(what, steps) == [what |-> what, side |-> <<[input |-> "orders", steps |-> steps]>>]
Output(steps) == [what |-> "table", steps |-> steps]
Pipe(steps, rules, written, outputs) ==
  [input |-> "orders", steps |-> steps, rules |-> rules, written |-> written, outputs |-> outputs]
Invalid(scope) == [invalid |-> [what |-> "table", scope |-> scope]]

Pipelines == {
  Pipe(<<Plain("filter")>>, <<"range">>, Invalid({"b"}), <<Output(<<>>)>>),
  Pipe(<<>>, <<"notNull">>, <<>>, <<Output(<<Plain("filter")>>), Output(<<>>)>>),
  Pipe(<<>>, <<"notNull", "range">>, Invalid({"a"}), <<Output(<<>>)>>),
  Pipe(<<With2("join", <<Plain("filter")>>)>>, <<>>, <<>>, <<Output(<<>>)>>),
  Pipe(<<With2("union", <<>>)>>, <<"range">>, <<>>, <<Output(<<>>)>>)}

\* Graphs with a box that is not linked yet.
Loose(p, d) == LET g == ToGraph(p) IN With(g, Len(g.nodes) + 1, d)
HalfDrawn == {
  Loose(Pipe(<<>>, <<"range">>, <<>>, <<Output(<<Plain("filter")>>)>>),
        Datum("validation", "notNull")),
  Loose(Pipe(<<>>, <<>>, <<>>, <<Output(<<>>), Output(<<>>)>>), Datum("transform", "join"))}
\* A union whose second input comes from a join, fed with what the union is fed with.
Reshaped ==
  LET datum == <<Datum("source", "orders"), Datum("transform", "filter"), Datum("transform", "join"),
                 Datum("transform", "union"), Datum("sink", "table")>>
  IN [nodes |-> datum,
      links |-> UNION {Link(1, 2, "in"), Link(1, 3, "in"), Link(2, 3, "inRight"), Link(2, 4, "in"),
                       Link(3, 4, "inRight"), Link(4, 5, "in")}]
\* A join fed with a rule on both inputs.
Ruled ==
  [nodes |-> <<Datum("source", "orders"), Datum("validation", "range"), Datum("transform", "join"),
               Datum("sink", "table")>>,
   links |-> UNION {Link(1, 2, "in"), Link(2, 3, "in"), Link(2, 3, "inRight"), Link(3, 4, "in")}]
MCImported == {ToGraph(p) : p \in Pipelines} \union HalfDrawn \union {Reshaped, Ruled}
=============================================================================
