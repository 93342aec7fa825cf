---------------------------- MODULE CanvasGraph ----------------------------
(***************************************************************************)
(* The graph of a job, as the canvas of the Studio holds it (types/        *)
(* studio.ts): boxes numbered in the order they were added, and links from *)
(* the output of a box to an input handle of another. What a box is about  *)
(* - a format and path, a transformation and its parameters, a rule - is   *)
(* one value, its `what`; positions, labels and sizes are left out.        *)
(***************************************************************************)
EXTENDS Integers, Sequences, FiniteSets

CONSTANTS
  Whats,   \* what a box may be about
  Dual,    \* transformations with a second input: join and union
  Codes    \* codes the rules answer to

ASSUME DualAssumption == Dual \subseteq Whats

Kinds == {"source", "transform", "validation", "sink", "note"}

\* The datasets the validations block writes, and "none" for any other box.
SinkRoles == {"none", "report", "valid", "invalid"}
Handle == {"in", "inRight", "inScope"}

\* `codes` is what the quarantine keeps of an imported scope (dqRules).
NodeData == [kind: Kinds, what: Whats, role: SinkRoles, muted: BOOLEAN, codes: SUBSET Codes]

\* Only a sink has a role, only transformations and rules have a switch (`disabled`).
IsBox(d) ==
  d \in NodeData /\ (d.role # "none" => d.kind = "sink")
                 /\ (d.muted => d.kind \in {"transform", "validation"})
IsGraph(g) ==
  /\ g \in [nodes: [DOMAIN g.nodes -> NodeData], links: SUBSET [from: Nat, to: Nat, at: Handle]]
  /\ DOMAIN g.nodes \subseteq Nat
  /\ \A n \in DOMAIN g.nodes : IsBox(g.nodes[n])

Kind(g, n) == g.nodes[n].kind
IsValidationSink(d) == d.role # "none"

\* The inputs a box shows, and whether it shows an output (NodeShell).
Inputs(d) ==
  IF d.kind \in {"source", "note"} THEN {}
  ELSE {"in"} \union (IF d.kind = "transform" /\ d.what \in Dual THEN {"inRight"} ELSE {})
              \union (IF d.role = "invalid" THEN {"inScope"} ELSE {})
HasOutput(d) == d.kind \notin {"sink", "note"}

\* Only a rule may point at a dataset of the validations block.
MayFeed(d, e) == HasOutput(d) /\ (IsValidationSink(e) => d.kind = "validation")

\* What is at the far end of every link an input has (parentsOn).
ParentsOn(g, n, handle) ==
  {m \in DOMAIN g.nodes : [from |-> m, to |-> n, at |-> handle] \in g.links}

\* Mutant of CreatesCycle: the second input of a join leads nowhere.
CreatesCycleOnMain(g, a, b) ==
  a = b \/ ~\E S \in SUBSET (DOMAIN g.nodes \ {a, b}) :
              \A l \in g.links : l.at = "in" /\ l.from \in S \union {b} => l.to \in S \union {b}

\* createsCycle: no link from a to b while b can be followed down to a. Nothing
\* leads from b to a when some set of boxes that holds b, and everything fed
\* by its members, leaves a out.
Downward(links, S) == \A l \in links : l.from \in S => l.to \in S
CreatesCycle(g, a, b) ==
  a = b \/ ~\E S \in SUBSET (DOMAIN g.nodes \ {a, b}) : Downward(g.links, S \union {b})
-----------------------------------------------------------------------------
(* What a graph must be for the compiler to read it the way it is drawn.   *)

LinksHaveEnds(g) ==
  \A l \in g.links : {l.from, l.to} \subseteq DOMAIN g.nodes

LinksAreAllowed(g) ==
  \A l \in g.links :
    /\ l.at \in Inputs(g.nodes[l.to])
    /\ MayFeed(g.nodes[l.from], g.nodes[l.to])

\* Many rules may scope a quarantine; any other input takes one link.
OneLinkPerInput(g) ==
  \A l, m \in g.links : l.to = m.to /\ l.at = m.at /\ l.at # "inScope" => l = m

\* Some box of any set of boxes is fed by none of that set.
Acyclic(g) ==
  \A S \in SUBSET (DOMAIN g.nodes) :
    S # {} => \E n \in S : \A l \in g.links : l.to = n => l.from \notin S

Sound(g) ==
  LinksHaveEnds(g) /\ LinksAreAllowed(g) /\ OneLinkPerInput(g) /\ Acyclic(g)
=============================================================================
