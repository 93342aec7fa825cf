----------------------------- MODULE StagePlan -----------------------------
(***************************************************************************)
(* What a Pipeline's drawing means: which links may be drawn, the order    *)
(* its stages run in when the Studio sends them                            *)
(* (lib/pipeline/pipeline.ts), the order they run in when a schedule fires *)
(* (server/scheduling.py), and which box of the canvas an execution read   *)
(* back from the history belongs to (lib/runner/stageRuns.ts).             *)
(*                                                                         *)
(* A drawing is a sequence of stages [id, runs], in the order they were    *)
(* dropped, and a set of links <<source id, target id>>.  What a stage     *)
(* runs is a Job or a file of the library: the code's `jobId`, or `path`   *)
(* with an empty `jobId`.  A library says which Jobs it `keeps`, which of  *)
(* them compile (`good`) and the rank of the name of each Job and file.    *)
(***************************************************************************)
EXTENDS Naturals, Sequences, FiniteSets, Functions

CONSTANTS Jobs,   \* the Jobs of the workflow
          Files,  \* the runnable files a stage may name instead of a Job
          Ids     \* the ids stages are given; their order is the order of the strings

ASSUME TargetsAreApart == Jobs \cap Files = {}
ASSUME IdsAreRanked == Ids \subseteq Nat

Targets == Jobs \cup Files

IdsOf(stages) == {stages[n].id : n \in DOMAIN stages}

StageOf(stages, id) == CHOOSE s \in Range(stages) : s.id = id

\* The rank of position n among the positions of `same`.
Turn(n, same) == Cardinality({m \in same : m <= n})

\* What s holds at `places`, in its order.
Picked(s, places) == [k \in 1..Cardinality(places) |-> s[CHOOSE n \in places : Turn(n, places) = k]]

Ends(links) == {l[1] : l \in links} \cup {l[2] : l \in links}

-----------------------------------------------------------------------------
(* Which links may be drawn. *)

\* Every stage some path of links leads to, `from` itself included.
Reached(links, from) ==
    LET within[n \in 0..Cardinality(links)] ==
            IF n = 0 THEN {from}
            ELSE within[n - 1] \cup {l[2] : l \in {k \in links : k[1] \in within[n - 1]}}
    IN  within[Cardinality(links)]

\* Mutant of WouldCreateCycle: only the link back is looked for, not the path.
CycleIfLinkedBack(links, source, target) == source = target \/ <<target, source>> \in links

WouldCreateCycle(links, source, target) == source \in Reached(links, target)

LinkAllowed(links, source, target) ==
    /\ source # target
    /\ <<source, target>> \notin links
    /\ ~ WouldCreateCycle(links, source, target)

-----------------------------------------------------------------------------
(* The order of the stages.  Ties go to the name, then to the id. *)

Precedes(names, a, b) == names[a] < names[b] \/ (names[a] = names[b] /\ a < b)

FirstOf(S, names) == CHOOSE a \in S : \A b \in S \ {a} : Precedes(names, a, b)

\* The stages whose links are all satisfied.  A self-link counts for nothing.
Ready(S, links, placed) ==
    {a \in S \ placed : \A l \in links : l[2] = a /\ l[1] # a => l[1] \in placed}

\* Kahn's algorithm; the `ready` list is kept sorted, so its head is its first.
Kahn(S, links, names) ==
    LET placed[n \in 0..Cardinality(S)] ==
            IF n = 0 THEN <<>>
            ELSE LET before == placed[n - 1]
                     ready  == Ready(S, links, Range(before))
                 IN  IF ready = {} THEN before ELSE Append(before, FirstOf(ready, names))
    IN  placed[Cardinality(S)]

\* Sorted by name: with no links, every stage is ready and the first goes first.
ByNameThenId(S, names) == Kahn(S, {}, names)

TopologicalOrder(S, links, names) ==
    LET ordered == Kahn(S, links, names)
        cyclic  == S \ Range(ordered)
    IN  [ordered |-> ordered \o ByNameThenId(cyclic, names), cyclic |-> cyclic]

-----------------------------------------------------------------------------
(* The Studio: what the canvas numbers and what Run sends. *)

CONSTANT MissingName   \* the rank of 'Missing job'

ASSUME NamesAreRanked == MissingName \in Nat

StudioNames(stages, library) ==
    [id \in IdsOf(stages) |->
        LET t == StageOf(stages, id).runs
        IN  IF t \in Files \/ t \in library.keeps THEN library.name[t] ELSE MissingName]

LinksShown(drawing) ==
    {l \in drawing.links : {l[1], l[2]} \subseteq IdsOf(drawing.stages)}

\* Mutant of Resolve: stages nothing links to are roots like any other.
ResolveUnsplit(drawing, library) ==
    LET topo == TopologicalOrder(IdsOf(drawing.stages), LinksShown(drawing),
                                 StudioNames(drawing.stages, library))
    IN  [order |-> topo.ordered, cyclic |-> topo.cyclic]

\* Wired stages by their links, stages nothing links to last.
Resolve(drawing, library) ==
    LET names   == StudioNames(drawing.stages, library)
        links   == LinksShown(drawing)
        linked  == Ends(links)
        topo    == TopologicalOrder(linked, links, names)
        orphans == ByNameThenId(IdsOf(drawing.stages) \ linked, names)
    IN  [order |-> topo.ordered \o orphans, cyclic |-> topo.cyclic]

\* The issues of severity `error`.  Nothing is asked of a file but its place.
Blocked(drawing, library, resolved) ==
    \/ resolved.cyclic # {}
    \/ \E s \in Range(drawing.stages) : s.runs \in Jobs \ (library.keeps \cap library.good)

\* The stages in the order the canvas numbers them, those of a loop and after it last.
StagesShown(drawing, library) ==
    LET order == Resolve(drawing, library).order
    IN  [n \in DOMAIN order |-> StageOf(drawing.stages, order[n])]

PlanPipelineRun(drawing, library) ==
    IF Blocked(drawing, library, Resolve(drawing, library)) THEN <<>>
    ELSE StagesShown(drawing, library)

-----------------------------------------------------------------------------
(* The runner: what a schedule fires. *)

ServerNames(stages, library) ==
    [id \in IdsOf(stages) |-> library.name[StageOf(stages, id).runs]]

\* Every stage of the record, the ones nothing links to among the roots.
OrderStages(drawing, library) ==
    LET order == TopologicalOrder(IdsOf(drawing.stages), LinksShown(drawing),
                                  ServerNames(drawing.stages, library)).ordered
    IN  [n \in DOMAIN order |-> StageOf(drawing.stages, order[n])]

-----------------------------------------------------------------------------
(* The canvas: the execution each box is painted with. *)

\* The `job_id` an execution is recorded under, and the one a box looks for.  A
\* file has an identity of its own in the history (`file:<path>`) and an empty
\* one on the canvas.
StageJob(stage) == IF stage.runs \in Jobs THEN {stage.runs} ELSE {}
RowJob(stage) == {stage.runs}

\* Mutant of MatchStageRuns: the n-th execution goes to the n-th box.
MatchByPosition(stages, sent, rows) ==
    [n \in DOMAIN rows \cap DOMAIN stages |-> n]

\* Which row each box is paired with: the executions of a Job in the order they
\* ran, against the boxes of that Job in canvas order.
MatchStageRuns(stages, sent, rows) ==
    LET boxes(j) == {n \in DOMAIN stages : j \in StageJob(stages[n])}
        execs(j) == {k \in DOMAIN rows : j \in RowJob(sent[k])}
        pairs    == UNION {{p \in boxes(j) \X execs(j) :
                                Turn(p[1], boxes(j)) = Turn(p[2], execs(j))} : j \in Jobs}
    IN  [n \in {p[1] : p \in pairs} |-> CHOOSE k \in DOMAIN rows : <<n, k>> \in pairs]

=============================================================================
