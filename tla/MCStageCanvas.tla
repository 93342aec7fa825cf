--------------------------- MODULE MCStageCanvas ---------------------------
(* Instances of StageCanvas for TLC.                                       *)
EXTENDS StageCanvas, TLC

CONSTANTS load, clean, extract

MCJobs == {load, clean}
MCFiles == {extract}

Stage(id, target) == [id |-> id, runs |-> target]
Drawing(stages, links) == [stages |-> stages, links |-> links]

\* Two Jobs linked against their order on the canvas; two boxes of one Job, the
\* later one running first, beside a file; and an imported record with a loop, a link to itself and
\* a link to a stage that is not there.
MCOpened == {
    Drawing(<<Stage(1, load), Stage(2, clean)>>, {<<2, 1>>}),
    Drawing(<<Stage(1, load), Stage(2, load), Stage(3, extract)>>, {<<2, 1>>}),
    Drawing(<<Stage(1, clean), Stage(2, load)>>, {<<1, 2>>, <<2, 1>>, <<2, 2>>, <<1, 3>>})}

Names == (load :> 2) @@ (clean :> 3) @@ (extract :> 1)
MCLibraries == {[keeps |-> MCJobs, good |-> MCJobs, name |-> Names]}
=============================================================================
