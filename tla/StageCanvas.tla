---------------------------- MODULE StageCanvas ----------------------------
(***************************************************************************)
(* The Pipeline editor: the drawing of one Pipeline and its undo history   *)
(* (store/pipelineEditor.ts), the library its stages point into, the runs  *)
(* the editor sends and those a schedule fires, the stream the editor      *)
(* hears its run on, and the execution painted on the boxes.               *)
(*                                                                         *)
(* Saving and conflicts are those of the Job editor (EditorSave); what     *)
(* Stop, the panel and a change of document do to a run is in StudioRuns.  *)
(* Here the drawing on screen is the one the library holds, and one run at *)
(* a time is heard.                                                        *)
(***************************************************************************)
EXTENDS StagePlan

CONSTANTS Opened,        \* the drawings a Pipeline may be opened with
          Libraries,     \* the libraries its workflow may start with
          HistoryLimit,  \* snapshots the undo history keeps
          MaxMoves,      \* bound: edits of the drawing and of the library, and runs
          MaxRuns        \* bound: runs, sent or fired

ASSUME BoundsAreNatural == HistoryLimit \in Nat /\ MaxMoves \in Nat /\ MaxRuns \in Nat

Drawings == [stages : Seq([id : Ids, runs : Targets]), links : SUBSET (Ids \X Ids)]

ASSUME OpenedAreDrawings == Opened \subseteq Drawings /\ \A d \in Opened : IsFiniteSet(d.links)
ASSUME LibrariesAreNamed ==
    Libraries \subseteq [keeps : SUBSET Jobs, good : SUBSET Jobs, name : [Targets -> Nat]]

VARIABLES
    opened,    \* the drawing as it was opened
    drawing,   \* `stages` and `links` of the store
    past,      \* `past`
    future,    \* `future`, the next redo first
    drawn,     \* edits of the drawing since it was opened
    library,   \* the Jobs as the library has them now
    edits,     \* edits made; undo and redo are not counted
    runs,      \* runs the runner took: [stages, rows, by, cancelled, silent]
    heard,     \* the run whose stream the editor reads, 0 for none
    running,   \* `running`
    status,    \* `stageStatus`
    view,      \* `runView`: {} or {[run, on, rows, byStage, unmatched]}
    loading    \* the loader asked for the execution that just ended

graph   == <<drawing, past, future, drawn>>
canvas  == <<heard, running, status, view, loading>>
canvasVars == <<opened, graph, library, edits, runs, canvas>>

StageStatuses == {"pending", "running", "success", "error", "skipped", "cancelled"}

NoStatus == <<>>

CanvasInit ==
    /\ opened \in Opened
    /\ drawing = opened
    /\ past = <<>>
    /\ future = <<>>
    /\ drawn = 0
    /\ library \in Libraries
    /\ edits = 0
    /\ runs = <<>>
    /\ heard = 0
    /\ running = FALSE
    /\ status = NoStatus
    /\ view = {}
    /\ loading = FALSE

-----------------------------------------------------------------------------
(* Edits of the drawing. *)

\* Mutant of Newest: the oldest snapshot never goes.
NewestUnlimited(snapshots) == snapshots

Newest(snapshots) ==
    SubSeq(snapshots, 1 + (IF Len(snapshots) > HistoryLimit
                           THEN Len(snapshots) - HistoryLimit ELSE 0), Len(snapshots))

MayMove == edits + Len(runs) < MaxMoves

Edit == MayMove /\ edits' = edits + 1 /\ UNCHANGED <<opened, runs, canvas>>

\* Mutant of Commit: the history keeps pointing at what was undone.
CommitKeepingFuture(next) ==
    /\ drawing' = next
    /\ past' = Newest(Append(past, drawing))
    /\ future' = future
    /\ drawn' = drawn + 1
    /\ UNCHANGED library

Commit(next) ==
    /\ drawing' = next
    /\ past' = Newest(Append(past, drawing))
    /\ future' = <<>>
    /\ drawn' = drawn + 1
    /\ UNCHANGED library

\* Ids are random: any one no snapshot knows may come.
Known == (UNION {IdsOf(d.stages) \cup Ends(d.links) : d \in {opened, drawing} \cup Range(past) \cup Range(future)})
             \cup UNION {IdsOf(run.stages) : run \in Range(runs)}

\* `addStage` and `addFileStage`: the stage goes last, with no link.
AddStage(target) ==
    /\ Edit
    /\ target \in Jobs => target \in library.keeps
    /\ \E id \in Ids \ Known :
        Commit([drawing EXCEPT !.stages = Append(@, [id |-> id, runs |-> target])])

\* A drag that was dropped: an entry in the history, and the same stages and links.
MoveStage ==
    /\ Edit
    /\ drawing.stages # <<>>
    /\ Commit(drawing)

WithoutStage(d, id) ==
    [stages |-> Picked(d.stages, {n \in DOMAIN d.stages : d.stages[n].id # id}),
     links  |-> {l \in d.links : id \notin {l[1], l[2]}}]

RemoveStage(id) ==
    /\ Edit
    /\ id \in IdsOf(drawing.stages)
    /\ Commit(WithoutStage(drawing, id))

\* The links of the canvas are those of `LinksShown`: no other can be picked.
RemoveLinks(links) ==
    /\ Edit
    /\ links # {}
    /\ Commit([drawing EXCEPT !.links = @ \ links])

\* `Delete` on a linked box: the canvas library removes its links first, in an
\* edit of their own.
DeleteLinksOf(id) == RemoveLinks({l \in LinksShown(drawing) : id \in {l[1], l[2]}})
DeleteLink == \E l \in LinksShown(drawing) : RemoveLinks({l})

Connect(source, target) ==
    /\ Edit
    /\ {source, target} \subseteq IdsOf(drawing.stages)
    /\ LinkAllowed(drawing.links, source, target)
    /\ Commit([drawing EXCEPT !.links = @ \cup {<<source, target>>}])

Undo ==
    /\ past # <<>>
    /\ drawing' = past[Len(past)]
    /\ past' = SubSeq(past, 1, Len(past) - 1)
    /\ future' = SubSeq(<<drawing>> \o future, 1,
                        IF Len(future) < HistoryLimit THEN Len(future) + 1 ELSE HistoryLimit)
    /\ UNCHANGED <<opened, drawn, library, edits, runs, canvas>>

Redo ==
    /\ future # <<>>
    /\ drawing' = Head(future)
    /\ past' = Newest(Append(past, drawing))
    /\ future' = Tail(future)
    /\ UNCHANGED <<opened, drawn, library, edits, runs, canvas>>

-----------------------------------------------------------------------------
(* Edits of the library, from another tab or by somebody else. *)

LibraryEdit(next) ==
    /\ Edit
    /\ library' = next
    /\ UNCHANGED graph

DeleteJob(j) == j \in library.keeps /\ LibraryEdit([library EXCEPT !.keeps = @ \ {j}])

SpoilJob(j) == j \in library.good /\ LibraryEdit([library EXCEPT !.good = @ \ {j}])

RenameJob(j) ==
    \E t \in Targets \ {j} :
        /\ library.name[t] # library.name[j]
        /\ LibraryEdit([library EXCEPT !.name[j] = library.name[t]])

-----------------------------------------------------------------------------
(* The runner. *)

Whole(run) == Len(run.rows) = Len(run.stages)

InFlight(run) == run.rows # <<>> /\ run.rows[Len(run.rows)] = "running"

Complete(run) == Whole(run) /\ ~ InFlight(run)

\* The run slot: held by the run somebody reads, and by a scheduled one to its end.
SlotTaken == heard # 0 \/ \E r \in DOMAIN runs : runs[r].by = "schedule" /\ ~ Complete(runs[r])

\* `silent`: the stages from this one on were recorded and never announced.
NewRun(stages, by) ==
    [stages |-> stages, rows |-> <<>>, by |-> by, cancelled |-> FALSE, silent |-> 0]

\* The events of a run repaint its boxes only while the editor reads its stream.
Tell(r, told) ==
    /\ status' = IF r = heard
                 THEN [id \in DOMAIN told \cup DOMAIN status |->
                         IF id \in DOMAIN told THEN told[id] ELSE status[id]]
                 ELSE status
    /\ UNCHANGED <<opened, graph, library, edits, heard, running, view, loading>>

\* The last n stages of a run, each with outcome s.
Rest(n, s) == [k \in 1..n |-> s]
Painted(run, places, s) == [id \in {run.stages[k].id : k \in places} |-> s]

StageStarts(r) ==
    LET run == runs[r]
    IN  /\ ~ Whole(run) /\ ~ InFlight(run) /\ ~ run.cancelled
        /\ runs' = [runs EXCEPT ![r].rows = Append(@, "running")]
        /\ Tell(r, Painted(run, {Len(run.rows) + 1}, "running"))

\* No credit for the stage: rows for it and for the rest, and no event about them.
StageRefused(r) ==
    LET run == runs[r]
        left == Len(run.stages) - Len(run.rows)
    IN  /\ ~ Whole(run) /\ ~ InFlight(run) /\ ~ run.cancelled
        /\ runs' = [runs EXCEPT ![r].rows = @ \o <<"error">> \o Rest(left - 1, "skipped"),
                                ![r].silent = Len(run.rows) + 1]
        /\ Tell(r, <<>>)

\* The stage in flight is over.  After a failure the rest are skipped, after a
\* cancellation the stage and the rest are cancelled, and each is announced.
StageEnds(r, outcome) ==
    LET run  == runs[r]
        done == Len(run.rows)
        left == Len(run.stages) - done
        end  == IF run.cancelled THEN "cancelled" ELSE outcome
        rest == IF end = "cancelled" THEN "cancelled" ELSE "skipped"
        over == end \in {"error", "cancelled"}
    IN  /\ InFlight(run)
        /\ runs' = [runs EXCEPT ![r].rows =
                        SubSeq(@, 1, done - 1) \o <<end>>
                            \o (IF over THEN Rest(left, rest) ELSE <<>>)]
        /\ Tell(r, [id \in {run.stages[k].id : k \in done..(IF over THEN Len(run.stages) ELSE done)} |->
                       IF id = run.stages[done].id THEN end ELSE rest])

\* The flag is found up between two stages.
CancelledBetween(r) ==
    LET run == runs[r]
    IN  /\ ~ Whole(run) /\ ~ InFlight(run) /\ run.cancelled
        /\ runs' = [runs EXCEPT ![r].rows = @ \o Rest(Len(run.stages) - Len(@), "cancelled")]
        /\ Tell(r, Painted(run, Len(run.rows) + 1..Len(run.stages), "cancelled"))

\* A schedule fires the Pipeline its record describes.
FirePipeline ==
    /\ MayMove /\ Len(runs) < MaxRuns
    /\ ~ SlotTaken
    /\ drawing.stages # <<>>
    /\ \A s \in Range(drawing.stages) : s.runs \in Files \cup library.keeps
    /\ runs' = Append(runs, NewRun(OrderStages(drawing, library), "schedule"))
    /\ UNCHANGED <<opened, graph, library, edits, canvas>>

-----------------------------------------------------------------------------
(* The editor and its run. *)

\* `startRun`: every stage of the plan is pending, and the past run lets go.
Started(plan) ==
    /\ status' = [id \in IdsOf(plan) |-> "pending"]
    /\ view' = {}

Execute ==
    /\ ~ running /\ ~ SlotTaken
    /\ MayMove /\ Len(runs) < MaxRuns
    /\ \E plan \in {PlanPipelineRun(drawing, library)} \ {<<>>} :
        /\ runs' = Append(runs, NewRun(plan, "studio"))
        /\ Started(plan)
    /\ heard' = Len(runs')
    /\ running' = TRUE
    /\ loading' = FALSE
    /\ UNCHANGED <<opened, graph, library, edits>>

\* The runner has a run in progress and answers 409: the run is over at once.
ExecuteRefused ==
    /\ ~ running /\ SlotTaken
    /\ \E plan \in {PlanPipelineRun(drawing, library)} \ {<<>>} : Started(plan)
    /\ loading' = TRUE
    /\ UNCHANGED <<opened, graph, library, edits, runs, heard, running>>

\* A Stop heard after the last stage changes the verdict of the run, no stage.
StopRun ==
    /\ heard # 0
    /\ ~ runs[heard].cancelled /\ ~ Complete(runs[heard])
    /\ runs' = [runs EXCEPT ![heard].cancelled = TRUE]
    /\ UNCHANGED <<opened, graph, library, edits, canvas>>

\* `finishRun`, at the result or when the stream breaks; the loader takes over.
FinishRun ==
    /\ heard # 0
    /\ heard' = 0
    /\ running' = FALSE
    /\ loading' = TRUE
    /\ UNCHANGED <<opened, graph, library, edits, runs, status, view>>

HearResult == heard # 0 /\ Complete(runs[heard]) /\ FinishRun
StreamBreaks == heard # 0 /\ ~ Complete(runs[heard]) /\ FinishRun

\* `showRunView`: every box pending but those an execution is paired with.
ShowRunView(r) ==
    /\ ~ running
    /\ LET run    == runs[r]
           stages == drawing.stages
       IN  \E paired \in {MatchStageRuns(stages, run.stages, run.rows)} :
             /\ status' = [id \in IdsOf(stages) |->
                             LET n == CHOOSE m \in DOMAIN stages : stages[m].id = id
                             IN  IF n \in DOMAIN paired THEN run.rows[paired[n]] ELSE "pending"]
             /\ view' = {[run |-> r, on |-> stages, rows |-> run.rows, byStage |-> paired,
                          unmatched |-> Cardinality(DOMAIN run.rows \ Range(paired))]}

\* The loader's answer: the last run of the Pipeline, whoever started it.
LoaderAnswers ==
    /\ loading
    /\ runs # <<>>
    /\ ShowRunView(Len(runs))
    /\ loading' = FALSE
    /\ UNCHANGED <<opened, graph, library, edits, runs, heard, running>>

LoaderFails ==
    /\ loading
    /\ loading' = FALSE
    /\ UNCHANGED <<opened, graph, library, edits, runs, heard, running, status, view>>

\* A run picked in the history, which the caption then calls pinned.
ShowPipelineRun(r) ==
    /\ ShowRunView(r)
    /\ UNCHANGED <<opened, graph, library, edits, runs, heard, running, loading>>

ClearRunView ==
    /\ view # {}
    /\ view' = {}
    /\ status' = NoStatus
    /\ UNCHANGED <<opened, graph, library, edits, runs, heard, running, loading>>

-----------------------------------------------------------------------------
Draws ==
    \/ \E t \in Targets : AddStage(t)
    \/ MoveStage
    \/ \E id \in Ids : RemoveStage(id) \/ DeleteLinksOf(id)
    \/ DeleteLink
    \/ \E a, b \in Ids : Connect(a, b)
    \/ Undo
    \/ Redo

LibraryChanges == \E j \in Jobs : DeleteJob(j) \/ SpoilJob(j) \/ RenameJob(j)

RunnerSteps ==
    \/ FirePipeline
    \/ \E r \in DOMAIN runs :
        \/ StageStarts(r)
        \/ StageRefused(r)
        \/ \E outcome \in {"success", "error"} : StageEnds(r, outcome)
        \/ CancelledBetween(r)

EditorRuns ==
    \/ Execute
    \/ ExecuteRefused
    \/ StopRun
    \/ HearResult
    \/ StreamBreaks
    \/ LoaderAnswers
    \/ LoaderFails
    \/ \E r \in DOMAIN runs : ShowPipelineRun(r)
    \/ ClearRunView

CanvasNext == Draws \/ LibraryChanges \/ RunnerSteps \/ EditorRuns

CanvasSpec == CanvasInit /\ [][CanvasNext]_canvasVars

-----------------------------------------------------------------------------
(* Properties. *)

\* The types of the store, of the rows the runner keeps, and of what is painted.
CanvasTypeOK ==
    /\ {opened, drawing} \subseteq Drawings
    /\ past \in Seq(Drawings) /\ Len(past) <= HistoryLimit
    /\ future \in Seq(Drawings) /\ Len(future) <= HistoryLimit
    /\ library \in [keeps : SUBSET Jobs, good : SUBSET Jobs, name : [Targets -> Nat]]
    /\ edits \in 0..MaxMoves /\ drawn \in 0..edits
    /\ \A r \in DOMAIN runs :
        /\ runs[r].stages \in Seq([id : Ids, runs : Targets])
        /\ runs[r].rows \in Seq(StageStatuses) /\ Len(runs[r].rows) <= Len(runs[r].stages)
        /\ runs[r].by \in {"studio", "schedule"}
        /\ runs[r].cancelled \in BOOLEAN
    /\ heard \in 0..Len(runs)
    /\ running = (heard # 0)
    /\ DOMAIN status \subseteq Ids /\ Range(status) \subseteq StageStatuses
    /\ Cardinality(view) <= 1
    /\ loading \in BOOLEAN

Loops(d) == {l \in d.links : l[1] \in Reached(d.links, l[2])}
Dangling(d) == {l \in d.links : ~ {l[1], l[2]} \subseteq IdsOf(d.stages)}
Distinct(d) == Cardinality(IdsOf(d.stages)) = Len(d.stages)

(* No sequence of gestures, undone and redone in any order, gives a drawing *)
(* a loop, a link to a box that is gone, or a box twice, unless the record  *)
(* was opened with it (pipeline.ts:147-168, pipelineEditor.ts:411-466).     *)
DrawingsStaySound ==
    /\ CanvasTypeOK
    /\ Loops(drawing) \subseteq Loops(opened)
    /\ Dangling(drawing) \subseteq Dangling(opened)
    /\ Distinct(opened) => Distinct(drawing)

(* Undo and redo walk one line of drawings; every edit adds one to it, a    *)
(* drag that moves nothing in the order included, and drops what was undone *)
(* (commit, undo, redo of pipelineEditor.ts:171-183, 442-466), where no     *)
(* edit goes on with the one before it and the history is never emptied.    *)
History == INSTANCE Timeline WITH
    Limit <- HistoryLimit, NoField <- 0,
    versions <- past \o <<drawing>> \o future, at <- Len(past) + 1,
    half <- FALSE, typing <- 0, made <- drawn
PipelineTimeline == History!OneDocument

PlaceOf(stages, id) == CHOOSE n \in DOMAIN stages : stages[n].id = id

\* Every stage once, after what it is linked from, the unlinked ones last, and
\* the first by name whenever the links leave a choice.
WholeAndInOrder(sent) ==
    LET links  == LinksShown(drawing)
        linked == Ends(links)
        names  == StudioNames(drawing.stages, library)
    IN  /\ Len(sent) = Len(drawing.stages) /\ Range(sent) = Range(drawing.stages)
        /\ \A s \in Range(sent) : s.runs \in Files \cup (library.keeps \cap library.good)
        /\ \A l \in links : l[1] # l[2] => PlaceOf(sent, l[1]) < PlaceOf(sent, l[2])
        /\ \A n \in 1..Len(sent) - 1 :
            LET a == sent[n].id
                b == sent[n + 1].id
            IN  /\ b \in linked => a \in linked
                /\ (a \in linked /\ b \notin linked) \/ <<a, b>> \in links \/ Precedes(names, a, b)

\* A box that is dropped leaves the numbers of the linked boxes alone.
NumbersHold ==
    LET linked == Cardinality(Ends(LinksShown(drawing)))
        numbered(d) == SubSeq(Resolve(d, library).order, 1, linked)
    IN  (/\ drawing' # drawing
         /\ library' = library /\ drawing'.links = drawing.links
         /\ Range(drawing.stages) \subseteq Range(drawing'.stages))
        => numbered(drawing') = numbered(drawing)

(* "a scheduled Pipeline that ran its stages in a different order from the  *)
(* one the author saw on screen would be a different Pipeline"              *)
(* (scheduling.py:347-352). The canvas numbers every stage, and a schedule  *)
(* runs every stage, also of a drawing the editor refuses to send: those of *)
(* a loop come last (scheduling.py:354-356; server/README.md:727-728 says   *)
(* they are left out), and one whose Job does not compile fails in its      *)
(* turn. A stage nothing links to is the exception: the canvas numbers it   *)
(* last (pipeline.ts:280-290), the schedule takes it for a root.            *)
Loose(d) == ~ IdsOf(d.stages) \subseteq Ends(LinksShown(d))
ScheduledAsShown(run) == Loose(drawing) \/ run.stages = StagesShown(drawing, library)

(* A run the editor sends is the whole drawing in the order of its links,   *)
(* or nothing at all (planPipelineRun, pipeline.ts:404-444), dropping a new *)
(* box does not renumber the sequence (pipeline.ts:282-284), and a schedule *)
(* runs all the stages in the order the canvas numbers them.                *)
RunsAreTheDrawing ==
    [][ /\ \A r \in DOMAIN runs' \ DOMAIN runs :
            IF runs'[r].by = "studio" THEN WholeAndInOrder(runs'[r].stages)
            ELSE ScheduledAsShown(runs'[r])
        /\ NumbersHold ]_canvasVars

\* The boxes of a Job, in the order of `stages`.
BoxesOf(stages, j) == Picked(stages, {n \in DOMAIN stages : stages[n].runs = j})

\* While a run is heard its boxes say what its rows say, but for the stages
\* recorded without a word.
BoxesFollowTheStream ==
    heard # 0 =>
        LET run == runs[heard]
        IN  /\ DOMAIN status = IdsOf(run.stages)
            /\ \A k \in DOMAIN run.stages :
                status[run.stages[k].id] =
                    IF k \in DOMAIN run.rows /\ (run.silent = 0 \/ k < run.silent)
                    THEN run.rows[k] ELSE "pending"

\* Painted from the history, a box shows an execution of the Job it points at,
\* and its own whenever the boxes of that Job stand as they ran.
PaintedWithItsOwn(v, n) ==
    LET run   == runs[v.run]
        box   == v.on[n]
        own   == {k \in DOMAIN run.stages : run.stages[k].id = box.id}
    IN  /\ n \in DOMAIN v.byStage =>
            /\ run.stages[v.byStage[n]].runs = box.runs
            /\ status[box.id] = v.rows[v.byStage[n]]
        /\ n \notin DOMAIN v.byStage => status[box.id] = "pending"
        /\ (box.runs \in Jobs /\ BoxesOf(v.on, box.runs) = BoxesOf(run.stages, box.runs)) =>
            \A k \in own \cap DOMAIN v.rows : status[box.id] = v.rows[k]

\* A stage of the run that is no longer drawn, or one that runs a file.
LeftOut(v) ==
    \E s \in Range(runs[v.run].stages) : s \notin Range(v.on) \/ s.runs \in Files

(* What the boxes say is what happened to them in one run: the one heard,   *)
(* whatever is drawn meanwhile, or the one the caption names, repainted     *)
(* onto a canvas that may have changed since (stageRuns.ts:33-72,           *)
(* pipelineEditor.ts:468-526).  Boxes of the same Job drawn in another      *)
(* order than they ran in may show each other's.  Executions with no box    *)
(* mean that "the pipeline was edited after the run" (stageRuns.ts:88), or  *)
(* that it has a stage that runs a file: the box of one looks for an empty  *)
(* id, its execution is recorded under `file:<path>`, and they never meet.  *)
BoxesTellTheRun ==
    /\ BoxesFollowTheStream
    /\ \A v \in view :
        /\ ~ running
        /\ \A n \in DOMAIN v.on : PaintedWithItsOwn(v, n)
        /\ v.unmatched = 0 \/ LeftOut(v)

=============================================================================
