----------------------------- MODULE StudioRuns -----------------------------
(***************************************************************************)
(* An execution as the Studio follows it, in the editor of a job           *)
(* (RunPanel.tsx) or in its twin, the editor of a Pipeline                 *)
(* (PipelineRunPanel.tsx): the stream of a run painted on the boxes, Stop, *)
(* the panel put away and brought back, another document opened while a    *)
(* run streams, and past runs painted over the canvas. What a panel keeps  *)
(* in refs is its own and dies with nothing: an unmounted panel still gets *)
(* the events of its stream, and writes them to the store.                 *)
(* The runner is as RunSlot and FlowRun have it: one run at a time, which  *)
(* goes on when its reader leaves. Edits of the graph during a run, the    *)
(* `validate` mode, and log lines are left out.                            *)
(***************************************************************************)
EXTENDS Integers, FiniteSets

CONSTANTS
  Docs,
  Twins,      \* "job", "pipeline": which editor this is
  Boxes,      \* boxes of a document, all on its chain
  MaxRuns     \* runs ever sent

ASSUME TwinsAssumption == Twins \subseteq {"job", "pipeline"} /\ Twins # {}
ASSUME BoundsAssumption == {Boxes, MaxRuns} \subseteq Nat \ {0}
ASSUME DocsAssumption == "none" \notin Docs

VARIABLES
  twin,
  open, running, shown, painted, by, view,  \* the store; `by`: the run that painted a box
  refs, stops,                              \* the refs of the panel on screen, Stops awaited
  load,                                     \* the loader of past runs asks for the latest of
                                            \* the open document
  runs,
  stray                                     \* history: what belongs to another document, or to
                                            \* an earlier visit of this one, wrote to the store;
                                            \* or a run was sent before the last stream closed

store == <<open, running, shown, painted, by, view>>
panels == <<refs, stops>>
vars == <<twin, store, panels, load, runs, stray>>

Run == 1 .. MaxRuns
Box == 1 .. Boxes
Statuses == {"none", "pending", "running", "success", "error", "cancelled"}
Outcomes == Statuses \union {"lost", "dropped"}  \* an error or a cancellation of the panel's own
Verdicts == {"success", "error", "cancelled"}
Nothing == [of |-> 0, status |-> "none"]
Unsent == [doc |-> "none", here |-> FALSE, stream |-> "none", server |-> "none", asked |-> FALSE,
           made |-> 0, started |-> FALSE, settled |-> FALSE,
           dropped |-> FALSE, left |-> FALSE]

NoRefs == [holds |-> 0, live |-> 0, stopping |-> "no"]
Blank == [b \in Box |-> "none"]
Nobody == [b \in Box |-> 0]

Init ==
  /\ twin \in Twins
  /\ open \in Docs /\ running = FALSE /\ shown = Nothing
  /\ painted = Blank /\ by = Nobody /\ view = 0
  /\ refs = NoRefs /\ stops = {}
  /\ load = FALSE
  /\ runs = [r \in Run |-> Unsent]
  /\ stray = FALSE

Streaming(r) == runs[r].stream \in {"sent", "live"}
-----------------------------------------------------------------------------
(* The loader of past runs (useJobRunView, usePipelineRunView): an effect   *)
(* on the open document and `running`. A run that ends loads the latest.   *)
(* What the effect keeps in wasRunning is `running` as it was before. A job *)
(* opened with a run to show asks for that one: left out.                  *)

Rendered ==
  load' = IF <<open', running'>> = <<open, running>> THEN load ELSE running /\ ~running'

Latest(d) ==
  LET past == {r \in Run : runs[r].doc = d /\ runs[r].server # "none"}
  IN IF past = {} THEN 0 ELSE CHOOSE r \in past : \A q \in past : q <= r

\* runViewStatuses, stageRunStatuses: what `made` step events say of a box.
StepAt(b, made, server) ==
  CASE 2 * b <= made -> "success"
    [] 2 * b - 1 = made -> server
    [] OTHER -> "pending"

\* Mutant of ShowRunView: a run in flight does not own its boxes.
ShowRunViewAlways(r) ==
  /\ painted' = [b \in Box |-> StepAt(b, runs[r].made, runs[r].server)]
  /\ by' = [b \in Box |-> r] /\ view' = r

ShowRunView(r) ==
  IF running THEN UNCHANGED <<painted, by, view>>
  ELSE /\ painted' = [b \in Box |-> StepAt(b, runs[r].made, runs[r].server)]
       /\ by' = [b \in Box |-> r] /\ view' = r

\* GET /runs and /runs/{id} answer with the rows.
PaintHistory ==
  /\ load /\ load' = FALSE
  /\ IF Latest(open) = 0 THEN UNCHANGED <<painted, by, view>> ELSE ShowRunView(Latest(open))
  /\ UNCHANGED <<twin, open, running, shown, panels, runs, stray>>

HistoryFails ==
  /\ load /\ load' = FALSE
  /\ UNCHANGED <<twin, store, panels, runs, stray>>

\* A run of the list. (A Pipeline asks for the record first, and paints whatever is
\* open when it comes: showPipelineRun; here it comes at once.)
PickRun(r) ==
  /\ runs[r].doc = open /\ runs[r].server # "none"
  /\ ShowRunView(r)
  /\ UNCHANGED <<twin, open, running, shown, panels, load, runs, stray>>

ClearRunView ==
  /\ view # 0 /\ ~running
  /\ painted' = Blank /\ by' = Nobody /\ view' = 0
  /\ UNCHANGED <<twin, open, running, shown, panels, load, runs, stray>>
-----------------------------------------------------------------------------
(* Documents and panels come and go.                                       *)

Left == [r \in Run |-> [runs[r] EXCEPT !.left = @ \/ (Streaming(r) /\ runs[r].doc = open)]]

\* The refs of a panel put away live on in the streams it reads and in the answer of
\* its Stop, which may still drop what it held.
PutAway ==
  /\ refs' = NoRefs
  /\ stops' = {[s EXCEPT !.here = FALSE, !.drops = IF s.here THEN {refs.holds} \ {0} ELSE @] :
                s \in stops}
Orphaned(all) == [r \in Run |-> [all[r] EXCEPT !.here = FALSE]]

\* open: every part of the store that is about runs starts afresh.
Opened(d) ==
  /\ open' = d /\ running' = FALSE /\ shown' = Nothing
  /\ painted' = Blank /\ by' = Nobody /\ view' = 0
  /\ stray' = FALSE

\* The editor is closed and this or another document opened. What a stream writes
\* in between, to the store of no document, is wiped.
Reopen(d) ==
  /\ Opened(d) /\ load' = FALSE
  /\ PutAway /\ runs' = Orphaned(Left)
  /\ UNCHANGED twin

\* The command palette goes from one document to the next under the same screen,
\* whose panel stays mounted: close and open in one turn.
Switch(d) ==
  /\ open # d
  /\ Opened(d)
  /\ Rendered
  /\ runs' = Left
  /\ UNCHANGED <<twin, refs, stops>>

\* The panel is put away, or another tab is picked, and it is brought back.
Remount ==
  /\ refs # NoRefs
  /\ PutAway /\ runs' = Orphaned(runs)
  /\ UNCHANGED <<twin, store, load, stray>>
-----------------------------------------------------------------------------
(* A run: execute(), up to the events of its stream.                       *)

Execute(r) ==
  /\ ~running
  /\ runs[r] = Unsent /\ \A q \in 1 .. r - 1 : runs[q] # Unsent
  /\ runs' = [runs EXCEPT ![r] = [Unsent EXCEPT !.doc = open, !.here = TRUE, !.stream = "sent"]]
  /\ refs' = [refs EXCEPT !.holds = r]
  /\ running' = TRUE
  /\ shown' = IF twin = "job" THEN [of |-> r, status |-> "running"] ELSE Nothing
  /\ painted' = [b \in Box |-> "pending"] /\ by' = [b \in Box |-> r] /\ view' = 0
  /\ open' = open
  /\ Rendered
  /\ stray' = (stray \/ \E q \in Run : runs[q].stream = "live" /\ ~runs[q].left)
  /\ UNCHANGED <<twin, stops>>

\* History: run r writes to the store of an editor that is not its own any more.
Strayed(r) == stray \/ runs[r].left

\* What is kept of a run nobody reads any more.
Over(r) == [runs EXCEPT ![r] = [@ EXCEPT !.stream = "over", !.here = FALSE, !.started = FALSE,
                !.settled = FALSE, !.dropped = FALSE, !.left = FALSE]]

\* Mutant of Ended: what follows the answer stands in no `finally`.
EndedWithError(r, what) ==
  /\ runs' = Over(r)
  /\ running' = (running /\ what.status # "success") /\ shown' = what
  /\ refs' = IF runs[r].here THEN [NoRefs EXCEPT !.holds = IF refs.holds = r THEN 0 ELSE refs.holds] ELSE refs
  /\ open' = open
  /\ Rendered
  /\ stray' = Strayed(r)
  /\ UNCHANGED <<twin, painted, by, view, stops>>

\* The end of execute(), its `finally` included.
Ended(r, what) ==
  /\ runs' = Over(r)
  /\ running' = FALSE /\ shown' = what
  /\ refs' = IF runs[r].here THEN [NoRefs EXCEPT !.holds = IF refs.holds = r THEN 0 ELSE refs.holds] ELSE refs
  /\ open' = open
  /\ Rendered
  /\ stray' = Strayed(r)
  /\ UNCHANGED <<twin, painted, by, view, stops>>

Free == \A q \in Run : runs[q].server # "running"

Accept(r) ==
  /\ runs[r].stream = "sent" /\ Free
  /\ runs' = [runs EXCEPT ![r].stream = "live", ![r].server = "running"]
  /\ UNCHANGED <<twin, store, panels, load, stray>>

\* No runner, one that is busy, or one that wants a token: the panel of a job
\* shows that last refusal on a card of its own.
Refuse(r) ==
  /\ runs[r].stream = "sent"
  /\ \/ Ended(r, [of |-> r, status |-> IF runs[r].dropped THEN "dropped" ELSE "lost"])
     \/ twin = "job" /\ ~runs[r].dropped /\ Ended(r, Nothing)

\* A stream that is still read.
Live(r) == runs[r].stream = "live" /\ ~runs[r].dropped

\* The runner (code of RunSlot and FlowRun), with nobody reading its steps.
RunnerSteps(r) ==
  /\ runs[r].server = "running" /\ runs[r].made < 2 * Boxes
  /\ ~Live(r)
  /\ runs' = [runs EXCEPT ![r].made = @ + 1]
  /\ UNCHANGED <<twin, store, panels, load, stray>>
RunnerEnds(r, verdict) ==
  /\ runs[r].server = "running"
  /\ verdict = "success" => runs[r].made = 2 * Boxes
  /\ verdict = "cancelled" => runs[r].asked
  /\ runs' = [runs EXCEPT ![r].server = verdict, ![r].asked = FALSE]
  /\ UNCHANGED <<twin, store, panels, load, stray>>

\* `start`: from here on Stop can cancel the run.
HearStart(r) ==
  /\ Live(r) /\ ~runs[r].started
  /\ runs' = [runs EXCEPT ![r].started = TRUE]
  /\ refs' = IF runs[r].here THEN [refs EXCEPT !.live = r] ELSE refs
  /\ UNCHANGED <<twin, store, stops, load, stray>>

\* A step marker or a stage event, heard as it is sent: it goes to its box, when
\* that is on the canvas.
HearStep(r) ==
  /\ Live(r) /\ runs[r].started
  /\ runs[r].server = "running" /\ runs[r].made < 2 * Boxes
  /\ LET n == runs[r].made + 1
         b == (n + 1) \div 2
     IN /\ runs' = [runs EXCEPT ![r].made = n]
        /\ IF open = runs[r].doc
           THEN /\ painted' = [painted EXCEPT ![b] = IF n = 2 * b THEN "success" ELSE "running"]
                /\ by' = [by EXCEPT ![b] = r]
           ELSE UNCHANGED <<painted, by>>
  /\ shown' = IF twin = "job" THEN [of |-> r, status |-> "running"] ELSE shown
  /\ stray' = Strayed(r)
  /\ UNCHANGED <<twin, open, running, view, panels, load>>

\* Mutant of Interrupted: the box a cancellation interrupts goes on spinning.
InterruptedByFailure(r) ==
  {b \in Box : 2 * b - 1 = runs[r].made /\ open = runs[r].doc /\ runs[r].server = "error"}

\* The step that was running when the run ended gets its verdict.
Interrupted(r) == {b \in Box : 2 * b - 1 = runs[r].made /\ open = runs[r].doc}

\* `result`: a Pipeline is finished here, a job when its stream closes.
HearResult(r) ==
  /\ Live(r) /\ runs[r].started /\ ~runs[r].settled
  /\ runs[r].server \in Verdicts
  /\ runs' = [runs EXCEPT ![r].settled = TRUE]
  /\ painted' = [b \in Box |-> IF b \in Interrupted(r) THEN runs[r].server ELSE painted[b]]
  /\ by' = [b \in Box |-> IF b \in Interrupted(r) THEN r ELSE by[b]]
  /\ running' = (running /\ twin = "job")
  /\ shown' = IF twin = "job" THEN shown ELSE [of |-> r, status |-> runs[r].server]
  /\ open' = open
  /\ Rendered
  /\ stray' = Strayed(r)
  /\ UNCHANGED <<twin, view, panels>>

\* A Pipeline that is running when the stream closes had no result, it says.
StreamCloses(r) ==
  /\ runs[r].stream = "live" /\ runs[r].settled
  /\ Ended(r, IF twin = "job" THEN [of |-> r, status |-> runs[r].server]
              ELSE IF running THEN [of |-> r, status |-> "lost"] ELSE shown)

\* The connection is lost, or the runner closes the stream without a result.
StreamBreaks(r) ==
  /\ Live(r) /\ ~runs[r].settled
  /\ Ended(r, [of |-> r, status |-> "lost"])

\* abort() makes the next read fail, also when the result had come.
Aborted(r) ==
  /\ runs[r].stream = "live" /\ runs[r].dropped
  /\ Ended(r, [of |-> r, status |-> "dropped"])
-----------------------------------------------------------------------------
(* Stop: asks the runner, and drops the stream when it does not accept.    *)

\* The runs of the open document, on its way or streaming.
Followed == {r \in Run : Streaming(r) /\ runs[r].doc = open}

\* Mutant of Drop: a refusal leaves the stream alone.
DropNothing(held) == runs

\* abort(), of the run the panel holds by now.
Drop(held) == [r \in Run |-> [runs[r] EXCEPT !.dropped = @ \/ (r \in held /\ Streaming(r))]]

Stop ==
  /\ running /\ refs.stopping = "no"
  /\ refs' = [refs EXCEPT !.stopping = IF refs.holds # 0 THEN "own" ELSE "other"]
  /\ IF refs.live = 0 THEN runs' = Drop({refs.holds}) /\ UNCHANGED stops
     ELSE /\ stops' = stops \union {[id |-> refs.live, here |-> TRUE, drops |-> {}]}
          /\ UNCHANGED runs
  /\ UNCHANGED <<twin, store, load, stray>>

\* cancel_run on the runner: only the run that is running can be cancelled.
StopIsAccepted(s) ==
  /\ runs[s.id].server = "running"
  /\ runs' = [runs EXCEPT ![s.id].asked = TRUE]
  /\ stops' = stops \ {s}
  /\ UNCHANGED <<twin, store, refs, load, stray>>

\* It had ended, or cannot be reached, or its answer is lost on the way back.
StopIsRefused(s) ==
  /\ \E heard \in {FALSE, runs[s.id].server = "running"} :
       runs' = [Drop(IF s.here THEN {refs.holds} ELSE s.drops) EXCEPT ![s.id].asked = @ \/ heard]
  /\ stops' = stops \ {s}
  /\ UNCHANGED <<twin, store, refs, load, stray>>
-----------------------------------------------------------------------------
Next ==
  \/ PaintHistory \/ HistoryFails \/ ClearRunView
  \/ \E r \in Run : PickRun(r)
  \/ \E d \in Docs : Reopen(d) \/ Switch(d)
  \/ Remount
  \/ \E r \in Run :
       \/ Execute(r) \/ Accept(r) \/ Refuse(r) \/ RunnerSteps(r)
       \/ \E verdict \in Verdicts : RunnerEnds(r, verdict)
       \/ HearStart(r) \/ HearStep(r) \/ HearResult(r)
       \/ StreamCloses(r) \/ StreamBreaks(r) \/ Aborted(r)
  \/ Stop
  \/ \E s \in stops : StopIsAccepted(s) \/ StopIsRefused(s)

Spec == Init /\ [][Next]_vars
-----------------------------------------------------------------------------
TypeOK ==
  /\ twin \in Twins
  /\ open \in Docs /\ running \in BOOLEAN /\ stray \in BOOLEAN
  /\ shown \in [of : Run \union {0}, status : Outcomes]
  /\ painted \in [Box -> Statuses] /\ by \in [Box -> Run \union {0}]
  /\ view \in Run \union {0} /\ load \in BOOLEAN
  /\ refs \in [holds : Run \union {0}, live : Run \union {0}, stopping : {"no", "own", "other"}]
  /\ stops \subseteq [id : Run, here : BOOLEAN, drops : SUBSET Run]
  /\ runs \in [Run -> [doc : Docs \union {"none"}, here : BOOLEAN,
                       stream : {"none", "sent", "live", "over"},
                       server : {"none", "running"} \union Verdicts,
                       made : 0 .. 2 * Boxes,
                       asked : BOOLEAN, started : BOOLEAN, settled : BOOLEAN, dropped : BOOLEAN,
                       left : BOOLEAN]]

\* Since this editor was opened nothing of another one wrote to its store, and no
\* run was sent between the result of a Pipeline's run and the end of its stream.
Calm == ~stray

\* The boxes tell one run of the document that is open, the one the banner names
\* when it names one, and nothing the runner did not say: a box is done when its
\* step is, wears the verdict of a run that has it, and none goes on spinning
\* after the result of a run that is followed. So whatever order the stream, the
\* end of the run and the answers of the history arrive in.
BoxesTellOneRun ==
  /\ TypeOK
  /\ Calm => \E r \in Run \union {0} :
       /\ view \in {0, r} /\ \A b \in Box : by[b] \in {0, r}
       /\ r # 0 =>
            /\ runs[r].doc = open
            /\ \A b \in Box :
                 /\ painted[b] = "success" => 2 * b <= runs[r].made
                 /\ painted[b] = "running" => 2 * b - 1 <= runs[r].made
                 /\ painted[b] \in {"error", "cancelled"} => painted[b] = runs[r].server
                 /\ painted[b] = "running" /\ view = 0 => ~runs[r].settled

\* What the panel says of a run is what became of it: `running` while its stream is
\* read, a verdict when the runner gave that one. And Run is
\* disabled exactly while a run of this editor is under way.
PanelTellsTheTruth ==
  Calm =>
    /\ shown.of # 0 =>
         LET r == runs[shown.of]
         IN /\ r.doc = open
            /\ shown.status = "running" => running /\ Streaming(shown.of)
            /\ shown.status \in Verdicts => r.server = shown.status
    /\ running => Followed # {}
    /\ (\E r \in Followed : ~runs[r].left /\ ~runs[r].settled) => running

\* Stop pressed on a panel that follows one run, its own, is under way until the run
\* is over: the runner has yet to answer, knows it has to stop, or is done, or the
\* stream was dropped. On a panel that was put away and brought back Stop does nothing
\* of the kind (`other`): what it needs is in the refs of the one before; and on one
\* that still follows the run of another document it may go to that one.
StopIsUnderWay ==
  LET r == refs.holds
  IN refs.stopping = "own" /\ r # 0 /\ (\A q \in Run : runs[q].here => q = r)
     => \/ \E s \in stops : s.id = r /\ s.here
        \/ runs[r].asked \/ runs[r].dropped \/ runs[r].server \in Verdicts
=============================================================================
