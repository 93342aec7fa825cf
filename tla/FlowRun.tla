------------------------------ MODULE FlowRun ------------------------------
(***************************************************************************)
(* A composed Pipeline on the local runner (main.py, run_flow_stream): one *)
(* worker thread runs the stages in order, each a Job of its own that is   *)
(* admitted, executed, closed and charged before the next one starts; a    *)
(* generator waits for it, streams its events and closes the execution.    *)
(*                                                                         *)
(* The run lock and the flag of the active run are shared with every other *)
(* request. One such request, the rival, stands for all of them: a run or  *)
(* flow that begins when the lock is free and ends when it pleases. The    *)
(* phases of its own route are those of module RunSlot. The events between *)
(* worker and generator are left out but for the last one, the sentinel.   *)
(***************************************************************************)
EXTENDS Integers

CONSTANTS
  N,                \* how many stages the Pipeline has
  Owner,            \* what identifies each stage in the catalog
  ClientsMayLeave,  \* whether the browser may close its event stream
  StoresMayFail     \* whether a history or credit write may raise

ASSUME SizeAssumption  == N \in Nat \ {0}
ASSUME OwnerAssumption == Owner \in [1..N -> {"job", "file", "nobody"}]
ASSUME FlagAssumption  == {ClientsMayLeave, StoresMayFail} \subseteq BOOLEAN

VARIABLES
  stopOnError,  \* the request's stop_on_error
  gen,       \* where the route, then its generator, stands
  work,      \* where the worker thread stands
  at,        \* the stage the worker is in
  outcome,   \* what the execution of each stage came to
  stopped,   \* the worker's stage_cancelled
  raised,    \* the worker ended with an exception
  rows,      \* status and catalog identity of each job execution
  runRow,    \* status of the pipeline execution
  seen,      \* the generator's `cancelled`
  hold,      \* the reservation of each stage
  charged,   \* stages whose writes were charged
  locked,    \* _RUN_LOCK
  active,    \* _ACTIVE_RUN
  rival,     \* the life of the other request
  accepted,  \* who was answered `cancelled: true`
  left       \* the browser of this flow is gone

workVars  == <<work, at, outcome, stopped, raised>>
bookVars  == <<hold, charged>>
slotVars  == <<locked, active>>
otherVars == <<stopOnError, rival, accepted>>
vars == <<gen, workVars, rows, runRow, seen, bookVars, slotVars, otherVars, left>>

Stages   == 1..N
Statuses == {"none", "running", "success", "failed", "skipped", "cancelled"}
Closed(status) == status \notin {"none", "running"}

GenPhases  == {"idle", "refused", "open", "broken", "begin", "response", "deserted",
               "stream", "readFlag", "closeRun", "result", "end", "unlock",
               "giveBack", "done"}
WorkPhases == {"none", "top", "admit", "create", "execute", "readFlag", "close",
               "settle", "charge", "decide", "finished"}

\* _stage_job_id: the Job when a Job owns the file, the file itself otherwise.
StageJobId == Owner
\* Mutant of JobOnly: a stage that is skipped is recorded without an identity.
NobodysRow == [s \in Stages |-> "nobody"]

\* What the route passes for a stage it skips after a failure: stage.job_id.
JobOnly == [s \in Stages |-> IF Owner[s] = "job" THEN "job" ELSE "nobody"]

Init ==
  /\ stopOnError \in BOOLEAN
  /\ gen = "idle"
  /\ work = "none"
  /\ at = 1
  /\ outcome = [s \in Stages |-> "none"]
  /\ stopped = FALSE
  /\ raised = FALSE
  /\ rows = [s \in Stages |-> [status |-> "none", job |-> "nobody"]]
  /\ runRow = "none"
  /\ seen = FALSE
  /\ hold = [s \in Stages |-> "none"]
  /\ charged = {}
  /\ locked = FALSE
  /\ active = [run |-> "nobody", cancelled |-> FALSE]
  /\ rival = "none"
  /\ accepted = {}
  /\ left = FALSE

-----------------------------------------------------------------------------
(* The route, until the generator runs.                                    *)

\* 402 from the precheck of the first stage, or 409 when the slot is taken.
RefuseFlow ==
  /\ gen = "idle"
  /\ gen' = "refused"
  /\ UNCHANGED <<workVars, rows, runRow, seen, bookVars, slotVars, otherVars, left>>

AcquireFlow ==
  /\ gen = "idle"
  /\ ~locked
  /\ locked' = TRUE
  /\ gen' = "open"
  /\ UNCHANGED <<workVars, rows, runRow, seen, bookVars, active, otherVars, left>>

OpenFlow ==
  /\ gen = "open"
  /\ \/ gen' = "begin" /\ runRow' = "running"
     \/ StoresMayFail /\ gen' = "broken" /\ UNCHANGED runRow
  /\ UNCHANGED <<workVars, rows, seen, bookVars, slotVars, otherVars, left>>

BeginFlow ==
  /\ gen = "begin"
  /\ active' = [run |-> "flow", cancelled |-> FALSE]
  /\ gen' = "response"
  /\ UNCHANGED <<workVars, rows, runRow, seen, bookVars, locked, otherVars, left>>

StartFlow ==
  /\ gen = "response"
  /\ gen' = "stream"
  /\ work' = "top"
  /\ UNCHANGED <<at, outcome, stopped, raised, rows, runRow, seen, bookVars, slotVars,
                 otherVars, left>>

-----------------------------------------------------------------------------
(* The worker thread. A stage that never runs gets its row all the same.   *)

Recorded(from, status, ids) ==
  [s \in Stages |-> IF s >= from THEN [status |-> status, job |-> ids[s]] ELSE rows[s]]

WorkStep(p, q) == work = p /\ work' = q

\* Mutant of CheckFlag: the flag of the stage before is asked, not the shared one.
CheckOldFlag ==
  /\ work = "top"
  /\ IF stopped
     THEN work' = "finished" /\ rows' = Recorded(at, "cancelled", StageJobId)
     ELSE work' = "admit" /\ UNCHANGED rows
  /\ UNCHANGED <<gen, at, outcome, stopped, raised, runRow, seen, bookVars, slotVars,
                 otherVars, left>>

CheckFlag ==
  /\ work = "top"
  /\ IF active.cancelled
     THEN work' = "finished" /\ rows' = Recorded(at, "cancelled", StageJobId)
     ELSE work' = "admit" /\ UNCHANGED rows
  /\ UNCHANGED <<gen, at, outcome, stopped, raised, runRow, seen, bookVars, slotVars,
                 otherVars, left>>

AdmitStage ==
  /\ WorkStep("admit", "create")
  /\ hold' = [hold EXCEPT ![at] = "open"]
  /\ UNCHANGED <<gen, at, outcome, stopped, raised, rows, runRow, seen, charged, slotVars,
                 otherVars, left>>

\* Mutant of RefuseStage: only this stage is given up, the flow goes on.
RefuseThisStage ==
  /\ WorkStep("admit", "decide")
  /\ rows' = [rows EXCEPT ![at] = [status |-> "failed", job |-> StageJobId[at]]]
  /\ UNCHANGED <<gen, at, outcome, stopped, raised, runRow, seen, bookVars, slotVars,
                 otherVars, left>>

\* 402 in mid-flow: the stage is recorded as failed, the ones behind it as skipped.
RefuseStage ==
  /\ WorkStep("admit", "finished")
  /\ rows' = [Recorded(at, "skipped", StageJobId)
                EXCEPT ![at] = [status |-> "failed", job |-> StageJobId[at]]]
  /\ UNCHANGED <<gen, at, outcome, stopped, raised, runRow, seen, bookVars, slotVars,
                 otherVars, left>>

CreateStage ==
  /\ WorkStep("create", "execute")
  /\ rows' = [rows EXCEPT ![at] = [status |-> "running", job |-> StageJobId[at]]]
  /\ UNCHANGED <<gen, at, outcome, stopped, raised, runRow, seen, bookVars, slotVars,
                 otherVars, left>>

\* _execute_run; a stage may succeed without processing anything ("skipped").
ExecuteStage ==
  /\ WorkStep("execute", "readFlag")
  /\ \E o \in {"success", "failed", "skipped"} : outcome' = [outcome EXCEPT ![at] = o]
  /\ UNCHANGED <<gen, at, stopped, raised, rows, runRow, seen, bookVars, slotVars,
                 otherVars, left>>

ReadStageFlag ==
  /\ WorkStep("readFlag", "close")
  /\ stopped' = active.cancelled
  /\ UNCHANGED <<gen, at, outcome, raised, rows, runRow, seen, bookVars, slotVars,
                 otherVars, left>>

CloseStage ==
  /\ WorkStep("close", "settle")
  /\ rows' = [rows EXCEPT ![at].status = IF stopped THEN "cancelled" ELSE outcome[at]]
  /\ UNCHANGED <<gen, at, outcome, stopped, raised, runRow, seen, bookVars, slotVars,
                 otherVars, left>>

Released(h) == IF h = "open" THEN "released" ELSE h

\* Mutant of SettleStage: the hold is left to the end of the flow.
SettleAtTheEnd ==
  /\ WorkStep("settle", "charge")
  /\ UNCHANGED <<gen, at, outcome, stopped, raised, rows, runRow, seen, bookVars, slotVars,
                 otherVars, left>>

SettleStage ==
  /\ WorkStep("settle", "charge")
  /\ hold' = [hold EXCEPT ![at] = Released(@)]
  /\ UNCHANGED <<gen, at, outcome, stopped, raised, rows, runRow, seen, charged, slotVars,
                 otherVars, left>>

ChargeStage ==
  /\ WorkStep("charge", "decide")
  /\ charged' = charged \union {at}
  /\ UNCHANGED <<gen, at, outcome, stopped, raised, rows, runRow, seen, hold, slotVars,
                 otherVars, left>>

StopsHere == stopped \/ (outcome[at] = "failed" /\ stopOnError)

\* Mutant of StopFlow: the stage that stopped the flow is among those not run.
StopFlowFromHere ==
  /\ StopsHere
  /\ WorkStep("decide", "finished")
  /\ rows' = IF stopped THEN Recorded(at, "cancelled", StageJobId)
             ELSE Recorded(at, "skipped", JobOnly)
  /\ UNCHANGED <<gen, at, outcome, stopped, raised, runRow, seen, bookVars, slotVars,
                 otherVars, left>>

StopFlow ==
  /\ StopsHere
  /\ WorkStep("decide", "finished")
  /\ rows' = IF stopped THEN Recorded(at + 1, "cancelled", StageJobId)
             ELSE Recorded(at + 1, "skipped", JobOnly)
  /\ UNCHANGED <<gen, at, outcome, stopped, raised, runRow, seen, bookVars, slotVars,
                 otherVars, left>>

\* Mutant of NextStage: the last stage has a next one.
NextStageAlways ==
  /\ work = "decide"
  /\ ~StopsHere
  /\ work' = "top" /\ at' = at + 1
  /\ UNCHANGED <<gen, outcome, stopped, raised, rows, runRow, seen, bookVars, slotVars,
                 otherVars, left>>

NextStage ==
  /\ work = "decide"
  /\ ~StopsHere
  /\ IF at = N THEN work' = "finished" /\ UNCHANGED at
     ELSE work' = "top" /\ at' = at + 1
  /\ UNCHANGED <<gen, outcome, stopped, raised, rows, runRow, seen, bookVars, slotVars,
                 otherVars, left>>

\* Mutant of WorkFails: the thread dies without posting its sentinel.
WorkDies ==
  /\ StoresMayFail
  /\ work \in {"admit", "create", "close", "settle", "charge"}
  /\ work' = "none"
  /\ raised' = TRUE
  /\ UNCHANGED <<gen, at, outcome, stopped, rows, runRow, seen, bookVars, slotVars,
                 otherVars, left>>

\* A write that raises inside the worker ends the flow where it is. The loop that
\* records the stages behind is taken as one write.
WorkFails ==
  /\ StoresMayFail
  /\ \/ work \in {"admit", "create", "close", "settle", "charge"}
     \/ work = "top" /\ active.cancelled
     \/ work = "decide" /\ StopsHere
  /\ work' = "finished"
  /\ raised' = TRUE
  /\ UNCHANGED <<gen, at, outcome, stopped, rows, runRow, seen, bookVars, slotVars,
                 otherVars, left>>

-----------------------------------------------------------------------------
(* The generator, once the worker runs.                                    *)

GenStep(p, q) == gen = p /\ gen' = q

SeeSentinel ==
  /\ work = "finished"
  /\ GenStep("stream", "readFlag")
  /\ UNCHANGED <<workVars, rows, runRow, seen, bookVars, slotVars, otherVars, left>>

\* The browser goes away: the `finally` of a generator that was started runs, one
\* that never was has none. The worker carries on through its stages.
HangUp ==
  /\ ClientsMayLeave
  /\ \/ gen \in {"stream", "result"} /\ gen' = "end"
     \/ GenStep("response", "deserted")
  /\ left' = TRUE
  /\ UNCHANGED <<workVars, rows, runRow, seen, bookVars, slotVars, otherVars>>

ReadFlag ==
  /\ GenStep("readFlag", "closeRun")
  /\ seen' = active.cancelled
  /\ UNCHANGED <<workVars, rows, runRow, bookVars, slotVars, otherVars, left>>

\* Mutant of OverallSuccess: stages that never ran are not missed.
NoneFailed == charged # {} /\ \A s \in Stages : outcome[s] # "failed"

\* Every stage was closed, charged and reported, and none of them failed.
OverallSuccess == charged = Stages /\ \A s \in Stages : outcome[s] # "failed"

Verdict ==
  IF seen THEN "cancelled" ELSE IF OverallSuccess THEN "success" ELSE "failed"

CloseRun ==
  /\ gen = "closeRun"
  /\ \/ gen' = "result" /\ runRow' = Verdict
     \/ StoresMayFail /\ gen' = "end" /\ UNCHANGED runRow
  /\ UNCHANGED <<workVars, rows, seen, bookVars, slotVars, otherVars, left>>

SendResult ==
  /\ GenStep("result", "end")
  /\ UNCHANGED <<workVars, rows, runRow, seen, bookVars, slotVars, otherVars, left>>

EndActive ==
  /\ GenStep("end", "unlock")
  /\ active' = [run |-> "nobody", cancelled |-> FALSE]
  /\ UNCHANGED <<workVars, rows, runRow, seen, bookVars, locked, otherVars, left>>

Unlock ==
  /\ GenStep("unlock", "giveBack")
  /\ locked' = FALSE
  /\ UNCHANGED <<workVars, rows, runRow, seen, bookVars, active, otherVars, left>>

\* Mutant of GiveBack: the flow relies on its stages having settled.
GiveNothingBack ==
  /\ GenStep("giveBack", "done")
  /\ UNCHANGED <<workVars, rows, runRow, seen, bookVars, slotVars, otherVars, left>>

\* Every hold the worker has opened so far goes back.
GiveBack ==
  /\ GenStep("giveBack", "done")
  /\ hold' = [s \in Stages |-> Released(hold[s])]
  /\ UNCHANGED <<workVars, rows, runRow, seen, charged, slotVars, otherVars, left>>

-----------------------------------------------------------------------------
(* Everybody else.                                                         *)

RivalBegins ==
  /\ rival = "none"
  /\ ~locked
  /\ rival' = "running"
  /\ locked' = TRUE
  /\ active' = [run |-> "rival", cancelled |-> FALSE]
  /\ UNCHANGED <<gen, workVars, rows, runRow, seen, bookVars, stopOnError, accepted,
                 left>>

RivalEnds ==
  /\ rival = "running"
  /\ rival' = "over"
  /\ locked' = FALSE
  /\ active' = [run |-> "nobody", cancelled |-> FALSE]
  /\ UNCHANGED <<gen, workVars, rows, runRow, seen, bookVars, stopOnError, accepted,
                 left>>

CancelRequest(run) ==
  /\ active.run = run
  /\ active' = [active EXCEPT !.cancelled = TRUE]
  /\ accepted' = accepted \union {run}
  /\ UNCHANGED <<gen, workVars, rows, runRow, seen, bookVars, locked, stopOnError,
                 rival, left>>

Worker ==
  \/ CheckFlag \/ AdmitStage \/ RefuseStage \/ CreateStage \/ ExecuteStage
  \/ ReadStageFlag \/ CloseStage \/ SettleStage \/ ChargeStage
  \/ StopFlow \/ NextStage \/ WorkFails

Generator ==
  \/ OpenFlow \/ BeginFlow \/ StartFlow \/ SeeSentinel \/ ReadFlag \/ CloseRun
  \/ SendResult \/ EndActive \/ Unlock \/ GiveBack

Next ==
  \/ RefuseFlow \/ AcquireFlow \/ Generator \/ HangUp
  \/ Worker
  \/ RivalBegins \/ RivalEnds
  \/ \E run \in {"flow", "rival"} : CancelRequest(run)

\* Both threads run, and every stage's execution returns.
Fairness == WF_vars(Worker) /\ WF_vars(Generator)

Spec == Init /\ [][Next]_vars /\ Fairness

-----------------------------------------------------------------------------
TypeOK ==
  /\ stopOnError \in BOOLEAN
  /\ gen \in GenPhases
  /\ work \in WorkPhases
  /\ at \in Stages
  /\ outcome \in [Stages -> {"none", "success", "failed", "skipped"}]
  /\ stopped \in BOOLEAN
  /\ raised \in BOOLEAN
  /\ rows \in [Stages -> [status : Statuses, job : {"job", "file", "nobody"}]]
  /\ runRow \in Statuses
  /\ seen \in BOOLEAN
  /\ hold \in [Stages -> {"none", "open", "released"}]
  /\ charged \subseteq Stages
  /\ locked \in BOOLEAN
  /\ active \in [run : {"flow", "rival", "nobody"}, cancelled : BOOLEAN]
  /\ rival \in {"none", "running", "over"}
  /\ accepted \subseteq {"flow", "rival"}
  /\ left \in BOOLEAN

Executed(s) == outcome[s] # "none"

\* Stages are recorded in order: a row exists only when every row before it is
\* closed, and a stage that was not executed is followed by none that was. Holds
\* whoever leaves, fails or cancels.
StagesInOrder ==
  \A s, t \in Stages : s < t =>
    /\ rows[t].status # "none" => Closed(rows[s].status)
    /\ Executed(t) => Executed(s)

\* A flow reserves stage by stage: at most the hold of the stage in progress is
\* open, and what was charged had its row closed and its hold given back first.
OneHoldAtATime ==
  /\ \A s \in Stages : hold[s] = "open" => s = at /\ s \notin charged
  /\ \A s \in charged : hold[s] = "released" /\ Closed(rows[s].status) /\ Executed(s)

\* A closed execution leaves no stage looking pending: every stage has its row,
\* closed, and the verdict is the one the rows amount to.
FlowAddsUp ==
  Closed(runRow) =>
    /\ raised \/ \A s \in Stages : Closed(rows[s].status)
    /\ runRow = "success" => \A s \in Stages : Executed(s) /\ rows[s].status = outcome[s]
    /\ runRow = "failed" => raised \/ \E s \in Stages : rows[s].status = "failed"
    /\ runRow = "cancelled" => "flow" \in accepted

\* A row that is closed is never written again.
RowsAreFinal ==
  [][/\ Closed(runRow) => runRow' = runRow
     /\ \A s \in Stages : Closed(rows[s].status) => rows'[s] = rows[s]]_<<rows, runRow>>

\* Whatever happens to the client or the stores, both threads of a flow come to
\* their end: neither waits for an event the other one never posts.
FlowEnds == gen = "stream" ~> gen = "done" /\ work = "finished"

\* A hold comes back, unless the worker raised when the generator had already
\* given everything back.
HoldsComeBack ==
  \A s \in Stages : hold[s] = "open" ~> (hold[s] = "released" \/ (raised /\ left))

\* A flow lets go of its threads and of its credit, however it ends.
FlowLetsGo == FlowEnds /\ HoldsComeBack

-----------------------------------------------------------------------------
(* What the code's comments say of cancellation and of rows, with the case   *)
(* in which it is not so named in each formula.                             *)

\* cancel_run: "the flag makes the flow stop at the next stage boundary", as long as
\* its client listens: the `finally` of a generator that was closed clears the flag.
CancelStopsTheFlow ==
  [][work = "top" /\ "flow" \in accepted /\ ~left => work' # "admit"]_work

\* cancel_run: "cancelling one run must never touch another". The worker of a flow
\* whose client left is the exception: it asks the flag of whoever runs now.
CancelTouchesOnlyItsRun ==
  \A s \in Stages : rows[s].status = "cancelled" => "flow" \in accepted \/ left

\* _stage_job_id: a recorded stage belongs to the Job that owns it, or to its file.
\* A file skipped behind a failure is recorded as nobody's.
RowsKeepTheirJob ==
  \A s \in Stages : rows[s].status # "none" =>
    \/ rows[s].job = StageJobId[s]
    \/ rows[s] = [status |-> "skipped", job |-> "nobody"] /\ Owner[s] = "file"

\* What the history and the ledger keep of a flow is what became of it: its stages
\* in order, each under the record it belongs to, paid one at a time, and a verdict
\* they bear out.
HistoryTellsTheFlow ==
  StagesInOrder /\ OneHoldAtATime /\ FlowAddsUp /\ RowsKeepTheirJob

\* A cancellation stops the flow it names at the next boundary, and no other.
CancelReachesItsFlow == CancelStopsTheFlow /\ []CancelTouchesOnlyItsRun

=============================================================================
