------------------------------ MODULE RunSlot ------------------------------
(***************************************************************************)
(* The run slot of the local runner (sparquet-studio/server/main.py): the  *)
(* one global lock, the record of the active run, and the two routes that  *)
(* execute one Job under them.                                             *)
(*                                                                         *)
(*   POST /run         the request thread executes the pipeline itself     *)
(*                     ("sync")                                            *)
(*   POST /run/stream  a worker thread executes it while a generator       *)
(*                     drains its events to the browser ("stream"); the    *)
(*                     browser may hang up, which closes the generator     *)
(*                                                                         *)
(* and POST /runs/{id}/cancel, which raises the flag of the active run and *)
(* then aborts whatever Spark is computing. The process may be killed and  *)
(* started again. What a hold is worth is the business of module Credits;  *)
(* here a hold is only open or given back.                                 *)
(***************************************************************************)
EXTENDS FiniteSets, Naturals

CONSTANTS
  Runs,             \* the executions somebody asks for, each asked once
  NoRun,            \* Python's None in _ActiveRun._run_id
  ClientsMayLeave,  \* whether a browser may close its event stream
  MaxCancels,       \* bound: how many runs somebody cancels
  MaxKills          \* bound: how many times the process is killed

ASSUME RunsAssumption  == NoRun \notin Runs
ASSUME LeaveAssumption == ClientsMayLeave \in BOOLEAN
ASSUME BoundsAssumption == MaxCancels \in Nat /\ MaxKills \in Nat

VARIABLES
  pc,         \* where the route (or its generator) of each run stands
  kind,       \* which route took the run
  worker,     \* the thread that executes the pipeline
  outcome,    \* what the execution came to
  locked,     \* _RUN_LOCK
  active,     \* _ACTIVE_RUN: the run it names and its flag
  seen,       \* the local variable `cancelled` of each route
  hold,       \* the credit reservation of each run
  charged,    \* runs whose writes were charged
  jobRow,     \* status of the job execution in the history
  runRow,     \* status of the pipeline execution in the history
  accepted,   \* runs whose cancellation was answered `cancelled: true`
  aborting,   \* accepted cancellations that have not reached Spark yet
  abortedBy,  \* the cancellations that aborted Spark work of a run
  left,       \* runs whose browser hung up on the stream
  kills       \* how often the process was killed

requestVars == <<pc, kind>>
slotVars    == <<locked, active>>
bookVars    == <<hold, charged>>
rowVars     == <<jobRow, runRow>>
cancelVars  == <<accepted, aborting, abortedBy>>
vars == <<requestVars, worker, outcome, slotVars, seen, bookVars, rowVars,
          cancelVars, left, kills>>

Kinds == {"sync", "stream"}

\* The life of a request before and around the execution.
Setup   == {"admit", "openRun", "openJob", "begin"}
Running == {"execute", "response", "stream"}
\* The `finally` block of either route: read by `sync` first, last in `stream`.
Leaving == {"end", "unlock", "giveBack"}
Closing == {"readFlag", "closeJob", "closeRun", "settle", "charge", "result",
            "closeFailed"}
\* Requests that are gone without having reached their `finally`.
Stuck   == {"broken", "deserted"}
Over    == {"idle", "refused", "raised", "done", "killed"} \union Stuck
Phases  == Setup \union Running \union Leaving \union Closing \union Over

Statuses == {"none", "running", "success", "failed", "skipped", "cancelled"}
Outcomes == {"none", "success", "failed", "skipped", "raised"}

(***************************************************************************)
(* A run holds _RUN_LOCK from the acquire at its top to the release in its *)
(* `finally`, and is named by _ACTIVE_RUN between begin and end. The       *)
(* synchronous route closes its rows after the release, the streaming one  *)
(* before it.                                                              *)
(***************************************************************************)
ClosesUnderLock(r) == kind[r] = "stream" /\ pc[r] \in Closing \ {"readFlag"}

HoldsLock(r) ==
  \/ pc[r] \in Setup \union Running \union Stuck \union {"readFlag", "end", "unlock"}
  \/ ClosesUnderLock(r)

IsNamed(r) ==
  pc[r] \in Running \union {"deserted", "readFlag", "end"} \/ ClosesUnderLock(r)

Working(r) == worker[r] = "working"

\* The phase after p on the way out: kind[r] decides the order of the blocks.
After(r, p) ==
  IF kind[r] = "sync"
  THEN CASE p = "readFlag" -> "end"
         [] p = "end"      -> "unlock"
         [] p = "unlock"   -> "giveBack"
         [] p = "giveBack" -> IF outcome[r] = "raised" THEN "raised" ELSE "closeJob"
         [] p = "closeJob" -> "closeRun"
         [] p = "closeRun" -> "settle"
         [] p = "settle"   -> "charge"
         [] p = "closeFailed" -> "raised"
         [] OTHER          -> "done"
  ELSE CASE p = "readFlag" -> "closeJob"
         [] p = "closeJob" -> "closeRun"
         [] p = "closeRun" -> IF outcome[r] = "raised" THEN "result" ELSE "settle"
         [] p = "settle"   -> "charge"
         [] p = "charge"   -> "result"
         [] p \in {"result", "closeFailed"} -> "end"
         [] p = "end"      -> "unlock"
         [] p = "unlock"   -> "giveBack"
         [] OTHER          -> "done"

At(r, p)   == pc[r] = p
GoTo(r, p) == pc' = [pc EXCEPT ![r] = p] /\ UNCHANGED kind
Step(r, p) == At(r, p) /\ GoTo(r, After(r, p))

Init ==
  /\ pc = [r \in Runs |-> "idle"]
  /\ kind \in [Runs -> Kinds]
  /\ worker = [r \in Runs |-> "none"]
  /\ outcome = [r \in Runs |-> "none"]
  /\ locked = FALSE
  /\ active = [run |-> NoRun, cancelled |-> FALSE]
  /\ seen = [r \in Runs |-> FALSE]
  /\ hold = [r \in Runs |-> "none"]
  /\ charged = {}
  /\ jobRow = [r \in Runs |-> "none"]
  /\ runRow = [r \in Runs |-> "none"]
  /\ accepted = {}
  /\ aborting = {}
  /\ abortedBy = [r \in Runs |-> {}]
  /\ left = {}
  /\ kills = 0

-----------------------------------------------------------------------------
(* Admission: the lock first, the credits second, the history third.       *)

\* Mutant of Acquire: the lock is taken without asking whether it is free.
AcquireAnyway(r) ==
  /\ At(r, "idle")
  /\ locked' = TRUE
  /\ GoTo(r, "admit")
  /\ UNCHANGED <<worker, outcome, active, seen, bookVars, rowVars, cancelVars,
                 left, kills>>

\* _RUN_LOCK.acquire(blocking=False)
Acquire(r) ==
  /\ At(r, "idle")
  /\ ~locked
  /\ locked' = TRUE
  /\ GoTo(r, "admit")
  /\ UNCHANGED <<worker, outcome, active, seen, bookVars, rowVars, cancelVars,
                 left, kills>>

\* The acquire found the slot taken: 409, and nothing is recorded.
RefuseBusy(r) ==
  /\ At(r, "idle")
  /\ locked
  /\ GoTo(r, "refused")
  /\ UNCHANGED <<worker, outcome, slotVars, seen, bookVars, rowVars, cancelVars,
                 left, kills>>

Admit(r) ==
  /\ At(r, "admit")
  /\ hold' = [hold EXCEPT ![r] = "open"]
  /\ GoTo(r, "openRun")
  /\ UNCHANGED <<worker, outcome, slotVars, seen, charged, rowVars, cancelVars,
                 left, kills>>

\* Mutant of RefuseUnpaid: the lock does not go back with the refusal.
RefuseUnpaidLocked(r) ==
  /\ At(r, "admit")
  /\ GoTo(r, "refused")
  /\ UNCHANGED <<worker, outcome, slotVars, seen, bookVars, rowVars, cancelVars,
                 left, kills>>

\* 402: the refusal gives the lock back before it is raised.
RefuseUnpaid(r) ==
  /\ At(r, "admit")
  /\ locked' = FALSE
  /\ GoTo(r, "refused")
  /\ UNCHANGED <<worker, outcome, active, seen, bookVars, rowVars, cancelVars,
                 left, kills>>

OpenRun(r) ==
  /\ At(r, "openRun")
  /\ runRow' = [runRow EXCEPT ![r] = "running"]
  /\ GoTo(r, "openJob")
  /\ UNCHANGED <<worker, outcome, slotVars, seen, bookVars, jobRow, cancelVars,
                 left, kills>>

OpenJob(r) ==
  /\ At(r, "openJob")
  /\ jobRow' = [jobRow EXCEPT ![r] = "running"]
  /\ GoTo(r, "begin")
  /\ UNCHANGED <<worker, outcome, slotVars, seen, bookVars, runRow, cancelVars,
                 left, kills>>

\* An admission that raises anything but its refusal, or a history write that raises:
\* it happens before the `try` whose `finally` releases the lock and the hold, so what
\* is taken by then stays taken.
OpenFails(r) ==
  /\ pc[r] \in {"admit", "openRun", "openJob"}
  /\ GoTo(r, "broken")
  /\ UNCHANGED <<worker, outcome, slotVars, seen, bookVars, rowVars, cancelVars,
                 left, kills>>

\* _ACTIVE_RUN.begin; the synchronous route goes straight into _execute_run,
\* the other one returns a response whose generator has not run yet.
Begin(r) ==
  /\ At(r, "begin")
  /\ active' = [run |-> r, cancelled |-> FALSE]
  /\ GoTo(r, IF kind[r] = "sync" THEN "execute" ELSE "response")
  /\ worker' = [worker EXCEPT ![r] = IF kind[r] = "sync" THEN "working" ELSE @]
  /\ UNCHANGED <<outcome, locked, seen, bookVars, rowVars, cancelVars, left, kills>>

StartWorker(r) ==
  /\ At(r, "response")
  /\ worker' = [worker EXCEPT ![r] = "working"]
  /\ GoTo(r, "stream")
  /\ UNCHANGED <<outcome, slotVars, seen, bookVars, rowVars, cancelVars, left, kills>>

-----------------------------------------------------------------------------
(* Execution and the way out.                                              *)

\* _execute_run ends: a result that succeeded, failed or had nothing to process, or
\* an exception (the session could not be had). The worker of a stream posts its sentinel whether
\* or not anybody still listens.
Executed(r) ==
  /\ Working(r)
  /\ worker' = [worker EXCEPT ![r] = "finished"]
  /\ \E o \in Outcomes \ {"none"} : outcome' = [outcome EXCEPT ![r] = o]
  /\ IF kind[r] = "sync" THEN GoTo(r, "readFlag") ELSE UNCHANGED requestVars
  /\ UNCHANGED <<slotVars, seen, bookVars, rowVars, cancelVars, left, kills>>

\* Mutant of SeeSentinel: the generator gives the worker up before its sentinel.
GiveUpOnWorker(r) ==
  /\ At(r, "stream")
  /\ worker[r] # "none"
  /\ GoTo(r, "readFlag")
  /\ UNCHANGED <<worker, outcome, slotVars, seen, bookVars, rowVars, cancelVars,
                 left, kills>>

\* The generator takes the sentinel off the queue and joins the worker.
SeeSentinel(r) ==
  /\ At(r, "stream")
  /\ worker[r] = "finished"
  /\ GoTo(r, "readFlag")
  /\ UNCHANGED <<worker, outcome, slotVars, seen, bookVars, rowVars, cancelVars,
                 left, kills>>

\* Mutant of HangUp: the generator has no `finally`.
HangUpAndForget(r) ==
  /\ ClientsMayLeave
  /\ pc[r] \in {"stream", "result"}
  /\ left' = left \union {r}
  /\ GoTo(r, "done")
  /\ UNCHANGED <<worker, outcome, slotVars, seen, bookVars, rowVars, cancelVars, kills>>

\* The browser goes away while the generator is suspended at a `yield`: only the
\* `finally` runs. The worker is a thread nobody stops.
HangUp(r) ==
  /\ ClientsMayLeave
  /\ pc[r] \in {"stream", "result"}
  /\ left' = left \union {r}
  /\ GoTo(r, "end")
  /\ UNCHANGED <<worker, outcome, slotVars, seen, bookVars, rowVars, cancelVars, kills>>

\* The browser is gone before the body of the response is first asked for: a
\* generator that never started has no `finally` to run.
Desert(r) ==
  /\ ClientsMayLeave
  /\ At(r, "response")
  /\ left' = left \union {r}
  /\ GoTo(r, "deserted")
  /\ UNCHANGED <<worker, outcome, slotVars, seen, bookVars, rowVars, cancelVars, kills>>

ReadFlag(r) ==
  /\ Step(r, "readFlag")
  /\ seen' = [seen EXCEPT ![r] = active.cancelled]
  /\ UNCHANGED <<worker, outcome, slotVars, bookVars, rowVars, cancelVars, left, kills>>

\* Mutant of Verdict: an execution that raised is not mapped to "failed".
VerdictAsIs(r) == IF seen[r] THEN "cancelled" ELSE outcome[r]

\* What the history says of an execution, once its flag has been read.
Verdict(r) ==
  IF seen[r] THEN "cancelled"
  ELSE IF outcome[r] = "raised" THEN "failed" ELSE outcome[r]

CloseJob(r) ==
  /\ Step(r, "closeJob")
  /\ jobRow' = [jobRow EXCEPT ![r] = Verdict(r)]
  /\ UNCHANGED <<worker, outcome, slotVars, seen, bookVars, runRow, cancelVars,
                 left, kills>>

\* Mutants of CloseRun: the flag is read again for the second row; only a run that
\* came to a result is closed.
CloseRunFlagAgain(r) ==
  /\ Step(r, "closeRun")
  /\ runRow' = [runRow EXCEPT ![r] = IF active.cancelled THEN "cancelled" ELSE Verdict(r)]
  /\ UNCHANGED <<worker, outcome, slotVars, seen, bookVars, jobRow, cancelVars,
                 left, kills>>

CloseRunWithResult(r) ==
  /\ Step(r, "closeRun")
  /\ runRow' = [runRow EXCEPT ![r] = IF outcome[r] = "raised" THEN @ ELSE Verdict(r)]
  /\ UNCHANGED <<worker, outcome, slotVars, seen, bookVars, jobRow, cancelVars,
                 left, kills>>

CloseRun(r) ==
  /\ Step(r, "closeRun")
  /\ runRow' = [runRow EXCEPT ![r] = Verdict(r)]
  /\ UNCHANGED <<worker, outcome, slotVars, seen, bookVars, jobRow, cancelVars,
                 left, kills>>

\* A store that raises on the way out: nothing after it happens, except for the
\* `finally` a generator is still in.
CloseFails(r) ==
  /\ pc[r] \in {"closeJob", "closeRun", "settle", "charge"}
  /\ GoTo(r, "closeFailed")
  /\ UNCHANGED <<worker, outcome, slotVars, seen, bookVars, rowVars, cancelVars,
                 left, kills>>

Propagate(r) ==
  /\ Step(r, "closeFailed")
  /\ UNCHANGED <<worker, outcome, slotVars, seen, bookVars, rowVars, cancelVars,
                 left, kills>>

\* release() is idempotent: only an open hold moves.
Released(h) == IF h = "open" THEN "released" ELSE h

\* settle() releases in one transaction and charges in the next.
SettleHold(r) ==
  /\ Step(r, "settle")
  /\ hold' = [hold EXCEPT ![r] = Released(@)]
  /\ UNCHANGED <<worker, outcome, slotVars, seen, charged, rowVars, cancelVars,
                 left, kills>>

Charge(r) ==
  /\ Step(r, "charge")
  /\ charged' = charged \union {r}
  /\ UNCHANGED <<worker, outcome, slotVars, seen, hold, rowVars, cancelVars, left, kills>>

SendResult(r) ==
  /\ Step(r, "result")
  /\ UNCHANGED <<worker, outcome, slotVars, seen, bookVars, rowVars, cancelVars,
                 left, kills>>

\* Mutant of EndActive: the flag is cleared, the name of the run is kept.
EndActiveKeepsName(r) ==
  /\ Step(r, "end")
  /\ active' = [active EXCEPT !.cancelled = FALSE]
  /\ UNCHANGED <<worker, outcome, locked, seen, bookVars, rowVars, cancelVars, left, kills>>

EndActive(r) ==
  /\ Step(r, "end")
  /\ active' = [run |-> NoRun, cancelled |-> FALSE]
  /\ UNCHANGED <<worker, outcome, locked, seen, bookVars, rowVars, cancelVars, left, kills>>

Unlock(r) ==
  /\ Step(r, "unlock")
  /\ locked' = FALSE
  /\ UNCHANGED <<worker, outcome, active, seen, bookVars, rowVars, cancelVars, left, kills>>

GiveBack(r) ==
  /\ Step(r, "giveBack")
  /\ hold' = [hold EXCEPT ![r] = Released(@)]
  /\ UNCHANGED <<worker, outcome, slotVars, seen, charged, rowVars, cancelVars,
                 left, kills>>

-----------------------------------------------------------------------------
(* Cancellation: two steps of the handler with nothing held between them.  *)

\* Mutant of CancelRequest: any run in flight takes the flag, whoever was named.
CancelWhateverRuns(r) ==
  /\ active.run # NoRun
  /\ Cardinality(accepted \union {r}) <= MaxCancels
  /\ active' = [active EXCEPT !.cancelled = TRUE]
  /\ accepted' = accepted \union {r}
  /\ aborting' = aborting \union {r}
  /\ UNCHANGED <<requestVars, worker, outcome, locked, seen, bookVars, rowVars,
                 abortedBy, left, kills>>

CancelRequest(r) ==
  /\ active.run = r
  /\ Cardinality(accepted \union {r}) <= MaxCancels
  /\ active' = [active EXCEPT !.cancelled = TRUE]
  /\ accepted' = accepted \union {r}
  /\ aborting' = aborting \union {r}
  /\ UNCHANGED <<requestVars, worker, outcome, locked, seen, bookVars, rowVars,
                 abortedBy, left, kills>>

\* cancelAllJobs() knows no run: whatever Spark is computing is aborted. A worker
\* between two Spark actions has nothing there to lose.
CancelSparkJobs(r) ==
  /\ r \in aborting
  /\ aborting' = aborting \ {r}
  /\ \E computing \in SUBSET {s \in Runs : Working(s)} :
       abortedBy' = [s \in Runs |-> IF s \in computing
                                     THEN abortedBy[s] \union {r} ELSE abortedBy[s]]
  /\ UNCHANGED <<requestVars, worker, outcome, slotVars, seen, bookVars, rowVars,
                 accepted, left, kills>>

\* Mutants of Kill: the restart fails every execution the process was in, closed or
\* not; no hold is given back at the start.
KillFailsAll ==
  LET gone == {r \in Runs : pc[r] \notin Over} IN
  /\ kills < MaxKills
  /\ kills' = kills + 1
  /\ pc' = [r \in Runs |-> IF pc[r] \in Over \ Stuck THEN pc[r] ELSE "killed"]
  /\ worker' = [r \in Runs |-> IF Working(r) THEN "none" ELSE worker[r]]
  /\ locked' = FALSE
  /\ active' = [run |-> NoRun, cancelled |-> FALSE]
  /\ hold' = [r \in Runs |-> Released(hold[r])]
  /\ aborting' = {}
  /\ runRow' = [r \in Runs |-> IF r \in gone THEN "failed" ELSE runRow[r]]
  /\ jobRow' = [r \in Runs |-> IF r \in gone THEN "failed" ELSE jobRow[r]]
  /\ UNCHANGED <<kind, outcome, seen, charged, accepted, abortedBy, left>>

KillKeepsHolds ==
  /\ kills < MaxKills
  /\ kills' = kills + 1
  /\ pc' = [r \in Runs |-> IF pc[r] \in Over \ Stuck THEN pc[r] ELSE "killed"]
  /\ worker' = [r \in Runs |-> IF Working(r) THEN "none" ELSE worker[r]]
  /\ locked' = FALSE
  /\ active' = [run |-> NoRun, cancelled |-> FALSE]
  /\ aborting' = {}
  /\ UNCHANGED <<kind, outcome, seen, bookVars, rowVars, accepted, abortedBy, left>>

\* The process dies and starts again. Threads, lock and active run are gone; the
\* credit store gives back every open hold; the history rows stay as they were.
Kill ==
  /\ kills < MaxKills
  /\ kills' = kills + 1
  /\ pc' = [r \in Runs |-> IF pc[r] \in Over \ Stuck THEN pc[r] ELSE "killed"]
  /\ worker' = [r \in Runs |-> IF Working(r) THEN "none" ELSE worker[r]]
  /\ locked' = FALSE
  /\ active' = [run |-> NoRun, cancelled |-> FALSE]
  /\ hold' = [r \in Runs |-> Released(hold[r])]
  /\ aborting' = {}
  /\ UNCHANGED <<kind, outcome, seen, charged, rowVars, accepted, abortedBy, left>>

-----------------------------------------------------------------------------
(* The thread of the request, the worker thread, and what they do alone.   *)

Route(r) ==
  \/ Admit(r) \/ RefuseUnpaid(r) \/ OpenRun(r) \/ OpenJob(r) \/ OpenFails(r)
  \/ Begin(r) \/ StartWorker(r) \/ SeeSentinel(r) \/ ReadFlag(r)
  \/ CloseJob(r) \/ CloseRun(r) \/ CloseFails(r) \/ Propagate(r)
  \/ SettleHold(r) \/ Charge(r) \/ SendResult(r)
  \/ EndActive(r) \/ Unlock(r) \/ GiveBack(r)

Next ==
  \/ \E r \in Runs :
       \/ Acquire(r) \/ RefuseBusy(r) \/ Route(r) \/ Executed(r)
       \/ HangUp(r) \/ Desert(r)
       \/ CancelRequest(r) \/ CancelSparkJobs(r)
  \/ Kill

\* A request thread runs, and the framework's run_from_dict returns: Spark work
\* is assumed to end. Nobody is obliged to ask, to cancel, to leave or to kill.
Fairness ==
  \A r \in Runs : WF_vars(Route(r)) /\ WF_vars(Executed(r))

Spec == Init /\ [][Next]_vars /\ Fairness
-----------------------------------------------------------------------------

TypeOK ==
  /\ pc \in [Runs -> Phases]
  /\ kind \in [Runs -> Kinds]
  /\ worker \in [Runs -> {"none", "working", "finished"}]
  /\ outcome \in [Runs -> Outcomes]
  /\ locked \in BOOLEAN
  /\ active \in [run : Runs \union {NoRun}, cancelled : BOOLEAN]
  /\ seen \in [Runs -> BOOLEAN]
  /\ hold \in [Runs -> {"none", "open", "released"}]
  /\ charged \subseteq Runs
  /\ jobRow \in [Runs -> Statuses]
  /\ runRow \in [Runs -> Statuses]
  /\ accepted \subseteq Runs
  /\ aborting \subseteq Runs
  /\ abortedBy \in [Runs -> SUBSET Runs]
  /\ left \subseteq Runs
  /\ kills \in 0..MaxKills

-----------------------------------------------------------------------------
(* Safety. What the lock, the active run and the history say of each other. *)

\* _RUN_LOCK is taken exactly while one request is between its acquire and its
\* release: no path releases it for somebody else, none releases it twice.
OneHolder ==
  /\ locked <=> \E r \in Runs : HoldsLock(r)
  /\ \A r, s \in Runs : HoldsLock(r) /\ HoldsLock(s) => r = s

\* _ACTIVE_RUN names a run from its begin to its end and nothing else: a run that
\* is executing for a listening client can be cancelled, one that left cannot.
ActiveNamesTheHolder ==
  \A r \in Runs : active.run = r <=> IsNamed(r)

\* Two pipelines execute at once on the shared session only when the browser of
\* one of them hung up: its `finally` gave the lock away under a live worker.
OverlapNeedsAHangUp ==
  \A r, s \in Runs :
    r # s /\ Working(r) /\ Working(s) => r \in left \/ s \in left

\* The exclusion the shared Spark session rests on, from its three sides: the lock
\* has one holder, the cancel route can name that one, and what overlaps it is a
\* worker somebody left behind.
SlotIsExclusive == OneHolder /\ ActiveNamesTheHolder /\ OverlapNeedsAHangUp

\* The flag cannot be lost or invented: a cancellation accepted before the route
\* reads the flag is still up when it does, and a row says "cancelled" only of a
\* run whose cancellation was accepted. It aborts the work of another run in two
\* cases only, which cancel_run ("cancelling one run must never touch another")
\* does not know of: the run named is past its execution by the time the abort
\* reaches Spark, or the other one was abandoned by its browser.
CancellationIsHeard ==
  \A r \in Runs :
    /\ r \in accepted /\ pc[r] \in Running \union {"readFlag"}
         => active = [run |-> r, cancelled |-> TRUE]
    /\ "cancelled" \in {jobRow[r], runRow[r]} => r \in accepted
    /\ \A s \in abortedBy[r] \ {r} : r \in left \/ pc[s] \notin {"execute", "stream"} \/ worker[s] = "finished"

Closed(row) == row \in Statuses \ {"none", "running"}

\* The two rows of an execution are closed with one verdict, the Job's first, and
\* nothing was charged for an execution the history does not show as over.
RowsAgree ==
  \A r \in Runs :
    /\ Closed(runRow[r]) => jobRow[r] = runRow[r]
    /\ r \in charged => Closed(runRow[r]) /\ hold[r] = "released"

\* A closed row is final: no late worker, cancel or restart rewrites it.
ClosedForGood ==
  [][\A r \in Runs :
       /\ Closed(runRow[r]) => runRow'[r] = runRow[r]
       /\ Closed(jobRow[r]) => jobRow'[r] = jobRow[r]]_rowVars

\* The history tells one story of an execution, and keeps to it.
HistoryIsKept == []RowsAgree /\ ClosedForGood

-----------------------------------------------------------------------------
(* Liveness, with every case in which the code does not deliver named.      *)

\* The slot comes back, unless a history write failed before the `try` or the
\* browser left before the generator that has the `finally` was started.
SlotComesBack ==
  locked ~> (~locked \/ \E r \in Runs : pc[r] \in Stuck)

\* A hold is given back however the run ended, with the same two exceptions.
HoldsComeBack ==
  \A r \in Runs : hold[r] = "open" ~> (hold[r] = "released" \/ pc[r] \in Stuck)

\* An execution the history opened is closed there, unless the process was killed,
\* a store failed, the synchronous route raised, or the client left.
RunsAreClosed ==
  \A r \in Runs :
    runRow[r] = "running" /\ pc[r] \in Setup \union Running ~>
      (Closed(runRow[r]) \/ r \in left
        \/ pc[r] \in {"broken", "closeFailed", "raised", "killed"})

\* Whatever way a run takes out of its route, what it took comes back and what it
\* opened is closed.
RunsLetGo == SlotComesBack /\ HoldsComeBack /\ RunsAreClosed

-----------------------------------------------------------------------------
(* One execution at a time, among those somebody is waiting for.            *)

\* A run whose browser hung up is over as far as its client can tell.
State(r) ==
  IF r \in left \/ worker[r] = "finished" \/ pc[r] \in Over \ {"idle"} THEN "ended"
  ELSE IF Working(r) THEN "executing" ELSE "waiting"

Serial == INSTANCE SerialRuns WITH state <- [r \in Runs |-> State(r)]

\* The run slot implements serial execution of the runs somebody waits for: a run that
\* starts finds none of them executing, and none starts twice or after its end.
RunsAreSerial == Serial!Spec

=============================================================================
