--------------------------- MODULE PipelineProofs ---------------------------
(***************************************************************************)
(* Proofs about Pipelines.                                                 *)
(*                                                                         *)
(* First the server's side: composed Pipelines of any number of stages,    *)
(* any owners and either policy on errors, with clients that may leave and *)
(* stores that may fail.  Then the schedules that fire them: the next time *)
(* of any cron expression on any clock with one change, and sweeps that    *)
(* overlap and are killed.                                                 *)
(*                                                                         *)
(* Last the Studio's side: the canvas a Pipeline is drawn on, for any set  *)
(* of boxes, any library and any drawing it is opened with.                *)
(***************************************************************************)
EXTENDS FlowRun, Schedules, StageCanvas,
        FiniteSetTheorems, SequenceTheorems, WellFoundedInduction, TLAPS

-----------------------------------------------------------------------------
LEMMA FlowInit == Init => TypeOK
<1> SUFFICES ASSUME Init PROVE TypeOK
  OBVIOUS
<1> USE SizeAssumption DEF Init, Stages, Statuses, GenPhases, WorkPhases
<1>1. /\ stopped \in BOOLEAN /\ raised \in BOOLEAN /\ seen \in BOOLEAN
      /\ locked \in BOOLEAN /\ left \in BOOLEAN
  BY Zenon
<1> QED
  BY <1>1 DEF TypeOK

LEMMA FlowTypeStep == TypeOK /\ [Next]_vars => TypeOK'
<1> SUFFICES ASSUME TypeOK, [Next]_vars PROVE TypeOK'
  OBVIOUS
<1> USE SizeAssumption, OwnerAssumption
    DEF TypeOK, Statuses, GenPhases, WorkPhases, workVars, bookVars, slotVars, otherVars,
        WorkStep, GenStep, Released
<1>1. CASE Worker
  <2>1. CASE CheckFlag
    <3>1. rows' \in [Stages -> [status : Statuses, job : {"job", "file", "nobody"}]]
      BY <2>1 DEF CheckFlag, Stages, Recorded, StageJobId
    <3> QED
      BY <2>1, <3>1 DEF CheckFlag
  <2>2. CASE AdmitStage BY <2>2 DEF AdmitStage
  <2>3. CASE RefuseStage
    <3>1. rows' \in [Stages -> [status : Statuses, job : {"job", "file", "nobody"}]]
      BY <2>3 DEF RefuseStage, Stages, Recorded, StageJobId
    <3> QED
      BY <2>3, <3>1 DEF RefuseStage
  <2>4. CASE CreateStage BY <2>4 DEF CreateStage, StageJobId, Stages
  <2>5. CASE ExecuteStage BY <2>5 DEF ExecuteStage
  <2>6. CASE ReadStageFlag BY <2>6 DEF ReadStageFlag
  <2>7. CASE CloseStage
    <3>1. (IF stopped THEN "cancelled" ELSE outcome[at]) \in Statuses
      BY <2>7
    <3>2. rows' \in [Stages -> [status : Statuses, job : {"job", "file", "nobody"}]]
      BY <2>7, <3>1 DEF CloseStage
    <3> QED
      BY <2>7, <3>2 DEF CloseStage
  <2>8. CASE SettleStage BY <2>8 DEF SettleStage
  <2>9. CASE ChargeStage BY <2>9 DEF ChargeStage
  <2>10. CASE StopFlow
    <3>1. rows' \in [Stages -> [status : Statuses, job : {"job", "file", "nobody"}]]
      BY <2>10 DEF StopFlow, Stages, Recorded, StageJobId, JobOnly
    <3> QED
      BY <2>10, <3>1 DEF StopFlow
  <2>11. CASE NextStage BY <2>11 DEF NextStage, Stages
  <2>12. CASE WorkFails BY <2>12 DEF WorkFails
  <2> QED
    BY <1>1, <2>1, <2>2, <2>3, <2>4, <2>5, <2>6, <2>7, <2>8, <2>9, <2>10, <2>11, <2>12
    DEF Worker
<1>2. CASE Generator
  <2>1. CASE OpenFlow BY <2>1 DEF OpenFlow
  <2>2. CASE BeginFlow BY <2>2 DEF BeginFlow
  <2>3. CASE StartFlow BY <2>3 DEF StartFlow
  <2>4. CASE SeeSentinel BY <2>4 DEF SeeSentinel
  <2>5. CASE ReadFlag BY <2>5 DEF ReadFlag
  <2>6. CASE CloseRun BY <2>6 DEF CloseRun, Verdict
  <2>7. CASE SendResult BY <2>7 DEF SendResult
  <2>8. CASE EndActive BY <2>8 DEF EndActive
  <2>9. CASE Unlock
    <3>1. locked' \in BOOLEAN
      BY <2>9, Zenon DEF Unlock
    <3> QED
      BY <2>9, <3>1 DEF Unlock
  <2>10. CASE GiveBack BY <2>10 DEF GiveBack
  <2> QED
    BY <1>2, <2>1, <2>2, <2>3, <2>4, <2>5, <2>6, <2>7, <2>8, <2>9, <2>10 DEF Generator
<1>3. CASE RefuseFlow BY <1>3 DEF RefuseFlow
<1>4. CASE AcquireFlow BY <1>4 DEF AcquireFlow
<1>5. CASE HangUp BY <1>5 DEF HangUp
<1>6. CASE RivalBegins BY <1>6 DEF RivalBegins
<1>7. CASE RivalEnds
  <2>1. locked' \in BOOLEAN
    BY <1>7, Zenon DEF RivalEnds
  <2> QED
    BY <1>7, <2>1 DEF RivalEnds
<1>8. ASSUME NEW run \in {"flow", "rival"}, CancelRequest(run) PROVE TypeOK'
  <2>1. active' = [run |-> active.run, cancelled |-> TRUE]
    BY <1>8 DEF CancelRequest
  <2>2. active' \in [run : {"flow", "rival", "nobody"}, cancelled : BOOLEAN]
    <3>1. active.run \in {"flow", "rival", "nobody"}
      OBVIOUS
    <3> QED
      BY <2>1, <3>1, Zenon
  <2> QED
    BY <1>8, <2>2 DEF CancelRequest
<1>9. CASE UNCHANGED vars BY <1>9 DEF vars
<1> QED
  BY <1>1, <1>2, <1>3, <1>4, <1>5, <1>6, <1>7, <1>8, <1>9 DEF Next

-----------------------------------------------------------------------------
(***************************************************************************)
(* The invariant of the worker. Stages before the current one are through, *)
(* stages behind it untouched but for the rows a stop records, and what    *)
(* the current one has depends on the phase.                               *)
(***************************************************************************)
Quiet(s) == outcome[s] = "none" /\ hold[s] = "none" /\ s \notin charged
Blank(s) == Quiet(s) /\ rows[s].status = "none"
Ran(s)   == outcome[s] # "none" /\ Closed(rows[s].status)
Through(s) == Ran(s) /\ hold[s] = "released" /\ s \in charged

CurrentStage ==
  /\ work \in {"none", "top", "admit"} => Blank(at)
  /\ work \in {"create", "execute"} => outcome[at] = "none"
  /\ work = "create" => rows[at].status = "none"
  /\ work \in {"execute", "readFlag", "close"} => rows[at].status = "running"
  /\ work \in {"create", "execute", "readFlag", "close", "settle"} =>
       hold[at] # "none" /\ at \notin charged
  /\ work \in {"readFlag", "close"} => outcome[at] # "none"
  /\ work \in {"settle", "charge", "decide"} =>
       Ran(at) /\ rows[at].status = IF stopped THEN "cancelled" ELSE outcome[at]
  /\ work = "charge" => hold[at] = "released" /\ at \notin charged
  /\ work = "decide" => Through(at)
  /\ at \in charged => Through(at)

WorkInv ==
  /\ TypeOK
  /\ \A s \in Stages : s < at => Through(s)
  /\ \A s \in Stages : s > at => Quiet(s)
  /\ \/ \A s \in Stages : s > at => rows[s].status = "none"
     \/ work = "finished" /\ \A s \in Stages : Closed(rows[s].status)
  /\ CurrentStage

(***************************************************************************)
(* The invariant of the verdict. What the generator reads is what the      *)
(* worker read, because nobody else can take the slot in between.          *)
(***************************************************************************)
Holding == {"open", "begin", "response", "deserted", "stream", "readFlag", "closeRun",
            "result", "end", "unlock", "broken"}
Named   == {"response", "deserted", "stream", "readFlag", "closeRun", "result", "end"}
SomeRow(what) == \E s \in Stages : rows[s].status = what

SlotInv ==
  /\ locked <=> gen \in Holding \/ rival = "running"
  /\ rival = "running" => gen \notin Holding
  /\ gen \in Named <=> active.run = "flow"
  /\ active.cancelled => active.run \in accepted
  /\ work = "none" => ~stopped /\ ~raised /\ at = 1
  /\ work = "none" <=> gen \in {"idle", "refused", "open", "broken", "begin", "response",
                                "deserted"}

RunRowInv ==
  /\ gen \in {"idle", "refused", "open", "broken"} => runRow = "none"
  /\ gen \in {"begin", "response", "deserted", "stream", "readFlag", "closeRun"} =>
       runRow = "running"
  /\ gen \in {"readFlag", "closeRun", "result"} => work = "finished"
  /\ Closed(runRow) => work = "finished"

FlagInv ==
  gen \in {"stream", "readFlag"} /\ (stopped \/ SomeRow("cancelled")) => active.cancelled

SeenInv ==
  gen = "closeRun" => (seen => "flow" \in accepted) /\ (~seen => ~SomeRow("cancelled"))

RowInv == \A s \in Stages : Ran(s) => rows[s].status \in {outcome[s], "cancelled"}

EndInv ==
  work = "finished" /\ ~raised =>
    /\ \A s \in Stages : Closed(rows[s].status)
    /\ charged = Stages \/ SomeRow("failed") \/ SomeRow("cancelled")

VerdictInv == FlagInv /\ SeenInv /\ RowInv /\ EndInv

FlowInv == WorkInv /\ SlotInv /\ RunRowInv /\ VerdictInv /\ FlowAddsUp

-----------------------------------------------------------------------------
LEMMA WorkInvInit == Init => WorkInv
  BY FlowInit, SizeAssumption
  DEF Init, WorkInv, CurrentStage, Blank, Quiet, Through, Ran, Stages, Closed

LEMMA WorkInvIdle ==
  ASSUME WorkInv, TypeOK', UNCHANGED <<workVars, rows, bookVars>>
  PROVE  WorkInv'
  BY DEF WorkInv, CurrentStage, Blank, Quiet, Through, Ran, workVars, bookVars

LEMMA SlotInvInit == Init => SlotInv
  BY DEF Init, SlotInv, Holding, Named

LEMMA SlotInvStep == TypeOK /\ SlotInv /\ [Next]_vars => SlotInv'
<1> SUFFICES ASSUME TypeOK, SlotInv, [Next]_vars PROVE SlotInv'
  OBVIOUS
<1> USE DEF TypeOK, SlotInv, Holding, Named, WorkStep, GenStep, workVars, slotVars, otherVars
<1>1. CASE Worker
  <2>1. work # "none" /\ work' # "none"
    BY <1>1 DEF Worker, CheckFlag, AdmitStage, RefuseStage, CreateStage, ExecuteStage,
                ReadStageFlag, CloseStage, SettleStage, ChargeStage, StopFlow, NextStage,
                WorkFails
  <2>2. UNCHANGED <<gen, locked, active, rival, accepted>>
    BY <1>1 DEF Worker, CheckFlag, AdmitStage, RefuseStage, CreateStage, ExecuteStage,
                ReadStageFlag, CloseStage, SettleStage, ChargeStage, StopFlow, NextStage,
                WorkFails
  <2> QED
    BY <2>1, <2>2
<1>2. CASE Generator
  <2>1. CASE OpenFlow BY <2>1 DEF OpenFlow
  <2>2. CASE BeginFlow BY <2>2 DEF BeginFlow
  <2>3. CASE StartFlow BY <2>3 DEF StartFlow
  <2>4. CASE SeeSentinel BY <2>4 DEF SeeSentinel
  <2>5. CASE ReadFlag BY <2>5 DEF ReadFlag
  <2>6. CASE CloseRun BY <2>6 DEF CloseRun
  <2>7. CASE SendResult BY <2>7 DEF SendResult
  <2>8. CASE EndActive BY <2>8 DEF EndActive
  <2>9. CASE Unlock BY <2>9 DEF Unlock
  <2>10. CASE GiveBack BY <2>10 DEF GiveBack
  <2> QED
    BY <1>2, <2>1, <2>2, <2>3, <2>4, <2>5, <2>6, <2>7, <2>8, <2>9, <2>10 DEF Generator
<1>3. CASE RefuseFlow BY <1>3 DEF RefuseFlow
<1>4. CASE AcquireFlow BY <1>4 DEF AcquireFlow
<1>5. CASE HangUp BY <1>5 DEF HangUp
<1>6. CASE RivalBegins BY <1>6 DEF RivalBegins
<1>7. CASE RivalEnds BY <1>7 DEF RivalEnds
<1>8. ASSUME NEW run \in {"flow", "rival"}, CancelRequest(run) PROVE SlotInv'
  <2>1. active'.run = active.run /\ active.run = run /\ accepted' = accepted \union {run}
    BY <1>8 DEF CancelRequest
  <2> QED
    BY <1>8, <2>1 DEF CancelRequest
<1>9. CASE UNCHANGED vars BY <1>9 DEF vars
<1> QED
  BY <1>1, <1>2, <1>3, <1>4, <1>5, <1>6, <1>7, <1>8, <1>9 DEF Next

LEMMA WorkInvStep == WorkInv /\ SlotInv /\ [Next]_vars => WorkInv'
<1> SUFFICES ASSUME WorkInv, SlotInv, [Next]_vars PROVE WorkInv'
  OBVIOUS
<1>0. TypeOK'
  BY FlowTypeStep DEF WorkInv
<1> USE SizeAssumption
    DEF WorkInv, TypeOK, CurrentStage, Blank, Quiet, Through, Ran, Stages, Closed,
        WorkStep, GenStep, Released
<1>1. CASE Worker
  <2>1. CASE CheckFlag
    <3>1. CASE active.cancelled
      <4>1. /\ work = "top" /\ work' = "finished"
            /\ UNCHANGED <<at, outcome, stopped, hold, charged>>
            /\ \A s \in Stages : rows'[s].status =
                 IF s >= at THEN "cancelled" ELSE rows[s].status
        BY <2>1, <3>1 DEF CheckFlag, Recorded, bookVars
      <4> QED
        BY <1>0, <4>1
    <3>2. CASE ~active.cancelled
      BY <1>0, <2>1, <3>2 DEF CheckFlag, bookVars
    <3> QED
      BY <3>1, <3>2
  <2>2. CASE AdmitStage BY <1>0, <2>2 DEF AdmitStage
  <2>3. CASE RefuseStage
    <3>1. /\ work = "admit" /\ work' = "finished"
          /\ UNCHANGED <<at, outcome, stopped, hold, charged>>
          /\ \A s \in Stages : rows'[s].status =
               IF s = at THEN "failed" ELSE IF s > at THEN "skipped" ELSE rows[s].status
      BY <2>3 DEF RefuseStage, Recorded, bookVars
    <3>2. hold[at] = "none" /\ outcome[at] = "none" /\ at \notin charged
      BY <3>1
    <3>3. \A s \in Stages : s < at => Through(s)'
      BY <3>1
    <3>4. \A s \in Stages : s > at => Quiet(s)'
      BY <3>1
    <3>5. \A s \in Stages : Closed(rows'[s].status)
      BY <3>1
    <3>6. CurrentStage'
      BY <3>1, <3>2
    <3> QED
      BY <1>0, <3>1, <3>3, <3>4, <3>5, <3>6
  <2>4. CASE CreateStage BY <1>0, <2>4 DEF CreateStage, bookVars
  <2>5. CASE ExecuteStage BY <1>0, <2>5 DEF ExecuteStage, bookVars
  <2>6. CASE ReadStageFlag BY <1>0, <2>6 DEF ReadStageFlag, bookVars
  <2>7. CASE CloseStage
    <3>1. /\ work = "close" /\ work' = "settle"
          /\ UNCHANGED <<at, outcome, stopped, hold, charged>>
          /\ rows'[at].status = (IF stopped THEN "cancelled" ELSE outcome[at])
          /\ \A s \in Stages : s # at => rows'[s] = rows[s]
      BY <2>7 DEF CloseStage, bookVars
    <3>2. Ran(at)'
      BY <3>1
    <3>3. \A s \in Stages : s < at => Through(s)'
      BY <3>1
    <3>4. \A s \in Stages : s > at => Quiet(s)' /\ rows'[s].status = "none"
      BY <3>1
    <3>5. at \notin charged'
      BY <3>1
    <3>6. CurrentStage'
      BY <3>1, <3>2, <3>5
    <3> QED
      BY <1>0, <3>1, <3>3, <3>4, <3>6
  <2>8. CASE SettleStage BY <1>0, <2>8 DEF SettleStage
  <2>9. CASE ChargeStage BY <1>0, <2>9 DEF ChargeStage
  <2>10. CASE StopFlow
    <3>1. /\ work = "decide" /\ work' = "finished"
          /\ UNCHANGED <<at, outcome, stopped, hold, charged>>
          /\ \A s \in Stages :
               \/ s <= at /\ rows'[s].status = rows[s].status
               \/ s > at /\ rows'[s].status \in {"cancelled", "skipped"}
      BY <2>10 DEF StopFlow, Recorded, bookVars
    <3> QED
      BY <1>0, <3>1
  <2>11. CASE NextStage
    <3>1. CASE at = N
      BY <1>0, <2>11, <3>1 DEF NextStage, bookVars
    <3>2. CASE at # N
      <4>1. /\ work = "decide" /\ work' = "top" /\ at' = at + 1
            /\ UNCHANGED <<outcome, stopped, rows, hold, charged>>
        BY <2>11, <3>2 DEF NextStage, bookVars
      <4> QED
        BY <1>0, <3>2, <4>1
    <3> QED
      BY <3>1, <3>2
  <2>12. CASE WorkFails BY <1>0, <2>12 DEF WorkFails, bookVars
  <2> QED
    BY <1>1, <2>1, <2>2, <2>3, <2>4, <2>5, <2>6, <2>7, <2>8, <2>9, <2>10, <2>11, <2>12
    DEF Worker
<1>2. CASE Generator
  <2>1. CASE StartFlow
    <3>1. work = "none" /\ work' = "top" /\ UNCHANGED <<at, outcome, stopped, rows, hold, charged>>
      BY <2>1 DEF StartFlow, SlotInv, bookVars
    <3> QED
      BY <1>0, <3>1
  <2>2. CASE GiveBack BY <1>0, <2>2 DEF GiveBack, workVars
  <2>3. CASE OpenFlow \/ BeginFlow \/ SeeSentinel \/ ReadFlag \/ CloseRun
             \/ SendResult \/ EndActive \/ Unlock
    BY <1>0, <2>3, WorkInvIdle
    DEF OpenFlow, BeginFlow, SeeSentinel, ReadFlag, CloseRun, SendResult, EndActive, Unlock
  <2> QED
    BY <1>2, <2>1, <2>2, <2>3 DEF Generator
<1>3. CASE RefuseFlow \/ AcquireFlow \/ HangUp \/ RivalBegins \/ RivalEnds
           \/ \E run \in {"flow", "rival"} : CancelRequest(run)
  BY <1>0, <1>3, WorkInvIdle
  DEF RefuseFlow, AcquireFlow, HangUp, RivalBegins, RivalEnds, CancelRequest
<1>4. CASE UNCHANGED vars
  BY <1>0, <1>4, WorkInvIdle DEF vars
<1> QED
  BY <1>1, <1>2, <1>3, <1>4 DEF Next

-----------------------------------------------------------------------------
LEMMA RunRowInvInit == Init => RunRowInv
  BY DEF Init, RunRowInv, Closed

LEMMA VerdictIsClosed == TypeOK => Closed(Verdict)
  BY DEF Verdict, Closed

LEMMA RunRowInvStep == TypeOK /\ RunRowInv /\ [Next]_vars => RunRowInv'
<1> SUFFICES ASSUME TypeOK, RunRowInv, [Next]_vars PROVE RunRowInv'
  OBVIOUS
<1> USE DEF RunRowInv, GenStep, workVars
<1>1. CASE Worker
  <2>1. work # "finished" /\ UNCHANGED <<gen, runRow>>
    BY <1>1 DEF Worker, WorkStep, CheckFlag, AdmitStage, RefuseStage, CreateStage,
                ExecuteStage, ReadStageFlag, CloseStage, SettleStage, ChargeStage,
                StopFlow, NextStage, WorkFails
  <2> QED
    BY <2>1 DEF Closed
<1>2. CASE Generator
  <2>1. CASE OpenFlow BY <2>1 DEF OpenFlow, Closed
  <2>2. CASE BeginFlow BY <2>2 DEF BeginFlow
  <2>3. CASE StartFlow BY <2>3 DEF StartFlow, Closed
  <2>4. CASE SeeSentinel BY <2>4 DEF SeeSentinel
  <2>5. CASE ReadFlag BY <2>5 DEF ReadFlag
  <2>6. CASE CloseRun BY <2>6, VerdictIsClosed DEF CloseRun
  <2>7. CASE SendResult BY <2>7 DEF SendResult
  <2>8. CASE EndActive BY <2>8 DEF EndActive
  <2>9. CASE Unlock BY <2>9 DEF Unlock
  <2>10. CASE GiveBack BY <2>10 DEF GiveBack
  <2> QED
    BY <1>2, <2>1, <2>2, <2>3, <2>4, <2>5, <2>6, <2>7, <2>8, <2>9, <2>10 DEF Generator
<1>3. CASE RefuseFlow \/ AcquireFlow \/ HangUp
  BY <1>3 DEF RefuseFlow, AcquireFlow, HangUp, Closed
<1>4. CASE RivalBegins \/ RivalEnds \/ \E run \in {"flow", "rival"} : CancelRequest(run)
  BY <1>4 DEF RivalBegins, RivalEnds, CancelRequest
<1>5. CASE UNCHANGED vars BY <1>5 DEF vars
<1> QED
  BY <1>1, <1>2, <1>3, <1>4, <1>5 DEF Next

\* A row is closed by one step only: what that step finds there is never closed.
LEMMA RowsStayStep ==
  ASSUME WorkInv, RunRowInv, [Next]_vars
  PROVE  /\ Closed(runRow) => runRow' = runRow
         /\ \A s \in Stages : Closed(rows[s].status) => rows'[s] = rows[s]
<1> USE SizeAssumption DEF Closed, WorkStep, GenStep, Stages
<1>1. CASE Worker
  <2>1. runRow' = runRow
    BY <1>1 DEF Worker, CheckFlag, AdmitStage, RefuseStage, CreateStage, ExecuteStage,
                ReadStageFlag, CloseStage, SettleStage, ChargeStage, StopFlow, NextStage,
                WorkFails
  <2> SUFFICES ASSUME NEW s \in Stages, Closed(rows[s].status) PROVE rows'[s] = rows[s]
    BY <2>1
  <2> USE DEF WorkInv, TypeOK
  <2>2. CASE CheckFlag
    <3>1. s < at
      <4>1. s # at
        BY <2>2 DEF CheckFlag, CurrentStage, Blank
      <4>2. ~(s > at)
        BY <2>2 DEF CheckFlag
      <4> QED
        BY <4>1, <4>2
    <3> QED
      BY <2>2, <3>1 DEF CheckFlag, Recorded
  <2>3. CASE RefuseStage
    <3>1. s < at
      <4>1. s # at
        BY <2>3 DEF RefuseStage, CurrentStage, Blank
      <4>2. ~(s > at)
        BY <2>3 DEF RefuseStage
      <4> QED
        BY <4>1, <4>2
    <3> QED
      BY <2>3, <3>1 DEF RefuseStage, Recorded
  <2>4. CASE CreateStage
    <3>1. s # at
      BY <2>4 DEF CreateStage, CurrentStage
    <3> QED
      BY <2>4, <3>1 DEF CreateStage
  <2>5. CASE CloseStage
    <3>1. s # at
      BY <2>5 DEF CloseStage, CurrentStage
    <3> QED
      BY <2>5, <3>1 DEF CloseStage
  <2>6. CASE StopFlow
    <3>1. ~(s > at)
      BY <2>6 DEF StopFlow
    <3> QED
      BY <2>6, <3>1 DEF StopFlow, Recorded
  <2>7. CASE AdmitStage \/ ExecuteStage \/ ReadStageFlag \/ SettleStage \/ ChargeStage
             \/ NextStage \/ WorkFails
    BY <2>7 DEF AdmitStage, ExecuteStage, ReadStageFlag, SettleStage, ChargeStage, NextStage,
                WorkFails
  <2> QED
    BY <1>1, <2>2, <2>3, <2>4, <2>5, <2>6, <2>7 DEF Worker
<1>2. CASE Generator
  BY <1>2 DEF Generator, RunRowInv, OpenFlow, BeginFlow, StartFlow, SeeSentinel, ReadFlag,
              CloseRun, SendResult, EndActive, Unlock, GiveBack
<1>3. CASE RefuseFlow \/ AcquireFlow \/ HangUp \/ RivalBegins \/ RivalEnds
           \/ \E run \in {"flow", "rival"} : CancelRequest(run)
  BY <1>3 DEF RefuseFlow, AcquireFlow, HangUp, RivalBegins, RivalEnds, CancelRequest
<1>4. CASE UNCHANGED vars BY <1>4 DEF vars
<1> QED
  BY <1>1, <1>2, <1>3, <1>4 DEF Next

-----------------------------------------------------------------------------
\* What a step of the worker does to the rows, whichever step it is.
LEMMA WorkerRows ==
  ASSUME WorkInv, SlotInv, Worker
  PROVE  /\ UNCHANGED <<gen, runRow, seen, locked, active, rival, accepted, left>>
         /\ work # "finished" /\ work # "none"
<1> QED
  BY DEF Worker, WorkStep, slotVars, otherVars, CheckFlag, AdmitStage, RefuseStage,
         CreateStage, ExecuteStage, ReadStageFlag, CloseStage, SettleStage, ChargeStage,
         StopFlow, NextStage, WorkFails

LEMMA OthersLeaveTheWork ==
  ASSUME [Next]_vars, ~Worker
  PROVE  /\ UNCHANGED <<at, outcome, stopped, raised, rows, charged>>
         /\ work' = work \/ (gen = "response" /\ gen' = "stream" /\ work' = "top")
<1> QED
  BY DEF Next, Generator, GenStep, vars, workVars, bookVars, RefuseFlow, AcquireFlow, OpenFlow,
         BeginFlow, StartFlow, SeeSentinel, ReadFlag, CloseRun, SendResult, EndActive, Unlock,
         GiveBack, HangUp, RivalBegins, RivalEnds, CancelRequest

LEMMA RowInvStep == FlowInv /\ [Next]_vars => RowInv'
<1> SUFFICES ASSUME FlowInv, [Next]_vars PROVE RowInv'
  OBVIOUS
<1> USE DEF FlowInv, VerdictInv
<1>1. CASE ~Worker
  BY <1>1, OthersLeaveTheWork DEF RowInv, Ran
<1>2. CASE Worker
  <2> SUFFICES ASSUME NEW s \in Stages, Ran(s)'
               PROVE  rows'[s].status \in {outcome'[s], "cancelled"}
    BY DEF RowInv
  <2> USE SizeAssumption
      DEF RowInv, WorkInv, TypeOK, CurrentStage, Ran, Blank, Quiet, Closed, Stages, WorkStep
  <2>1. CASE CheckFlag
    <3>1. (outcome[s] # "none" /\ s < at) \/ ~active.cancelled
      BY <2>1 DEF CheckFlag
    <3> QED
      BY <2>1, <3>1 DEF CheckFlag, Recorded, Through
  <2>2. CASE RefuseStage
    <3>1. outcome[s] # "none" /\ s < at
      BY <2>2 DEF RefuseStage
    <3> QED
      BY <2>2, <3>1 DEF RefuseStage, Recorded, Through
  <2>3. CASE CreateStage BY <2>3 DEF CreateStage
  <2>4. CASE ExecuteStage BY <2>4 DEF ExecuteStage
  <2>5. CASE CloseStage BY <2>5 DEF CloseStage
  <2>6. CASE StopFlow
    <3>1. s <= at
      BY <2>6 DEF StopFlow
    <3> QED
      BY <2>6, <3>1 DEF StopFlow, Recorded
  <2>7. CASE AdmitStage \/ ReadStageFlag \/ SettleStage \/ ChargeStage \/ NextStage
             \/ WorkFails
    BY <2>7 DEF AdmitStage, ReadStageFlag, SettleStage, ChargeStage, NextStage, WorkFails
  <2> QED
    BY <1>2, <2>1, <2>2, <2>3, <2>4, <2>5, <2>6, <2>7 DEF Worker
<1> QED
  BY <1>1, <1>2

LEMMA FlagInvStep == FlowInv /\ [Next]_vars => FlagInv'
<1> SUFFICES ASSUME FlowInv, [Next]_vars, gen' \in {"stream", "readFlag"},
                    stopped' \/ SomeRow("cancelled")'
             PROVE  active'.cancelled
  BY DEF FlagInv
<1> USE DEF FlowInv, VerdictInv, FlagInv
<1>1. CASE Worker
  <2>0. gen \in {"stream", "readFlag"} /\ active' = active
    BY <1>1, WorkerRows
  <2> SUFFICES ASSUME ~active.cancelled PROVE FALSE
    BY <2>0
  <2>1. ~stopped /\ ~SomeRow("cancelled")
    BY <2>0
  <2> USE DEF WorkInv, TypeOK, WorkStep, Stages
  <2>2. ~stopped'
    BY <1>1, <2>1 DEF Worker, CheckFlag, AdmitStage, RefuseStage, CreateStage, ExecuteStage,
                ReadStageFlag, CloseStage, SettleStage, ChargeStage, StopFlow, NextStage,
                WorkFails
  <2>3. PICK s \in Stages : rows'[s].status = "cancelled"
    BY <2>2 DEF SomeRow
  <2>4. rows[s].status # "cancelled"
    BY <2>1 DEF SomeRow
  <2>5. CASE CheckFlag BY <2>3, <2>4, <2>5 DEF CheckFlag
  <2>6. CASE RefuseStage BY <2>3, <2>4, <2>6 DEF RefuseStage, Recorded
  <2>7. CASE CreateStage BY <2>3, <2>4, <2>7 DEF CreateStage
  <2>8. CASE CloseStage BY <2>1, <2>3, <2>4, <2>8 DEF CloseStage
  <2>9. CASE StopFlow BY <2>1, <2>3, <2>4, <2>9 DEF StopFlow, Recorded
  <2>10. CASE AdmitStage \/ ExecuteStage \/ ReadStageFlag \/ SettleStage \/ ChargeStage
              \/ NextStage \/ WorkFails
    BY <2>3, <2>4, <2>10
    DEF AdmitStage, ExecuteStage, ReadStageFlag, SettleStage, ChargeStage, NextStage, WorkFails
  <2> QED
    BY <1>1, <2>5, <2>6, <2>7, <2>8, <2>9, <2>10 DEF Worker
<1>2. CASE ~Worker
  <2>1. UNCHANGED <<stopped, rows>>
    BY <1>2, OthersLeaveTheWork
  <2>2. CASE gen \in {"stream", "readFlag"}
    <3>1. active.cancelled /\ rival # "running" /\ locked
      BY <2>1, <2>2 DEF SlotInv, Holding, SomeRow
    <3>2. active' = active \/ active'.cancelled
      <4>1. CASE \E run \in {"flow", "rival"} : CancelRequest(run)
        BY <4>1 DEF CancelRequest, WorkInv, TypeOK
      <4> QED
        BY <1>2, <2>2, <3>1, <4>1
        DEF Next, Generator, GenStep, vars, slotVars, RefuseFlow, AcquireFlow, OpenFlow,
            BeginFlow, StartFlow, SeeSentinel, ReadFlag, CloseRun, SendResult, EndActive,
            Unlock, GiveBack, HangUp, RivalBegins, RivalEnds
    <3> QED
      BY <3>1, <3>2
  <2>3. CASE gen \notin {"stream", "readFlag"}
    <3>1. gen = "response" /\ work = "none"
      BY <1>2, <2>3
      DEF SlotInv, Next, Generator, GenStep, vars, RefuseFlow, AcquireFlow, OpenFlow,
          BeginFlow, StartFlow, SeeSentinel, ReadFlag, CloseRun, SendResult, EndActive,
          Unlock, GiveBack, HangUp, RivalBegins, RivalEnds, CancelRequest
    <3>2. ~stopped /\ \A s \in Stages : rows[s].status = "none"
      BY <3>1, SizeAssumption DEF SlotInv, WorkInv, TypeOK, CurrentStage, Blank, Stages
    <3> QED
      BY <2>1, <3>2 DEF SomeRow
  <2> QED
    BY <2>2, <2>3
<1> QED
  BY <1>1, <1>2

LEMMA SeenInvStep == FlowInv /\ [Next]_vars => SeenInv'
<1> SUFFICES ASSUME FlowInv, [Next]_vars, gen' = "closeRun"
             PROVE  (seen' => "flow" \in accepted') /\ (~seen' => ~SomeRow("cancelled")')
  BY DEF SeenInv
<1> USE DEF FlowInv, VerdictInv, SeenInv
<1>1. gen \in {"readFlag", "closeRun"} /\ ~Worker
  <2>1. Worker => gen' = gen /\ work # "finished"
    <3> SUFFICES ASSUME Worker PROVE gen' = gen /\ work # "finished"
      OBVIOUS
    <3> QED
      BY WorkerRows
  <2>2. gen = "closeRun" \/ gen = "readFlag"
    BY <2>1 DEF Next, Generator, GenStep, vars, RefuseFlow, AcquireFlow, OpenFlow,
          BeginFlow, StartFlow, SeeSentinel, ReadFlag, CloseRun, SendResult, EndActive,
          Unlock, GiveBack, HangUp, RivalBegins, RivalEnds, CancelRequest
  <2> QED
    BY <2>1, <2>2 DEF RunRowInv
<1>2. rows' = rows
  BY <1>1, OthersLeaveTheWork
<1>3. CASE ReadFlag
  BY <1>2, <1>3 DEF ReadFlag, GenStep, FlagInv, SomeRow, SlotInv, Named, otherVars
<1>4. CASE ~ReadFlag
  <2>1. gen = "closeRun" /\ seen' = seen /\ accepted \subseteq accepted'
    BY <1>1, <1>4
    DEF Next, Generator, GenStep, vars, otherVars, RefuseFlow, AcquireFlow, OpenFlow,
        BeginFlow, StartFlow, SeeSentinel, CloseRun, SendResult, EndActive,
        Unlock, GiveBack, HangUp, RivalBegins, RivalEnds, CancelRequest
  <2> QED
    BY <1>2, <2>1 DEF SomeRow
<1> QED
  BY <1>3, <1>4

LEMMA EndInvStep == FlowInv /\ [Next]_vars => EndInv'
<1> SUFFICES ASSUME FlowInv, [Next]_vars, work' = "finished", ~raised'
             PROVE  /\ \A s \in Stages : Closed(rows'[s].status)
                    /\ charged' = Stages \/ SomeRow("failed")' \/ SomeRow("cancelled")'
  BY DEF EndInv
<1> USE DEF FlowInv, VerdictInv, EndInv
<1>1. CASE ~Worker
  <2>1. UNCHANGED <<work, raised, rows, charged>>
    BY <1>1, OthersLeaveTheWork
  <2> QED
    BY <2>1 DEF SomeRow
<1>2. CASE Worker
  <2> USE SizeAssumption
      DEF WorkInv, TypeOK, CurrentStage, Ran, Blank, Quiet, Closed, Stages, WorkStep, Through
  <2>1. CASE CheckFlag
    <3>1. \A s \in Stages : rows'[s].status = IF s >= at THEN "cancelled" ELSE rows[s].status
      BY <2>1 DEF CheckFlag, Recorded
    <3>2. SomeRow("cancelled")'
      BY <3>1 DEF SomeRow
    <3>3. \A s \in Stages : Closed(rows'[s].status)
      <4> SUFFICES ASSUME NEW s \in Stages PROVE Closed(rows'[s].status)
        OBVIOUS
      <4>1. CASE s >= at
        BY <3>1, <4>1
      <4>2. CASE s < at
        BY <3>1, <4>2
      <4> QED
        BY <4>1, <4>2
    <3> QED
      BY <3>2, <3>3
  <2>2. CASE RefuseStage
    <3>1. \A s \in Stages : rows'[s].status =
            IF s = at THEN "failed" ELSE IF s > at THEN "skipped" ELSE rows[s].status
      BY <2>2 DEF RefuseStage, Recorded
    <3>2. SomeRow("failed")'
      BY <3>1 DEF SomeRow
    <3>3. \A s \in Stages : Closed(rows'[s].status)
      <4> SUFFICES ASSUME NEW s \in Stages PROVE Closed(rows'[s].status)
        OBVIOUS
      <4>1. CASE s = at
        BY <3>1, <4>1
      <4>2. CASE s > at
        BY <3>1, <4>2
      <4>3. CASE s < at
        BY <3>1, <4>3
      <4> QED
        BY <4>1, <4>2, <4>3
    <3> QED
      BY <3>2, <3>3
  <2>3. CASE StopFlow
    <3>1. /\ work = "decide" /\ (stopped \/ outcome[at] = "failed")
          /\ \A s \in Stages :
               \/ s <= at /\ rows'[s].status = rows[s].status
               \/ s > at /\ rows'[s].status \in {"cancelled", "skipped"}
      BY <2>3 DEF StopFlow, StopsHere, Recorded
    <3>2. /\ at \in Stages
          /\ Ran(at)
          /\ rows[at].status = IF stopped THEN "cancelled" ELSE outcome[at]
      BY <3>1
    <3>3. rows'[at].status \in {"cancelled", "failed"}
      BY <3>1, <3>2
    <3>4. \A s \in Stages : Closed(rows'[s].status)
      <4> SUFFICES ASSUME NEW s \in Stages PROVE Closed(rows'[s].status)
        OBVIOUS
      <4>1. CASE s > at
        BY <3>1, <4>1
      <4>2. CASE s = at
        BY <3>3, <4>2
      <4>3. CASE s < at
        <5>1. rows'[s].status = rows[s].status
          BY <3>1, <4>3
        <5>2. Through(s)
          BY <4>3
        <5> QED
          BY <5>1, <5>2
      <4> QED
        BY <4>1, <4>2, <4>3
    <3> QED
      BY <3>2, <3>3, <3>4 DEF SomeRow
  <2>4. CASE NextStage
    <3>1. work = "decide" /\ at = N /\ UNCHANGED <<rows, charged>>
      BY <2>4 DEF NextStage, bookVars
    <3>2. \A s \in Stages : Through(s)
      BY <3>1
    <3>3. charged = Stages
      BY <3>2
    <3> QED
      BY <3>1, <3>2, <3>3
  <2>5. CASE WorkFails BY <2>5 DEF WorkFails
  <2>6. CASE AdmitStage \/ CreateStage \/ ExecuteStage \/ ReadStageFlag \/ CloseStage
             \/ SettleStage \/ ChargeStage
    BY <2>6 DEF AdmitStage, CreateStage, ExecuteStage, ReadStageFlag, CloseStage, SettleStage,
                ChargeStage
  <2> QED
    BY <1>2, <2>1, <2>2, <2>3, <2>4, <2>5, <2>6 DEF Worker
<1> QED
  BY <1>1, <1>2

LEMMA AddsUpStep == FlowInv /\ [Next]_vars => FlowAddsUp'
<1> SUFFICES ASSUME FlowInv, [Next]_vars PROVE FlowAddsUp'
  OBVIOUS
<1> USE DEF FlowInv, VerdictInv
<1>1. CASE gen = "closeRun" /\ CloseRun /\ runRow' = Verdict
  <2>0. work = "finished" /\ ~Worker
    BY <1>1, WorkerRows DEF RunRowInv
  <2>1. UNCHANGED <<outcome, raised, rows, charged, seen, accepted>>
    BY <1>1 DEF CloseRun, workVars, bookVars, otherVars
  <2>2. ~seen => ~SomeRow("cancelled")
    BY <1>1 DEF SeenInv
  <2>3. raised \/ \A s \in Stages : Closed(rows[s].status)
    BY <2>0 DEF EndInv
  <2>4. ASSUME ~seen, OverallSuccess, NEW s \in Stages
        PROVE  Executed(s) /\ rows[s].status = outcome[s]
    <3>1. Ran(s)
      BY <2>4 DEF OverallSuccess, WorkInv, CurrentStage, TypeOK, Stages, Through, Quiet
    <3> QED
      BY <2>2, <2>4, <3>1 DEF RowInv, SomeRow, Executed, Ran
  <2>5. ASSUME ~seen, ~OverallSuccess, ~raised PROVE SomeRow("failed")
    <3>1. CASE charged = Stages
      <4>1. PICK s \in Stages : outcome[s] = "failed"
        BY <2>5, <3>1 DEF OverallSuccess
      <4>2. Ran(s)
        BY <3>1 DEF WorkInv, CurrentStage, TypeOK, Stages, Through, Quiet
      <4> QED
        BY <2>2, <2>5, <4>1, <4>2 DEF RowInv, SomeRow
    <3>2. CASE charged # Stages
      BY <2>0, <2>2, <2>5, <3>2 DEF EndInv
    <3> QED
      BY <3>1, <3>2
  <2>6. seen => "flow" \in accepted
    BY <1>1 DEF SeenInv
  <2> QED
    BY <1>1, <2>1, <2>3, <2>4, <2>5, <2>6 DEF FlowAddsUp, Verdict, SomeRow, Executed
<1>2. CASE runRow' = runRow \/ ~Closed(runRow')
  <2> SUFFICES ASSUME Closed(runRow), runRow' = runRow PROVE FlowAddsUp'
    BY <1>2 DEF FlowAddsUp
  <2>1. ~Worker
    BY WorkerRows DEF RunRowInv
  <2>2. UNCHANGED <<outcome, raised, rows>>
    BY <2>1, OthersLeaveTheWork
  <2>3. accepted \subseteq accepted'
    BY <2>1 DEF Next, Generator, vars, otherVars, RefuseFlow, AcquireFlow, OpenFlow,
        BeginFlow, StartFlow, SeeSentinel, ReadFlag, CloseRun, SendResult, EndActive,
        Unlock, GiveBack, HangUp, RivalBegins, RivalEnds, CancelRequest
  <2> QED
    BY <2>2, <2>3 DEF FlowAddsUp, Executed
<1>3. \/ runRow' = runRow
      \/ ~Closed(runRow')
      \/ gen = "closeRun" /\ CloseRun /\ runRow' = Verdict
  <2>1. CASE Worker
    <3>1. runRow' = runRow
      BY <2>1, WorkerRows
    <3> QED
      BY <3>1
  <2>2. CASE CloseRun
    BY <2>2 DEF CloseRun
  <2>3. CASE ~Worker /\ ~CloseRun
    BY <2>3 DEF Closed, Next, Generator, vars, RefuseFlow, AcquireFlow, OpenFlow,
        BeginFlow, StartFlow, SeeSentinel, ReadFlag, SendResult, EndActive,
        Unlock, GiveBack, HangUp, RivalBegins, RivalEnds, CancelRequest
  <2> QED
    BY <2>1, <2>2, <2>3
<1> QED
  BY <1>1, <1>2, <1>3

-----------------------------------------------------------------------------
(* The theorems.                                                           *)

\* Nothing the route, its threads or its neighbours do leaves the types.
THEOREM FlowTypes == Spec => []TypeOK
<1>1. Init => TypeOK
  BY FlowInit
<1>2. TypeOK /\ [Next]_vars => TypeOK'
  BY FlowTypeStep
<1> QED
  BY <1>1, <1>2, PTL DEF Spec

LEMMA WorkerInvariant == Spec => [](WorkInv /\ SlotInv)
<1>1. Init => WorkInv /\ SlotInv
  BY WorkInvInit, SlotInvInit
<1>2. WorkInv /\ SlotInv /\ [Next]_vars => (WorkInv /\ SlotInv)'
  BY WorkInvStep, SlotInvStep DEF WorkInv
<1> QED
  BY <1>1, <1>2, PTL DEF Spec

\* Stages are recorded and executed in order, however the flow ends.
THEOREM StagesAreInOrder == Spec => []StagesInOrder
<1>1. WorkInv => StagesInOrder
  <2> SUFFICES ASSUME WorkInv, NEW s \in Stages, NEW t \in Stages, s < t
               PROVE  /\ rows[t].status # "none" => Closed(rows[s].status)
                      /\ Executed(t) => Executed(s)
    BY DEF StagesInOrder
  <2> USE SizeAssumption DEF WorkInv, TypeOK, Stages, Executed
  <2>1. CASE t <= at
    BY <2>1 DEF Through, Ran
  <2>2. CASE t > at /\ s < at
    BY <2>2 DEF Through, Ran
  <2>3. CASE t > at /\ s >= at
    BY <2>3 DEF Quiet
  <2> QED
    BY <2>1, <2>2, <2>3
<1> QED
  BY <1>1, WorkerInvariant, PTL

\* A flow never holds credit for two stages, and charges only what it closed.
THEOREM OneHoldOnly == Spec => []OneHoldAtATime
<1>1. WorkInv => OneHoldAtATime
  BY SizeAssumption
  DEF WorkInv, TypeOK, Stages, OneHoldAtATime, Executed, Through, Ran, Quiet, CurrentStage, Closed
<1> QED
  BY <1>1, WorkerInvariant, PTL

\* What is closed is never written again, whoever leaves, fails or cancels.
THEOREM ClosedIsFinal == Spec => RowsAreFinal
<1>1. Init => WorkInv /\ SlotInv /\ RunRowInv
  BY WorkInvInit, SlotInvInit, RunRowInvInit
<1>2. WorkInv /\ SlotInv /\ RunRowInv /\ [Next]_vars => (WorkInv /\ SlotInv /\ RunRowInv)'
  BY WorkInvStep, SlotInvStep, RunRowInvStep DEF WorkInv
<1>3. WorkInv /\ RunRowInv /\ [Next]_vars =>
        [/\ Closed(runRow) => runRow' = runRow
         /\ \A s \in Stages : Closed(rows[s].status) => rows'[s] = rows[s]]_<<rows, runRow>>
  BY RowsStayStep
<1> QED
  BY <1>1, <1>2, <1>3, PTL DEF Spec, RowsAreFinal

\* A closed execution has no stage that looks pending and a verdict its rows bear out.
THEOREM VerdictAddsUp == Spec => []FlowAddsUp
<1>1. Init => FlowInv
  <2>1. Init => FlagInv /\ SeenInv /\ RowInv /\ EndInv /\ FlowAddsUp
    BY DEF Init, FlagInv, SeenInv, RowInv, EndInv, FlowAddsUp, Ran, Closed
  <2> QED
    BY <2>1, WorkInvInit, SlotInvInit, RunRowInvInit DEF FlowInv, VerdictInv
<1>2. FlowInv /\ [Next]_vars => FlowInv'
  <2> SUFFICES ASSUME FlowInv, [Next]_vars PROVE FlowInv'
    OBVIOUS
  <2>1. WorkInv' /\ SlotInv' /\ RunRowInv'
    BY WorkInvStep, SlotInvStep, RunRowInvStep DEF FlowInv, WorkInv
  <2>2. FlagInv' /\ SeenInv' /\ RowInv' /\ EndInv' /\ FlowAddsUp'
    BY FlagInvStep, SeenInvStep, RowInvStep, EndInvStep, AddsUpStep
  <2> QED
    BY <2>1, <2>2 DEF FlowInv, VerdictInv
<1>3. FlowInv => FlowAddsUp
  BY DEF FlowInv
<1> QED
  BY <1>1, <1>2, <1>3, PTL DEF Spec

-----------------------------------------------------------------------------
(* Whose a recorded stage is. Only the row of the stage in progress changes  *)
(* its status, and it was created under the stage's own identity.            *)

Owned(s) ==
  \/ rows[s].job = StageJobId[s]
  \/ rows[s] = [status |-> "skipped", job |-> "nobody"] /\ Owner[s] = "file"

LEMMA OwnedStep ==
  ASSUME WorkInv, RowsKeepTheirJob, [Next]_vars, NEW s \in Stages, rows'[s].status # "none"
  PROVE  Owned(s)'
<1> USE SizeAssumption, OwnerAssumption DEF WorkStep, Stages, Owned
<1>1. CASE rows' = rows
  BY <1>1 DEF RowsKeepTheirJob, StageJobId
<1>2. CASE CheckFlag
  BY <1>2 DEF CheckFlag, Recorded, RowsKeepTheirJob, StageJobId, WorkInv, TypeOK
<1>3. CASE RefuseStage
  BY <1>3 DEF RefuseStage, Recorded, RowsKeepTheirJob, StageJobId, WorkInv, TypeOK
<1>4. CASE CreateStage
  BY <1>4 DEF CreateStage, RowsKeepTheirJob, StageJobId, WorkInv, TypeOK
<1>5. CASE CloseStage
  <2>1. CASE s = at
    <3>1. rows[s].status = "running"
      BY <1>5, <2>1 DEF CloseStage, WorkInv, CurrentStage
    <3>2. rows[s].job = StageJobId[s]
      BY <3>1 DEF RowsKeepTheirJob
    <3>3. rows'[s].job = rows[s].job
      BY <1>5, <2>1 DEF CloseStage, WorkInv, TypeOK
    <3> QED
      BY <3>2, <3>3 DEF StageJobId
  <2>2. CASE s # at
    <3>1. rows'[s] = rows[s]
      BY <1>5, <2>2 DEF CloseStage, WorkInv, TypeOK
    <3> QED
      BY <3>1 DEF RowsKeepTheirJob, StageJobId
  <2> QED
    BY <2>1, <2>2
<1>6. CASE StopFlow
  <2>1. CASE stopped
    BY <1>6, <2>1 DEF StopFlow, Recorded, RowsKeepTheirJob, StageJobId, WorkInv, TypeOK
  <2>2. CASE ~stopped /\ s < at + 1
    <3>1. rows'[s] = rows[s]
      BY <1>6, <2>2 DEF StopFlow, Recorded, WorkInv, TypeOK
    <3> QED
      BY <3>1 DEF RowsKeepTheirJob, StageJobId
  <2>3. CASE ~stopped /\ ~(s < at + 1)
    <3>1. rows'[s] = [status |-> "skipped", job |-> JobOnly[s]]
      BY <1>6, <2>3 DEF StopFlow, Recorded, WorkInv, TypeOK
    <3>2. JobOnly[s] = IF Owner[s] = "job" THEN "job" ELSE "nobody"
      BY DEF JobOnly
    <3> QED
      BY <3>1, <3>2 DEF StageJobId
  <2> QED
    BY <2>1, <2>2, <2>3 DEF WorkInv, TypeOK
<1> QED
  BY <1>1, <1>2, <1>3, <1>4, <1>5, <1>6
  DEF Next, Worker, Generator, AdmitStage, ExecuteStage, ReadStageFlag, SettleStage,
      ChargeStage, NextStage, WorkFails, OpenFlow, BeginFlow, StartFlow, SeeSentinel,
      ReadFlag, CloseRun, SendResult, EndActive, Unlock, GiveBack, RefuseFlow,
      AcquireFlow, HangUp, RivalBegins, RivalEnds, CancelRequest, vars, workVars,
      otherVars

\* A recorded stage belongs to its Job or to its file; only a file skipped behind a
\* failure is nobody's.
THEOREM RowsHaveOwners == Spec => []RowsKeepTheirJob
<1>1. Init => WorkInv /\ RowsKeepTheirJob
  BY WorkInvInit DEF Init, RowsKeepTheirJob
<1>2. WorkInv /\ RowsKeepTheirJob /\ [Next]_vars => RowsKeepTheirJob'
  BY OwnedStep DEF RowsKeepTheirJob, Owned, Stages, StageJobId
<1> QED
  BY <1>1, <1>2, WorkerInvariant, PTL DEF Spec

\* The rows, the holds and the verdict of a flow tell what became of it.
THEOREM HistoryIsTrue == Spec => []HistoryTellsTheFlow
<1>1. StagesInOrder /\ OneHoldAtATime /\ FlowAddsUp /\ RowsKeepTheirJob
        => HistoryTellsTheFlow
  BY DEF HistoryTellsTheFlow
<1> QED
  BY <1>1, StagesAreInOrder, OneHoldOnly, VerdictAddsUp, RowsHaveOwners, PTL

-----------------------------------------------------------------------------
(***************************************************************************)
(* Cancellation. While the client listens, a worker that is under way has  *)
(* its generator waiting, so the shared flag is this flow's own: up once   *)
(* its cancellation was accepted, and never for anybody else. A client     *)
(* that left takes the name away, and the worker asks a stranger's flag.   *)
(***************************************************************************)
AtWork == work \notin {"none", "finished"}

HeardInv ==
  /\ AtWork /\ ~left => gen = "stream"
  /\ "flow" \in accepted => gen \notin {"idle", "refused", "open", "broken", "begin"}
  /\ "flow" \in accepted /\ gen \in Named => active.cancelled
  /\ stopped \/ SomeRow("cancelled") => "flow" \in accepted \/ left

LEMMA HeardInit == Init => HeardInv
<1> SUFFICES ASSUME Init PROVE HeardInv
  OBVIOUS
<1>1. ~stopped
  BY Zenon DEF Init
<1> QED
  BY <1>1 DEF Init, HeardInv, AtWork, SomeRow

LEMMA HeardStep ==
  ASSUME WorkInv, SlotInv, HeardInv, [Next]_vars
  PROVE  HeardInv'
<1>1. CASE Worker
  <2>1. UNCHANGED <<gen, active, accepted, left>> /\ AtWork
    BY <1>1, WorkerRows DEF AtWork
  <2>2. ~left /\ active.cancelled => "flow" \in accepted
    BY <2>1 DEF HeardInv, SlotInv, Named
  <2>3. stopped' => stopped \/ active.cancelled
    BY <1>1 DEF Worker, CheckFlag, AdmitStage, RefuseStage, CreateStage, ExecuteStage,
                ReadStageFlag, CloseStage, SettleStage, ChargeStage, StopFlow, NextStage,
                WorkFails
  <2>4. ASSUME NEW s \in Stages, rows'[s].status = "cancelled"
        PROVE  rows[s].status = "cancelled" \/ stopped \/ active.cancelled
    <3> USE DEF WorkInv, TypeOK, Stages
    <3>1. CASE CheckFlag BY <2>4, <3>1 DEF CheckFlag
    <3>2. CASE RefuseStage BY <2>4, <3>2 DEF RefuseStage, Recorded
    <3>3. CASE CreateStage BY <2>4, <3>3 DEF CreateStage
    <3>4. CASE CloseStage BY <2>4, <3>4 DEF CloseStage
    <3>5. CASE StopFlow BY <2>4, <3>5 DEF StopFlow, Recorded
    <3>6. CASE AdmitStage \/ ExecuteStage \/ ReadStageFlag \/ SettleStage \/ ChargeStage
               \/ NextStage \/ WorkFails
      BY <2>4, <3>6 DEF AdmitStage, ExecuteStage, ReadStageFlag, SettleStage, ChargeStage,
                        NextStage, WorkFails
    <3> QED
      BY <1>1, <3>1, <3>2, <3>3, <3>4, <3>5, <3>6 DEF Worker
  <2>5. stopped' \/ SomeRow("cancelled")' => "flow" \in accepted \/ left
    BY <2>2, <2>3, <2>4 DEF HeardInv, SomeRow
  <2> QED
    BY <2>1, <2>5 DEF HeardInv, AtWork
<1>2. CASE ~Worker
  <2>1. UNCHANGED <<stopped, rows>>
    BY <1>2, OthersLeaveTheWork
  <2>2. "flow" \in accepted => "flow" \in accepted'
    BY <1>2 DEF Next, Generator, vars, otherVars, RefuseFlow, AcquireFlow, OpenFlow,
        BeginFlow, StartFlow, SeeSentinel, ReadFlag, CloseRun, SendResult, EndActive,
        Unlock, GiveBack, HangUp, RivalBegins, RivalEnds, CancelRequest
  <2>3. left => left'
    BY <1>2 DEF Next, Generator, vars, RefuseFlow, AcquireFlow, OpenFlow,
        BeginFlow, StartFlow, SeeSentinel, ReadFlag, CloseRun, SendResult, EndActive,
        Unlock, GiveBack, HangUp, RivalBegins, RivalEnds, CancelRequest
  <2>4. AtWork' /\ ~left' => gen' = "stream"
    BY <1>2 DEF Next, Generator, GenStep, vars, workVars, RefuseFlow, AcquireFlow, OpenFlow,
        BeginFlow, StartFlow, SeeSentinel, ReadFlag, CloseRun, SendResult, EndActive,
        Unlock, GiveBack, HangUp, RivalBegins, RivalEnds, CancelRequest,
        HeardInv, SlotInv, AtWork
  <2>5. "flow" \in accepted' => gen' \notin {"idle", "refused", "open", "broken", "begin"}
    BY <1>2 DEF Next, Generator, GenStep, vars, otherVars, RefuseFlow, AcquireFlow, OpenFlow,
        BeginFlow, StartFlow, SeeSentinel, ReadFlag, CloseRun, SendResult, EndActive,
        Unlock, GiveBack, HangUp, RivalBegins, RivalEnds, CancelRequest,
        HeardInv, SlotInv, Named
  <2>6. ASSUME "flow" \in accepted', gen' \in Named PROVE active'.cancelled
    <3>1. ASSUME NEW run \in {"flow", "rival"}, CancelRequest(run) PROVE active'.cancelled
      BY <3>1 DEF CancelRequest, WorkInv, TypeOK
    <3>2. CASE \A run \in {"flow", "rival"} : ~CancelRequest(run)
      <4>1. "flow" \in accepted /\ gen \in Named
        BY <1>2, <2>6, <3>2 DEF Next, Generator, GenStep, vars, otherVars, RefuseFlow, AcquireFlow, OpenFlow,
          BeginFlow, StartFlow, SeeSentinel, ReadFlag, CloseRun, SendResult, EndActive,
          Unlock, GiveBack, HangUp, RivalBegins, RivalEnds, HeardInv, Named
      <4>2. active' = active
        BY <1>2, <2>6, <3>2, <4>1 DEF Next, Generator, GenStep, vars, slotVars, RefuseFlow, AcquireFlow,
          OpenFlow, BeginFlow, StartFlow, SeeSentinel, ReadFlag, CloseRun, SendResult, EndActive,
          Unlock, GiveBack, HangUp, RivalBegins, RivalEnds, SlotInv, Named, Holding
      <4> QED
        BY <4>1, <4>2 DEF HeardInv
    <3> QED
      BY <3>1, <3>2
  <2> QED
    BY <2>1, <2>2, <2>3, <2>4, <2>5, <2>6 DEF HeardInv, SomeRow
<1> QED
  BY <1>1, <1>2

\* A cancellation that was accepted stops the flow at its next stage while the client
\* listens, and no row says "cancelled" unless this flow's own cancellation was accepted
\* or its client left.
THEOREM CancelIsHeard == Spec => CancelReachesItsFlow
<1>1. WorkInv /\ SlotInv /\ HeardInv /\ [Next]_vars => HeardInv'
  BY HeardStep
<1>2. HeardInv => CancelTouchesOnlyItsRun
  BY DEF HeardInv, CancelTouchesOnlyItsRun, SomeRow
<1>3. SlotInv /\ HeardInv /\ [Next]_vars =>
        [work = "top" /\ "flow" \in accepted /\ ~left => work' # "admit"]_work
  <2> SUFFICES ASSUME SlotInv, HeardInv, [Next]_vars, work = "top", "flow" \in accepted, ~left
               PROVE  work' # "admit"
    OBVIOUS
  <2>1. active.cancelled
    BY DEF HeardInv, AtWork, Named
  <2> QED
    BY <2>1 DEF Next, Worker, Generator, WorkStep, GenStep, vars, workVars, CheckFlag, AdmitStage,
        RefuseStage, CreateStage, ExecuteStage, ReadStageFlag, CloseStage, SettleStage,
        ChargeStage, StopFlow, NextStage, WorkFails, RefuseFlow, AcquireFlow, OpenFlow,
        BeginFlow, StartFlow, SeeSentinel, ReadFlag, CloseRun, SendResult, EndActive,
        Unlock, GiveBack, HangUp, RivalBegins, RivalEnds, CancelRequest
<1> QED
  BY <1>1, <1>2, <1>3, HeardInit, WorkerInvariant, PTL
  DEF Spec, CancelReachesItsFlow, CancelStopsTheFlow

-----------------------------------------------------------------------------
(* What next_fire answers.                                                  *)

\* The intervals 0..x with x in T are finite sets, and inclusion between finite sets is
\* well-founded: the smallest of them belongs to the least element of T.
LEMMA LeastNatural ==
  ASSUME NEW T, T \subseteq Nat, T # {}
  PROVE  \E x \in T : \A y \in T : x <= y
<1> DEFINE Below == {0..x : x \in T}
<1>1. Below \subseteq FiniteSubsetsOf(Nat)
  <2>1. \A x \in T : IsFiniteSet(0..x) /\ 0..x \in SUBSET Nat
    BY FS_Interval
  <2> QED
    BY <2>1 DEF FiniteSubsetsOf
<1>2. Below # {}
  OBVIOUS
<1>3. PICK B \in Below : \A C \in Below : ~ (<<C, B>> \in StrictSubsetOrdering(Nat))
  BY <1>1, <1>2, WFMin, FS_StrictSubsetOrderingWellFounded
<1>4. PICK x \in T : B = 0..x
  OBVIOUS
<1>5. ASSUME NEW y \in T, y < x PROVE FALSE
  <2>1. 0..y \in Below /\ 0..y \in SUBSET Nat /\ 0..x \in SUBSET Nat
    BY <1>5
  <2>2. 0..y \subseteq 0..x /\ x \in 0..x /\ x \notin 0..y
    BY <1>5
  <2>3. <<0..y, 0..x>> \in StrictSubsetOrdering(Nat)
    BY <2>1, <2>2 DEF StrictSubsetOrdering
  <2> QED
    BY <1>3, <1>4, <2>1, <2>3
<1> QED
  BY <1>5

-----------------------------------------------------------------------------
LEMMA MinOfNaturals ==
  ASSUME NEW T, T \subseteq Nat, T # {}
  PROVE  Min(T) \in T /\ \A y \in T : Min(T) <= y
BY LeastNatural DEF Min

LEMMA LargestOffset ==
  ASSUME NEW a \in Int, NEW b \in Int
  PROVE  Max({a, b}) = IF a >= b THEN a ELSE b
BY DEF Max

\* The clock of the k-th schedule: known from instant 0 on, with its one change.
ClockIs(k) ==
  /\ Cron[k] \subseteq Nat
  /\ Zone[k].before \in Int /\ Zone[k].after \in Int /\ Zone[k].at \in Nat
  /\ Zone[k].before - Zone[k].after <= Zone[k].at

LEMMA Division ==
  ASSUME NEW t \in Nat
  PROVE  /\ t \div Minute \in Nat
         /\ Minute * (t \div Minute) <= t
         /\ t < Minute * (t \div Minute + 1)
BY MinuteAssumption

\* An instant on the minute is that minute's beginning.
LEMMA OnTheMinute ==
  ASSUME NEW t \in Nat, t % Minute = 0
  PROVE  t = Minute * (t \div Minute)
BY MinuteAssumption

\* A later minute begins after t.
LEMMA LaterMinute ==
  ASSUME NEW t \in Nat, NEW m \in Int, m > t \div Minute
  PROVE  Minute * m > t
<1>1. Minute * m >= Minute * (t \div Minute + 1)
  BY Division, MinuteAssumption
<1> QED
  BY <1>1, Division, MinuteAssumption

\* A wall minute becomes one minute of UTC, its first showing.
LEMMA InstantIs ==
  ASSUME NEW k, ClockIs(k), NEW w \in Int
  PROVE  \E m \in Int :
           /\ Instant(k, w) = Minute * m /\ Instant(k, w) \in Int
           /\ Instant(k, w) \div Minute = m
           /\ \/ w < Zone[k].at + Zone[k].before /\ m = w - Zone[k].before
              \/ w < Zone[k].at + Zone[k].after /\ m = w - Zone[k].before
              \/ /\ w >= Zone[k].at + Zone[k].before /\ w >= Zone[k].at + Zone[k].after
                 /\ m = w - Zone[k].after
<1> DEFINE before == Zone[k].before
           after == Zone[k].after
           change == Zone[k].at + Max({before, after})
           m == w - (IF w < change THEN before ELSE after)
<1>1. before \in Int /\ after \in Int /\ Zone[k].at \in Nat BY DEF ClockIs
<1>2. Max({before, after}) = IF before >= after THEN before ELSE after BY <1>1, LargestOffset
<1>3. m \in Int /\ Instant(k, w) = Minute * m BY <1>1 DEF Instant
<1>4. \/ w < Zone[k].at + before /\ m = w - before
      \/ w < Zone[k].at + after /\ m = w - before
      \/ w >= Zone[k].at + before /\ w >= Zone[k].at + after /\ m = w - after
  BY <1>1, <1>2
<1> HIDE DEF m
<1>5. Minute * m \in Int /\ (Minute * m) \div Minute = m BY <1>3, MinuteAssumption
<1> QED BY <1>3, <1>4, <1>5

LEMMA NextFireIsTime ==
  ASSUME NEW k, ClockIs(k), NEW t \in Int
  PROVE  next_fire(k, t) \in Int
<1> DEFINE later == {w \in Cron[k] : w > Wall(k, t)}
<1>1. CASE later = {} BY <1>1 DEF next_fire, Nothing
<1>2. CASE later # {}
  <2>1. Min(later) \in Int BY <1>2, MinOfNaturals DEF ClockIs
  <2>2. next_fire(k, t) = Instant(k, Min(later)) BY <1>2 DEF next_fire
  <2> QED BY <2>1, <2>2, InstantIs
<1> QED BY <1>1, <1>2

(* What next_fire answers is later than the instant it is asked about, as   *)
(* its docstring says, unless the clock shows the minute of that instant a  *)
(* second time; and it is itself a first showing.  Any cron expression, any *)
(* clock with one change.                                                   *)
THEOREM NextFireIsLater ==
  ASSUME NEW k, ClockIs(k), NEW t \in Nat, next_fire(k, t) # Nothing
  PROVE  /\ next_fire(k, t) \in Nat
         /\ next_fire(k, t) > t \/ Repeated(k, t)
         /\ ~ Repeated(k, next_fire(k, t))
<1> DEFINE later == {w \in Cron[k] : w > Wall(k, t)}
           m     == t \div Minute
           next  == Min(later)
           r     == next_fire(k, t)
<1>1. later # {} BY DEF next_fire
<1>2. next \in Nat /\ next > Wall(k, t) BY <1>1, MinOfNaturals DEF ClockIs
<1>3. r = Instant(k, next) BY <1>1 DEF next_fire
<1>4. m \in Nat BY Division
<1> HIDE DEF next, r
<1>5. PICK n \in Int :
        /\ r = Minute * n /\ r \in Int /\ r \div Minute = n
        /\ \/ next < Zone[k].at + Zone[k].before /\ n = next - Zone[k].before
           \/ next < Zone[k].at + Zone[k].after /\ n = next - Zone[k].before
           \/ /\ next >= Zone[k].at + Zone[k].before /\ next >= Zone[k].at + Zone[k].after
              /\ n = next - Zone[k].after
  BY <1>2, <1>3, InstantIs
<1>6. /\ Zone[k].before \in Int /\ Zone[k].after \in Int /\ Zone[k].at \in Nat
      /\ Zone[k].before - Zone[k].after <= Zone[k].at
  BY DEF ClockIs
<1>7. Wall(k, t) = m + (IF m < Zone[k].at THEN Zone[k].before ELSE Zone[k].after) BY DEF Wall
<1>8. n > m \/ Repeated(k, t)
  BY <1>2, <1>4, <1>5, <1>6, <1>7 DEF Repeated
<1>9. n \in Nat
  BY <1>2, <1>4, <1>5, <1>6, <1>7
<1>10. r \in Nat BY <1>5, <1>9, MinuteAssumption
<1>11. n > m => r > t BY <1>4, <1>5, LaterMinute
<1>12. ~ Repeated(k, r)
  <2>1. Wall(k, r) = n + (IF n < Zone[k].at THEN Zone[k].before ELSE Zone[k].after) BY <1>5 DEF Wall
  <2> QED BY <2>1, <1>2, <1>5, <1>6, <1>9 DEF Repeated
<1> QED BY <1>8, <1>10, <1>11, <1>12 DEF r

\* With a fixed offset it is the very next occurrence: no instant between t and it, or
\* after t if there is none, shows a minute the schedule means.
THEOREM NextFireSkipsNothing ==
  ASSUME NEW k, NEW t \in Nat, NEW o \in Nat,
         ClockIs(k), Zone[k].before = Zone[k].after,
         o > t, o % Minute = 0, Wall(k, o) \in Cron[k]
  PROVE  next_fire(k, t) # Nothing /\ next_fire(k, t) <= o
<1> DEFINE offset == Zone[k].after
           later  == {w \in Cron[k] : w > Wall(k, t)}
           w      == Min(later)
<1>1. offset \in Int /\ Zone[k].at \in Nat /\ Max({Zone[k].before, Zone[k].after}) = offset
  BY LargestOffset DEF ClockIs
<1>2. o = Minute * (o \div Minute) /\ o \div Minute \in Nat /\ t \div Minute \in Nat
  <2>1. o = Minute * (o \div Minute)
    BY OnTheMinute
  <2>2. o \div Minute \in Nat /\ t \div Minute \in Nat
    BY Division
  <2> QED BY <2>1, <2>2
<1>3. Wall(k, o) = o \div Minute + offset /\ Wall(k, t) = t \div Minute + offset
  BY <1>1, <1>2 DEF Wall
<1>4. o \div Minute > t \div Minute
  <2>1. SUFFICES ASSUME o \div Minute <= t \div Minute PROVE FALSE
    BY <1>2
  <2>2. Minute * (o \div Minute) <= Minute * (t \div Minute)
    BY <2>1, <1>2, MinuteAssumption
  <2> QED
    BY <2>2, <1>2, Division, MinuteAssumption
<1>5. Wall(k, o) \in later
  BY <1>1, <1>2, <1>3, <1>4
<1>6. w \in Nat /\ w <= Wall(k, o)
  BY <1>5, MinOfNaturals DEF ClockIs
<1>7. next_fire(k, t) = Minute * (w - offset)
  BY <1>1, <1>5, <1>6 DEF next_fire, Instant
<1>8. w - offset \in Int /\ w - offset <= o \div Minute
  BY <1>1, <1>2, <1>3, <1>6
<1>9. Minute * (w - offset) <= o
  BY <1>2, <1>8, MinuteAssumption
<1>10. next_fire(k, t) > t
  <2>1. w > Wall(k, t)
    BY <1>5, MinOfNaturals DEF ClockIs
  <2>2. w - offset > t \div Minute
    BY <2>1, <1>1, <1>2, <1>3, <1>6
  <2> QED
    BY <2>2, <1>7, <1>8, LaterMinute
<1> QED
  BY <1>7, <1>9, <1>10 DEF Nothing

-----------------------------------------------------------------------------
(* What due_at answers. *)

\* The search of due_at in schedule k for the last occurrence up to the instant `end`.
LatestIs(k, end, f) ==
  f = [fire \in Int |->
         LET following == next_fire(k, fire)
         IN  IF following = Nothing \/ following > end THEN fire ELSE f[following]]

\* There is such a function: from each instant take where its chain of occurrences ends.
LEMMA LatestExists ==
  ASSUME NEW k, ClockIs(k), NEW end
  PROVE  \E f : LatestIs(k, end, f)
<1> DEFINE next(x) == next_fire(k, x)
           Over(x) == next(x) = Nothing \/ next(x) > end
           Shut(C) == \A x \in C : Over(x) \/ next(x) \in C
           Chain(x) == {y \in Int : \A C \in SUBSET Int : x \in C /\ Shut(C) => y \in C}
           Last(x) == {y \in Chain(x) : Over(y)}
           f == [x \in Int |-> CHOOSE y : y \in Last(x)]
<1>1. \A x \in Int : next(x) \in Int BY NextFireIsTime
<1> HIDE DEF next
<1>2. ASSUME NEW x \in Int, Over(x) PROVE f[x] = x
  <2>1. {x} \in SUBSET Int /\ Shut({x}) BY <1>2
  <2>2. Chain(x) = {x} BY <2>1
  <2>3. Last(x) = {x} BY <2>2, <1>2
  <2> HIDE DEF Last
  <2>4. f[x] = CHOOSE y : y \in {x} BY <2>3
  <2> QED BY <2>4
<1>3. ASSUME NEW x \in Int, ~ Over(x) PROVE f[x] = f[next(x)]
  <2>1. next(x) \in Int BY <1>1
  <2>2. Chain(next(x)) \subseteq Chain(x)
    <3> SUFFICES ASSUME NEW y \in Chain(next(x)), NEW C \in SUBSET Int, x \in C, Shut(C)
                 PROVE  y \in C
      OBVIOUS
    <3>1. next(x) \in C BY <1>3
    <3> QED BY <3>1
  <2>3. Chain(x) \subseteq {x} \cup Chain(next(x))
    <3> DEFINE D == {x} \cup Chain(next(x))
    <3>1. D \in SUBSET Int OBVIOUS
    <3>2. next(x) \in Chain(next(x)) BY <2>1
    <3>3. ASSUME NEW y \in Chain(next(x)), ~ Over(y) PROVE next(y) \in Chain(next(x))
      <4>1. y \in Int /\ next(y) \in Int BY <1>1
      <4>2. ASSUME NEW C \in SUBSET Int, next(x) \in C, Shut(C) PROVE next(y) \in C
        <5>1. y \in C BY <4>2
        <5> QED BY <5>1, <4>2, <3>3
      <4> QED BY <4>1, <4>2
    <3> HIDE DEF Chain
    <3>4. Shut(D) BY <3>2, <3>3
    <3>5. x \in D OBVIOUS
    <3> HIDE DEF D, Shut
    <3>6. ASSUME NEW y \in Chain(x) PROVE y \in D BY <3>1, <3>4, <3>5 DEF Chain
    <3> QED BY <3>6 DEF D
  <2>4. Last(x) = Last(next(x))
    <3> HIDE DEF Chain
    <3> QED BY <2>2, <2>3, <1>3
  <2> HIDE DEF Last
  <2> QED BY <2>1, <2>4
<1> HIDE DEF f
<1>4. f = [x \in Int |-> IF Over(x) THEN x ELSE f[next(x)]]
  <2>1. \A x \in Int : f[x] = IF Over(x) THEN x ELSE f[next(x)]
    <3> HIDE DEF Over
    <3> QED BY <1>2, <1>3
  <2>2. f = [x \in Int |-> f[x]] BY DEF f
  <2> HIDE DEF Over
  <2> QED BY <2>1, <2>2
<1> QED BY <1>4 DEF LatestIs, next

\* From an instant that is not a second showing the search goes forward to its end.
LEMMA LatestIsLater ==
  ASSUME NEW k, ClockIs(k), NEW end \in Nat, NEW f, LatestIs(k, end, f),
         NEW x \in 0..end, ~ Repeated(k, x)
  PROVE  f[x] \in x..end
<1> DEFINE Bad == {m \in Nat : \E y \in 0..end : ~ Repeated(k, y) /\ m = end - y /\ f[y] \notin y..end}
<1>1. SUFFICES Bad = {}
  <2>1. end - x \in Nat OBVIOUS
  <2> QED BY <1>1, <2>1
<1>2. SUFFICES ASSUME Bad # {} PROVE FALSE OBVIOUS
<1>3. PICK m \in Bad : \A n \in Bad : m <= n BY <1>2, LeastNatural
<1>4. PICK y \in 0..end : ~ Repeated(k, y) /\ m = end - y /\ f[y] \notin y..end BY <1>3
<1> DEFINE next == next_fire(k, y)
<1>5. f[y] = IF next = Nothing \/ next > end THEN y ELSE f[next] BY DEF LatestIs
<1>6. next # Nothing /\ ~ next > end /\ f[y] = f[next] BY <1>4, <1>5
<1>7. next \in Nat /\ next > y /\ ~ Repeated(k, next) BY <1>4, <1>6, NextFireIsLater
<1> HIDE DEF next
<1>8. next \in 0..end /\ end - next \in Nat /\ ~ m <= end - next BY <1>4, <1>6, <1>7
<1>9. end - next \notin Bad
  <2> HIDE DEF Bad
  <2> QED BY <1>3, <1>8
<1>10. f[next] \in next..end BY <1>7, <1>8, <1>9
<1> QED BY <1>4, <1>6, <1>7, <1>8, <1>10

(* What due_at answers is not past the instant it is asked at, and later    *)
(* than the anchor, unless the clock has shown a minute a second time       *)
(* between the two.                                                         *)
THEOREM DueIsLater ==
  ASSUME NEW k, ClockIs(k), NEW anchor \in Nat, NEW end \in Nat, NEW grace \in Nat,
         due_at(k, anchor, end, grace) # Nothing
  PROVE  /\ due_at(k, anchor, end, grace) \in 0..end
         /\ \/ due_at(k, anchor, end, grace) > anchor
            \/ \E t \in anchor..end : Repeated(k, t)
<1> DEFINE start == Max({anchor, end - grace})
           first == next_fire(k, start)
           latest == CHOOSE f : LatestIs(k, end, f)
<1>1. start = IF anchor >= end - grace THEN anchor ELSE end - grace BY LargestOffset
<1>2. start \in Nat /\ start >= anchor BY <1>1
<1>3. LatestIs(k, end, latest) BY LatestExists
<1>4. due_at(k, anchor, end, grace) =
        IF start >= end \/ first = Nothing \/ first > end THEN Nothing ELSE latest[first]
  BY DEF due_at, LatestIs
<1> HIDE DEF start, latest
<1>5. ~ start >= end /\ first # Nothing /\ ~ first > end BY <1>4
<1>6. /\ first \in Nat /\ (first > start \/ Repeated(k, start)) /\ ~ Repeated(k, first)
  BY <1>2, <1>5, NextFireIsLater
<1> HIDE DEF first
<1>7. latest[first] \in first..end BY <1>3, <1>5, <1>6, LatestIsLater
<1>8. due_at(k, anchor, end, grace) = latest[first] BY <1>4, <1>5
<1>9. CASE first > start BY <1>2, <1>6, <1>7, <1>8, <1>9
<1>10. CASE Repeated(k, start)
  <2>1. start \in anchor..end BY <1>2, <1>5
  <2> QED BY <2>1, <1>6, <1>7, <1>8, <1>10
<1> QED BY <1>6, <1>9, <1>10

-----------------------------------------------------------------------------
(* The sweeps. *)

LEMMA ClocksAre == \A k \in Keys : ClockIs(k)
BY ClockAssumption DEF ClockIs

LEMMA LibraryIs ==
  /\ Len(Library) \in Nat /\ Len(Library) >= 1 /\ DOMAIN Library = 1..Len(Library)
  /\ \A i \in 1..Len(Library) : Library[i] \in Keys
<1>1. Library \in Seq(Keys) /\ Library # <<>> BY LibraryAssumption
<1>2. Len(Library) \in Nat /\ DOMAIN Library = 1..Len(Library) BY <1>1
<1>3. Len(Library) # 0 BY <1>1
<1> QED BY <1>1, <1>2, <1>3

\* The anchor a sweep decided from: the one it read, or the start of the process.
Basis(s) == IF read[s] = Nothing THEN started ELSE read[s]

\* What a sweep is about to claim is later than that, or the clock repeats itself.
ClaimOK(s) ==
  \/ due[s] > Basis(s)
  \/ \E t \in Basis(s)..asOf[s] : Repeated(Key(s), t)

SweepInv ==
  /\ ScheduleTypeOK
  /\ ~ up => /\ \A k \in Keys : anchors[k] = Nothing
             /\ \A s \in Sweepers : pc[s] = "idle"
  /\ up => \A k \in Keys : lastDue[k] <= Anchor(k)
  /\ \A s \in Sweepers : pc[s] = "claim" => due[s] # Nothing /\ ClaimOK(s)

LEMMA SweepsStart == ScheduleInit => SweepInv
<1> SUFFICES ASSUME ScheduleInit PROVE SweepInv OBVIOUS
<1> USE DEF ScheduleInit
<1>1. ScheduleTypeOK
  BY LibraryIs, TimerAssumption, BoundAssumption DEF ScheduleTypeOK, Steps, Nothing
<1>2. \A k \in Keys : lastDue[k] <= Anchor(k) BY DEF Anchor, Nothing
<1> QED BY <1>1, <1>2 DEF SweepInv

LEMMA AnchorsAre ==
  ASSUME ScheduleTypeOK, NEW k \in Keys
  PROVE  Anchor(k) \in 0..now /\ Anchor(k) >= started /\ anchors[k] \in Int /\ Anchor(k) \in Nat
         /\ now \in Nat /\ now <= MaxTime /\ Anchor(k) \in 0..MaxTime
BY BoundAssumption DEF ScheduleTypeOK, Anchor, Nothing

LEMMA KeyIs ==
  ASSUME ScheduleTypeOK, NEW s \in Sweepers
  PROVE  Key(s) \in Keys
BY LibraryIs DEF ScheduleTypeOK, Key

\* What the table holds is what due_at answers.
LEMMA TableIs ==
  ASSUME ScheduleTypeOK, NEW s \in Sweepers, DueTable[Key(s)][Anchor(Key(s))][asOf[s]] # Nothing
  PROVE  LET d == DueTable[Key(s)][Anchor(Key(s))][asOf[s]]
         IN  /\ d \in 0..asOf[s]
             /\ d > Anchor(Key(s)) \/ \E t \in Anchor(Key(s))..asOf[s] : Repeated(Key(s), t)
<1>1. Key(s) \in Keys /\ ClockIs(Key(s)) BY KeyIs, ClocksAre
<1>2. Anchor(Key(s)) \in 0..MaxTime /\ Anchor(Key(s)) \in Nat BY <1>1, AnchorsAre
<1>3. asOf[s] \in 0..MaxTime /\ asOf[s] \in Nat
  <2>1. now \in 0..MaxTime /\ asOf[s] \in 0..now BY DEF ScheduleTypeOK
  <2>2. MaxTime \in Nat BY BoundAssumption
  <2>3. now \in Nat /\ now <= MaxTime BY <2>1, <2>2
  <2>4. asOf[s] \in Nat /\ asOf[s] <= now BY <2>1, <2>3
  <2> QED BY <2>2, <2>3, <2>4
<1>4. DueTable[Key(s)][Anchor(Key(s))][asOf[s]] = due_at(Key(s), Anchor(Key(s)), asOf[s], Grace)
  <2>1. \A k \in Keys : \A a, t \in 0..MaxTime : DueTable[k][a][t] = due_at(k, a, t, Grace)
    BY DEF DueTable
  <2> QED BY <2>1, <1>1, <1>2, <1>3
<1> QED BY <1>1, <1>2, <1>3, <1>4, GraceAssumption, DueIsLater

\* On to the next schedule, from whatever step.
LEMMA NextScheduleIs ==
  ASSUME ScheduleTypeOK, NEW s \in Sweepers, NextSchedule(s)
  PROVE  /\ pc' \in [Sweepers -> Steps] /\ pc'[s] \in {"idle", "look"}
         /\ \A p \in Sweepers \ {s} : pc'[p] = pc[p]
         /\ index' \in [Sweepers -> DOMAIN Library]
         /\ asOf' \in [Sweepers -> 0..now]
         /\ due' \in [Sweepers -> {Nothing} \union 0..now]
         /\ read' \in [Sweepers -> {Nothing} \union 0..now]
         /\ \A p \in Sweepers \ {s} :
              /\ index'[p] = index[p] /\ asOf'[p] = asOf[p] /\ due'[p] = due[p] /\ read'[p] = read[p]
<1> USE DEF ScheduleTypeOK, NextSchedule, Goto, Steps
<1>1. CASE index[s] = Len(Library)
  <2>1. 1 \in DOMAIN Library BY LibraryIs
  <2>2. 0 \in 0..now BY BoundAssumption
  <2> QED BY <1>1, <2>1, <2>2
<1>2. CASE index[s] # Len(Library)
  <2>1. index[s] + 1 \in DOMAIN Library BY <1>2, LibraryIs
  <2> QED BY <1>2, <2>1
<1> QED BY <1>1, <1>2

LEMMA SweepsStep == SweepInv /\ [ScheduleNext]_scheduleVars => SweepInv'
<1> SUFFICES ASSUME SweepInv, [ScheduleNext]_scheduleVars PROVE SweepInv' OBVIOUS
<1>0. /\ ScheduleTypeOK
      /\ ~ up => /\ \A k \in Keys : anchors[k] = Nothing
                 /\ \A s \in Sweepers : pc[s] = "idle"
      /\ up => \A k \in Keys : lastDue[k] <= Anchor(k)
      /\ \A s \in Sweepers : pc[s] = "claim" => due[s] # Nothing /\ ClaimOK(s)
  BY DEF SweepInv
<1>a. now \in Nat /\ now <= MaxTime /\ MaxTime \in Nat /\ started \in 0..now
  BY <1>0, BoundAssumption DEF ScheduleTypeOK
<1>b. \A s \in Sweepers : pc[s] # "idle" => up BY <1>0
\* What the other sweeps are about to claim is not touched by a step of one.
<1>c. ASSUME NEW s \in Sweepers, pc'[s] = pc[s], due'[s] = due[s], read'[s] = read[s],
             asOf'[s] = asOf[s], index'[s] = index[s], started' = started
      PROVE  (pc[s] = "claim" => due[s] # Nothing /\ ClaimOK(s))'
  <2>1. ClaimOK(s)' <=> ClaimOK(s) BY <1>c DEF ClaimOK, Basis, Key
  <2> QED BY <2>1, <1>0, <1>c
<1>1. CASE Tick
  <2> USE <1>1 DEF Tick, sweepVars
  <2>1. ScheduleTypeOK'
    <3>1. now' \in 0..MaxTime /\ now \in Nat /\ now' = now + 1 /\ started \in 0..now' BY <1>a
    <3>2. 0..now \subseteq 0..now' /\ started..now \subseteq started..now' BY <3>1, <1>a
    <3> QED BY <3>1, <3>2, <1>0 DEF ScheduleTypeOK
  <2>2. \A k \in Keys : Anchor(k)' = Anchor(k) BY DEF Anchor
  <2> QED BY <2>1, <2>2, <1>0, <1>c DEF SweepInv
<1>2. CASE PersonRuns
  <2> USE <1>2 DEF PersonRuns, sweepVars
  <2>1. ScheduleTypeOK' BY <1>0, TimerAssumption DEF ScheduleTypeOK
  <2>2. \A k \in Keys : Anchor(k)' = Anchor(k) BY DEF Anchor
  <2> QED BY <2>1, <2>2, <1>0, <1>c DEF SweepInv
<1>3. CASE PersonEnds
  <2> USE <1>3 DEF PersonEnds, sweepVars
  <2>1. ScheduleTypeOK' BY <1>0, TimerAssumption DEF ScheduleTypeOK
  <2>2. \A k \in Keys : Anchor(k)' = Anchor(k) BY DEF Anchor
  <2> QED BY <2>1, <2>2, <1>0, <1>c DEF SweepInv
<1>4. CASE Down
  <2> USE <1>4 DEF Down
  <2>1. ScheduleTypeOK'
    <3>1. 1 \in DOMAIN Library /\ 0 \in 0..now BY <1>a, LibraryIs
    <3>2. \A s \in Sweepers : pc'[s] = "running" <=> slot' = s BY TimerAssumption
    <3>3. restarts + 1 \in 0..MaxRestarts BY <1>0, BoundAssumption DEF ScheduleTypeOK
    <3> QED BY <3>1, <3>2, <3>3, <1>0 DEF ScheduleTypeOK, Steps
  <2>2. \A s \in Sweepers : pc'[s] = "idle" OBVIOUS
  <2> QED BY <2>1, <2>2 DEF SweepInv
<1>5. CASE Up
  <2> USE <1>5 DEF Up, sweepVars
  <2>1. \A k \in Keys : anchors[k] = Nothing /\ lastDue[k] <= now
    BY <1>0, <1>a DEF ScheduleTypeOK, Nothing
  <2>2. ScheduleTypeOK' BY <1>0, <1>a, <2>1 DEF ScheduleTypeOK
  <2>3. \A k \in Keys : lastDue'[k] <= Anchor(k)' BY <2>1 DEF Anchor
  <2>4. \A s \in Sweepers : pc'[s] = "idle" BY <1>0
  <2> QED BY <2>2, <2>3, <2>4 DEF SweepInv
<1>6. ASSUME NEW s \in Sweepers, Begin(s) PROVE SweepInv'
  <2> USE <1>6 DEF Begin, Goto
  <2>1. ScheduleTypeOK' BY <1>0, <1>a DEF ScheduleTypeOK, Steps
  <2>2. \A k \in Keys : Anchor(k)' = Anchor(k) BY DEF Anchor
  <2>3. \A p \in Sweepers : (pc[p] = "claim" => due[p] # Nothing /\ ClaimOK(p))'
    <3> TAKE p \in Sweepers
    <3>1. CASE p = s BY <3>1, <1>0 DEF ScheduleTypeOK
    <3>2. CASE p # s BY <3>2, <1>0, <1>c DEF ScheduleTypeOK
    <3> QED BY <3>1, <3>2
  <2> QED BY <2>1, <2>2, <2>3, <1>0 DEF SweepInv
\* A step to the next schedule, whatever it does to the slot.
<1>7. ASSUME NEW s \in Sweepers, pc[s] # "idle", NextSchedule(s),
             slot' = IF pc[s] = "running" THEN Nothing ELSE slot,
             UNCHANGED <<now, up, started, anchors, restarts, lastDue>>
      PROVE  SweepInv'
  <2>0. up BY <1>b, <1>7
  <2>1. /\ pc' \in [Sweepers -> Steps] /\ pc'[s] \in {"idle", "look"}
        /\ \A p \in Sweepers \ {s} : pc'[p] = pc[p]
        /\ index' \in [Sweepers -> DOMAIN Library]
        /\ asOf' \in [Sweepers -> 0..now]
        /\ due' \in [Sweepers -> {Nothing} \union 0..now]
        /\ read' \in [Sweepers -> {Nothing} \union 0..now]
        /\ \A p \in Sweepers \ {s} :
             /\ index'[p] = index[p] /\ asOf'[p] = asOf[p] /\ due'[p] = due[p] /\ read'[p] = read[p]
    BY <1>0, <1>7, NextScheduleIs
  <2>2. \A p \in Sweepers : pc'[p] = "running" <=> slot' = p
    <3> TAKE p \in Sweepers
    <3>1. pc[p] = "running" <=> slot = p BY <1>0 DEF ScheduleTypeOK
    <3>2. pc[s] = "running" <=> slot = s BY <1>0 DEF ScheduleTypeOK
    <3> QED BY <3>1, <3>2, <2>1, <1>7, TimerAssumption
  <2>3. ScheduleTypeOK'
    BY <2>1, <2>2, <1>0, <1>7 DEF ScheduleTypeOK
  <2>4. \A k \in Keys : Anchor(k)' = Anchor(k) BY <1>7 DEF Anchor
  <2>5. \A p \in Sweepers : (pc[p] = "claim" => due[p] # Nothing /\ ClaimOK(p))'
    <3> TAKE p \in Sweepers
    <3>1. CASE p = s BY <3>1, <2>1
    <3>2. CASE p # s BY <3>2, <2>1, <1>c, <1>7
    <3> QED BY <3>1, <3>2
  <2> QED BY <2>0, <2>3, <2>4, <2>5, <1>0, <1>7 DEF SweepInv
<1>8. ASSUME NEW s \in Sweepers, Look(s) PROVE SweepInv'
  <2>0. pc[s] = "look" /\ up BY <1>8, <1>b DEF Look
  <2> DEFINE fire == DueTable[Key(s)][Anchor(Key(s))][asOf[s]]
  <2>1. CASE fire = Nothing
    <3>1. NextSchedule(s) /\ UNCHANGED <<now, up, started, anchors, slot, restarts, lastDue>>
      BY <1>8, <2>1 DEF Look
    <3> QED BY <3>1, <2>0, <1>7
  <2>2. CASE fire # Nothing
    <3>1. /\ due' = [due EXCEPT ![s] = fire] /\ read' = [read EXCEPT ![s] = anchors[Key(s)]]
          /\ pc' = [pc EXCEPT ![s] = "claim"]
          /\ UNCHANGED <<asOf, index, now, up, started, anchors, slot, restarts, lastDue>>
      BY <1>8, <2>2 DEF Look, Goto
    <3>2. /\ fire \in 0..asOf[s]
          /\ fire > Anchor(Key(s)) \/ \E t \in Anchor(Key(s))..asOf[s] : Repeated(Key(s), t)
      BY <2>2, <1>0, TableIs
    <3>3. Key(s) \in Keys /\ Key(s)' = Key(s) BY <1>0, <3>1, KeyIs DEF Key
    <3> HIDE DEF fire
    <3>4. ScheduleTypeOK'
      <4>1. asOf[s] \in 0..now BY <1>0 DEF ScheduleTypeOK
      <4>2. fire \in 0..now BY <4>1, <3>2, <1>a
      <4>3. anchors[Key(s)] \in {Nothing} \cup 0..now BY <1>0, <3>3, <1>a DEF ScheduleTypeOK
      <4> QED BY <4>2, <4>3, <3>1, <2>0, <1>0 DEF ScheduleTypeOK, Steps
    <3>5. \A k \in Keys : Anchor(k)' = Anchor(k) BY <3>1 DEF Anchor
    <3>6. \A p \in Sweepers : (pc[p] = "claim" => due[p] # Nothing /\ ClaimOK(p))'
      <4> TAKE p \in Sweepers
      <4>1. CASE p = s
        <5>1. read'[s] = anchors[Key(s)] /\ due'[s] = fire BY <3>1, <1>0 DEF ScheduleTypeOK
        <5>2. Basis(s)' = Anchor(Key(s)) BY <5>1, <3>1 DEF Basis, Anchor
        <5>3. ClaimOK(s)' BY <5>1, <5>2, <3>1, <3>2, <3>3 DEF ClaimOK
        <5>4. asOf[s] \in Nat BY <1>0, <1>a DEF ScheduleTypeOK
        <5> QED BY <4>1, <5>1, <5>3, <5>4, <3>2 DEF Nothing
      <4>2. CASE p # s BY <4>2, <3>1, <1>0, <1>c DEF ScheduleTypeOK
      <4> QED BY <4>1, <4>2
    <3> QED BY <3>1, <3>4, <3>5, <3>6, <1>0, <2>0 DEF SweepInv
  <2> QED BY <2>1, <2>2
<1>9. ASSUME NEW s \in Sweepers, Claim(s) PROVE SweepInv'
  <2>0. pc[s] = "claim" /\ up BY <1>9, <1>b DEF Claim
  <2>1. /\ anchors' = [anchors EXCEPT ![Key(s)] = now]
        /\ lastDue' = [lastDue EXCEPT ![Key(s)] = due[s]]
        /\ pc' = [pc EXCEPT ![s] = "fire"]
        /\ UNCHANGED <<now, up, started, slot, asOf, index, due, read, restarts>>
    BY <1>9 DEF Claim, Goto
  <2>2. Key(s) \in Keys BY <1>0, KeyIs
  <2>3. due[s] \in 0..now BY <2>0, <1>0 DEF ScheduleTypeOK
  <2>4. ScheduleTypeOK'
    <3>1. anchors' \in [Keys -> {Nothing} \cup started..now]
      <4>1. now \in started..now BY <1>a
      <4>2. anchors \in [Keys -> {Nothing} \cup started..now] BY <1>0 DEF ScheduleTypeOK
      <4> QED BY <4>1, <4>2, <2>1
    <3>2. lastDue' \in [Keys -> {Nothing} \cup 0..now] BY <2>1, <2>3, <1>0 DEF ScheduleTypeOK
    <3> QED BY <3>1, <3>2, <2>0, <2>1, <1>0 DEF ScheduleTypeOK, Steps
  <2>5. ASSUME NEW k \in Keys PROVE lastDue'[k] <= Anchor(k)'
    <3>1. CASE k = Key(s)
      <4>1. anchors'[k] = now /\ lastDue'[k] = due[s] BY <3>1, <2>1, <2>2, <1>0 DEF ScheduleTypeOK
      <4>2. Anchor(k)' = now BY <4>1, <1>a DEF Anchor, Nothing
      <4> QED BY <4>1, <4>2, <2>3, <1>a
    <3>2. CASE k # Key(s)
      <4>1. anchors'[k] = anchors[k] /\ lastDue'[k] = lastDue[k] BY <3>2, <2>1, <1>0 DEF ScheduleTypeOK
      <4>2. Anchor(k)' = Anchor(k) BY <4>1, <2>1 DEF Anchor
      <4> QED BY <4>1, <4>2, <2>0, <1>0
    <3> QED BY <3>1, <3>2
  <2>6. \A p \in Sweepers : (pc[p] = "claim" => due[p] # Nothing /\ ClaimOK(p))'
    <3> TAKE p \in Sweepers
    <3>1. CASE p = s BY <3>1, <2>1, <1>0 DEF ScheduleTypeOK
    <3>2. CASE p # s BY <3>2, <2>1, <1>0, <1>c DEF ScheduleTypeOK
    <3> QED BY <3>1, <3>2
  <2> QED BY <2>0, <2>1, <2>4, <2>5, <2>6 DEF SweepInv
<1>10. ASSUME NEW s \in Sweepers, Fire(s) PROVE SweepInv'
  <2>0. pc[s] = "fire" /\ up BY <1>10, <1>b DEF Fire
  <2>1. /\ slot = Nothing /\ slot' = s /\ pc' = [pc EXCEPT ![s] = "running"]
        /\ UNCHANGED <<now, up, started, anchors, asOf, index, due, read, restarts, lastDue>>
    BY <1>10 DEF Fire, Goto
  <2>2. \A p \in Sweepers : pc'[p] = "running" <=> slot' = p
    BY <2>1, <1>0, TimerAssumption DEF ScheduleTypeOK
  <2>3. ScheduleTypeOK' BY <2>1, <2>2, <1>0 DEF ScheduleTypeOK, Steps
  <2>4. \A k \in Keys : Anchor(k)' = Anchor(k) BY <2>1 DEF Anchor
  <2>5. \A p \in Sweepers : (pc[p] = "claim" => due[p] # Nothing /\ ClaimOK(p))'
    <3> TAKE p \in Sweepers
    <3>1. CASE p = s BY <3>1, <2>1, <1>0 DEF ScheduleTypeOK
    <3>2. CASE p # s BY <3>2, <2>1, <1>0, <1>c DEF ScheduleTypeOK
    <3> QED BY <3>1, <3>2
  <2> QED BY <2>0, <2>1, <2>3, <2>4, <2>5, <1>0 DEF SweepInv
<1>11. ASSUME NEW s \in Sweepers, Refused(s) PROVE SweepInv'
  BY <1>11, <1>7 DEF Refused
<1>12. ASSUME NEW s \in Sweepers, Finish(s) PROVE SweepInv'
  BY <1>12, <1>7 DEF Finish
<1>13. CASE UNCHANGED scheduleVars
  <2> USE <1>13 DEF scheduleVars, sweepVars
  <2>1. ScheduleTypeOK' BY <1>0 DEF ScheduleTypeOK
  <2>2. \A k \in Keys : Anchor(k)' = Anchor(k) BY DEF Anchor
  <2> QED BY <2>1, <2>2, <1>0, <1>c DEF SweepInv
<1> QED
  BY <1>1, <1>2, <1>3, <1>4, <1>5, <1>6, <1>8, <1>9, <1>10, <1>11, <1>12, <1>13
  DEF ScheduleNext, Sweep

(* However sweeps overlap, runs last and processes are killed, and whatever *)
(* a clock and its expression do: a schedule is never claimed for an        *)
(* occurrence up to the one it was last claimed for, except by a sweep      *)
(* whose look at the anchor is stale and when an hour is repeated           *)
(* (_sweep_schedules, due_at).                                              *)
THEOREM ScheduleMovesForward == ScheduleSpec => FiresMoveForward
<1> DEFINE Forward ==
      \A s \in Sweepers : Claims(s) =>
        \/ due[s] > lastDue[Key(s)]
        \/ read[s] # anchors[Key(s)]
        \/ \E t \in lastDue[Key(s)]..asOf[s] : Repeated(Key(s), t)
<1>1. SweepInv => ScheduleTypeOK BY DEF SweepInv
<1>2. SweepInv => Forward
  <2> SUFFICES ASSUME SweepInv, NEW s \in Sweepers, pc[s] = "claim", read[s] = anchors[Key(s)]
               PROVE  \/ due[s] > lastDue[Key(s)]
                      \/ \E t \in lastDue[Key(s)]..asOf[s] : Repeated(Key(s), t)
    BY DEF Claims
  <2>1. ScheduleTypeOK /\ up /\ due[s] # Nothing /\ ClaimOK(s) BY DEF SweepInv
  <2>2. Key(s) \in Keys BY <2>1, KeyIs
  <2>3. Basis(s) = Anchor(Key(s)) BY DEF Basis, Anchor
  <2>4. lastDue[Key(s)] <= Anchor(Key(s)) BY <2>1, <2>2 DEF SweepInv
  <2>5. /\ lastDue[Key(s)] \in Int /\ Anchor(Key(s)) \in Int /\ due[s] \in Int /\ asOf[s] \in Int
    BY <2>1, <2>2, AnchorsAre DEF ScheduleTypeOK, Nothing
  <2>6. CASE due[s] > Basis(s) BY <2>3, <2>4, <2>5, <2>6
  <2>7. CASE \E t \in Basis(s)..asOf[s] : Repeated(Key(s), t)
    <3>1. PICK t \in Basis(s)..asOf[s] : Repeated(Key(s), t) BY <2>7
    <3>2. t \in lastDue[Key(s)]..asOf[s] BY <3>1, <2>3, <2>4, <2>5
    <3> QED BY <3>1, <3>2
  <2> QED BY <2>1, <2>6, <2>7 DEF ClaimOK
<1>3. SweepInv => [Forward]_scheduleVars BY <1>2
<1> HIDE DEF Forward
<1>4. ScheduleSpec => []ScheduleTypeOK /\ [][Forward]_scheduleVars
  BY <1>1, <1>3, SweepsStart, SweepsStep, PTL DEF ScheduleSpec
<1> QED BY <1>4 DEF FiresMoveForward, Forward

-----------------------------------------------------------------------------
(* The canvas of a Pipeline. *)

LEMMA LeastUpTo ==
  ASSUME NEW n \in Nat, NEW T \in SUBSET (0..n), T # {}
  PROVE  \E x \in T : x \in 0..n /\ \A y \in T : x <= y
<1>1. T \subseteq Nat OBVIOUS
<1> QED BY <1>1, LeastNatural

-----------------------------------------------------------------------------
(* What links lead to. *)

\* The rounds of `Reached`, as a function of how many were made.
RoundsOf(links, from, n, w) ==
  w = [k \in 0..n |-> IF k = 0 THEN {from}
                      ELSE w[k - 1] \cup {l[2] : l \in {h \in links : h[1] \in w[k - 1]}}]

LEMMA RoundsExist ==
  ASSUME NEW links, NEW from, NEW n \in Nat
  PROVE  \E w : RoundsOf(links, from, n, w)
<1> DEFINE Bad == {m \in Nat : \A w : ~ RoundsOf(links, from, m, w)}
<1> SUFFICES Bad = {} OBVIOUS
<1>1. SUFFICES ASSUME Bad # {} PROVE FALSE OBVIOUS
<1>2. PICK m \in Bad : \A k \in Bad : m <= k BY <1>1, LeastNatural
<1> HIDE DEF Bad
<1>3. m \in Nat /\ \A w : ~ RoundsOf(links, from, m, w) BY <1>2 DEF Bad
<1>4. CASE m = 0
  <2> DEFINE w == [k \in 0..0 |-> {from}]
  <2>1. RoundsOf(links, from, 0, w) BY DEF RoundsOf
  <2> QED BY <2>1, <1>3, <1>4
<1>5. CASE m # 0
  <2>1. m - 1 \in Nat /\ ~ (m <= m - 1) BY <1>3, <1>5
  <2>2. m - 1 \notin Bad BY <1>2, <2>1
  <2>3. PICK v : RoundsOf(links, from, m - 1, v) BY <2>1, <2>2 DEF Bad
  <2> DEFINE next == v[m - 1] \cup {l[2] : l \in {h \in links : h[1] \in v[m - 1]}}
             w == [k \in 0..m |-> IF k = m THEN next ELSE v[k]]
  <2>4. /\ \A k \in 0..m - 1 : v[k] = IF k = 0 THEN {from}
                                     ELSE v[k - 1] \cup {l[2] : l \in {h \in links : h[1] \in v[k - 1]}}
        /\ \A k \in 0..m : w[k] = IF k = m THEN next ELSE v[k]
    BY <2>3 DEF RoundsOf
  <2>5. \A k \in 0..m : w[k] = IF k = 0 THEN {from}
                               ELSE w[k - 1] \cup {l[2] : l \in {h \in links : h[1] \in w[k - 1]}}
    <3> SUFFICES ASSUME NEW k \in 0..m
                 PROVE  w[k] = IF k = 0 THEN {from}
                               ELSE w[k - 1] \cup {l[2] : l \in {h \in links : h[1] \in w[k - 1]}}
      OBVIOUS
    <3> HIDE DEF w
    <3>0. k # 0 => k - 1 \in 0..m - 1 /\ k - 1 \in 0..m /\ k - 1 # m BY <1>3, <2>1
    <3>1. k # 0 => k - 1 \in 0..m - 1 /\ w[k - 1] = v[k - 1] BY <3>0, <2>4
    <3>2. k # m => k \in 0..m - 1 BY <1>3, <2>1
    <3>3. CASE k = m
      <4>1. k # 0 /\ w[k - 1] = v[m - 1] BY <1>5, <3>1, <3>3
      <4>2. w[k] = next BY <2>4, <3>3
      <4> QED BY <4>1, <4>2
    <3>4. CASE k # m
      <4>1. w[k] = v[k] /\ k \in 0..m - 1 BY <2>4, <3>2, <3>4
      <4>2. v[k] = IF k = 0 THEN {from}
                   ELSE v[k - 1] \cup {l[2] : l \in {h \in links : h[1] \in v[k - 1]}}
        BY <2>4, <4>1
      <4> QED BY <3>1, <4>1, <4>2
    <3> QED BY <3>3, <3>4
  <2>6. DOMAIN w = 0..m /\ w = [k \in 0..m |-> w[k]] OBVIOUS
  <2> HIDE DEF w, next
  <2>7. RoundsOf(links, from, m, w) BY <2>5, <2>6 DEF RoundsOf
  <2> QED BY <2>7, <1>3
<1> QED BY <1>4, <1>5

LEMMA ReachedIsARound ==
  ASSUME NEW links, NEW from, IsFiniteSet(links)
  PROVE  \E w : RoundsOf(links, from, Cardinality(links), w) /\ Reached(links, from) = w[Cardinality(links)]
<1>1. PICK v : RoundsOf(links, from, Cardinality(links), v) BY RoundsExist, FS_CardinalityType
<1> DEFINE w == CHOOSE u : RoundsOf(links, from, Cardinality(links), u)
<1>2. RoundsOf(links, from, Cardinality(links), w) BY <1>1
<1>3. Reached(links, from) = w[Cardinality(links)] BY DEF Reached, RoundsOf
<1> QED BY <1>2, <1>3

Shut(links, T) == \A l \in links : l[1] \in T => l[2] \in T

\* A round that adds nothing is the last; otherwise another link is used in each.
LEMMA RoundsAreShut ==
  ASSUME NEW links, NEW from, IsFiniteSet(links), NEW w, RoundsOf(links, from, Cardinality(links), w)
  PROVE  /\ Shut(links, w[Cardinality(links)])
         /\ from \in w[Cardinality(links)]
         /\ \A T : from \in T /\ Shut(links, T) => w[Cardinality(links)] \subseteq T
<1> DEFINE size == Cardinality(links)
           Used(k) == {h \in links : h[1] \in w[k]}
           Bad == {k \in 0..size : ~ (Shut(links, w[k]) \/ k < Cardinality(Used(k)))}
           Lost == {k \in 0..size : from \notin w[k]}
           Over(T) == {k \in 0..size : ~ w[k] \subseteq T}
<1>1. size \in Nat BY FS_CardinalityType
<1>0. w = [k \in 0..size |-> IF k = 0 THEN {from}
                          ELSE w[k - 1] \cup {l[2] : l \in {h \in links : h[1] \in w[k - 1]}}]
  BY DEF RoundsOf
<1>2. /\ w[0] = {from}
      /\ \A k \in 0..size : k # 0 => k - 1 \in 0..size /\ w[k] = w[k - 1] \cup {l[2] : l \in Used(k - 1)}
  <2> HIDE DEF size
  <2>1. \A k \in 0..size : w[k] = IF k = 0 THEN {from}
                                ELSE w[k - 1] \cup {l[2] : l \in {h \in links : h[1] \in w[k - 1]}}
    BY <1>0
  <2>2. 0 \in 0..size /\ \A k \in 0..size : k # 0 => k - 1 \in 0..size BY <1>1
  <2> QED BY <2>1, <2>2
<1>3. \A k \in 0..size : IsFiniteSet(Used(k)) /\ Cardinality(Used(k)) \in Nat /\ Cardinality(Used(k)) <= size
  <2> TAKE k \in 0..size
  <2>1. Used(k) \in SUBSET links OBVIOUS
  <2> HIDE DEF Used
  <2> QED BY <2>1, FS_Subset, FS_CardinalityType
<1>4. Bad = {}
  <2> SUFFICES ASSUME Bad # {} PROVE FALSE OBVIOUS
  <2>0. Bad \in SUBSET (0..size) OBVIOUS
  <2>1. PICK k \in Bad : k \in 0..size /\ \A j \in Bad : k <= j
    <3> HIDE DEF size, Bad
    <3> QED BY <2>0, <1>1, LeastUpTo
  <2>2. k \in 0..size /\ ~ Shut(links, w[k]) /\ ~ k < Cardinality(Used(k)) BY <2>1
  <2>3. CASE k = 0
    <3>1. Used(k) # {} BY <2>2 DEF Shut
    <3> HIDE DEF Used
    <3> QED BY <3>1, <2>2, <2>3, <1>3, FS_EmptySet
  <2>4. CASE k # 0
    <3>1. k - 1 \in 0..size /\ ~ (k <= k - 1) /\ w[k] = w[k - 1] \cup {l[2] : l \in Used(k - 1)}
      BY <2>2, <2>4, <1>1, <1>2
    <3>2. k - 1 \notin Bad BY <3>1, <2>1
    <3>3. Used(k - 1) \subseteq Used(k) BY <3>1
    <3>4. Used(k - 1) # Used(k) BY <3>1, <2>2 DEF Shut
    <3>5. ~ Shut(links, w[k - 1]) BY <3>1, <2>2 DEF Shut
    <3>6. k - 1 < Cardinality(Used(k - 1)) BY <3>1, <3>2, <3>5
    <3>7. Cardinality(Used(k - 1)) < Cardinality(Used(k))
      <4> HIDE DEF Used
      <4>1. IsFiniteSet(Used(k)) /\ Used(k - 1) \in SUBSET Used(k) BY <3>3, <1>3, <2>2
      <4>2. /\ Cardinality(Used(k - 1)) <= Cardinality(Used(k))
            /\ Cardinality(Used(k)) # Cardinality(Used(k - 1))
        BY <4>1, <3>4, FS_Subset
      <4> QED BY <4>2, <1>3, <2>2, <3>1
    <3> HIDE DEF Used
    <3> QED BY <3>6, <3>7, <2>2, <1>3, <3>1, <1>1
  <2> QED BY <2>3, <2>4
<1>5. Shut(links, w[size])
  <2>1. size \in 0..size /\ ~ size < Cardinality(Used(size)) BY <1>1, <1>3
  <2> QED BY <2>1, <1>4
<1>6. Lost = {}
  <2> SUFFICES ASSUME Lost # {} PROVE FALSE OBVIOUS
  <2>0. Lost \in SUBSET (0..size) OBVIOUS
  <2>1. PICK k \in Lost : k \in 0..size /\ \A j \in Lost : k <= j
    <3> HIDE DEF size, Lost
    <3> QED BY <2>0, <1>1, LeastUpTo
  <2>2. k # 0 BY <2>1, <1>2
  <2>3. k - 1 \in 0..size /\ ~ (k <= k - 1) /\ w[k - 1] \subseteq w[k] BY <2>1, <2>2, <1>1, <1>2
  <2> QED BY <2>1, <2>3
<1>7. ASSUME NEW T, from \in T, Shut(links, T)
      PROVE  w[size] \subseteq T
  <2>1. Over(T) = {}
    <3> SUFFICES ASSUME Over(T) # {} PROVE FALSE OBVIOUS
    <3>0. Over(T) \in SUBSET (0..size) OBVIOUS
    <3>1. PICK k \in Over(T) : k \in 0..size /\ \A j \in Over(T) : k <= j
      <4> HIDE DEF size, Over
      <4> QED BY <3>0, <1>1, LeastUpTo
    <3>2. k # 0 BY <3>1, <1>2, <1>7
    <3>3. k \in 0..size /\ k - 1 \in 0..size /\ ~ (k <= k - 1) /\ w[k] = w[k - 1] \cup {l[2] : l \in Used(k - 1)}
      BY <3>1, <3>2, <1>1, <1>2
    <3>4. w[k - 1] \subseteq T BY <3>1, <3>3
    <3>5. w[k] \subseteq T BY <3>3, <3>4, <1>7 DEF Shut
    <3> QED BY <3>1, <3>5
  <2> QED BY <2>1, <1>1
<1>8. from \in w[size] BY <1>1, <1>6
<1> QED BY <1>5, <1>7, <1>8

\* `Reached` is the least set that holds `from` and is shut under the links.
LEMMA ReachedIsLeast ==
  ASSUME NEW links, NEW from, IsFiniteSet(links)
  PROVE  /\ Shut(links, Reached(links, from))
         /\ from \in Reached(links, from)
         /\ \A T : from \in T /\ Shut(links, T) => Reached(links, from) \subseteq T
<1>1. PICK w : RoundsOf(links, from, Cardinality(links), w) /\ Reached(links, from) = w[Cardinality(links)]
  BY ReachedIsARound
<1> QED BY <1>1, RoundsAreShut

\* Fewer links close fewer loops.
LEMMA FewerLoops ==
  ASSUME NEW c, NEW d, IsFiniteSet(d.links), c.links \subseteq d.links
  PROVE  Loops(c) \subseteq Loops(d)
<1>1. IsFiniteSet(c.links) BY FS_Subset
<1>2. ASSUME NEW l \in c.links, l[1] \in Reached(c.links, l[2])
      PROVE  l[1] \in Reached(d.links, l[2])
  <2>1. Shut(c.links, Reached(d.links, l[2])) BY ReachedIsLeast DEF Shut
  <2> QED BY <1>1, <1>2, <2>1, ReachedIsLeast
<1> QED BY <1>2 DEF Loops

\* A link that may be drawn closes none.
LEMMA AllowedLinkClosesNothing ==
  ASSUME NEW c, NEW d, IsFiniteSet(d.links), NEW a, NEW b,
         c.links = d.links \cup {<<a, b>>}, ~ WouldCreateCycle(d.links, a, b)
  PROVE  Loops(c) \subseteq Loops(d)
<1> DEFINE L == d.links
           R == Reached(L, b)
<1>1. IsFiniteSet(c.links) BY FS_AddElement
<1>2. a \notin R /\ b \in R /\ Shut(L, R) BY ReachedIsLeast DEF WouldCreateCycle
<1>3. Shut(c.links, R) BY <1>2 DEF Shut
<1>4. ASSUME NEW l \in c.links, l[1] \in Reached(c.links, l[2])
      PROVE  l \in L /\ l[1] \in Reached(L, l[2])
  <2>1. CASE l = <<a, b>>
    <3>1. a \in Reached(c.links, b) BY <1>4, <2>1
    <3>2. Reached(c.links, b) \subseteq R BY <1>1, <1>2, <1>3, ReachedIsLeast
    <3> QED BY <3>1, <3>2, <1>2
  <2>2. CASE l # <<a, b>>
    <3> DEFINE S == Reached(L, l[2])
    <3>1. l \in L BY <2>2
    <3>2. l[2] \in S /\ Shut(L, S) BY ReachedIsLeast
    <3>3. CASE a \notin S
      <4>1. Shut(c.links, S) BY <3>2, <3>3 DEF Shut
      <4>2. Reached(c.links, l[2]) \subseteq S BY <4>1, <3>2, <1>1, ReachedIsLeast
      <4> QED BY <4>2, <3>1, <1>4
    <3>4. CASE a \in S
      <4>1. Shut(c.links, S \cup R) BY <3>2, <1>2 DEF Shut
      <4>2. Reached(c.links, l[2]) \subseteq S \cup R
        <5>1. l[2] \in S \cup R BY <3>2
        <5> HIDE DEF S, R
        <5> QED BY <5>1, <4>1, <1>1, ReachedIsLeast
      <4>3. l[1] \notin R
        <5> SUFFICES ASSUME l[1] \in R PROVE FALSE OBVIOUS
        <5>1. l[2] \in R BY <3>1, <1>2 DEF Shut
        <5>2. S \subseteq R BY <5>1, <1>2, ReachedIsLeast
        <5> QED BY <5>2, <3>4, <1>2
      <4> QED BY <4>2, <4>3, <3>1, <1>4
    <3> QED BY <3>3, <3>4
  <2> QED BY <2>1, <2>2
<1> QED BY <1>4 DEF Loops

-----------------------------------------------------------------------------
(* Ranks and sub-sequences. *)

LEMMA TurnIsARank ==
  ASSUME NEW size \in Nat, NEW P \in SUBSET (1..size)
  PROVE  /\ IsFiniteSet(P) /\ Cardinality(P) \in 0..size
         /\ \A n \in P : Turn(n, P) \in 1..Cardinality(P)
         /\ \A m, n \in P : m < n => Turn(m, P) < Turn(n, P)
         /\ \A k \in 1..Cardinality(P) : \E n \in P : Turn(n, P) = k
<1> DEFINE c == Cardinality(P)
           Upto(n) == {m \in P : m <= n}
<1>1. IsFiniteSet(1..size) /\ Cardinality(1..size) = size BY FS_Interval
<1>2. IsFiniteSet(P) /\ c \in Nat /\ c <= size BY <1>1, FS_Subset, FS_CardinalityType
<1>3. \A n \in P : Upto(n) \in SUBSET P /\ n \in Upto(n) OBVIOUS
<1>4. \A n : Turn(n, P) = Cardinality(Upto(n)) BY DEF Turn
<1>5. \A n \in P : Turn(n, P) \in 1..c
  <2> TAKE n \in P
  <2> HIDE DEF Upto, c
  <2>1. IsFiniteSet(Upto(n)) /\ Cardinality(Upto(n)) <= c BY <1>2, <1>3, FS_Subset DEF c
  <2>2. Cardinality(Upto(n)) \in Nat /\ Cardinality(Upto(n)) # 0
    BY <1>3, <2>1, FS_CardinalityType, FS_EmptySet
  <2> QED BY <2>1, <2>2, <1>2, <1>4
<1>6. ASSUME NEW m \in P, NEW n \in P, m < n
      PROVE  Turn(m, P) < Turn(n, P)
  <2>0. m \in Int /\ n \in Int /\ \A k \in P : k \in Int OBVIOUS
  <2>4. (\A k \in P : k <= m => k <= n) /\ ~ n <= m BY <2>0, <1>6
  <2>1. Upto(m) \in SUBSET Upto(n) /\ n \notin Upto(m) BY <2>4
  <2> HIDE DEF Upto, c
  <2>2. IsFiniteSet(Upto(n)) BY <1>2, <1>3, FS_Subset
  <2>3. Cardinality(Upto(m)) <= Cardinality(Upto(n)) /\ Cardinality(Upto(n)) # Cardinality(Upto(m))
    BY <2>1, <2>2, <1>3, FS_Subset
  <2> QED BY <2>3, <1>4, <1>5, <1>2
<1>7. \A k \in 1..c : \E n \in P : Turn(n, P) = k
  <2> DEFINE f == [n \in P |-> Turn(n, P)]
  <2>1. f \in [P -> 1..c] BY <1>5
  <2>2. \A m, n \in P : f[m] = f[n] => m = n
    <3> TAKE m, n \in P
    <3>1. m \in Int /\ n \in Int BY <1>1
    <3>2. Turn(m, P) \in Int /\ Turn(n, P) \in Int BY <1>5, <1>2
    <3> QED BY <3>1, <3>2, <1>6
  <2>3. IsFiniteSet(1..c) /\ Cardinality(1..c) = c BY <1>2, FS_Interval
  <2> HIDE DEF f
  <2>4. f \in Injection(P, 1..c) BY <2>1, <2>2 DEF Injection, IsInjective
  <2>5. f \in Surjection(P, 1..c)
    BY <2>3, <2>4, FS_Injection
  <2> QED BY <2>5 DEF Surjection, f
<1> QED BY <1>2, <1>5, <1>6, <1>7

\* The rank says which it is.
LEMMA TurnIsOnes ==
  ASSUME NEW size \in Nat, NEW P \in SUBSET (1..size), NEW m \in P, NEW n \in P, Turn(m, P) = Turn(n, P)
  PROVE  m = n
<1>1. m \in Int /\ n \in Int /\ Turn(m, P) \in Int /\ Turn(n, P) \in Int
  BY TurnIsARank
<1> QED BY <1>1, TurnIsARank

LEMMA PickedIs ==
  ASSUME NEW S, NEW s \in Seq(S), NEW P \in SUBSET (DOMAIN s)
  PROVE  /\ Picked(s, P) \in Seq(S)
         /\ Len(Picked(s, P)) = Cardinality(P) /\ DOMAIN Picked(s, P) = 1..Cardinality(P)
         /\ \A n \in P : Turn(n, P) \in DOMAIN Picked(s, P) /\ Picked(s, P)[Turn(n, P)] = s[n]
         /\ \A k \in DOMAIN Picked(s, P) : \E n \in P : Turn(n, P) = k /\ Picked(s, P)[k] = s[n]
<1> DEFINE p == Picked(s, P)
           spot(k) == CHOOSE n \in P : Turn(n, P) = k
<1>1. Len(s) \in Nat /\ P \in SUBSET (1..Len(s)) /\ \A n \in 1..Len(s) : s[n] \in S OBVIOUS
<1>2. Cardinality(P) \in Nat BY <1>1, TurnIsARank
<1>3. p = [k \in 1..Cardinality(P) |-> s[spot(k)]] BY DEF Picked
<1>4. \A k \in 1..Cardinality(P) : spot(k) \in P /\ Turn(spot(k), P) = k BY <1>1, TurnIsARank
<1>5. \A n \in P : Turn(n, P) \in 1..Cardinality(P) /\ spot(Turn(n, P)) = n
  <2> TAKE n \in P
  <2>1. Turn(n, P) \in 1..Cardinality(P) BY <1>1, TurnIsARank
  <2> HIDE DEF spot
  <2>2. spot(Turn(n, P)) \in P /\ Turn(spot(Turn(n, P)), P) = Turn(n, P) BY <2>1, <1>4
  <2> QED BY <2>1, <2>2, <1>1, TurnIsOnes
<1> HIDE DEF spot, p
<1>6. p \in Seq(S) /\ Len(p) = Cardinality(P) /\ DOMAIN p = 1..Cardinality(P)
  <2>1. \A k \in 1..Cardinality(P) : s[spot(k)] \in S BY <1>1, <1>4
  <2> QED BY <2>1, <1>2, <1>3
<1>7. \A k \in 1..Cardinality(P) : p[k] = s[spot(k)] BY <1>3
<1> QED BY <1>4, <1>5, <1>6, <1>7 DEF p

\* Every box once.
OnceEach(stages) == \A m, n \in DOMAIN stages : stages[m].id = stages[n].id => m = n

LEMMA DistinctIsOnceEach ==
  ASSUME NEW S, NEW s \in Seq(S)
  PROVE  /\ IsFiniteSet(IdsOf(s))
         /\ Cardinality(IdsOf(s)) = Len(s) <=> OnceEach(s)
<1> DEFINE f == [n \in 1..Len(s) |-> s[n].id]
<1>1. Len(s) \in Nat /\ DOMAIN s = 1..Len(s) OBVIOUS
<1>2. IsFiniteSet(1..Len(s)) /\ Cardinality(1..Len(s)) = Len(s) BY <1>1, FS_Interval
<1>3. f \in [1..Len(s) -> IdsOf(s)] /\ \A id \in IdsOf(s) : \E n \in 1..Len(s) : f[n] = id
  BY <1>1 DEF IdsOf
<1>4. (\A m, n \in 1..Len(s) : f[m] = f[n] => m = n) <=> OnceEach(s) BY <1>1 DEF OnceEach
<1> HIDE DEF f
<1>5. f \in Surjection(1..Len(s), IdsOf(s)) BY <1>3 DEF Surjection
<1>6. f \in Injection(1..Len(s), IdsOf(s)) <=> OnceEach(s)
  BY <1>3, <1>4 DEF Injection, IsInjective
<1> QED BY <1>2, <1>5, <1>6, FS_Surjection

-----------------------------------------------------------------------------
(* The order of the stages. *)

Ranked(S, names) == S \subseteq Nat /\ IsFiniteSet(S) /\ \A a \in S : names[a] \in Nat

IsFirst(a, S, names) == a \in S /\ \A b \in S \ {a} : Precedes(names, a, b)

LEMMA FirstIsFirst ==
  ASSUME NEW S, NEW names, Ranked(S, names), S # {}
  PROVE  IsFirst(FirstOf(S, names), S, names)
<1> DEFINE Ranks == {names[a] : a \in S}
<1>1. PICK k \in Ranks : \A r \in Ranks : k <= r
  <2>1. Ranks \subseteq Nat /\ Ranks # {} BY DEF Ranked
  <2> HIDE DEF Ranks
  <2> QED BY <2>1, LeastNatural
<1> DEFINE Tied == {a \in S : names[a] = k}
<1>2. PICK a \in Tied : \A b \in Tied : a <= b
  <2>1. Tied \subseteq Nat /\ Tied # {} BY <1>1 DEF Ranked
  <2> HIDE DEF Tied
  <2> QED BY <2>1, LeastNatural
<1>3. a \in S /\ names[a] = k BY <1>2
<1>4. ASSUME NEW b \in S \ {a}
      PROVE  Precedes(names, a, b)
  <2>1. names[a] <= names[b] /\ names[a] \in Nat /\ names[b] \in Nat BY <1>1, <1>3 DEF Ranked
  <2>2. names[a] = names[b] => a <= b BY <1>2, <1>3
  <2>3. a \in Nat /\ b \in Nat /\ a # b BY <1>3 DEF Ranked
  <2> QED BY <2>1, <2>2, <2>3 DEF Precedes
<1>5. \E c \in S : \A b \in S \ {c} : Precedes(names, c, b) BY <1>3, <1>4
<1> QED BY <1>5 DEF FirstOf, IsFirst

LEMMA OneIsFirst ==
  ASSUME NEW S, NEW names, NEW others, Ranked(S, names), \A a \in S : others[a] = names[a],
         NEW a, NEW b, IsFirst(a, S, names), IsFirst(b, S, others)
  PROVE  a = b
<1> SUFFICES ASSUME a # b PROVE FALSE OBVIOUS
<1>1. a \in S /\ b \in S /\ Precedes(names, a, b) /\ Precedes(others, b, a) BY DEF IsFirst
<1>2. a \in Nat /\ b \in Nat /\ names[a] \in Nat /\ names[b] \in Nat
      /\ others[a] = names[a] /\ others[b] = names[b]
  BY <1>1 DEF Ranked
<1> QED BY <1>1, <1>2 DEF Precedes

\* What stands before position i.
Ahead(q, i) == {q[j] : j \in 1..i - 1}

\* Each stage is the first of those that were ready when it was placed.
InTurn(S, links, names, q) ==
  /\ q \in Seq(S)
  /\ \A i \in DOMAIN q : IsFirst(q[i], Ready(S, links, Ahead(q, i)), names)

LEMMA ReadyIsRanked ==
  ASSUME NEW S, NEW links, NEW names, NEW placed, Ranked(S, names)
  PROVE  Ranked(Ready(S, links, placed), names)
<1>1. Ready(S, links, placed) \in SUBSET S BY DEF Ready
<1> QED BY <1>1, FS_Subset DEF Ranked

LEMMA InTurnIsOnce ==
  ASSUME NEW S, NEW links, NEW names, NEW q, InTurn(S, links, names, q)
  PROVE  \A m, n \in DOMAIN q : q[m] = q[n] => m = n
<1>1. q \in Seq(S) BY DEF InTurn
<1>2. DOMAIN q = 1..Len(q) /\ Len(q) \in Nat BY <1>1
<1>3. ASSUME NEW m \in DOMAIN q, NEW n \in DOMAIN q, m < n
      PROVE  q[m] # q[n]
  <2>1. q[m] \in Ahead(q, n) BY <1>2, <1>3 DEF Ahead
  <2>2. q[n] \notin Ahead(q, n) BY DEF InTurn, IsFirst, Ready
  <2> QED BY <2>1, <2>2
<1> QED BY <1>2, <1>3

\* The rounds of `Kahn`.
KahnRounds(S, links, names, n, w) ==
  w = [k \in 0..n |->
        IF k = 0 THEN <<>>
        ELSE IF Ready(S, links, Range(w[k - 1])) = {} THEN w[k - 1]
             ELSE Append(w[k - 1], FirstOf(Ready(S, links, Range(w[k - 1])), names))]

KahnStep(S, links, names, q) ==
  IF Ready(S, links, Range(q)) = {} THEN q ELSE Append(q, FirstOf(Ready(S, links, Range(q)), names))

LEMMA KahnRoundsExist ==
  ASSUME NEW S, NEW links, NEW names, NEW n \in Nat
  PROVE  \E w : KahnRounds(S, links, names, n, w)
<1> DEFINE Bad == {m \in Nat : \A w : ~ KahnRounds(S, links, names, m, w)}
<1> SUFFICES ASSUME Bad # {} PROVE FALSE OBVIOUS
<1>1. PICK m \in Bad : \A k \in Bad : m <= k BY LeastNatural
<1> HIDE DEF Bad
<1>2. m \in Nat /\ \A w : ~ KahnRounds(S, links, names, m, w) BY <1>1 DEF Bad
<1>3. CASE m = 0
  <2> DEFINE w == [k \in 0..0 |-> <<>>]
  <2>1. KahnRounds(S, links, names, 0, w) BY DEF KahnRounds
  <2> QED BY <2>1, <1>2, <1>3
<1>4. CASE m # 0
  <2>1. m - 1 \in Nat /\ ~ (m <= m - 1) BY <1>2, <1>4
  <2>2. m - 1 \notin Bad BY <1>1, <2>1
  <2>3. PICK v : KahnRounds(S, links, names, m - 1, v) BY <2>1, <2>2 DEF Bad
  <2> DEFINE w == [k \in 0..m |-> IF k = m THEN KahnStep(S, links, names, v[m - 1]) ELSE v[k]]
  <2>4. /\ \A k \in 0..m - 1 : v[k] = IF k = 0 THEN <<>> ELSE KahnStep(S, links, names, v[k - 1])
        /\ \A k \in 0..m : w[k] = IF k = m THEN KahnStep(S, links, names, v[m - 1]) ELSE v[k]
    BY <2>3 DEF KahnRounds, KahnStep
  <2>5. \A k \in 0..m : w[k] = IF k = 0 THEN <<>> ELSE KahnStep(S, links, names, w[k - 1])
    <3> SUFFICES ASSUME NEW k \in 0..m
                 PROVE  w[k] = IF k = 0 THEN <<>> ELSE KahnStep(S, links, names, w[k - 1])
      OBVIOUS
    <3> HIDE DEF w
    <3>1. k # 0 => k - 1 \in 0..m - 1 /\ k - 1 \in 0..m /\ k - 1 # m BY <1>2, <2>1
    <3>2. k # 0 => w[k - 1] = v[k - 1] BY <3>1, <2>4
    <3>3. k # m => k \in 0..m - 1 BY <1>2, <2>1
    <3> QED BY <3>2, <3>3, <2>4, <1>4
  <2>6. w = [k \in 0..m |-> w[k]] OBVIOUS
  <2> HIDE DEF w
  <2>7. KahnRounds(S, links, names, m, w) BY <2>5, <2>6 DEF KahnRounds, KahnStep
  <2> QED BY <2>7, <1>2
<1> QED BY <1>3, <1>4

LEMMA StepIsInTurn ==
  ASSUME NEW S, NEW links, NEW names, Ranked(S, names), NEW q, InTurn(S, links, names, q),
         Ready(S, links, Range(q)) # {}
  PROVE  LET r == KahnStep(S, links, names, q)
         IN  InTurn(S, links, names, r) /\ Len(r) = Len(q) + 1
<1> DEFINE R == Ready(S, links, Range(q))
           a == FirstOf(R, names)
           r == Append(q, a)
<1>1. q \in Seq(S) /\ Len(q) \in Nat /\ DOMAIN q = 1..Len(q) BY DEF InTurn
<1>2. IsFirst(a, R, names) /\ R \subseteq S
  <2>1. Ranked(R, names) /\ R # {} BY ReadyIsRanked
  <2>2. R \subseteq S BY DEF Ready
  <2> HIDE DEF R
  <2> QED BY <2>1, <2>2, FirstIsFirst
<1>3. a \in S BY <1>2 DEF IsFirst
<1>4. KahnStep(S, links, names, q) = r BY DEF KahnStep
<1> HIDE DEF a, R
<1>5. r \in Seq(S) /\ Len(r) = Len(q) + 1 /\ r[Len(q) + 1] = a /\ \A i \in 1..Len(q) : r[i] = q[i]
  BY <1>1, <1>3, AppendProperties
<1>6. ASSUME NEW i \in DOMAIN r
      PROVE  IsFirst(r[i], Ready(S, links, Ahead(r, i)), names)
  <2>1. i \in 1..Len(q) + 1 BY <1>1, <1>5
  <2>2. Ahead(r, i) = Ahead(q, i)
    <3>1. \A j \in 1..i - 1 : r[j] = q[j] BY <2>1, <1>1, <1>5
    <3> QED BY <3>1 DEF Ahead
  <2>3. CASE i = Len(q) + 1
    <3>1. Ahead(q, i) = Range(q) BY <2>3, <1>1 DEF Ahead, Range
    <3> QED BY <3>1, <2>2, <2>3, <1>2, <1>5 DEF R
  <2>4. CASE i # Len(q) + 1
    <3>1. i \in 1..Len(q) BY <2>1, <2>4, <1>1
    <3> QED BY <3>1, <2>2, <1>1, <1>5 DEF InTurn
  <2> QED BY <2>3, <2>4
<1> QED BY <1>4, <1>5, <1>6 DEF InTurn

\* Kahn's algorithm places a stage as soon as it can, and stops when it cannot.
LEMMA KahnIsInTurn ==
  ASSUME NEW S, NEW links, NEW names, Ranked(S, names)
  PROVE  /\ InTurn(S, links, names, Kahn(S, links, names))
         /\ Ready(S, links, Range(Kahn(S, links, names))) = {}
<1> DEFINE size == Cardinality(S)
           w == CHOOSE u : KahnRounds(S, links, names, size, u)
           Good(k) == /\ InTurn(S, links, names, w[k])
                      /\ Len(w[k]) = k \/ Ready(S, links, Range(w[k])) = {}
           Bad == {k \in 0..size : ~ Good(k)}
<1>1. IsFiniteSet(S) /\ size \in Nat BY FS_CardinalityType DEF Ranked
<1>2. KahnRounds(S, links, names, size, w) BY <1>1, KahnRoundsExist
<1>3. Kahn(S, links, names) = w[size] BY DEF Kahn, KahnRounds
<1> HIDE DEF w, size
<1>4. \A k \in 0..size : w[k] = IF k = 0 THEN <<>> ELSE KahnStep(S, links, names, w[k - 1])
  BY <1>2 DEF KahnRounds, KahnStep
<1>5. Bad = {}
  <2> SUFFICES ASSUME Bad # {} PROVE FALSE OBVIOUS
  <2>0. Bad \in SUBSET (0..size) OBVIOUS
  <2>1. PICK k \in Bad : k \in 0..size /\ \A j \in Bad : k <= j
    <3> HIDE DEF Bad
    <3> QED BY <2>0, <1>1, LeastUpTo
  <2>2. k \in 0..size /\ ~ Good(k) BY <2>1
  <2>3. CASE k = 0
    <3>1. w[k] = <<>> BY <2>2, <2>3, <1>4
    <3> QED BY <3>1, <2>2, <2>3 DEF InTurn
  <2>4. CASE k # 0
    <3>1. k - 1 \in 0..size /\ ~ (k <= k - 1) /\ k \in Nat BY <2>2, <2>4, <1>1
    <3>2. w[k] = KahnStep(S, links, names, w[k - 1]) BY <2>2, <2>4, <1>4
    <3>3. Good(k - 1) BY <3>1, <2>1
    <3>4. CASE Ready(S, links, Range(w[k - 1])) = {}
      <4>1. w[k] = w[k - 1] BY <3>2, <3>4 DEF KahnStep
      <4> QED BY <4>1, <3>3, <3>4, <2>2
    <3>5. CASE Ready(S, links, Range(w[k - 1])) # {}
      <4>1. InTurn(S, links, names, w[k - 1]) /\ Len(w[k - 1]) = k - 1 BY <3>3, <3>5
      <4>2. InTurn(S, links, names, w[k]) /\ Len(w[k]) = Len(w[k - 1]) + 1
        BY <4>1, <3>2, <3>5, StepIsInTurn
      <4>3. Len(w[k]) = k BY <4>1, <4>2, <3>1
      <4> QED BY <4>2, <4>3, <2>2
    <3> QED BY <3>4, <3>5
  <2> QED BY <2>3, <2>4
<1>6. Good(size) BY <1>1, <1>5
<1>7. ASSUME Len(w[size]) = size PROVE Ready(S, links, Range(w[size])) = {}
  <2> DEFINE q == w[size]
  <2>0. InTurn(S, links, names, q) BY <1>6
  <2> HIDE DEF q
  <2>1. q \in Seq(S) /\ \A m, n \in DOMAIN q : q[m] = q[n] => m = n
    <3>1. q \in Seq(S) BY <2>0 DEF InTurn
    <3>2. \A m, n \in DOMAIN q : q[m] = q[n] => m = n BY <2>0, InTurnIsOnce
    <3> QED BY <3>1, <3>2
  <2>2. DOMAIN q = 1..size /\ q \in [1..size -> S] BY <1>7, <2>1 DEF q
  <2>3. q \in Injection(1..size, S) BY <2>1, <2>2 DEF Injection, IsInjective
  <2>4. IsFiniteSet(1..size) /\ Cardinality(1..size) = size BY <1>1, FS_Interval
  <2>5. q \in Surjection(1..size, S) BY <2>3, <2>4, <1>1, FS_Injection DEF size
  <2>6. S \subseteq Range(q) BY <2>2, <2>5 DEF Surjection, Range
  <2> QED BY <2>6 DEF q, Ready
<1> QED BY <1>3, <1>6, <1>7

\* Names that agree on the stages give one order of them.
LEMMA InTurnIsOne ==
  ASSUME NEW S, NEW links, NEW names, NEW others, Ranked(S, names), \A a \in S : others[a] = names[a],
         NEW q, InTurn(S, links, names, q), Ready(S, links, Range(q)) = {},
         NEW r, InTurn(S, links, others, r), Ready(S, links, Range(r)) = {}
  PROVE  q = r
<1> DEFINE Bad == {i \in 1..Len(q) : i \in 1..Len(r) /\ q[i] # r[i]}
<1>1. /\ q \in Seq(S) /\ Len(q) \in Nat /\ DOMAIN q = 1..Len(q)
      /\ r \in Seq(S) /\ Len(r) \in Nat /\ DOMAIN r = 1..Len(r)
  BY DEF InTurn
<1>2. Bad = {}
  <2> SUFFICES ASSUME Bad # {} PROVE FALSE OBVIOUS
  <2>1. Bad \in SUBSET (0..Len(q)) OBVIOUS
  <2>2. PICK i \in Bad : i \in 0..Len(q) /\ \A j \in Bad : i <= j
    <3> HIDE DEF Bad
    <3> QED BY <2>1, <1>1, LeastUpTo
  <2>3. i \in 1..Len(q) /\ i \in 1..Len(r) /\ q[i] # r[i] BY <2>2
  <2>4. \A j \in 1..i - 1 : q[j] = r[j]
    <3> TAKE j \in 1..i - 1
    <3>1. j \in 1..Len(q) /\ j \in 1..Len(r) /\ ~ (i <= j) BY <2>3, <1>1
    <3> QED BY <3>1, <2>2
  <2> HIDE DEF Bad
  <2>5. Ahead(q, i) = Ahead(r, i) BY <2>4 DEF Ahead
  <2>6. Ranked(Ready(S, links, Ahead(q, i)), names) BY ReadyIsRanked
  <2>7. Ready(S, links, Ahead(q, i)) \subseteq S BY DEF Ready
  <2>8. /\ IsFirst(q[i], Ready(S, links, Ahead(q, i)), names)
        /\ IsFirst(r[i], Ready(S, links, Ahead(q, i)), others)
    BY <2>3, <2>5, <1>1 DEF InTurn
  <2>9. \A a \in Ready(S, links, Ahead(q, i)) : others[a] = names[a] BY <2>7
  <2> QED BY <2>3, <2>6, <2>8, <2>9, OneIsFirst
<1>3. ~ Len(q) < Len(r)
  <2> SUFFICES ASSUME Len(q) < Len(r) PROVE FALSE OBVIOUS
  <2>1. Len(q) + 1 \in DOMAIN r /\ (Len(q) + 1) - 1 = Len(q) BY <1>1
  <2>2. \A j \in 1..Len(q) : q[j] = r[j] BY <1>1, <1>2
  <2>3. Ahead(r, Len(q) + 1) = Range(q) BY <2>1, <2>2, <1>1 DEF Ahead, Range
  <2> QED BY <2>1, <2>3 DEF InTurn, IsFirst
<1>4. ~ Len(r) < Len(q)
  <2> SUFFICES ASSUME Len(r) < Len(q) PROVE FALSE OBVIOUS
  <2>1. Len(r) + 1 \in DOMAIN q /\ (Len(r) + 1) - 1 = Len(r) BY <1>1
  <2>2. \A j \in 1..Len(r) : q[j] = r[j] BY <1>1, <1>2
  <2>3. Ahead(q, Len(r) + 1) = Range(r) BY <2>1, <2>2, <1>1 DEF Ahead, Range
  <2> QED BY <2>1, <2>3 DEF InTurn, IsFirst
<1>5. Len(q) = Len(r)
  <2>1. Len(q) \in Nat /\ Len(r) \in Nat BY <1>1
  <2> QED BY <2>1, <1>3, <1>4
<1>6. \A j \in 1..Len(q) : q[j] = r[j] BY <1>2, <1>5
<1> QED BY <1>1, <1>5, <1>6, SeqEqual

\* Every member of S, once.
Permutes(q, S) ==
  /\ q \in Seq(S)
  /\ \A m, n \in DOMAIN q : q[m] = q[n] => m = n
  /\ \A a \in S : \E n \in DOMAIN q : q[n] = a

LEMMA InTurnIsInRange ==
  ASSUME NEW S, NEW links, NEW names, NEW q, InTurn(S, links, names, q)
  PROVE  q \in Seq(S) /\ Range(q) \subseteq S /\ Permutes(q, Range(q))
<1>1. q \in Seq(S) BY DEF InTurn
<1>2. \A m, n \in DOMAIN q : q[m] = q[n] => m = n BY InTurnIsOnce
<1>3. \A n \in 1..Len(q) : q[n] \in S /\ q[n] \in Range(q) BY <1>1 DEF Range
<1>4. Range(q) \subseteq S BY <1>1, <1>3 DEF Range
<1>5. q \in Seq(Range(q)) BY <1>1, <1>3
<1>6. \A a \in Range(q) : \E n \in DOMAIN q : q[n] = a BY DEF Range
<1> QED BY <1>1, <1>2, <1>4, <1>5, <1>6 DEF Permutes

LEMMA PermutesConcat ==
  ASSUME NEW A, NEW B, A \cap B = {}, NEW q, Permutes(q, A), NEW r, Permutes(r, B)
  PROVE  Permutes(q \o r, A \cup B)
<1> DEFINE s == q \o r
<1>1. /\ q \in Seq(A) /\ Len(q) \in Nat /\ DOMAIN q = 1..Len(q) /\ \A i \in 1..Len(q) : q[i] \in A
      /\ r \in Seq(B) /\ Len(r) \in Nat /\ DOMAIN r = 1..Len(r) /\ \A i \in 1..Len(r) : r[i] \in B
  BY DEF Permutes
<1>2. q \in Seq(A \cup B) /\ r \in Seq(A \cup B) BY <1>1
<1>3. /\ s \in Seq(A \cup B) /\ Len(s) = Len(q) + Len(r) /\ DOMAIN s = 1..Len(q) + Len(r)
      /\ \A i \in 1..Len(q) + Len(r) : s[i] = IF i <= Len(q) THEN q[i] ELSE r[i - Len(q)]
  BY <1>1, <1>2, ConcatProperties
<1> HIDE DEF s
<1>4. \A i \in DOMAIN s : \/ i \in DOMAIN q /\ s[i] = q[i] /\ s[i] \in A
                          \/ i - Len(q) \in DOMAIN r /\ s[i] = r[i - Len(q)] /\ s[i] \in B /\ i \in Int
  <2> TAKE i \in DOMAIN s
  <2>1. i \in 1..Len(q) + Len(r) BY <1>3
  <2>2. CASE i <= Len(q)
    <3>1. i \in 1..Len(q) BY <2>1, <2>2, <1>1
    <3> QED BY <3>1, <2>1, <2>2, <1>1, <1>3
  <2>3. CASE ~ i <= Len(q)
    <3>1. i - Len(q) \in 1..Len(r) BY <2>1, <2>3, <1>1
    <3> QED BY <3>1, <2>1, <2>3, <1>1, <1>3
  <2> QED BY <2>2, <2>3
<1>5. ASSUME NEW m \in DOMAIN s, NEW n \in DOMAIN s, s[m] = s[n]
      PROVE  m = n
  <2>1. CASE s[m] \in A
    <3>1. s[m] \notin B /\ s[n] \notin B BY <2>1, <1>5
    <3>2. m \in DOMAIN q /\ n \in DOMAIN q /\ q[m] = q[n] BY <3>1, <1>4, <1>5
    <3> QED BY <3>2 DEF Permutes
  <2>2. CASE s[m] \notin A
    <3>1. /\ m - Len(q) \in DOMAIN r /\ n - Len(q) \in DOMAIN r /\ r[m - Len(q)] = r[n - Len(q)]
          /\ m \in Int /\ n \in Int
      BY <2>2, <1>4, <1>5
    <3>2. m - Len(q) = n - Len(q) BY <3>1 DEF Permutes
    <3> QED BY <3>1, <3>2, <1>1
  <2> QED BY <2>1, <2>2
<1>6. ASSUME NEW a \in A \cup B
      PROVE  \E n \in DOMAIN s : s[n] = a
  <2>1. CASE a \in A
    <3>1. PICK n \in DOMAIN q : q[n] = a BY <2>1 DEF Permutes
    <3>2. n \in 1..Len(q) + Len(r) /\ n <= Len(q) BY <3>1, <1>1
    <3> QED BY <3>1, <3>2, <1>3
  <2>2. CASE a \in B
    <3>1. PICK n \in DOMAIN r : r[n] = a BY <2>2 DEF Permutes
    <3>2. n + Len(q) \in 1..Len(q) + Len(r) /\ ~ n + Len(q) <= Len(q) /\ (n + Len(q)) - Len(q) = n
      BY <3>1, <1>1
    <3>3. s[n + Len(q)] = a BY <3>1, <3>2, <1>3
    <3> QED BY <3>2, <3>3, <1>3
  <2> QED BY <2>1, <2>2
<1> QED BY <1>3, <1>5, <1>6 DEF Permutes, s

LEMMA PermutesMeans ==
  ASSUME NEW S, IsFiniteSet(S), NEW q, Permutes(q, S)
  PROVE  Len(q) = Cardinality(S) /\ Range(q) = S
<1>1. q \in Seq(S) /\ Len(q) \in Nat /\ DOMAIN q = 1..Len(q) /\ q \in [1..Len(q) -> S] BY DEF Permutes
<1>2. q \in Surjection(1..Len(q), S) BY <1>1 DEF Permutes, Surjection
<1>3. q \in Injection(1..Len(q), S) BY <1>1 DEF Permutes, Injection, IsInjective
<1>4. IsFiniteSet(1..Len(q)) /\ Cardinality(1..Len(q)) = Len(q) BY <1>1, FS_Interval
<1>5. Cardinality(S) = Len(q) BY <1>2, <1>3, <1>4, FS_Surjection
<1>6. Range(q) = S BY <1>1, <1>2 DEF Surjection, Range
<1> QED BY <1>5, <1>6

\* A sort is every one of them, once.
LEMMA SortIsWhole ==
  ASSUME NEW S, NEW names, Ranked(S, names)
  PROVE  /\ Permutes(ByNameThenId(S, names), S)
         /\ InTurn(S, {}, names, ByNameThenId(S, names))
<1> DEFINE q == Kahn(S, {}, names)
<1>1. InTurn(S, {}, names, q) /\ Ready(S, {}, Range(q)) = {} BY KahnIsInTurn
<1> HIDE DEF q
<1>2. Range(q) = S
  <2>1. S \subseteq Range(q) BY <1>1 DEF Ready
  <2> QED BY <2>1, <1>1, InTurnIsInRange
<1> QED BY <1>1, <1>2, InTurnIsInRange DEF ByNameThenId, q

\* Every stage, once: the cyclic ones after the others.
LEMMA TopologicalOrderIsWhole ==
  ASSUME NEW S, NEW links, NEW names, Ranked(S, names)
  PROVE  LET topo == TopologicalOrder(S, links, names)
         IN  /\ Permutes(topo.ordered, S)
             /\ topo.cyclic = S \ Range(Kahn(S, links, names))
             /\ topo.cyclic = {} => topo.ordered = Kahn(S, links, names)
<1> DEFINE q == Kahn(S, links, names)
           rest == S \ Range(q)
           r == ByNameThenId(rest, names)
<1>1. TopologicalOrder(S, links, names) = [ordered |-> q \o r, cyclic |-> rest]
  BY DEF TopologicalOrder
<1>2. InTurn(S, links, names, q) BY KahnIsInTurn
<1> HIDE DEF q
<1>3. Range(q) \subseteq S /\ Permutes(q, Range(q)) BY <1>2, InTurnIsInRange
<1>4. Ranked(rest, names) BY FS_Subset DEF Ranked
<1>5. Permutes(r, rest)
  <2> HIDE DEF rest
  <2> QED BY <1>4, SortIsWhole
<1>6. Permutes(q \o r, S)
  <2>1. Range(q) \cap rest = {} /\ Range(q) \cup rest = S BY <1>3
  <2> HIDE DEF rest, r
  <2> QED BY <2>1, <1>3, <1>5, PermutesConcat
<1>7. ASSUME rest = {} PROVE q \o r = q
  <2>1. Len(r) \in Nat /\ r \in Seq(rest) BY <1>5 DEF Permutes
  <2> HIDE DEF r
  <2>2. r = <<>> BY <2>1, <1>7
  <2> QED BY <2>2, <1>3, ConcatEmptySeq DEF Permutes
<1> DEFINE topo == TopologicalOrder(S, links, names)
<1>8. topo.ordered = q \o r /\ topo.cyclic = rest BY <1>1
<1> HIDE DEF topo, r
<1>9. Permutes(topo.ordered, S) BY <1>6, <1>8
<1> QED BY <1>7, <1>8, <1>9 DEF q, topo

-----------------------------------------------------------------------------
(* What is sent, and what a schedule fires. *)

StageRecords == [id : Ids, runs : Targets]
Catalogues == [keeps : SUBSET Jobs, good : SUBSET Jobs, name : [Targets -> Nat]]

LEMMA StageOfIs ==
  ASSUME NEW stages \in Seq(StageRecords), NEW id \in IdsOf(stages)
  PROVE  /\ StageOf(stages, id) \in Range(stages) /\ StageOf(stages, id).id = id
         /\ StageOf(stages, id) \in StageRecords
<1>1. \E s \in Range(stages) : s.id = id BY DEF IdsOf, Range
<1>2. StageOf(stages, id) \in Range(stages) /\ StageOf(stages, id).id = id BY <1>1 DEF StageOf
<1>3. Range(stages) \subseteq StageRecords BY DEF Range
<1> QED BY <1>2, <1>3

LEMMA IdsAreTyped ==
  ASSUME NEW stages \in Seq(StageRecords)
  PROVE  IdsOf(stages) \subseteq Ids /\ IdsOf(stages) \subseteq Nat /\ IsFiniteSet(IdsOf(stages))
<1>1. \A n \in DOMAIN stages : stages[n] \in StageRecords OBVIOUS
<1>2. IdsOf(stages) \subseteq Ids BY <1>1 DEF IdsOf, StageRecords
<1>3. IsFiniteSet(IdsOf(stages)) BY DistinctIsOnceEach
<1> QED BY <1>2, <1>3, IdsAreRanked

LEMMA StagesAreNamed ==
  ASSUME NEW stages \in Seq(StageRecords), NEW lib \in Catalogues
  PROVE  /\ Ranked(IdsOf(stages), StudioNames(stages, lib))
         /\ Ranked(IdsOf(stages), ServerNames(stages, lib))
<1>1. \A t \in Targets : lib.name[t] \in Nat BY DEF Catalogues
<1>2. ASSUME NEW id \in IdsOf(stages)
      PROVE  StudioNames(stages, lib)[id] \in Nat /\ ServerNames(stages, lib)[id] \in Nat
  <2>1. StageOf(stages, id).runs \in Targets BY StageOfIs DEF StageRecords
  <2>2. lib.name[StageOf(stages, id).runs] \in Nat BY <2>1, <1>1
  <2> QED BY <2>2, NamesAreRanked DEF StudioNames, ServerNames
<1> QED BY <1>2, IdsAreTyped DEF Ranked

\* Every stage once, in some order.
Arranged(sent, stages) ==
  /\ sent \in Seq(Range(stages)) /\ sent \in Seq(StageRecords)
  /\ OnceEach(sent)
  /\ IdsOf(sent) = IdsOf(stages)

LEMMA OrderArranges ==
  ASSUME NEW stages \in Seq(StageRecords), NEW order, Permutes(order, IdsOf(stages))
  PROVE  LET sent == [n \in DOMAIN order |-> StageOf(stages, order[n])]
         IN  /\ Arranged(sent, stages)
             /\ Len(sent) = Len(order) /\ DOMAIN sent = DOMAIN order
             /\ \A n \in DOMAIN order : sent[n].id = order[n]
<1> DEFINE sent == [n \in DOMAIN order |-> StageOf(stages, order[n])]
<1>1. /\ order \in Seq(IdsOf(stages)) /\ Len(order) \in Nat /\ DOMAIN order = 1..Len(order)
      /\ \A n \in 1..Len(order) : order[n] \in IdsOf(stages)
  BY DEF Permutes
<1>2. \A n \in 1..Len(order) : /\ StageOf(stages, order[n]) \in Range(stages)
                              /\ StageOf(stages, order[n]) \in StageRecords
                              /\ StageOf(stages, order[n]).id = order[n]
  BY <1>1, StageOfIs
<1>3. sent = [n \in 1..Len(order) |-> StageOf(stages, order[n])] BY <1>1
<1>4. \A n \in 1..Len(order) : sent[n] \in Range(stages) /\ sent[n] \in StageRecords /\ sent[n].id = order[n]
  BY <1>2, <1>3
<1>5. DOMAIN sent = 1..Len(order) BY <1>3
<1>6. sent \in Seq(Range(stages)) /\ sent \in Seq(StageRecords) /\ Len(sent) = Len(order)
  <2>1. sent = [n \in 1..Len(order) |-> sent[n]] BY <1>3
  <2> HIDE DEF sent
  <2> QED BY <2>1, <1>1, <1>4
<1> HIDE DEF sent
<1>7. OnceEach(sent) BY <1>1, <1>4, <1>5 DEF OnceEach, Permutes
<1>8. IdsOf(sent) = IdsOf(stages)
  <2>1. IdsOf(sent) \subseteq IdsOf(stages) BY <1>1, <1>4, <1>5 DEF IdsOf
  <2>2. \A id \in IdsOf(stages) : \E n \in 1..Len(order) : order[n] = id BY <1>1 DEF Permutes
  <2>3. IdsOf(stages) \subseteq IdsOf(sent) BY <2>2, <1>4, <1>5 DEF IdsOf
  <2> QED BY <2>1, <2>3
<1> QED BY <1>1, <1>4, <1>5, <1>6, <1>7, <1>8 DEF Arranged, sent

LEMMA ShownLinksAre ==
  ASSUME NEW d \in Drawings
  PROVE  Ends(LinksShown(d)) \subseteq IdsOf(d.stages)
BY DEF Ends, LinksShown

LEMMA DrawingIs ==
  ASSUME NEW d \in Drawings
  PROVE  /\ d.stages \in Seq(StageRecords) /\ d.links \subseteq Ids \X Ids
         /\ d = [stages |-> d.stages, links |-> d.links]
BY DEF Drawings, StageRecords

LEMMA RankedSubset ==
  ASSUME NEW S, NEW names, Ranked(S, names), NEW T \in SUBSET S
  PROVE  Ranked(T, names)
BY FS_Subset DEF Ranked

\* The canvas numbers every stage, the linked ones first.
LEMMA ResolveIsWhole ==
  ASSUME NEW d \in Drawings, NEW lib \in Catalogues
  PROVE  LET names   == StudioNames(d.stages, lib)
             linked  == Ends(LinksShown(d))
             topo    == TopologicalOrder(linked, LinksShown(d), names)
             orphans == ByNameThenId(IdsOf(d.stages) \ linked, names)
         IN  /\ Resolve(d, lib) = [order |-> topo.ordered \o orphans, cyclic |-> topo.cyclic]
             /\ Ranked(IdsOf(d.stages), names)
             /\ Ranked(linked, names) /\ Ranked(IdsOf(d.stages) \ linked, names)
             /\ Permutes(topo.ordered, linked)
             /\ Permutes(orphans, IdsOf(d.stages) \ linked)
             /\ Permutes(Resolve(d, lib).order, IdsOf(d.stages))
<1> DEFINE names   == StudioNames(d.stages, lib)
           ids     == IdsOf(d.stages)
           linked  == Ends(LinksShown(d))
           topo    == TopologicalOrder(linked, LinksShown(d), names)
           orphans == ByNameThenId(ids \ linked, names)
<1>1. Resolve(d, lib) = [order |-> topo.ordered \o orphans, cyclic |-> topo.cyclic] BY DEF Resolve
<1>2. Ranked(ids, names) BY DrawingIs, StagesAreNamed
<1>3. linked \subseteq ids BY ShownLinksAre
<1> HIDE DEF names, linked, ids
<1>4. Ranked(linked, names) /\ Ranked(ids \ linked, names) BY <1>2, <1>3, RankedSubset
<1>5. Permutes(topo.ordered, linked) BY <1>4, TopologicalOrderIsWhole
<1>6. Permutes(orphans, ids \ linked) BY <1>4, SortIsWhole
<1> HIDE DEF topo, orphans
<1>7. Permutes(topo.ordered \o orphans, ids)
  <2>1. linked \cup (ids \ linked) = ids /\ linked \cap (ids \ linked) = {} BY <1>3
  <2> QED BY <2>1, <1>5, <1>6, PermutesConcat
<1>8. Permutes(Resolve(d, lib).order, ids) BY <1>1, <1>7
<1> QED BY <1>1, <1>2, <1>4, <1>5, <1>6, <1>8 DEF names, ids, linked, topo, orphans

LEMMA PlanIsArranged ==
  ASSUME NEW d \in Drawings, NEW lib \in Catalogues, PlanPipelineRun(d, lib) # <<>>
  PROVE  /\ Arranged(PlanPipelineRun(d, lib), d.stages)
         /\ ~ Blocked(d, lib, Resolve(d, lib))
         /\ Len(PlanPipelineRun(d, lib)) = Len(Resolve(d, lib).order)
         /\ DOMAIN PlanPipelineRun(d, lib) = DOMAIN Resolve(d, lib).order
         /\ \A n \in DOMAIN Resolve(d, lib).order : PlanPipelineRun(d, lib)[n].id = Resolve(d, lib).order[n]
<1>1. Permutes(Resolve(d, lib).order, IdsOf(d.stages)) BY ResolveIsWhole
<1>2. ~ Blocked(d, lib, Resolve(d, lib)) BY DEF PlanPipelineRun
<1>3. PlanPipelineRun(d, lib) =
        [n \in DOMAIN Resolve(d, lib).order |-> StageOf(d.stages, Resolve(d, lib).order[n])]
  BY <1>2 DEF PlanPipelineRun, StagesShown
<1>4. d.stages \in Seq(StageRecords) BY DrawingIs
<1> QED BY <1>1, <1>2, <1>3, <1>4, OrderArranges

LEMMA OrderIsArranged ==
  ASSUME NEW d \in Drawings, NEW lib \in Catalogues
  PROVE  LET topo == TopologicalOrder(IdsOf(d.stages), LinksShown(d), ServerNames(d.stages, lib))
         IN  /\ Permutes(topo.ordered, IdsOf(d.stages))
             /\ Arranged(OrderStages(d, lib), d.stages)
             /\ OrderStages(d, lib) = [n \in DOMAIN topo.ordered |-> StageOf(d.stages, topo.ordered[n])]
<1> DEFINE topo == TopologicalOrder(IdsOf(d.stages), LinksShown(d), ServerNames(d.stages, lib))
<1>1. d.stages \in Seq(StageRecords) BY DrawingIs
<1>2. Permutes(topo.ordered, IdsOf(d.stages)) BY <1>1, StagesAreNamed, TopologicalOrderIsWhole
<1>3. OrderStages(d, lib) = [n \in DOMAIN topo.ordered |-> StageOf(d.stages, topo.ordered[n])]
  BY DEF OrderStages
<1> HIDE DEF topo
<1>4. Arranged(OrderStages(d, lib), d.stages) BY <1>1, <1>2, <1>3, OrderArranges
<1> QED BY <1>2, <1>3, <1>4 DEF topo

-----------------------------------------------------------------------------
(* What a gesture does to one drawing. *)

\* What is true of every drawing the record it was opened with may come to.  An
\* end that is missing was missing then, and no box has come to take its place.
Descends(d) ==
  /\ d \in Drawings /\ IsFiniteSet(d.links)
  /\ Loops(d) \subseteq Loops(opened)
  /\ OnceEach(opened.stages) => OnceEach(d.stages)
  /\ \A l \in d.links : \A id \in {l[1], l[2]} \ IdsOf(d.stages) :
       l \in opened.links /\ id \notin IdsOf(opened.stages)
  /\ IdsOf(d.stages) \cap Ends(opened.links) \subseteq IdsOf(opened.stages)

LEMMA DrawingUpdates ==
  ASSUME NEW d \in Drawings, NEW x
  PROVE  /\ [d EXCEPT !.stages = x] = [stages |-> x, links |-> d.links]
         /\ [d EXCEPT !.links = x] = [stages |-> d.stages, links |-> x]
BY DEF Drawings

LEMMA OpenedDescends ==
  ASSUME opened \in Opened
  PROVE  Descends(opened)
<1>1. opened \in Drawings /\ IsFiniteSet(opened.links) BY OpenedAreDrawings
<1>2. \A l \in opened.links : \A id \in {l[1], l[2]} \ IdsOf(opened.stages) :
        l \in opened.links /\ id \notin IdsOf(opened.stages)
  OBVIOUS
<1> QED BY <1>1, <1>2 DEF Descends

LEMMA AddedDescends ==
  ASSUME NEW d, Descends(d), NEW id \in Ids, NEW target \in Targets,
         id \notin IdsOf(d.stages), id \notin Ends(opened.links)
  PROVE  Descends([d EXCEPT !.stages = Append(@, [id |-> id, runs |-> target])])
<1> DEFINE new == [id |-> id, runs |-> target]
           stages == Append(d.stages, new)
           c == [d EXCEPT !.stages = Append(@, new)]
<1>1. d.stages \in Seq(StageRecords) /\ d.links \subseteq Ids \X Ids /\ d = [stages |-> d.stages, links |-> d.links]
  BY DrawingIs DEF Descends
<1>2. new \in StageRecords BY DEF StageRecords
<1>3. c.stages = stages /\ c.links = d.links /\ c = [stages |-> stages, links |-> d.links]
  <2>1. c = [stages |-> stages, links |-> d.links] BY DrawingUpdates DEF Descends
  <2> HIDE DEF c, stages
  <2> QED BY <2>1
<1>4. /\ stages \in Seq(StageRecords) /\ Len(d.stages) \in Nat
      /\ DOMAIN stages = 1..Len(d.stages) + 1 /\ DOMAIN d.stages = 1..Len(d.stages)
      /\ stages[Len(d.stages) + 1] = new /\ \A n \in 1..Len(d.stages) : stages[n] = d.stages[n]
  BY <1>1, <1>2, AppendProperties
<1> HIDE DEF c, stages
<1>5. c \in Drawings /\ IsFiniteSet(c.links) BY <1>1, <1>3, <1>4 DEF Drawings, StageRecords, Descends
<1>6. IdsOf(c.stages) = IdsOf(d.stages) \cup {id}
  <2>1. \A n \in 1..Len(d.stages) + 1 : n \in 1..Len(d.stages) \/ n = Len(d.stages) + 1 BY <1>4
  <2>2. IdsOf(stages) \subseteq IdsOf(d.stages) \cup {id} BY <2>1, <1>4 DEF IdsOf
  <2>3. \A n \in 1..Len(d.stages) : n \in 1..Len(d.stages) + 1 BY <1>4
  <2>4. Len(d.stages) + 1 \in 1..Len(d.stages) + 1 BY <1>4
  <2>5. IdsOf(d.stages) \subseteq IdsOf(stages) BY <2>3, <1>4 DEF IdsOf
  <2>6. id \in IdsOf(stages) BY <2>4, <1>4 DEF IdsOf
  <2> QED BY <2>2, <2>5, <2>6, <1>3
<1>7. Loops(c) \subseteq Loops(opened)
  <2>1. Loops(c) \subseteq Loops(d) BY <1>3, FewerLoops DEF Descends
  <2> QED BY <2>1 DEF Descends
<1>8. ASSUME OnceEach(opened.stages) PROVE OnceEach(c.stages)
  <2>1. OnceEach(d.stages) BY <1>8 DEF Descends
  <2>2. \A n \in 1..Len(d.stages) : stages[n].id = d.stages[n].id /\ stages[n].id # id
    BY <1>4 DEF IdsOf
  <2>3. \A n \in 1..Len(d.stages) + 1 : n \in 1..Len(d.stages) \/ n = Len(d.stages) + 1 BY <1>4
  <2> QED BY <2>1, <2>2, <2>3, <1>3, <1>4 DEF OnceEach
<1>9. \A l \in c.links : \A e \in {l[1], l[2]} \ IdsOf(c.stages) :
        l \in opened.links /\ e \notin IdsOf(opened.stages)
  BY <1>3, <1>6 DEF Descends
<1>10. IdsOf(c.stages) \cap Ends(opened.links) \subseteq IdsOf(opened.stages)
  BY <1>6 DEF Descends
<1>11. Descends(c) BY <1>5, <1>7, <1>8, <1>9, <1>10 DEF Descends
<1> QED BY <1>11 DEF c

LEMMA PickedIds ==
  ASSUME NEW stages \in Seq(StageRecords), NEW id
  PROVE  LET kept == Picked(stages, {n \in DOMAIN stages : stages[n].id # id})
         IN  /\ kept \in Seq(StageRecords)
             /\ IdsOf(kept) = IdsOf(stages) \ {id}
             /\ OnceEach(stages) => OnceEach(kept)
<1> DEFINE P == {n \in DOMAIN stages : stages[n].id # id}
           kept == Picked(stages, P)
<1>1. P \in SUBSET (DOMAIN stages) OBVIOUS
<1>2. /\ kept \in Seq(StageRecords)
      /\ \A n \in P : Turn(n, P) \in DOMAIN kept /\ kept[Turn(n, P)] = stages[n]
      /\ \A k \in DOMAIN kept : \E n \in P : Turn(n, P) = k /\ kept[k] = stages[n]
  <2> HIDE DEF P
  <2> QED BY <1>1, PickedIs
<1>3. \A n \in P : n \in DOMAIN stages /\ stages[n].id # id OBVIOUS
<1>4. \A n \in DOMAIN stages : stages[n].id # id => n \in P OBVIOUS
<1> HIDE DEF kept, P
<1>5. IdsOf(kept) \subseteq IdsOf(stages) \ {id} BY <1>2, <1>3 DEF IdsOf
<1>6. IdsOf(stages) \ {id} \subseteq IdsOf(kept) BY <1>2, <1>4 DEF IdsOf
<1>7. OnceEach(stages) => OnceEach(kept) BY <1>2, <1>3 DEF OnceEach
<1> QED BY <1>2, <1>5, <1>6, <1>7 DEF kept, P

LEMMA WithoutStageDescends ==
  ASSUME NEW d, Descends(d), NEW id
  PROVE  Descends(WithoutStage(d, id))
<1> DEFINE c == WithoutStage(d, id)
           kept == Picked(d.stages, {n \in DOMAIN d.stages : d.stages[n].id # id})
<1>1. d.stages \in Seq(StageRecords) /\ d.links \subseteq Ids \X Ids BY DrawingIs DEF Descends
<1>2. c = [stages |-> kept, links |-> {l \in d.links : id \notin {l[1], l[2]}}]
  BY DEF WithoutStage
<1>3. /\ kept \in Seq(StageRecords) /\ IdsOf(kept) = IdsOf(d.stages) \ {id}
      /\ OnceEach(d.stages) => OnceEach(kept)
  BY <1>1, PickedIds
<1> HIDE DEF kept
<1>4. c.stages = kept /\ c.links \subseteq d.links /\ \A l \in c.links : id \notin {l[1], l[2]} BY <1>2
<1>5. c \in Drawings /\ IsFiniteSet(c.links)
  <2>1. c.links \in SUBSET (Ids \X Ids) BY <1>1, <1>4
  <2>2. IsFiniteSet(c.links) BY <1>4, FS_Subset DEF Descends
  <2>3. c = [stages |-> c.stages, links |-> c.links] BY <1>2
  <2> HIDE DEF c
  <2> QED BY <2>1, <2>2, <2>3, <1>3, <1>4 DEF Drawings, StageRecords
<1> HIDE DEF c
<1>6. Loops(c) \subseteq Loops(opened)
  <2>1. Loops(c) \subseteq Loops(d) BY <1>4, FewerLoops DEF Descends
  <2> QED BY <2>1 DEF Descends
<1>7. \A l \in c.links : \A e \in {l[1], l[2]} \ IdsOf(c.stages) :
        l \in opened.links /\ e \notin IdsOf(opened.stages)
  BY <1>3, <1>4 DEF Descends
<1>8. IdsOf(c.stages) \cap Ends(opened.links) \subseteq IdsOf(opened.stages)
  BY <1>3, <1>4 DEF Descends
<1>9. OnceEach(opened.stages) => OnceEach(c.stages) BY <1>3, <1>4 DEF Descends
<1>10. Descends(c) BY <1>5, <1>6, <1>7, <1>8, <1>9 DEF Descends
<1> QED BY <1>10 DEF c

LEMMA WithoutLinksDescends ==
  ASSUME NEW d, Descends(d), NEW links
  PROVE  Descends([d EXCEPT !.links = @ \ links])
<1> DEFINE c == [d EXCEPT !.links = @ \ links]
<1>1. d.stages \in Seq(StageRecords) /\ d.links \subseteq Ids \X Ids /\ d = [stages |-> d.stages, links |-> d.links]
  BY DrawingIs DEF Descends
<1>2. c.stages = d.stages /\ c.links = d.links \ links /\ c = [stages |-> c.stages, links |-> c.links]
  <2>1. c = [stages |-> d.stages, links |-> d.links \ links] BY DrawingUpdates DEF Descends
  <2> HIDE DEF c
  <2> QED BY <2>1
<1> HIDE DEF c
<1>3. c.links \subseteq d.links /\ IsFiniteSet(c.links) BY <1>2, FS_Subset DEF Descends
<1>4. c \in Drawings BY <1>1, <1>2, <1>3 DEF Drawings, StageRecords
<1>5. Loops(c) \subseteq Loops(opened)
  <2>1. Loops(c) \subseteq Loops(d) BY <1>3, FewerLoops DEF Descends
  <2> QED BY <2>1 DEF Descends
<1>6. Descends(c) BY <1>2, <1>3, <1>4, <1>5 DEF Descends
<1> QED BY <1>6 DEF c

LEMMA ConnectedDescends ==
  ASSUME NEW d, Descends(d), NEW a \in IdsOf(d.stages), NEW b \in IdsOf(d.stages),
         LinkAllowed(d.links, a, b)
  PROVE  Descends([d EXCEPT !.links = @ \cup {<<a, b>>}])
<1> DEFINE c == [d EXCEPT !.links = @ \cup {<<a, b>>}]
<1>1. d.stages \in Seq(StageRecords) /\ d.links \subseteq Ids \X Ids /\ d = [stages |-> d.stages, links |-> d.links]
  BY DrawingIs DEF Descends
<1>2. c.stages = d.stages /\ c.links = d.links \cup {<<a, b>>} /\ c = [stages |-> c.stages, links |-> c.links]
  <2>1. c = [stages |-> d.stages, links |-> d.links \cup {<<a, b>>}] BY DrawingUpdates DEF Descends
  <2> HIDE DEF c
  <2> QED BY <2>1
<1> HIDE DEF c
<1>3. IsFiniteSet(c.links)
  <2>1. IsFiniteSet(d.links) BY DEF Descends
  <2> QED BY <2>1, <1>2, FS_AddElement
<1>4. c \in Drawings
  <2>1. a \in Ids /\ b \in Ids BY <1>1, IdsAreTyped
  <2> QED BY <2>1, <1>1, <1>2 DEF Drawings, StageRecords
<1>5. Loops(c) \subseteq Loops(opened)
  <2>1. Loops(c) \subseteq Loops(d) BY <1>2, AllowedLinkClosesNothing DEF Descends, LinkAllowed
  <2> QED BY <2>1 DEF Descends
<1>6. \A l \in c.links : \A e \in {l[1], l[2]} \ IdsOf(c.stages) :
        l \in opened.links /\ e \notin IdsOf(opened.stages)
  BY <1>2 DEF Descends
<1>7. Descends(c) BY <1>2, <1>3, <1>4, <1>5, <1>6 DEF Descends
<1> QED BY <1>7 DEF c

-----------------------------------------------------------------------------
(* The history. *)

\* Every drawing the one that was opened may come to.
Heirs == {d \in Drawings : Descends(d)}

HistoryOK ==
  /\ opened \in Opened
  /\ drawing \in Heirs
  /\ past \in Seq(Heirs) /\ future \in Seq(Heirs)
  /\ Len(past) + Len(future) <= HistoryLimit

LEMMA HeirsAre == \A d : d \in Heirs <=> Descends(d)
BY DEF Heirs, Descends

LEMMA HistoryIs ==
  ASSUME HistoryOK
  PROVE  /\ opened \in Drawings /\ opened \in Opened /\ drawing \in Heirs /\ Descends(drawing)
         /\ drawing \in Drawings
         /\ past \in Seq(Heirs) /\ future \in Seq(Heirs)
         /\ Len(past) \in Nat /\ Len(future) \in Nat /\ HistoryLimit \in Nat
         /\ Len(past) + Len(future) <= HistoryLimit
<1>1. HistoryLimit \in Nat BY BoundsAreNatural
<1>2. past \in Seq(Heirs) /\ future \in Seq(Heirs) BY DEF HistoryOK
<1>3. opened \in Drawings BY OpenedAreDrawings DEF HistoryOK
<1>4. Len(past) \in Nat /\ Len(future) \in Nat BY <1>2
<1>5. Descends(drawing) BY HeirsAre DEF HistoryOK
<1> QED BY <1>1, <1>2, <1>3, <1>4, <1>5 DEF HistoryOK, Descends

\* What came from the drawing that was opened still does.
LEMMA HistoryAgain ==
  ASSUME opened' = opened, opened \in Opened, drawing' \in Heirs, past' \in Seq(Heirs), future' \in Seq(Heirs),
         Len(past') + Len(future') <= HistoryLimit
  PROVE  HistoryOK'
<1>1. Heirs' = Heirs BY DEF Heirs, Descends
<1> QED BY <1>1 DEF HistoryOK

LEMMA NewestIs ==
  ASSUME NEW S, NEW s \in Seq(S)
  PROVE  /\ Newest(s) \in Seq(S)
         /\ Len(Newest(s)) = IF Len(s) > HistoryLimit THEN HistoryLimit ELSE Len(s)
         /\ \A i \in 1 .. Len(Newest(s)) : Newest(s)[i] = s[i + Len(s) - Len(Newest(s))]
<1>1. HistoryLimit \in Nat /\ Len(s) \in Nat BY BoundsAreNatural
<1> DEFINE m == 1 + (IF Len(s) > HistoryLimit THEN Len(s) - HistoryLimit ELSE 0)
<1>2. Newest(s) = SubSeq(s, m, Len(s)) BY DEF Newest
<1>3. /\ m \in Int /\ Len(s) \in Int /\ \A i \in m .. Len(s) : s[i] \in S
      /\ Len(s) - m + 1 = IF Len(s) > HistoryLimit THEN HistoryLimit ELSE Len(s)
      /\ m <= Len(s) \/ Len(s) - m + 1 = 0
      /\ m = 1 + Len(s) - (Len(s) - m + 1)
  BY <1>1
<1> HIDE DEF m
<1>4. /\ SubSeq(s, m, Len(s)) \in Seq(S)
      /\ Len(SubSeq(s, m, Len(s))) = IF m <= Len(s) THEN Len(s) - m + 1 ELSE 0
      /\ \A i \in 1 .. Len(s) - m + 1 : SubSeq(s, m, Len(s))[i] = s[m + i - 1]
  BY <1>3, SubSeqProperties
<1> DEFINE l == Len(s) - m + 1
<1>5. l \in Int /\ m = 1 + Len(s) - l BY <1>3
<1>6. Len(Newest(s)) = l BY <1>2, <1>3, <1>4
<1>7. \A i \in 1 .. l : Newest(s)[i] = s[m + i - 1] BY <1>2, <1>4
<1> HIDE DEF l
<1>8. \A i \in 1 .. l : m + i - 1 = i + Len(s) - l BY <1>1, <1>5
<1> QED BY <1>2, <1>3, <1>4, <1>6, <1>7, <1>8 DEF l

LEMMA CommitKeeps ==
  ASSUME HistoryOK, NEW next, Descends(next), Commit(next), opened' = opened
  PROVE  HistoryOK'
<1>1. past \in Seq(Heirs) /\ drawing \in Heirs /\ next \in Heirs BY HistoryIs, HeirsAre
<1>2. Append(past, drawing) \in Seq(Heirs) BY <1>1
<1>3. past' = Newest(Append(past, drawing)) /\ future' = <<>> /\ drawing' = next BY DEF Commit
<1> DEFINE q == Append(past, drawing)
<1> HIDE DEF q
<1>4. Newest(q) \in Seq(Heirs) /\ Len(Newest(q)) = IF Len(q) > HistoryLimit THEN HistoryLimit ELSE Len(q)
  BY <1>2, NewestIs DEF q
<1>5. Len(q) \in Nat /\ HistoryLimit \in Nat BY <1>2, HistoryIs DEF q
<1>6. past' \in Seq(Heirs) /\ Len(past') <= HistoryLimit BY <1>3, <1>4, <1>5 DEF q
<1>7. future' \in Seq(Heirs) /\ Len(future') = 0 BY <1>3
<1>8. Len(past') + Len(future') <= HistoryLimit BY <1>6, <1>7
<1> QED BY <1>1, <1>3, <1>6, <1>7, <1>8, HistoryAgain, HistoryIs

\* Undo and redo move drawings about; none is made and none is lost.
LEMMA UndoMoves ==
  ASSUME HistoryOK, Undo
  PROVE  /\ past' \in Seq(Heirs) /\ future' \in Seq(Heirs) /\ drawing' \in Heirs
         /\ Len(past') = Len(past) - 1 /\ Len(future') = Len(future) + 1
         /\ \A i \in 1 .. Len(past') : past'[i] = past[i]
         /\ drawing' = past[Len(past)]
         /\ \A i \in 1 .. Len(future') : future'[i] = IF i = 1 THEN drawing ELSE future[i - 1]
<1>1. /\ past # <<>> /\ drawing' = past[Len(past)] /\ past' = SubSeq(past, 1, Len(past) - 1)
      /\ future' = SubSeq(<<drawing>> \o future, 1, IF Len(future) < HistoryLimit THEN Len(future) + 1
                                                    ELSE HistoryLimit)
  BY DEF Undo
<1>2. /\ past \in Seq(Heirs) /\ future \in Seq(Heirs) /\ drawing \in Heirs
      /\ Len(past) + Len(future) <= HistoryLimit
  BY HistoryIs
<1>3. Len(past) \in Nat \ {0} /\ Len(future) \in Nat /\ HistoryLimit \in Nat
  BY <1>1, <1>2, BoundsAreNatural
<1>4. /\ past' \in Seq(Heirs) /\ Len(past') = Len(past) - 1
      /\ \A i \in 1 .. Len(past') : past'[i] = past[i]
  <2> DEFINE n == Len(past) - 1
  <2>1. n \in Int /\ \A i \in 1 .. n : past[i] \in Heirs BY <1>2, <1>3
  <2>2. /\ SubSeq(past, 1, n) \in Seq(Heirs)
        /\ Len(SubSeq(past, 1, n)) = IF 1 <= n THEN n - 1 + 1 ELSE 0
        /\ \A i \in 1 .. n - 1 + 1 : SubSeq(past, 1, n)[i] = past[1 + i - 1]
    BY <2>1, SubSeqProperties
  <2> HIDE DEF n
  <2>3. \A i \in 1 .. n : i \in 1 .. n - 1 + 1 /\ 1 + i - 1 = i BY <2>1
  <2>4. \A i \in 1 .. n : SubSeq(past, 1, n)[i] = past[i] BY <2>2, <2>3
  <2>5. n \in Nat BY <1>3 DEF n
  <2>6. Len(SubSeq(past, 1, n)) = n BY <2>2, <2>5
  <2>7. past' = SubSeq(past, 1, n) BY <1>1 DEF n
  <2>8. n = Len(past) - 1 BY DEF n
  <2> QED BY <2>2, <2>4, <2>6, <2>7, <2>8, Zenon
<1>5. future' = SubSeq(<<drawing>> \o future, 1, Len(future) + 1)
  BY <1>1, <1>2, <1>3
<1>6. /\ <<drawing>> \o future \in Seq(Heirs) /\ Len(<<drawing>> \o future) = Len(future) + 1
      /\ \A i \in 1 .. Len(future) + 1 :
           (<<drawing>> \o future)[i] = IF i = 1 THEN drawing ELSE future[i - 1]
  BY <1>2, <1>3
<1>7. future' = <<drawing>> \o future BY <1>5, <1>6, SubSeqFull
<1>8. drawing' \in Heirs BY <1>1, <1>2, <1>3
<1> QED BY <1>1, <1>2, <1>4, <1>6, <1>7, <1>8

LEMMA RedoMoves ==
  ASSUME HistoryOK, Redo
  PROVE  /\ past' \in Seq(Heirs) /\ future' \in Seq(Heirs) /\ drawing' \in Heirs
         /\ Len(past') = Len(past) + 1 /\ Len(future') = Len(future) - 1
         /\ \A i \in 1 .. Len(past') : past'[i] = IF i = Len(past') THEN drawing ELSE past[i]
         /\ drawing' = future[1]
         /\ \A i \in 1 .. Len(future') : future'[i] = future[i + 1]
<1>1. /\ future # <<>> /\ drawing' = Head(future) /\ past' = Newest(Append(past, drawing))
      /\ future' = Tail(future)
  BY DEF Redo
<1>2. /\ past \in Seq(Heirs) /\ future \in Seq(Heirs) /\ drawing \in Heirs
      /\ Len(past) + Len(future) <= HistoryLimit
  BY HistoryIs
<1>3. Len(future) \in Nat \ {0} /\ Len(past) \in Nat /\ HistoryLimit \in Nat
  BY <1>1, <1>2, BoundsAreNatural
<1>4. /\ future' \in Seq(Heirs) /\ Len(future') = Len(future) - 1
      /\ \A i \in 1 .. Len(future') : future'[i] = future[i + 1]
      /\ drawing' = future[1] /\ drawing' \in Heirs
  BY <1>1, <1>2, <1>3, HeadTailProperties
<1> DEFINE q == Append(past, drawing)
<1>5. /\ q \in Seq(Heirs) /\ Len(q) = Len(past) + 1
      /\ \A i \in 1 .. Len(past) + 1 : q[i] = IF i = Len(past) + 1 THEN drawing ELSE past[i]
  BY <1>2, <1>3
<1> HIDE DEF q
<1>6. Newest(q) = q
  <2>1. Newest(q) \in Seq(Heirs) /\ Len(Newest(q)) = Len(q)
        /\ \A i \in 1 .. Len(q) : Newest(q)[i] = q[i + Len(q) - Len(q)]
    <3>1. Len(q) \in Nat /\ ~ Len(q) > HistoryLimit BY <1>2, <1>3, <1>5
    <3> QED BY <3>1, <1>5, NewestIs
  <2>2. Len(q) \in Nat BY <1>5
  <2>3. \A i \in 1 .. Len(q) : i + Len(q) - Len(q) = i BY <2>2
  <2>4. \A i \in 1 .. Len(q) : Newest(q)[i] = q[i] BY <2>1, <2>3
  <2> QED BY <2>1, <2>4, <1>5, SeqEqual
<1>7. past' = q BY <1>1, <1>6 DEF q
<1> QED BY <1>4, <1>5, <1>7

LEMMA UndoKeeps ==
  ASSUME HistoryOK, Undo \/ Redo
  PROVE  HistoryOK'
<1>1. opened' = opened /\ Len(past) \in Nat /\ Len(future) \in Nat /\ Len(past) + Len(future) <= HistoryLimit
      /\ opened \in Opened /\ HistoryLimit \in Nat
  BY HistoryIs DEF Undo, Redo
<1>2. /\ past' \in Seq(Heirs) /\ future' \in Seq(Heirs) /\ drawing' \in Heirs
      /\ \/ Len(past') = Len(past) - 1 /\ Len(future') = Len(future) + 1
         \/ Len(past') = Len(past) + 1 /\ Len(future') = Len(future) - 1
  <2>1. CASE Undo BY <2>1, UndoMoves
  <2>2. CASE Redo BY <2>2, RedoMoves
  <2> QED BY <2>1, <2>2
<1>3. Len(past') + Len(future') <= HistoryLimit
  BY <1>1, <1>2
<1> QED BY <1>1, <1>2, <1>3, HistoryAgain

\* An id no snapshot knows is new to the drawing and to the links it was opened with.
LEMMA FreshIsNew ==
  ASSUME HistoryOK, NEW id \in Ids \ Known
  PROVE  id \notin IdsOf(drawing.stages) /\ id \notin Ends(opened.links)
<1> DEFINE shown == {opened, drawing} \cup Range(past) \cup Range(future)
           kept  == {IdsOf(d.stages) \cup Ends(d.links) : d \in shown}
<1>1. Known = (UNION kept) \cup UNION {IdsOf(run.stages) : run \in Range(runs)} BY DEF Known
<1>2. opened \in shown /\ drawing \in shown OBVIOUS
<1> HIDE DEF shown
<1>3. IdsOf(drawing.stages) \cup Ends(drawing.links) \in kept
      /\ IdsOf(opened.stages) \cup Ends(opened.links) \in kept
  BY <1>2
<1> HIDE DEF kept
<1> QED BY <1>1, <1>3

\* A gesture leaves a history of heirs.
LEMMA DrawsKeep ==
  ASSUME HistoryOK, Draws
  PROVE  HistoryOK' /\ UNCHANGED <<opened, library, runs, canvas>>
         /\ (UNCHANGED <<edits, drawn>> \/ (Edit /\ drawn' = drawn + 1))
<1>1. ASSUME NEW t \in Targets, AddStage(t) PROVE HistoryOK'
  <2>1. PICK id \in Ids \ Known :
          Commit([drawing EXCEPT !.stages = Append(@, [id |-> id, runs |-> t])])
    BY <1>1 DEF AddStage
  <2>2. Descends([drawing EXCEPT !.stages = Append(@, [id |-> id, runs |-> t])])
    BY FreshIsNew, AddedDescends, HistoryIs
  <2>3. opened' = opened BY <1>1 DEF AddStage, Edit
  <2> QED BY <2>1, <2>2, <2>3, CommitKeeps
<1>2. ASSUME MoveStage PROVE HistoryOK'
  <2>1. Commit(drawing) /\ opened' = opened /\ Descends(drawing) BY <1>2, HistoryIs DEF MoveStage, Edit
  <2> QED BY <2>1, CommitKeeps
<1>3. ASSUME NEW id \in Ids, RemoveStage(id) PROVE HistoryOK'
  <2>1. Commit(WithoutStage(drawing, id)) /\ opened' = opened BY <1>3 DEF RemoveStage, Edit
  <2>2. Descends(WithoutStage(drawing, id)) BY HistoryIs, WithoutStageDescends
  <2> QED BY <2>1, <2>2, CommitKeeps
<1>4. ASSUME NEW links, RemoveLinks(links) PROVE HistoryOK'
  <2>1. Commit([drawing EXCEPT !.links = @ \ links]) /\ opened' = opened BY <1>4 DEF RemoveLinks, Edit
  <2>2. Descends([drawing EXCEPT !.links = @ \ links]) BY HistoryIs, WithoutLinksDescends
  <2> QED BY <2>1, <2>2, CommitKeeps
<1>5. ASSUME NEW a \in Ids, NEW b \in Ids, Connect(a, b) PROVE HistoryOK'
  <2>1. /\ Commit([drawing EXCEPT !.links = @ \cup {<<a, b>>}]) /\ opened' = opened
        /\ a \in IdsOf(drawing.stages) /\ b \in IdsOf(drawing.stages)
        /\ LinkAllowed(drawing.links, a, b)
    BY <1>5 DEF Connect, Edit
  <2>2. Descends([drawing EXCEPT !.links = @ \cup {<<a, b>>}])
    BY <2>1, HistoryIs, ConnectedDescends
  <2> QED BY <2>1, <2>2, CommitKeeps
<1>6. HistoryOK'
  BY <1>1, <1>2, <1>3, <1>4, <1>5, UndoKeeps DEF Draws, DeleteLinksOf, DeleteLink
<1>7. /\ UNCHANGED <<opened, library, runs, canvas>>
      /\ UNCHANGED <<edits, drawn>> \/ (Edit /\ drawn' = drawn + 1)
  <2> DEFINE Done == Edit /\ library' = library /\ drawn' = drawn + 1
  <2>1. ASSUME NEW t \in Targets, AddStage(t) PROVE Done BY <2>1 DEF AddStage, Commit
  <2>2. ASSUME MoveStage PROVE Done BY <2>2 DEF MoveStage, Commit
  <2>3. ASSUME NEW id \in Ids, RemoveStage(id) PROVE Done BY <2>3 DEF RemoveStage, Commit
  <2>4. ASSUME NEW links, RemoveLinks(links) PROVE Done BY <2>4 DEF RemoveLinks, Commit
  <2>5. ASSUME NEW a \in Ids, NEW b \in Ids, Connect(a, b) PROVE Done BY <2>5 DEF Connect, Commit
  <2>6. Undo \/ Redo => UNCHANGED <<opened, library, runs, canvas, edits, drawn>> BY DEF Undo, Redo
  <2>7. Edit => UNCHANGED <<opened, runs, canvas>> BY DEF Edit
  <2> HIDE DEF Done
  <2>8. Draws => Done \/ Undo \/ Redo
    BY <2>1, <2>2, <2>3, <2>4, <2>5 DEF Draws, DeleteLinksOf, DeleteLink
  <2> QED BY <2>6, <2>7, <2>8 DEF Done
<1> QED BY <1>6, <1>7

-----------------------------------------------------------------------------
(* The history is one line of drawings. *)

Line(p, g, f) == p \o <<g>> \o f

IsLine(s, p, g, f) ==
  /\ Len(s) = Len(p) + 1 + Len(f)
  /\ \A i \in 1 .. Len(p) + 1 + Len(f) :
       s[i] = IF i <= Len(p) THEN p[i] ELSE IF i = Len(p) + 1 THEN g ELSE f[i - Len(p) - 1]

LEMMA LineIs ==
  ASSUME NEW S, NEW p \in Seq(S), NEW g \in S, NEW f \in Seq(S)
  PROVE  Line(p, g, f) \in Seq(S) /\ IsLine(Line(p, g, f), p, g, f)
<1>1. Len(p) \in Nat /\ Len(f) \in Nat OBVIOUS
<1>2. /\ p \o <<g>> \in Seq(S) /\ Len(p \o <<g>>) = Len(p) + 1
      /\ \A i \in 1 .. Len(p) + 1 : (p \o <<g>>)[i] = IF i <= Len(p) THEN p[i] ELSE g
  OBVIOUS
<1>3. /\ Line(p, g, f) \in Seq(S)
      /\ Len(Line(p, g, f)) = Len(p \o <<g>>) + Len(f)
      /\ \A i \in 1 .. Len(p \o <<g>>) + Len(f) :
           Line(p, g, f)[i] = IF i <= Len(p \o <<g>>) THEN (p \o <<g>>)[i]
                              ELSE f[i - Len(p \o <<g>>)]
  BY <1>2, ConcatProperties DEF Line
<1>4. ASSUME NEW i \in 1 .. Len(p) + 1 + Len(f)
      PROVE  Line(p, g, f)[i] = IF i <= Len(p) THEN p[i]
                                ELSE IF i = Len(p) + 1 THEN g ELSE f[i - Len(p) - 1]
  <2>1. Line(p, g, f)[i] = IF i <= Len(p) + 1 THEN (p \o <<g>>)[i] ELSE f[i - (Len(p) + 1)]
    BY <1>1, <1>2, <1>3
  <2>2. i \in Nat /\ i - (Len(p) + 1) = i - Len(p) - 1 BY <1>1
  <2>3. CASE i <= Len(p) BY <1>1, <1>2, <2>1, <2>2, <2>3
  <2>4. CASE i = Len(p) + 1 BY <1>1, <1>2, <2>1, <2>2, <2>4
  <2>5. CASE i > Len(p) + 1 BY <1>1, <2>1, <2>2, <2>5
  <2> QED BY <1>1, <2>2, <2>3, <2>4, <2>5
<1>5. Len(Line(p, g, f)) = Len(p) + 1 + Len(f) BY <1>2, <1>3
<1> QED BY <1>3, <1>4, <1>5 DEF IsLine

\* The version before a commit, and the one it makes, end the line.
LEMMA LineGrows ==
  ASSUME NEW S, NEW p \in Seq(S), NEW g \in S, NEW f \in Seq(S), NEW h \in S
  PROVE  Line(Newest(Append(p, g)), h, <<>>)
           = History!Kept(Append(SubSeq(Line(p, g, f), 1, Len(p) + 1), h))
<1> DEFINE q == Append(p, g)
           r == Append(SubSeq(Line(p, g, f), 1, Len(p) + 1), h)
           todo == Line(Newest(q), h, <<>>)
<1>1. HistoryLimit \in Nat /\ Len(p) \in Nat /\ Len(f) \in Nat BY BoundsAreNatural
<1>2. /\ q \in Seq(S) /\ Len(q) = Len(p) + 1
      /\ \A i \in 1 .. Len(p) + 1 : q[i] = IF i <= Len(p) THEN p[i] ELSE g
  OBVIOUS
<1>3. SubSeq(Line(p, g, f), 1, Len(p) + 1) = q
  <2> DEFINE n == Len(p) + 1
             t == SubSeq(Line(p, g, f), 1, n)
  <2>1. \A i \in 1 .. n : Line(p, g, f)[i] \in S /\ Line(p, g, f)[i] = q[i]
    <3>1. Line(p, g, f) \in Seq(S) /\ Len(Line(p, g, f)) = n + Len(f) BY LineIs DEF IsLine
    <3>2. \A i \in 1 .. n : Line(p, g, f)[i] = IF i <= Len(p) THEN p[i] ELSE g
      <4>1. \A i \in 1 .. n : i \in 1 .. Len(p) + 1 + Len(f) /\ (~(i <= Len(p)) => i = Len(p) + 1)
        BY <1>1
      <4>2. \A i \in 1 .. Len(p) + 1 + Len(f) :
              Line(p, g, f)[i] = IF i <= Len(p) THEN p[i]
                                 ELSE IF i = Len(p) + 1 THEN g ELSE f[i - Len(p) - 1]
        <5>1. IsLine(Line(p, g, f), p, g, f) BY LineIs
        <5> QED BY <5>1, Zenon DEF IsLine
      <4> QED BY <4>1, <4>2
    <3> QED BY <1>1, <1>2, <3>1, <3>2
  <2>2. n \in Int /\ 1 <= n /\ n - 1 + 1 = n BY <1>1
  <2> HIDE DEF n
  <2>3. /\ t \in Seq(S) /\ Len(t) = IF 1 <= n THEN n - 1 + 1 ELSE 0
        /\ \A i \in 1 .. n - 1 + 1 : t[i] = Line(p, g, f)[1 + i - 1]
    BY <2>1, <2>2, SubSeqProperties
  <2>4. \A i \in 1 .. n : 1 + i - 1 = i BY <2>2
  <2>5. \A i \in 1 .. n : t[i] = q[i] BY <2>1, <2>2, <2>3, <2>4
  <2>6. Len(t) = n /\ Len(q) = n BY <1>2, <2>2, <2>3 DEF n
  <2>7. t = q BY <1>2, <2>3, <2>5, <2>6, SeqEqual
  <2> QED BY <2>7 DEF n
<1> HIDE DEF q
<1>4. /\ r \in Seq(S) /\ Len(r) = Len(q) + 1
      /\ \A i \in 1 .. Len(q) + 1 : r[i] = IF i <= Len(q) THEN q[i] ELSE h
  BY <1>2, <1>3
<1>5. /\ Newest(q) \in Seq(S)
      /\ Len(Newest(q)) = IF Len(q) > HistoryLimit THEN HistoryLimit ELSE Len(q)
      /\ \A i \in 1 .. Len(Newest(q)) : Newest(q)[i] = q[i + Len(q) - Len(Newest(q))]
  BY <1>2, NewestIs
<1> DEFINE m == Len(Newest(q))
<1>6. m \in Nat /\ m <= Len(q) BY <1>1, <1>2, <1>5
<1>7. /\ todo \in Seq(S) /\ Len(todo) = m + 1
      /\ \A i \in 1 .. m + 1 : todo[i] = IF i <= m THEN Newest(q)[i] ELSE h
  <2>1. <<>> \in Seq(S) /\ Len(<<>>) = 0 OBVIOUS
  <2>2. todo \in Seq(S) /\ IsLine(todo, Newest(q), h, <<>>)
    BY <1>5, <2>1, LineIs
  <2>3. \A i \in 1 .. m + 1 : ~(i <= m) => i = m + 1 BY <1>6
  <2> QED BY <1>6, <2>1, <2>2, <2>3 DEF IsLine
<1> HIDE DEF todo, r
<1>8. todo = History!Kept(r)
  <2>1. CASE Len(q) > HistoryLimit
    <3> DEFINE k == Len(r) - HistoryLimit
               n == Len(r)
               t == SubSeq(r, k, n)
    <3>1. History!Kept(r) = t BY <1>1, <1>2, <1>4, <2>1 DEF History!Kept
    <3>2. /\ k \in Int /\ n \in Int /\ k <= n /\ n - k + 1 = HistoryLimit + 1 /\ m = HistoryLimit
          /\ k = 1 + Len(q) - m
          /\ \A i \in k .. n : r[i] \in S
      BY <1>1, <1>2, <1>4, <1>5, <2>1
    <3> HIDE DEF k, n
    <3>3. /\ t \in Seq(S) /\ Len(t) = IF k <= n THEN n - k + 1 ELSE 0
          /\ \A i \in 1 .. n - k + 1 : t[i] = r[k + i - 1]
      BY <3>2, SubSeqProperties, SMTT(30)
    <3>4. Len(t) = m + 1 BY <3>2, <3>3
    <3>5. ASSUME NEW i \in 1 .. m + 1 PROVE todo[i] = t[i]
      <4>1. t[i] = r[k + i - 1] /\ k + i - 1 = i + Len(q) - m /\ i + Len(q) - m \in 1 .. Len(q) + 1
        BY <1>2, <1>6, <3>2, <3>3, <1>1
      <4>2. CASE i <= m
        <5>1. todo[i] = q[i + Len(q) - m] BY <1>5, <1>6, <1>7, <4>2
        <5>2. i + Len(q) - m <= Len(q) BY <1>2, <1>6, <4>2, <1>1
        <5>3. r[i + Len(q) - m] = q[i + Len(q) - m] BY <1>4, <4>1, <5>2
        <5> QED BY <4>1, <5>1, <5>3
      <4>3. CASE ~(i <= m)
        <5>1. todo[i] = h BY <1>7, <4>3
        <5>2. i = m + 1 /\ ~(i + Len(q) - m <= Len(q)) BY <1>2, <1>6, <4>3, <1>1
        <5>3. r[i + Len(q) - m] = h BY <1>4, <4>1, <5>2
        <5> QED BY <4>1, <5>1, <5>3
      <4> QED BY <4>2, <4>3
    <3>6. todo = t BY <1>7, <3>3, <3>4, <3>5, SeqEqual
    <3> QED BY <3>1, <3>6
  <2>2. CASE ~(Len(q) > HistoryLimit)
    <3>1. History!Kept(r) = r /\ m = Len(q)
      BY <1>1, <1>2, <1>4, <1>5, <2>2 DEF History!Kept
    <3>2. \A i \in 1 .. m : Newest(q)[i] = q[i]
      BY <1>5, <1>6, <3>1
    <3>3. \A i \in 1 .. m + 1 : todo[i] = r[i]
      BY <1>4, <1>6, <1>7, <3>1, <3>2
    <3>4. todo = r BY <1>4, <1>7, <3>1, <3>3, SeqEqual
    <3> QED BY <3>1, <3>4
  <2> QED BY <2>1, <2>2
<1> QED BY <1>8 DEF todo, r, q

\* The same line, looked at from one version further on.
Further(p, g, f, q, h, e) ==
  /\ Len(q) = Len(p) + 1 /\ Len(e) = Len(f) - 1 /\ h = f[1]
  /\ \A i \in 1 .. Len(q) : q[i] = IF i = Len(q) THEN g ELSE p[i]
  /\ \A i \in 1 .. Len(e) : e[i] = f[i + 1]

LEMMA LineMoves ==
  ASSUME NEW S, NEW p \in Seq(S), NEW g \in S, NEW f \in Seq(S),
         NEW q \in Seq(S), NEW h \in S, NEW e \in Seq(S), Further(p, g, f, q, h, e)
  PROVE  Line(q, h, e) = Line(p, g, f)
<1>0. /\ Len(q) = Len(p) + 1 /\ Len(e) = Len(f) - 1 /\ h = f[1]
      /\ \A i \in 1 .. Len(q) : q[i] = IF i = Len(q) THEN g ELSE p[i]
      /\ \A i \in 1 .. Len(e) : e[i] = f[i + 1]
  BY DEF Further
<1>1. Len(p) \in Nat /\ Len(f) \in Nat /\ Len(q) \in Nat /\ Len(e) \in Nat OBVIOUS
<1> DEFINE s == Line(q, h, e)
           t == Line(p, g, f)
<1>2. s \in Seq(S) /\ t \in Seq(S) /\ IsLine(s, q, h, e) /\ IsLine(t, p, g, f)
  BY LineIs
<1> HIDE DEF s, t
<1> DEFINE n == Len(p) + 1 + Len(f)
<1>3. Len(s) = n /\ Len(t) = n /\ Len(q) + 1 + Len(e) = n BY <1>0, <1>1, <1>2 DEF IsLine
<1>4. ASSUME NEW i \in 1 .. n PROVE s[i] = t[i]
  <2>1. /\ s[i] = IF i <= Len(q) THEN q[i] ELSE IF i = Len(q) + 1 THEN h ELSE e[i - Len(q) - 1]
        /\ t[i] = IF i <= Len(p) THEN p[i] ELSE IF i = Len(p) + 1 THEN g ELSE f[i - Len(p) - 1]
    BY <1>2, <1>3 DEF IsLine
  <2>2. CASE i <= Len(p) BY <1>0, <1>1, <2>1, <2>2
  <2>3. CASE i = Len(p) + 1 BY <1>0, <1>1, <2>1, <2>3
  <2>4. CASE i = Len(p) + 2
    <3>1. ~(i <= Len(q)) /\ i = Len(q) + 1 /\ ~(i <= Len(p)) /\ i # Len(p) + 1 /\ i - Len(p) - 1 = 1
      BY <1>0, <1>1, <2>4
    <3> QED BY <1>0, <2>1, <3>1
  <2>5. CASE i > Len(p) + 2
    <3>1. /\ ~(i <= Len(q)) /\ i # Len(q) + 1 /\ ~(i <= Len(p)) /\ i # Len(p) + 1
          /\ i - Len(q) - 1 \in 1 .. Len(e) /\ (i - Len(q) - 1) + 1 = i - Len(p) - 1
      BY <1>0, <1>1, <1>3, <2>5
    <3> QED BY <1>0, <2>1, <3>1
  <2>6. i <= Len(p) \/ i = Len(p) + 1 \/ i = Len(p) + 2 \/ i > Len(p) + 2 BY <1>0, <1>1
  <2> QED BY <2>2, <2>3, <2>4, <2>5, <2>6
<1>5. s = t BY <1>2, <1>3, <1>4, SeqEqual
<1> QED BY <1>5 DEF s, t

LEMMA MoveIsMove ==
  ASSUME HistoryOK, Undo \/ Redo
  PROVE  History!Undo \/ History!Redo
<1>2. /\ past \in Seq(Heirs) /\ future \in Seq(Heirs) /\ drawing \in Heirs
      /\ Len(past) \in Nat /\ Len(future) \in Nat
  BY HistoryIs
<1>3. CASE Undo
  <2>1. /\ past' \in Seq(Heirs) /\ future' \in Seq(Heirs) /\ drawing' \in Heirs
        /\ Len(past') = Len(past) - 1 /\ Len(future') = Len(future) + 1
        /\ \A i \in 1 .. Len(past') : past'[i] = past[i]
        /\ drawing' = past[Len(past)]
        /\ \A i \in 1 .. Len(future') : future'[i] = IF i = 1 THEN drawing ELSE future[i - 1]
    BY <1>3, UndoMoves, Zenon
  <2>2. Line(past', drawing', future') = Line(past, drawing, future)
    <3>1. /\ Len(past) = Len(past') + 1 /\ Len(future) = Len(future') - 1
          /\ Len(past) # 0 /\ Len(past') \in Nat /\ Len(future') = Len(future) + 1
      <4>1. /\ Len(past') = Len(past) - 1 /\ Len(future') = Len(future) + 1
            /\ past' \in Seq(Heirs)
        BY <2>1, Zenon
      <4> QED BY <1>2, <4>1
    <3>2. drawing = future'[1]
      <4>1. 1 \in 1 .. Len(future') BY <1>2, <3>1
      <4> QED BY <2>1, <4>1
    <3>3. \A i \in 1 .. Len(past) : past[i] = IF i = Len(past) THEN drawing' ELSE past'[i]
      <4>1. \A i \in 1 .. Len(past) : i # Len(past) => i \in 1 .. Len(past') BY <1>2, <3>1
      <4> QED BY <2>1, <4>1, Zenon
    <3>4. \A i \in 1 .. Len(future) : future[i] = future'[i + 1]
      <4>1. \A i \in 1 .. Len(future) : i + 1 \in 1 .. Len(future') /\ i + 1 # 1 /\ i + 1 - 1 = i
        BY <1>2, <3>1
      <4> TAKE i \in 1 .. Len(future)
      <4>2. i + 1 \in 1 .. Len(future') /\ i + 1 # 1 /\ i + 1 - 1 = i BY <4>1
      <4>3. \A k \in 1 .. Len(future') : future'[k] = IF k = 1 THEN drawing ELSE future[k - 1]
        BY <2>1, Zenon
      <4>4. \A k \in 1 .. Len(future') : k # 1 => future'[k] = future[k - 1] BY <4>3
      <4>5. future'[i + 1] = future[i + 1 - 1] BY <4>2, <4>4
      <4> QED BY <4>2, <4>5
    <3>5. Further(past', drawing', future', past, drawing, future)
      BY <3>1, <3>2, <3>3, <3>4, Zenon DEF Further
    <3>6. past' \in Seq(Heirs) /\ future' \in Seq(Heirs) /\ drawing' \in Heirs
      BY <2>1, Zenon
    <3> QED BY <1>2, <3>5, <3>6, LineMoves
  <2>3. past # <<>> /\ Len(past) > 0 BY <1>2, <1>3 DEF Undo
  <2>4. Len(past') + 1 = Len(past) + 1 - 1 /\ Len(past) + 1 > 1
    <3>1. Len(past') = Len(past) - 1 BY <2>1, Zenon
    <3> QED BY <1>2, <2>3, <3>1
  <2>5. drawn' = drawn BY <1>3 DEF Undo
  <2> QED BY <2>2, <2>4, <2>5 DEF History!Undo, History!Move, Line
<1>4. CASE Redo
  <2>1. /\ past' \in Seq(Heirs) /\ future' \in Seq(Heirs) /\ drawing' \in Heirs
        /\ Len(past') = Len(past) + 1 /\ Len(future') = Len(future) - 1
        /\ \A i \in 1 .. Len(past') : past'[i] = IF i = Len(past') THEN drawing ELSE past[i]
        /\ drawing' = future[1]
        /\ \A i \in 1 .. Len(future') : future'[i] = future[i + 1]
    BY <1>4, RedoMoves, Zenon
  <2>2. Line(past', drawing', future') = Line(past, drawing, future)
    <3>1. Further(past, drawing, future, past', drawing', future') BY <2>1, Zenon DEF Further
    <3>2. past' \in Seq(Heirs) /\ future' \in Seq(Heirs) /\ drawing' \in Heirs
      BY <2>1, Zenon
    <3> QED BY <1>2, <3>1, <3>2, LineMoves
  <2>3. future # <<>> /\ Len(future) > 0 BY <1>2, <1>4 DEF Redo
  <2>4. Len(Line(past, drawing, future)) = Len(past) + 1 + Len(future)
    BY <1>2, LineIs DEF IsLine
  <2>5. Len(past') + 1 = Len(past) + 1 + 1 /\ Len(past) + 1 < Len(Line(past, drawing, future))
    <3>1. Len(past') = Len(past) + 1 BY <2>1, Zenon
    <3> QED BY <1>2, <2>3, <2>4, <3>1
  <2>6. drawn' = drawn BY <1>4 DEF Redo
  <2> QED BY <2>2, <2>5, <2>6 DEF History!Redo, History!Move, Line
<1> QED BY <1>3, <1>4

LEMMA StartIsStart == CanvasInit => History!Start
<1> SUFFICES ASSUME CanvasInit PROVE History!Start
  OBVIOUS
<1>1. past = <<>> /\ future = <<>> /\ drawn = 0 BY DEF CanvasInit
<1>2. Len(past \o <<drawing>> \o future) = 1 /\ Len(past) = 0
  <2>1. <<>> \in Seq({drawing}) /\ Len(<<>>) = 0 /\ drawing \in {drawing} OBVIOUS
  <2>2. IsLine(Line(<<>>, drawing, <<>>), <<>>, drawing, <<>>) BY <2>1, LineIs
  <2> QED BY <1>1, <2>1, <2>2 DEF IsLine, Line
<1> QED BY <1>1, <1>2 DEF History!Start

\* An edit is a drawing more.
LEMMA CommitIsDo ==
  ASSUME HistoryOK, HistoryOK', opened' = opened, NEW next, Commit(next)
  PROVE  History!Do
<1>1. /\ past \in Seq(Heirs) /\ future \in Seq(Heirs) /\ drawing \in Heirs
  BY HistoryIs
<1>2. past' = Newest(Append(past, drawing)) /\ future' = <<>> BY DEF Commit
<1>3. past' \in Seq(Heirs) /\ drawing' \in Heirs
  <2>1. Heirs' = Heirs BY DEF Heirs, Descends
  <2> QED BY <2>1 DEF HistoryOK
<1>4. Line(past', drawing', future')
        = History!Kept(Append(SubSeq(Line(past, drawing, future), 1, Len(past) + 1), drawing'))
  BY <1>1, <1>2, <1>3, LineGrows
<1>5. future' \in Seq(Heirs) /\ Len(future') = 0 /\ Len(past') \in Nat BY <1>2, <1>3
<1>6. /\ Len(Line(past', drawing', future')) = Len(past') + 1
      /\ Line(past', drawing', future')[Len(past') + 1] = drawing'
  <2>1. IsLine(Line(past', drawing', future'), past', drawing', future') BY <1>3, <1>5, LineIs
  <2>2. Len(past') + 1 \in 1 .. Len(past') + 1 + Len(future') /\ ~(Len(past') + 1 <= Len(past'))
    BY <1>5
  <2> QED BY <1>5, <2>1, <2>2 DEF IsLine
<1>7. drawn' = drawn + 1 BY DEF Commit
<1> QED BY <1>4, <1>6, <1>7 DEF History!Do, Line

LEMMA DrawsAreTheLine ==
  ASSUME HistoryOK, HistoryOK', Draws
  PROVE  History!Gesture
<1>1. (\E next : Commit(next)) \/ Undo \/ Redo
  BY DEF Draws, AddStage, MoveStage, RemoveStage, DeleteLinksOf, DeleteLink, RemoveLinks, Connect
<1>2. opened' = opened BY DrawsKeep
<1>3. (\E next : Commit(next)) => History!Do BY <1>2, CommitIsDo
<1>4. Undo \/ Redo => History!Undo \/ History!Redo BY MoveIsMove
<1> QED BY <1>1, <1>3, <1>4 DEF History!Gesture

LEMMA OthersLeaveTheGraph ==
  ASSUME CanvasNext, ~ Draws
  PROVE  UNCHANGED <<opened, graph>>
<1>1. LibraryChanges => UNCHANGED <<opened, graph>>
  BY DEF LibraryChanges, DeleteJob, SpoilJob, RenameJob, LibraryEdit, Edit
<1>2. RunnerSteps => UNCHANGED <<opened, graph>>
  BY DEF RunnerSteps, FirePipeline, StageStarts, StageRefused, StageEnds, CancelledBetween, Tell
<1>3. EditorRuns => UNCHANGED <<opened, graph>>
  BY DEF EditorRuns, Execute, ExecuteRefused, StopRun, HearResult, StreamBreaks, FinishRun,
         LoaderAnswers, LoaderFails, ShowPipelineRun, ClearRunView
<1> QED BY <1>1, <1>2, <1>3 DEF CanvasNext

LEMMA HistoryStarts == CanvasInit => HistoryOK
<1> SUFFICES ASSUME CanvasInit PROVE HistoryOK OBVIOUS
<1>1. opened \in Opened /\ drawing = opened /\ past = <<>> /\ future = <<>> BY DEF CanvasInit
<1>2. drawing \in Heirs BY <1>1, OpenedDescends, HeirsAre
<1>3. past \in Seq(Heirs) /\ future \in Seq(Heirs) /\ Len(past) + Len(future) <= HistoryLimit
  BY <1>1, BoundsAreNatural
<1> QED BY <1>1, <1>2, <1>3 DEF HistoryOK

LEMMA HistoryStep == HistoryOK /\ [CanvasNext]_canvasVars => HistoryOK'
<1> SUFFICES ASSUME HistoryOK, [CanvasNext]_canvasVars PROVE HistoryOK' OBVIOUS
<1>1. CASE Draws BY <1>1, DrawsKeep
<1>2. CASE ~ Draws
  <2>1. UNCHANGED <<opened, graph>> BY <1>2, OthersLeaveTheGraph DEF canvasVars
  <2>2. opened' = opened /\ drawing' = drawing /\ past' = past /\ future' = future BY <2>1 DEF graph
  <2> QED BY <2>2, HistoryIs, HistoryAgain
<1> QED BY <1>1, <1>2

LEMMA HistoryInvariant == CanvasSpec => []HistoryOK
<1> QED BY HistoryStarts, HistoryStep, PTL DEF CanvasSpec

(* However edits, undo and redo follow each other, the history of a         *)
(* Pipeline is one line of drawings with a mark on it, no longer than its   *)
(* limit: every edit is one undo, none goes unrecorded, and what was undone *)
(* comes back as it was (commit, undo and redo of pipelineEditor.ts).       *)
THEOREM PipelineHistoryIsALine == CanvasSpec => PipelineTimeline
<1>1. CanvasInit => History!Start BY StartIsStart
<1>2. HistoryOK /\ HistoryOK' /\ [CanvasNext]_canvasVars => [History!Gesture]_(History!timeline)
  <2> SUFFICES ASSUME HistoryOK, HistoryOK', [CanvasNext]_canvasVars
               PROVE  [History!Gesture]_(History!timeline)
    OBVIOUS
  <2>1. CASE Draws BY <2>1, DrawsAreTheLine
  <2>2. CASE ~ Draws
    <3>1. UNCHANGED <<opened, graph>> BY <2>2, OthersLeaveTheGraph DEF canvasVars
    <3> QED BY <3>1 DEF graph, History!timeline
  <2> QED BY <2>1, <2>2
<1> QED BY <1>1, <1>2, HistoryInvariant, PTL DEF CanvasSpec, PipelineTimeline, History!OneDocument

-----------------------------------------------------------------------------
(* The runs, and how one of them advances. *)

RunRecords == [stages : Seq(StageRecords), rows : Seq(StageStatuses), by : {"studio", "schedule"},
               cancelled : BOOLEAN, silent : Nat]

\* A run takes every stage once, and what it leaves unsaid it leaves at its end.
RunIs(run) ==
  /\ run \in RunRecords
  /\ OnceEach(run.stages)
  /\ Len(run.rows) <= Len(run.stages)
  /\ run.silent # 0 => Whole(run) /\ ~ InFlight(run)

RunsOK == runs \in Seq(RunRecords) /\ \A r \in DOMAIN runs : RunIs(runs[r])

\* What the box of the k-th stage says to who read the stream so far.
Said(run, k) ==
  IF k \in DOMAIN run.rows /\ (run.silent = 0 \/ k < run.silent) THEN run.rows[k] ELSE "pending"

Follows(run, s) ==
  /\ DOMAIN s = IdsOf(run.stages)
  /\ \A k \in DOMAIN run.stages : s[run.stages[k].id] = Said(run, k)

\* `told` is what changes on the boxes when a run becomes `next`.
Advances(run, next, told) ==
  /\ RunIs(next) /\ next.stages = run.stages
  /\ DOMAIN told \subseteq IdsOf(run.stages) /\ \A id \in DOMAIN told : told[id] \in StageStatuses
  /\ \A k \in DOMAIN run.stages :
       Said(next, k) = IF run.stages[k].id \in DOMAIN told THEN told[run.stages[k].id] ELSE Said(run, k)

LEMMA RunFacts ==
  ASSUME NEW run, RunIs(run)
  PROVE  /\ run.stages \in Seq(StageRecords) /\ run.rows \in Seq(StageStatuses) /\ run.silent \in Nat
         /\ Len(run.stages) \in Nat /\ Len(run.rows) \in Nat /\ Len(run.rows) <= Len(run.stages)
         /\ DOMAIN run.stages = 1 .. Len(run.stages) /\ DOMAIN run.rows = 1 .. Len(run.rows)
         /\ \A k \in 1 .. Len(run.rows) : run.rows[k] \in StageStatuses
         /\ run.by \in {"studio", "schedule"} /\ run.cancelled \in BOOLEAN
<1>1. run.stages \in Seq(StageRecords) /\ run.rows \in Seq(StageStatuses) /\ run.silent \in Nat
      /\ run.by \in {"studio", "schedule"} /\ run.cancelled \in BOOLEAN
  BY DEF RunIs, RunRecords
<1>2. Len(run.rows) <= Len(run.stages) BY DEF RunIs
<1> QED BY <1>1, <1>2

LEMMA RunUpdates ==
  ASSUME NEW run, RunIs(run), NEW x, NEW y
  PROVE  /\ [run EXCEPT !.rows = x] = [stages |-> run.stages, rows |-> x, by |-> run.by,
                                       cancelled |-> run.cancelled, silent |-> run.silent]
         /\ [run EXCEPT !.rows = x, !.silent = y] = [stages |-> run.stages, rows |-> x, by |-> run.by,
                                                     cancelled |-> run.cancelled, silent |-> y]
         /\ [run EXCEPT !.cancelled = x] = [stages |-> run.stages, rows |-> run.rows, by |-> run.by,
                                            cancelled |-> x, silent |-> run.silent]
<1>1. run = [stages |-> run.stages, rows |-> run.rows, by |-> run.by, cancelled |-> run.cancelled,
             silent |-> run.silent]
  BY DEF RunIs, RunRecords
<1> DEFINE one == [run EXCEPT !.rows = x]
<1>2. one = [stages |-> run.stages, rows |-> x, by |-> run.by, cancelled |-> run.cancelled,
             silent |-> run.silent]
  BY <1>1
<1>3. [run EXCEPT !.cancelled = x] = [stages |-> run.stages, rows |-> run.rows, by |-> run.by,
                                      cancelled |-> x, silent |-> run.silent]
  BY <1>1
<1> HIDE DEF one
<1>4. [one EXCEPT !.silent = y] = [stages |-> run.stages, rows |-> x, by |-> run.by,
                                   cancelled |-> run.cancelled, silent |-> y]
  BY <1>2
<1> QED BY <1>2, <1>3, <1>4 DEF one

\* Each id of a run says which stage it is.
LEMMA PlacesAre ==
  ASSUME NEW run, RunIs(run), NEW places \in SUBSET (DOMAIN run.stages),
         NEW ids, ids = {run.stages[k].id : k \in places}
  PROVE  /\ ids \subseteq IdsOf(run.stages)
         /\ \A k \in DOMAIN run.stages : run.stages[k].id \in ids <=> k \in places
BY DEF RunIs, OnceEach, IdsOf

LEMMA RestIs ==
  ASSUME NEW n \in Nat, NEW s \in StageStatuses
  PROVE  /\ Rest(n, s) \in Seq(StageStatuses) /\ Len(Rest(n, s)) = n
         /\ \A k \in 1 .. n : Rest(n, s)[k] = s
BY DEF Rest

LEMMA StatusesAre ==
  {"pending", "running", "success", "error", "skipped", "cancelled"} \subseteq StageStatuses
BY DEF StageStatuses

\* A run whose rows changed, and nothing else but where it fell silent.
LEMMA RowsMake ==
  ASSUME NEW run, RunIs(run), NEW line \in Seq(StageStatuses), Len(line) <= Len(run.stages),
         NEW silent \in Nat,
         silent # 0 => Len(line) = Len(run.stages) /\ (line = <<>> \/ line[Len(line)] # "running")
  PROVE  LET next == [stages |-> run.stages, rows |-> line, by |-> run.by,
                      cancelled |-> run.cancelled, silent |-> silent]
         IN  RunIs(next) /\ next.stages = run.stages /\ next.rows = line /\ next.silent = silent
<1> DEFINE next == [stages |-> run.stages, rows |-> line, by |-> run.by,
                    cancelled |-> run.cancelled, silent |-> silent]
<1>1. next.stages = run.stages /\ next.rows = line /\ next.silent = silent OBVIOUS
<1>2. next \in RunRecords BY RunFacts DEF RunRecords
<1> HIDE DEF next
<1>3. RunIs(next) BY <1>1, <1>2 DEF RunIs, Whole, InFlight
<1> QED BY <1>1, <1>3 DEF next

LEMMA StartAdvances ==
  ASSUME NEW run, RunIs(run), ~ Whole(run), ~ InFlight(run)
  PROVE  Advances(run, [run EXCEPT !.rows = Append(@, "running")],
                  Painted(run, {Len(run.rows) + 1}, "running"))
<1> DEFINE line == Append(run.rows, "running")
           next == [run EXCEPT !.rows = Append(@, "running")]
           told == Painted(run, {Len(run.rows) + 1}, "running")
           n == Len(run.rows) + 1
<1>1. run.silent = 0 /\ n \in DOMAIN run.stages /\ n \in Nat BY RunFacts DEF RunIs, Whole
<1>2. /\ line \in Seq(StageStatuses) /\ Len(line) = n /\ line[n] = "running" /\ DOMAIN line = 1 .. n
      /\ \A k \in 1 .. n - 1 : line[k] = run.rows[k]
  BY RunFacts, StatusesAre, AppendProperties
<1>3. next = [stages |-> run.stages, rows |-> line, by |-> run.by, cancelled |-> run.cancelled, silent |-> 0]
  BY <1>1, RunUpdates
<1>4. n <= Len(run.stages) BY <1>1, RunFacts
<1> HIDE DEF line, next
<1>5. RunIs(next) /\ next.stages = run.stages /\ next.rows = line /\ next.silent = 0
  BY <1>2, <1>3, <1>4, RowsMake
<1>6. told = [id \in {run.stages[k].id : k \in {n}} |-> "running"] BY DEF Painted
<1>7. DOMAIN told = {run.stages[k].id : k \in {n}} /\ \A id \in DOMAIN told : told[id] = "running" BY <1>6
<1> HIDE DEF told
<1>8. /\ DOMAIN told \subseteq IdsOf(run.stages)
      /\ \A k \in DOMAIN run.stages : run.stages[k].id \in DOMAIN told <=> k \in {n}
  <2> DEFINE places == {n}
  <2>1. places \in SUBSET (DOMAIN run.stages) BY <1>1
  <2>2. DOMAIN told = {run.stages[k].id : k \in places} BY <1>7
  <2> HIDE DEF places
  <2>3. /\ DOMAIN told \subseteq IdsOf(run.stages)
        /\ \A k \in DOMAIN run.stages : run.stages[k].id \in DOMAIN told <=> k \in places
    BY <2>1, <2>2, PlacesAre
  <2> QED BY <2>3 DEF places
<1>9. ASSUME NEW k \in DOMAIN run.stages
      PROVE  Said(next, k) = IF run.stages[k].id \in DOMAIN told THEN told[run.stages[k].id] ELSE Said(run, k)
  <2>0. k \in Nat /\ DOMAIN run.rows = 1 .. n - 1 /\ n - 1 \in Nat BY RunFacts
  <2>1. CASE k = n
    <3>1. Said(next, k) = "running" BY <2>1, <1>1, <1>2, <1>5 DEF Said
    <3> QED BY <3>1, <2>1, <1>7, <1>8
  <2>2. CASE k # n
    <3>1. k \in DOMAIN line <=> k \in DOMAIN run.rows BY <2>0, <2>2, <1>1, <1>2
    <3>2. k \in DOMAIN run.rows => line[k] = run.rows[k] BY <2>0, <1>2
    <3>3. Said(next, k) = Said(run, k) BY <3>1, <3>2, <1>1, <1>5 DEF Said
    <3> QED BY <3>3, <2>2, <1>8
  <2> QED BY <2>1, <2>2
<1>10. \A id \in DOMAIN told : told[id] \in StageStatuses BY <1>7, StatusesAre
<1>11. Advances(run, next, told) BY <1>5, <1>8, <1>9, <1>10 DEF Advances
<1> QED BY <1>11 DEF next, told

LEMMA RefusalAdvances ==
  ASSUME NEW run, RunIs(run), ~ Whole(run), ~ InFlight(run)
  PROVE  Advances(run, [run EXCEPT !.rows = @ \o <<"error">> \o Rest(Len(run.stages) - Len(run.rows) - 1, "skipped"),
                                   !.silent = Len(run.rows) + 1], <<>>)
<1> DEFINE n == Len(run.rows) + 1
           rest == Rest(Len(run.stages) - Len(run.rows) - 1, "skipped")
           line == Line(run.rows, "error", rest)
           next == [run EXCEPT !.rows = @ \o <<"error">> \o rest, !.silent = n]
<1>1. run.silent = 0 /\ n \in DOMAIN run.stages /\ n \in Nat /\ n # 0
      /\ Len(run.stages) - Len(run.rows) - 1 \in Nat
  BY RunFacts DEF RunIs, Whole
<1>2. /\ rest \in Seq(StageStatuses) /\ Len(rest) = Len(run.stages) - n
      /\ \A k \in 1 .. Len(rest) : rest[k] = "skipped"
  <2>1. Len(run.stages) - Len(run.rows) - 1 = Len(run.stages) - n BY RunFacts
  <2>2. "skipped" \in StageStatuses BY StatusesAre
  <2>3. \A m \in Nat : /\ Rest(m, "skipped") \in Seq(StageStatuses) /\ Len(Rest(m, "skipped")) = m
                       /\ \A k \in 1 .. m : Rest(m, "skipped")[k] = "skipped"
    BY <2>2, RestIs
  <2> QED BY <2>1, <2>3, <1>1
<1>3. next = [stages |-> run.stages, rows |-> line, by |-> run.by, cancelled |-> run.cancelled, silent |-> n]
  <2> DEFINE x == run.rows \o <<"error">> \o rest
  <2>1. x = line BY DEF Line
  <2>2. next = [run EXCEPT !.rows = x, !.silent = n] OBVIOUS
  <2> HIDE DEF x, n, next, rest, line
  <2> QED BY <2>1, <2>2, RunUpdates
<1> HIDE DEF rest
<1>4. /\ line \in Seq(StageStatuses) /\ Len(line) = Len(run.stages) /\ line # <<>>
      /\ line[Len(line)] # "running"
      /\ \A k \in 1 .. n - 1 : line[k] = run.rows[k]
  <2>1. line \in Seq(StageStatuses) /\ IsLine(line, run.rows, "error", rest)
    BY <1>2, RunFacts, StatusesAre, LineIs
  <2> HIDE DEF line
  <2>2. /\ Len(line) = Len(run.rows) + 1 + Len(rest)
        /\ \A i \in 1 .. Len(run.rows) + 1 + Len(rest) :
             line[i] = IF i <= Len(run.rows) THEN run.rows[i]
                       ELSE IF i = Len(run.rows) + 1 THEN "error" ELSE rest[i - Len(run.rows) - 1]
    BY <2>1 DEF IsLine
  <2>3. Len(run.rows) \in Nat /\ Len(run.stages) \in Nat /\ Len(rest) \in Nat
    <3>1. Len(run.rows) \in Nat /\ Len(run.stages) \in Nat BY RunFacts
    <3>2. Len(rest) \in Nat
      <4>1. rest \in Seq(StageStatuses) BY <1>2
      <4> QED BY <4>1
    <3> QED BY <3>1, <3>2
  <2>4. Len(line) = Len(run.stages) /\ Len(line) \in Nat /\ Len(line) >= n
    <3>1. Len(rest) = Len(run.stages) - n /\ Len(line) = Len(run.rows) + 1 + Len(rest) BY <1>2, <2>2
    <3>2. \A a, b, c \in Nat : \A e : c = b - (a + 1) /\ e = a + 1 + c => e = b /\ e \in Nat /\ e >= a + 1
      OBVIOUS
    <3> HIDE DEF rest, line
    <3> QED BY <3>1, <3>2, <2>3
  <2>5. line[Len(line)] # "running"
    <3>1. CASE Len(line) = n
      <4>1. line[n] = "error" BY <2>2, <2>3
      <4> QED BY <3>1, <4>1
    <3>2. CASE Len(line) # n
      <4>1. Len(line) - Len(run.rows) - 1 \in 1 .. Len(rest) BY <2>2, <2>3, <2>4, <3>2
      <4>2. line[Len(line)] = rest[Len(line) - Len(run.rows) - 1] BY <2>2, <2>3, <2>4, <3>2
      <4> QED BY <4>1, <4>2, <1>2
    <3> QED BY <3>1, <3>2
  <2>6. \A k \in 1 .. n - 1 : line[k] = run.rows[k] BY <2>2, <2>3
  <2>7. line # <<>> BY <2>1, <2>4, <1>1
  <2> QED BY <2>1, <2>4, <2>5, <2>6, <2>7
<1> HIDE DEF line, next
<1>5. RunIs(next) /\ next.stages = run.stages /\ next.rows = line /\ next.silent = n
  <2>1. Len(line) <= Len(run.stages) BY <1>4, RunFacts
  <2> QED BY <2>1, <1>1, <1>3, <1>4, RowsMake
<1>6. DOMAIN <<>> = {} OBVIOUS
<1>7. ASSUME NEW k \in DOMAIN run.stages
      PROVE  Said(next, k) = Said(run, k)
  <2>1. k \in Nat /\ DOMAIN run.rows = 1 .. n - 1 /\ DOMAIN line = 1 .. Len(run.stages) /\ k \in 1 .. Len(run.stages)
    BY RunFacts, <1>4
  <2>2. CASE k < n
    <3>1. k \in DOMAIN run.rows /\ k \in DOMAIN line /\ k \in 1 .. n - 1 BY <2>1, <2>2, <1>1
    <3> QED BY <3>1, <2>2, <1>1, <1>4, <1>5 DEF Said
  <2>3. CASE ~ k < n
    <3>1. k \notin DOMAIN run.rows BY <2>1, <2>3, <1>1
    <3> QED BY <3>1, <2>3, <1>1, <1>5 DEF Said
  <2> QED BY <2>2, <2>3
<1>8. Advances(run, next, <<>>) BY <1>5, <1>6, <1>7 DEF Advances
<1> QED BY <1>8 DEF next, rest

\* What a run becomes, and what it says, once the stage in flight is over.
EndedRun(run, end, rest, over) ==
  [run EXCEPT !.rows = SubSeq(@, 1, Len(run.rows) - 1) \o <<end>>
                         \o (IF over THEN Rest(Len(run.stages) - Len(run.rows), rest) ELSE <<>>)]
EndTold(run, end, rest, over) ==
  [id \in {run.stages[k].id : k \in Len(run.rows)..(IF over THEN Len(run.stages) ELSE Len(run.rows))} |->
     IF id = run.stages[Len(run.rows)].id THEN end ELSE rest]

LEMMA EndAdvances ==
  ASSUME NEW run, RunIs(run), InFlight(run), NEW end \in StageStatuses, NEW rest \in StageStatuses, NEW over \in BOOLEAN
  PROVE  Advances(run, EndedRun(run, end, rest, over), EndTold(run, end, rest, over))
<1> DEFINE done == Len(run.rows)
           todo == Len(run.stages) - done
           before == SubSeq(run.rows, 1, done - 1)
           after == IF over THEN Rest(todo, rest) ELSE <<>>
           line == Line(before, end, after)
           next == [run EXCEPT !.rows = SubSeq(@, 1, done - 1) \o <<end>> \o after]
           last == IF over THEN Len(run.stages) ELSE done
           places == done .. last
           told == [id \in {run.stages[k].id : k \in places} |-> IF id = run.stages[done].id THEN end ELSE rest]
<1>1. done \in Nat \ {0} /\ done <= Len(run.stages) /\ Len(run.stages) \in Nat
  <2>1. run.rows # <<>> /\ run.rows \in Seq(StageStatuses) /\ Len(run.rows) <= Len(run.stages)
        /\ Len(run.stages) \in Nat
    BY RunFacts DEF InFlight
  <2> QED BY <2>1
<1>2. run.silent = 0 BY DEF RunIs
<1>3. /\ before \in Seq(StageStatuses) /\ Len(before) = done - 1
      /\ \A k \in 1 .. done - 1 : before[k] = run.rows[k]
  <2> DEFINE n == done - 1
  <2>1. n \in Int /\ \A i \in 1 .. n : run.rows[i] \in StageStatuses BY <1>1, RunFacts
  <2> HIDE DEF n
  <2>2. /\ SubSeq(run.rows, 1, n) \in Seq(StageStatuses)
        /\ Len(SubSeq(run.rows, 1, n)) = IF 1 <= n THEN n - 1 + 1 ELSE 0
        /\ \A i \in 1 .. n - 1 + 1 : SubSeq(run.rows, 1, n)[i] = run.rows[1 + i - 1]
    BY <2>1, SubSeqProperties
  <2>3. \A i \in 1 .. n : i \in 1 .. n - 1 + 1 /\ 1 + i - 1 = i BY <2>1
  <2>4. \A i \in 1 .. n : SubSeq(run.rows, 1, n)[i] = run.rows[i] BY <2>2, <2>3
  <2>5. n \in Nat BY <1>1 DEF n
  <2>6. Len(SubSeq(run.rows, 1, n)) = n BY <2>2, <2>5
  <2>7. before = SubSeq(run.rows, 1, n) /\ n = done - 1 BY DEF n
  <2> QED BY <2>2, <2>4, <2>6, <2>7, Zenon
<1>4. todo \in Nat BY <1>1
<1>5. /\ after \in Seq(StageStatuses) /\ Len(after) = last - done
      /\ \A k \in 1 .. Len(after) : after[k] = rest
  <2>1. CASE over
    <3>1. after = Rest(todo, rest) /\ last - done = todo BY <2>1
    <3>2. Rest(todo, rest) \in Seq(StageStatuses) /\ Len(Rest(todo, rest)) = todo
          /\ \A k \in 1 .. todo : Rest(todo, rest)[k] = rest
      BY <1>4, RestIs
    <3> HIDE DEF after, last, todo, done
    <3> QED BY <3>1, <3>2
  <2>2. CASE ~ over
    <3>1. after = <<>> /\ last - done = 0 BY <2>2, <1>1
    <3> HIDE DEF after, last, todo, done
    <3> QED BY <3>1
  <2> QED BY <2>1, <2>2
<1>6. last \in Nat /\ done <= last /\ last <= Len(run.stages) BY <1>1
<1>7. next = [stages |-> run.stages, rows |-> line, by |-> run.by, cancelled |-> run.cancelled, silent |-> 0]
  <2> DEFINE x == SubSeq(run.rows, 1, done - 1) \o <<end>> \o after
  <2>1. x = line BY DEF Line
  <2>2. next = [run EXCEPT !.rows = x] OBVIOUS
  <2> HIDE DEF x, next, line
  <2> QED BY <2>1, <2>2, <1>2, RunUpdates
<1> HIDE DEF before, after, last, todo, next
<1>8. /\ line \in Seq(StageStatuses) /\ Len(line) = last /\ DOMAIN line = 1 .. last
      /\ \A k \in 1 .. last : line[k] = IF k < done THEN run.rows[k] ELSE IF k = done THEN end ELSE rest
  <2>1. line \in Seq(StageStatuses) /\ IsLine(line, before, end, after)
    BY <1>3, <1>5, LineIs
  <2> HIDE DEF line
  <2>2. /\ Len(line) = Len(before) + 1 + Len(after)
        /\ \A i \in 1 .. Len(before) + 1 + Len(after) :
             line[i] = IF i <= Len(before) THEN before[i]
                       ELSE IF i = Len(before) + 1 THEN end ELSE after[i - Len(before) - 1]
    BY <2>1 DEF IsLine
  <2> HIDE DEF done
  <2>3. Len(before) + 1 + Len(after) = last /\ Len(before) = done - 1 /\ Len(after) = last - done
    BY <1>1, <1>3, <1>5, <1>6
  <2>4. ASSUME NEW k \in 1 .. last
        PROVE  line[k] = IF k < done THEN run.rows[k] ELSE IF k = done THEN end ELSE rest
    <3>1. line[k] = IF k <= done - 1 THEN before[k]
                    ELSE IF k = done - 1 + 1 THEN end ELSE after[k - (done - 1) - 1]
      BY <2>2, <2>3
    <3>2. CASE k < done
      <4>1. k <= done - 1 /\ k \in 1 .. done - 1 BY <3>2, <1>1
      <4> QED BY <4>1, <3>1, <3>2, <1>3
    <3>3. CASE k = done
      <4>1. ~ k <= done - 1 /\ k = done - 1 + 1 BY <3>3, <1>1
      <4> QED BY <4>1, <3>1, <3>3
    <3>4. CASE k > done
      <4>1. ~ k <= done - 1 /\ k # done - 1 + 1 /\ k - (done - 1) - 1 \in 1 .. Len(after)
            /\ ~ k < done /\ k # done
        BY <3>4, <1>1, <1>6, <2>3
      <4> QED BY <4>1, <3>1, <1>5
    <3> QED BY <3>2, <3>3, <3>4, <1>1
  <2> QED BY <2>1, <2>2, <2>3, <2>4
<1> HIDE DEF line
<1>9. RunIs(next) /\ next.stages = run.stages /\ next.rows = line /\ next.silent = 0
  <2>1. Len(line) <= Len(run.stages) BY <1>6, <1>8
  <2> QED BY <2>1, <1>7, <1>8, RowsMake
<1>10. places \in SUBSET (DOMAIN run.stages)
  BY <1>1, <1>6, RunFacts
<1>11. /\ DOMAIN told = {run.stages[k].id : k \in places}
       /\ \A id \in DOMAIN told : told[id] = IF id = run.stages[done].id THEN end ELSE rest
  OBVIOUS
<1> HIDE DEF told, places
<1>12. /\ DOMAIN told \subseteq IdsOf(run.stages)
       /\ \A k \in DOMAIN run.stages : run.stages[k].id \in DOMAIN told <=> k \in places
  BY <1>10, <1>11, PlacesAre
<1>13. ASSUME NEW k \in DOMAIN run.stages
       PROVE  Said(next, k) = IF run.stages[k].id \in DOMAIN told THEN told[run.stages[k].id] ELSE Said(run, k)
  <2>0. k \in Nat /\ k \in 1 .. Len(run.stages) /\ DOMAIN run.rows = 1 .. done BY RunFacts
  <2>1. CASE k \in places
    <3>1. k \in 1 .. last /\ ~ k < done /\ k \in DOMAIN line BY <2>0, <2>1, <1>1, <1>6, <1>8 DEF places
    <3>2. Said(next, k) = line[k] BY <3>1, <1>9 DEF Said
    <3>3. line[k] = IF k = done THEN end ELSE rest BY <3>1, <1>8
    <3>4. run.stages[k].id = run.stages[done].id <=> k = done
      <4>1. done \in DOMAIN run.stages BY <1>1, RunFacts
      <4> QED BY <4>1 DEF RunIs, OnceEach
    <3> QED BY <3>2, <3>3, <3>4, <2>1, <1>11, <1>12
  <2>2. CASE k \notin places
    <3>1. k \in DOMAIN line => k < done BY <2>0, <2>2, <1>1, <1>6, <1>8 DEF places
    <3>2. k \in DOMAIN run.rows => k < done BY <2>0, <2>2, <1>1, <1>6 DEF places
    <3>3. k \in DOMAIN line <=> k \in DOMAIN run.rows BY <3>1, <3>2, <2>0, <1>1, <1>6, <1>8
    <3>4. k \in DOMAIN line => line[k] = run.rows[k] BY <3>1, <1>8
    <3>5. Said(next, k) = Said(run, k) BY <3>3, <3>4, <1>2, <1>9 DEF Said
    <3> QED BY <3>5, <2>2, <1>12
  <2> QED BY <2>1, <2>2
<1>14. \A id \in DOMAIN told : told[id] \in StageStatuses BY <1>11
<1>15. Advances(run, next, told) BY <1>9, <1>12, <1>13, <1>14 DEF Advances
<1>16. next = EndedRun(run, end, rest, over) BY DEF next, after, todo, EndedRun
<1>17. told = EndTold(run, end, rest, over) BY DEF told, places, last, EndTold
<1> QED BY <1>15, <1>16, <1>17

LEMMA CancelAdvances ==
  ASSUME NEW run, RunIs(run), ~ Whole(run)
  PROVE  Advances(run, [run EXCEPT !.rows = @ \o Rest(Len(run.stages) - Len(@), "cancelled")],
                  Painted(run, Len(run.rows) + 1..Len(run.stages), "cancelled"))
<1> DEFINE n == Len(run.rows)
           rest == Rest(Len(run.stages) - Len(run.rows), "cancelled")
           line == run.rows \o rest
           next == [run EXCEPT !.rows = @ \o Rest(Len(run.stages) - Len(@), "cancelled")]
           places == n + 1 .. Len(run.stages)
           told == Painted(run, places, "cancelled")
<1>1. run.silent = 0 /\ n \in Nat /\ Len(run.stages) \in Nat /\ Len(run.stages) - Len(run.rows) \in Nat
  BY RunFacts DEF RunIs
<1>2. /\ rest \in Seq(StageStatuses) /\ Len(rest) = Len(run.stages) - n
      /\ \A k \in 1 .. Len(rest) : rest[k] = "cancelled"
  BY <1>1, StatusesAre, RestIs
<1>3. next = [stages |-> run.stages, rows |-> line, by |-> run.by, cancelled |-> run.cancelled, silent |-> 0]
  BY <1>1, RunUpdates
<1> HIDE DEF rest, next
<1>4. /\ line \in Seq(StageStatuses) /\ Len(line) = Len(run.stages) /\ DOMAIN line = 1 .. Len(run.stages)
      /\ \A k \in 1 .. Len(run.stages) : line[k] = IF k <= n THEN run.rows[k] ELSE "cancelled"
  <2>1. run.rows \in Seq(StageStatuses) BY RunFacts
  <2>2. /\ line \in Seq(StageStatuses) /\ Len(line) = n + Len(rest)
        /\ \A k \in 1 .. n + Len(rest) : line[k] = IF k <= n THEN run.rows[k] ELSE rest[k - n]
    BY <2>1, <1>2, ConcatProperties
  <2> HIDE DEF line, n
  <2>3. n + Len(rest) = Len(run.stages) BY <1>1, <1>2
  <2>4. \A k \in 1 .. Len(run.stages) : k > n => k - n \in 1 .. Len(rest) BY <1>1, <1>2
  <2>5. \A k \in 1 .. Len(run.stages) : line[k] = IF k <= n THEN run.rows[k] ELSE "cancelled"
    BY <2>2, <2>3, <2>4, <1>1, <1>2
  <2> QED BY <2>2, <2>3, <2>5
<1> HIDE DEF line
<1>5. RunIs(next) /\ next.stages = run.stages /\ next.rows = line /\ next.silent = 0
  <2>1. Len(line) <= Len(run.stages) BY <1>1, <1>4
  <2> QED BY <2>1, <1>3, <1>4, RowsMake
<1>6. places \in SUBSET (DOMAIN run.stages) BY <1>1, RunFacts
<1>7. DOMAIN told = {run.stages[k].id : k \in places} /\ \A id \in DOMAIN told : told[id] = "cancelled"
  BY DEF Painted
<1> HIDE DEF told, places
<1>8. /\ DOMAIN told \subseteq IdsOf(run.stages)
      /\ \A k \in DOMAIN run.stages : run.stages[k].id \in DOMAIN told <=> k \in places
  BY <1>6, <1>7, PlacesAre
<1>9. ASSUME NEW k \in DOMAIN run.stages
      PROVE  Said(next, k) = IF run.stages[k].id \in DOMAIN told THEN told[run.stages[k].id] ELSE Said(run, k)
  <2>0. k \in Nat /\ k \in 1 .. Len(run.stages) /\ DOMAIN run.rows = 1 .. n BY RunFacts
  <2>1. k \in DOMAIN line BY <2>0, <1>4
  <2>2. Said(next, k) = line[k] BY <2>1, <1>5 DEF Said
  <2>3. CASE k \in places
    <3>1. ~ k <= n BY <2>0, <2>3, <1>1 DEF places
    <3> QED BY <3>1, <2>0, <2>2, <2>3, <1>4, <1>7, <1>8
  <2>4. CASE k \notin places
    <3>1. k <= n /\ k \in DOMAIN run.rows BY <2>0, <2>4, <1>1 DEF places
    <3>2. Said(run, k) = run.rows[k] BY <3>1, <1>1 DEF Said
    <3> QED BY <3>1, <3>2, <2>0, <2>2, <2>4, <1>4, <1>8
  <2> QED BY <2>3, <2>4
<1>10. \A id \in DOMAIN told : told[id] \in StageStatuses BY <1>7, StatusesAre
<1>11. Advances(run, next, told) BY <1>5, <1>8, <1>9, <1>10 DEF Advances
<1> QED BY <1>11 DEF next, told, places

\* The runs of a step are those of before, with the stages they were sent with.
SameStages == \A r \in DOMAIN runs : r \in DOMAIN runs' /\ runs'[r].stages = runs[r].stages

LEMMA RunsAre ==
  ASSUME RunsOK
  PROVE  Len(runs) \in Nat /\ DOMAIN runs = 1 .. Len(runs) /\ runs \in Seq(RunRecords)
         /\ \A r \in DOMAIN runs : RunIs(runs[r]) /\ runs[r] \in RunRecords
<1>1. runs \in Seq(RunRecords) BY DEF RunsOK
<1>2. \A r \in DOMAIN runs : RunIs(runs[r]) BY DEF RunsOK
<1> QED BY <1>1, <1>2

LEMMA RunChanges ==
  ASSUME RunsOK, NEW r \in DOMAIN runs, NEW next, RunIs(next), next.stages = runs[r].stages,
         runs' = [runs EXCEPT ![r] = next]
  PROVE  /\ RunsOK' /\ SameStages /\ DOMAIN runs' = DOMAIN runs /\ Len(runs') = Len(runs)
         /\ runs'[r] = next /\ \A s \in DOMAIN runs : s # r => runs'[s] = runs[s]
<1>1. next \in RunRecords BY DEF RunIs
<1>2. runs \in Seq(RunRecords) /\ Len(runs) \in Nat /\ DOMAIN runs = 1 .. Len(runs) BY RunsAre
<1>3. /\ runs' \in Seq(RunRecords) /\ Len(runs') = Len(runs) /\ DOMAIN runs' = 1 .. Len(runs)
      /\ \A s \in 1 .. Len(runs) : runs'[s] = IF s = r THEN next ELSE runs[s]
  BY <1>1, <1>2, ExceptSeq
<1>4. \A s \in DOMAIN runs' : RunIs(runs'[s]) BY <1>2, <1>3, RunsAre
<1>5. RunsOK' BY <1>3, <1>4 DEF RunsOK, RunIs
<1>6. SameStages BY <1>2, <1>3 DEF SameStages
<1> QED BY <1>2, <1>3, <1>5, <1>6

LEMMA NewRunIs ==
  ASSUME NEW sent \in Seq(StageRecords), OnceEach(sent), NEW by \in {"studio", "schedule"}
  PROVE  /\ RunIs(NewRun(sent, by)) /\ NewRun(sent, by).stages = sent /\ NewRun(sent, by).by = by
         /\ \A k : Said(NewRun(sent, by), k) = "pending"
<1> DEFINE run == NewRun(sent, by)
<1>1. run = [stages |-> sent, rows |-> <<>>, by |-> by, cancelled |-> FALSE, silent |-> 0] BY DEF NewRun
<1>2. run.stages = sent /\ run.rows = <<>> /\ run.silent = 0 /\ run.by = by BY <1>1
<1>3. <<>> \in Seq(StageStatuses) /\ Len(<<>>) = 0 /\ DOMAIN <<>> = {} /\ Len(sent) \in Nat OBVIOUS
<1>4. run \in RunRecords BY <1>1, <1>3 DEF RunRecords
<1> HIDE DEF run
<1>5. RunIs(run) BY <1>2, <1>3, <1>4 DEF RunIs
<1>6. \A k : Said(run, k) = "pending" BY <1>2, <1>3 DEF Said
<1> QED BY <1>2, <1>5, <1>6 DEF run

LEMMA RunComes ==
  ASSUME RunsOK, NEW new, RunIs(new), runs' = Append(runs, new)
  PROVE  /\ RunsOK' /\ SameStages /\ Len(runs') = Len(runs) + 1 /\ DOMAIN runs' = 1 .. Len(runs) + 1
         /\ runs'[Len(runs) + 1] = new /\ \A s \in DOMAIN runs : runs'[s] = runs[s]
         /\ DOMAIN runs' \ DOMAIN runs = {Len(runs) + 1}
<1>1. new \in RunRecords BY DEF RunIs
<1>2. runs \in Seq(RunRecords) /\ Len(runs) \in Nat /\ DOMAIN runs = 1 .. Len(runs) BY RunsAre
<1>3. /\ runs' \in Seq(RunRecords) /\ Len(runs') = Len(runs) + 1 /\ DOMAIN runs' = 1 .. Len(runs) + 1
      /\ runs'[Len(runs) + 1] = new /\ \A s \in 1 .. Len(runs) : runs'[s] = runs[s]
  BY <1>1, <1>2, AppendProperties
<1>4. \A s \in 1 .. Len(runs) + 1 : s \in 1 .. Len(runs) \/ s = Len(runs) + 1 BY <1>2
<1>5. \A s \in 1 .. Len(runs) : s \in 1 .. Len(runs) + 1 /\ s # Len(runs) + 1 BY <1>2
<1>6. Len(runs) + 1 \in 1 .. Len(runs) + 1 BY <1>2
<1>7. \A s \in DOMAIN runs' : RunIs(runs'[s]) BY <1>2, <1>3, <1>4, RunsAre
<1>8. RunsOK' BY <1>3, <1>7 DEF RunsOK, RunIs
<1>9. SameStages BY <1>2, <1>3, <1>5 DEF SameStages
<1>10. DOMAIN runs' \ DOMAIN runs = {Len(runs) + 1} BY <1>2, <1>3, <1>4, <1>5, <1>6
<1> QED BY <1>2, <1>3, <1>8, <1>9, <1>10

\* Every step of the runner on a run changes that run, and says so to who hears it.
LEMMA RunnerAdvances ==
  ASSUME RunsOK, NEW r \in DOMAIN runs,
         \/ StageStarts(r) \/ StageRefused(r) \/ CancelledBetween(r)
         \/ \E verdict \in {"success", "error"} : StageEnds(r, verdict)
  PROVE  \E next, told : /\ Advances(runs[r], next, told)
                         /\ runs' = [runs EXCEPT ![r] = next]
                         /\ Tell(r, told)
<1> DEFINE run == runs[r]
<1>0. RunIs(run) /\ r \in DOMAIN runs BY RunsAre
<1>1. CASE StageStarts(r)
  <2> DEFINE next == [run EXCEPT !.rows = Append(@, "running")]
             told == Painted(run, {Len(run.rows) + 1}, "running")
  <2>1. ~ Whole(run) /\ ~ InFlight(run) /\ Tell(r, told) BY <1>1 DEF StageStarts
  <2>2. runs' = [runs EXCEPT ![r] = next] BY <1>1 DEF StageStarts
  <2>3. Advances(run, next, told) BY <1>0, <2>1, StartAdvances
  <2> HIDE DEF next, told
  <2> QED BY <2>1, <2>2, <2>3
<1>2. CASE StageRefused(r)
  <2> DEFINE line == run.rows \o <<"error">> \o Rest(Len(run.stages) - Len(run.rows) - 1, "skipped")
             next == [run EXCEPT !.rows = line, !.silent = Len(run.rows) + 1]
  <2>1. ~ Whole(run) /\ ~ InFlight(run) /\ Tell(r, <<>>) BY <1>2 DEF StageRefused
  <2>2. runs' = [runs EXCEPT ![r] = next]
    <3>1. runs' = [runs EXCEPT ![r].rows = line, ![r].silent = Len(run.rows) + 1] BY <1>2 DEF StageRefused
    <3> HIDE DEF line
    <3> QED BY <3>1, <1>0
  <2>3. Advances(run, next, <<>>) BY <1>0, <2>1, RefusalAdvances
  <2> HIDE DEF next
  <2> QED BY <2>1, <2>2, <2>3
<1>3. CASE CancelledBetween(r)
  <2> DEFINE next == [run EXCEPT !.rows = @ \o Rest(Len(run.stages) - Len(@), "cancelled")]
             told == Painted(run, Len(run.rows) + 1..Len(run.stages), "cancelled")
  <2>1. ~ Whole(run) /\ Tell(r, told) BY <1>3 DEF CancelledBetween
  <2>2. runs' = [runs EXCEPT ![r] = next] BY <1>3 DEF CancelledBetween
  <2>3. Advances(run, next, told) BY <1>0, <2>1, CancelAdvances
  <2> HIDE DEF next, told
  <2> QED BY <2>1, <2>2, <2>3
<1>4. ASSUME NEW verdict \in {"success", "error"}, StageEnds(r, verdict)
      PROVE  \E next, told : /\ Advances(runs[r], next, told)
                             /\ runs' = [runs EXCEPT ![r] = next]
                             /\ Tell(r, told)
  <2> DEFINE done == Len(run.rows)
             todo == Len(run.stages) - done
             end  == IF run.cancelled THEN "cancelled" ELSE verdict
             rest == IF end = "cancelled" THEN "cancelled" ELSE "skipped"
             over == end \in {"error", "cancelled"}
             next == [run EXCEPT !.rows = SubSeq(@, 1, done - 1) \o <<end>> \o (IF over THEN Rest(todo, rest) ELSE <<>>)]
             told == [id \in {run.stages[k].id : k \in done..(IF over THEN Len(run.stages) ELSE done)} |->
                        IF id = run.stages[done].id THEN end ELSE rest]
  <2>1. InFlight(run) /\ Tell(r, told) BY <1>4 DEF StageEnds
  <2>2. runs' = [runs EXCEPT ![r] = next] BY <1>4 DEF StageEnds
  <2>3. end \in StageStatuses /\ rest \in StageStatuses /\ over \in BOOLEAN BY StatusesAre
  <2>4. Advances(run, next, told)
    <3>1. next = EndedRun(run, end, rest, over) /\ told = EndTold(run, end, rest, over)
      BY DEF EndedRun, EndTold
    <3> HIDE DEF end, rest, over, next, told
    <3> QED BY <3>1, <1>0, <2>1, <2>3, EndAdvances
  <2> HIDE DEF next, told
  <2> QED BY <2>1, <2>2, <2>4
<1> QED BY <1>1, <1>2, <1>3, <1>4

\* Who read the stream so far and hears the step knows as much as the run.
LEMMA TellFollows ==
  ASSUME NEW run, NEW next, NEW told, Advances(run, next, told), NEW s, Follows(run, s)
  PROVE  Follows(next, [id \in DOMAIN told \cup DOMAIN s |-> IF id \in DOMAIN told THEN told[id] ELSE s[id]])
<1> DEFINE t == [id \in DOMAIN told \cup DOMAIN s |-> IF id \in DOMAIN told THEN told[id] ELSE s[id]]
<1>1. /\ DOMAIN s = IdsOf(run.stages) /\ \A k \in DOMAIN run.stages : s[run.stages[k].id] = Said(run, k)
  BY DEF Follows
<1>2. /\ next.stages = run.stages /\ DOMAIN told \subseteq IdsOf(run.stages)
      /\ \A k \in DOMAIN run.stages :
           Said(next, k) = IF run.stages[k].id \in DOMAIN told THEN told[run.stages[k].id] ELSE Said(run, k)
  BY DEF Advances
<1>3. DOMAIN t = IdsOf(run.stages) BY <1>1, <1>2
<1>4. \A id \in IdsOf(run.stages) : t[id] = IF id \in DOMAIN told THEN told[id] ELSE s[id] BY <1>1, <1>2
<1>5. \A k \in DOMAIN run.stages : run.stages[k].id \in IdsOf(run.stages) BY DEF IdsOf
<1> HIDE DEF t
<1>6. Follows(next, t) BY <1>1, <1>2, <1>3, <1>4, <1>5 DEF Follows
<1> QED BY <1>6 DEF t

-----------------------------------------------------------------------------
(* The execution each box is painted with. *)

\* The boxes of a Job, and its executions.
BoxesAt(stages, j) == {n \in DOMAIN stages : stages[n].runs = j}
ExecsAt(sent, line, j) == {k \in DOMAIN line : sent[k].runs = j}

\* Box n and execution k are of the same Job, and as many of its others come before.
Paired(stages, sent, line, n, k) ==
  /\ n \in DOMAIN stages /\ k \in DOMAIN line
  /\ stages[n].runs \in Jobs /\ sent[k].runs = stages[n].runs
  /\ Turn(n, BoxesAt(stages, stages[n].runs)) = Turn(k, ExecsAt(sent, line, stages[n].runs))

LEMMA PlacesAreNumbers ==
  ASSUME NEW S, NEW stages \in Seq(S), NEW T, NEW line \in Seq(T), NEW sent, NEW j
  PROVE  /\ Len(stages) \in Nat /\ BoxesAt(stages, j) \in SUBSET (1 .. Len(stages))
         /\ Len(line) \in Nat /\ ExecsAt(sent, line, j) \in SUBSET (1 .. Len(line))
BY DEF BoxesAt, ExecsAt

\* A box has one execution, and an execution one box.
LEMMA PairedOnce ==
  ASSUME NEW S, NEW stages \in Seq(S), NEW T, NEW line \in Seq(T), NEW sent,
         NEW n, NEW k, NEW l, Paired(stages, sent, line, n, k), Paired(stages, sent, line, n, l)
  PROVE  k = l
<1> DEFINE E == ExecsAt(sent, line, stages[n].runs)
<1>1. k \in E /\ l \in E /\ Turn(k, E) = Turn(l, E) BY DEF Paired, ExecsAt
<1>2. E \in SUBSET (1 .. Len(line)) /\ Len(line) \in Nat BY PlacesAreNumbers
<1> HIDE DEF E
<1> QED BY <1>1, <1>2, TurnIsOnes

LEMMA MatchIs ==
  ASSUME NEW stages \in Seq(StageRecords), NEW sent \in Seq(StageRecords), NEW line \in Seq(StageStatuses),
         Len(line) <= Len(sent)
  PROVE  LET match == MatchStageRuns(stages, sent, line)
         IN  /\ \A n \in DOMAIN match : Paired(stages, sent, line, n, match[n])
             /\ \A n, k : Paired(stages, sent, line, n, k) => n \in DOMAIN match /\ match[n] = k
<1> DEFINE boxes(j) == {n \in DOMAIN stages : j \in StageJob(stages[n])}
           execs(j) == {k \in DOMAIN line : j \in RowJob(sent[k])}
           pairs    == UNION {{p \in boxes(j) \X execs(j) :
                                 Turn(p[1], boxes(j)) = Turn(p[2], execs(j))} : j \in Jobs}
           match == MatchStageRuns(stages, sent, line)
<1>1. match = [n \in {p[1] : p \in pairs} |-> CHOOSE k \in DOMAIN line : <<n, k>> \in pairs]
  BY DEF MatchStageRuns
<1>2. \A j \in Jobs : boxes(j) = BoxesAt(stages, j) /\ execs(j) = ExecsAt(sent, line, j)
  BY DEF StageJob, RowJob, BoxesAt, ExecsAt
<1>3. \A p : p \in pairs <=> \E j \in Jobs : /\ p \in boxes(j) \X execs(j)
                                             /\ Turn(p[1], boxes(j)) = Turn(p[2], execs(j))
  <2> DEFINE some(j) == {p \in boxes(j) \X execs(j) : Turn(p[1], boxes(j)) = Turn(p[2], execs(j))}
  <2>1. pairs = UNION {some(j) : j \in Jobs} OBVIOUS
  <2> HIDE DEF boxes, execs, pairs
  <2>2. \A j, p : p \in some(j) <=> p \in boxes(j) \X execs(j) /\ Turn(p[1], boxes(j)) = Turn(p[2], execs(j))
    OBVIOUS
  <2> HIDE DEF some
  <2>3. \A p : p \in pairs <=> \E j \in Jobs : p \in some(j) BY <2>1
  <2> QED BY <2>2, <2>3
<1> HIDE DEF boxes, execs, pairs, match
<1>4. ASSUME NEW p \in pairs PROVE p = <<p[1], p[2]>> /\ Paired(stages, sent, line, p[1], p[2])
  <2>1. PICK j \in Jobs : p \in boxes(j) \X execs(j) /\ Turn(p[1], boxes(j)) = Turn(p[2], execs(j))
    BY <1>3
  <2>2. p = <<p[1], p[2]>> /\ p[1] \in BoxesAt(stages, j) /\ p[2] \in ExecsAt(sent, line, j)
        /\ Turn(p[1], BoxesAt(stages, j)) = Turn(p[2], ExecsAt(sent, line, j))
    BY <2>1, <1>2
  <2>3. p[1] \in DOMAIN stages /\ stages[p[1]].runs = j /\ p[2] \in DOMAIN line /\ sent[p[2]].runs = j
    BY <2>2 DEF BoxesAt, ExecsAt
  <2> QED BY <2>2, <2>3 DEF Paired
<1>5. ASSUME NEW n, NEW k, Paired(stages, sent, line, n, k) PROVE <<n, k>> \in pairs
  <2> DEFINE j == stages[n].runs
  <2>1. /\ j \in Jobs /\ n \in BoxesAt(stages, j) /\ k \in ExecsAt(sent, line, j)
        /\ Turn(n, BoxesAt(stages, j)) = Turn(k, ExecsAt(sent, line, j))
    BY <1>5 DEF Paired, BoxesAt, ExecsAt
  <2> HIDE DEF j
  <2>2. <<n, k>> \in boxes(j) \X execs(j) /\ Turn(<<n, k>>[1], boxes(j)) = Turn(<<n, k>>[2], execs(j))
    BY <2>1, <1>2
  <2> QED BY <2>1, <2>2, <1>3
<1>6. ASSUME NEW n, n \in {p[1] : p \in pairs}
      PROVE  <<n, CHOOSE k \in DOMAIN line : <<n, k>> \in pairs>> \in pairs
  <2>1. PICK p \in pairs : p[1] = n BY <1>6
  <2>2. p = <<n, p[2]>> /\ p[2] \in DOMAIN line BY <2>1, <1>4 DEF Paired
  <2> QED BY <2>2, <2>1
<1>7. \A n \in DOMAIN match : Paired(stages, sent, line, n, match[n])
  <2> TAKE n \in DOMAIN match
  <2>1. n \in {p[1] : p \in pairs} /\ match[n] = CHOOSE k \in DOMAIN line : <<n, k>> \in pairs BY <1>1
  <2>2. <<n, match[n]>> \in pairs BY <2>1, <1>6
  <2>3. <<n, match[n]>>[1] = n /\ <<n, match[n]>>[2] = match[n] OBVIOUS
  <2> QED BY <2>2, <2>3, <1>4
<1>8. ASSUME NEW n, NEW k, Paired(stages, sent, line, n, k)
      PROVE  n \in DOMAIN match /\ match[n] = k
  <2>1. <<n, k>> \in pairs /\ <<n, k>>[1] = n BY <1>5, <1>8
  <2>2. n \in {p[1] : p \in pairs} BY <2>1
  <2>3. n \in DOMAIN match BY <2>2, <1>1
  <2>4. Paired(stages, sent, line, n, match[n]) BY <2>3, <1>7
  <2> QED BY <2>3, <2>4, <1>8, PairedOnce
<1> QED BY <1>7, <1>8 DEF match

\* The n-th box of a Job on the canvas was its n-th in the run when its boxes stand as they ran.
LEMMA OwnIsPaired ==
  ASSUME NEW on \in Seq(StageRecords), NEW sent \in Seq(StageRecords), OnceEach(sent),
         NEW line \in Seq(StageStatuses), Len(line) <= Len(sent),
         NEW n \in DOMAIN on, on[n].runs \in Jobs,
         BoxesOf(on, on[n].runs) = BoxesOf(sent, on[n].runs),
         NEW k \in DOMAIN sent, sent[k].id = on[n].id, k \in DOMAIN line
  PROVE  Paired(on, sent, line, n, k)
<1> DEFINE j == on[n].runs
           B == BoxesAt(on, j)
           C == BoxesAt(sent, j)
           E == ExecsAt(sent, line, j)
<1>1. Picked(on, B) = Picked(sent, C) BY DEF BoxesOf, BoxesAt
<1>2. B \in SUBSET (DOMAIN on) /\ C \in SUBSET (DOMAIN sent) /\ n \in B BY DEF BoxesAt
<1>3. \A c \in C : sent[c].runs = j BY DEF BoxesAt
<1>4. \A m : m \in E <=> m \in DOMAIN line /\ sent[m].runs = j BY DEF ExecsAt
<1>5. \A m : m \in C <=> m \in DOMAIN sent /\ sent[m].runs = j BY DEF BoxesAt
<1> HIDE DEF B, C, E
<1>6. Turn(n, B) \in DOMAIN Picked(on, B) /\ Picked(on, B)[Turn(n, B)] = on[n] BY <1>2, PickedIs
<1>7. PICK c \in C : Turn(c, C) = Turn(n, B) /\ on[n] = sent[c]
  <2>1. Turn(n, B) \in DOMAIN Picked(sent, C) /\ Picked(sent, C)[Turn(n, B)] = on[n] BY <1>1, <1>6
  <2>2. \A t \in DOMAIN Picked(sent, C) : \E c \in C : Turn(c, C) = t /\ Picked(sent, C)[t] = sent[c]
    BY <1>2, PickedIs
  <2> QED BY <2>1, <2>2
<1>8. c = k
  <2>1. c \in DOMAIN sent /\ sent[c].id = sent[k].id BY <1>7, <1>2
  <2> QED BY <2>1 DEF OnceEach
<1>9. sent[k].runs = j BY <1>3, <1>7, <1>8
<1>10. Turn(k, E) = Turn(k, C)
  <2>1. Len(line) \in Nat /\ Len(sent) \in Nat /\ DOMAIN line = 1 .. Len(line) /\ DOMAIN sent = 1 .. Len(sent)
    OBVIOUS
  <2>2. k \in Nat /\ k <= Len(line) BY <2>1
  <2>3. \A m : m \in E /\ m <= k <=> m \in C /\ m <= k
    <3>1. \A m \in 1 .. Len(sent) : m <= k => m \in 1 .. Len(line) BY <2>1, <2>2
    <3>2. \A m \in 1 .. Len(line) : m \in 1 .. Len(sent) BY <2>1
    <3> QED BY <3>1, <3>2, <2>1, <1>4, <1>5
  <2>4. {m \in E : m <= k} = {m \in C : m <= k} BY <2>3
  <2> QED BY <2>4 DEF Turn
<1> QED BY <1>7, <1>8, <1>9, <1>10 DEF Paired, B, E

\* When every stage that ran is still drawn, and ran a Job, every execution has its box.
LEMMA AllArePaired ==
  ASSUME NEW on \in Seq(StageRecords), NEW sent \in Seq(StageRecords), OnceEach(sent),
         NEW line \in Seq(StageStatuses), Len(line) <= Len(sent),
         \A s \in Range(sent) : s \in Range(on) /\ s.runs \in Jobs,
         NEW k \in DOMAIN line
  PROVE  \E n : Paired(on, sent, line, n, k)
<1> DEFINE j == sent[k].runs
           B == BoxesAt(on, j)
           C == BoxesAt(sent, j)
           E == ExecsAt(sent, line, j)
           spot(c) == CHOOSE n \in DOMAIN on : on[n] = sent[c]
<1>1. /\ Len(line) \in Nat /\ Len(sent) \in Nat /\ Len(on) \in Nat
      /\ DOMAIN line = 1 .. Len(line) /\ DOMAIN sent = 1 .. Len(sent) /\ DOMAIN on = 1 .. Len(on)
  OBVIOUS
<1>2. k \in DOMAIN sent /\ \A m \in DOMAIN line : m \in DOMAIN sent BY <1>1
<1>3. sent[k] \in Range(sent) /\ j \in Jobs BY <1>2 DEF Range
<1>4. /\ B \in SUBSET (1 .. Len(on)) /\ C \in SUBSET (1 .. Len(sent)) /\ E \in SUBSET (1 .. Len(line))
      /\ k \in E /\ E \in SUBSET C
  BY <1>1, <1>2 DEF BoxesAt, ExecsAt
<1>5. ASSUME NEW c \in C PROVE spot(c) \in B /\ on[spot(c)] = sent[c]
  <2>1. c \in DOMAIN sent /\ sent[c].runs = j BY DEF BoxesAt
  <2>2. sent[c] \in Range(sent) BY <2>1 DEF Range
  <2>3. \E n \in DOMAIN on : on[n] = sent[c] BY <2>2 DEF Range
  <2>4. spot(c) \in DOMAIN on /\ on[spot(c)] = sent[c] BY <2>3
  <2> HIDE DEF spot
  <2> QED BY <2>1, <2>4 DEF BoxesAt
<1> DEFINE f == [c \in C |-> spot(c)]
<1>6. \A c, d \in C : f[c] = f[d] => c = d
  <2> TAKE c, d \in C
  <2> HAVE f[c] = f[d]
  <2>1. sent[c] = sent[d] BY <1>5
  <2>2. c \in DOMAIN sent /\ d \in DOMAIN sent BY <1>1, <1>4
  <2> QED BY <2>1, <2>2 DEF OnceEach
<1>7. f \in [C -> B] BY <1>5
<1>8. /\ IsFiniteSet(B) /\ Cardinality(B) \in Nat /\ IsFiniteSet(C) /\ Cardinality(C) \in Nat
      /\ Cardinality(E) \in Nat
  BY <1>1, <1>4, TurnIsARank
<1>9. Turn(k, E) \in 1 .. Cardinality(E) BY <1>1, <1>4, TurnIsARank
<1>10. Cardinality(E) <= Cardinality(C) BY <1>4, <1>8, FS_Subset
<1> HIDE DEF B, C, E, f, spot
<1>11. Cardinality(C) <= Cardinality(B)
  <2>1. f \in Injection(C, B) BY <1>6, <1>7 DEF Injection, IsInjective
  <2> QED BY <2>1, <1>8, FS_Injection
<1>12. Turn(k, E) \in 1 .. Cardinality(B) BY <1>8, <1>9, <1>10, <1>11
<1>13. PICK n \in B : Turn(n, B) = Turn(k, E) BY <1>12, <1>1, <1>4, TurnIsARank
<1>14. n \in DOMAIN on /\ on[n].runs = j BY DEF B, BoxesAt
<1> QED BY <1>3, <1>13, <1>14 DEF Paired, B, E

-----------------------------------------------------------------------------
(* What the boxes say: the run that is heard, or the one that is shown. *)

HearingOK ==
  /\ heard \in 0..Len(runs) /\ running = (heard # 0) /\ loading \in BOOLEAN
  /\ DOMAIN status \subseteq Ids /\ \A id \in DOMAIN status : status[id] \in StageStatuses
  /\ heard # 0 => view = {} /\ Follows(runs[heard], status)

\* What was painted is what the run shown was paired with when it was.
Painting(v) ==
  /\ v.run \in DOMAIN runs
  /\ v.on \in Seq(StageRecords)
  /\ OnceEach(opened.stages) => OnceEach(v.on)
  /\ v.rows \in Seq(StageStatuses) /\ Len(v.rows) <= Len(runs[v.run].stages)
  /\ v.byStage = MatchStageRuns(v.on, runs[v.run].stages, v.rows)
  /\ v.unmatched = Cardinality(DOMAIN v.rows \ Range(v.byStage))
  /\ OnceEach(v.on) =>
       \A n \in DOMAIN v.on :
         status[v.on[n].id] = IF n \in DOMAIN v.byStage THEN v.rows[v.byStage[n]] ELSE "pending"

ViewOK == view = {} \/ \E v : view = {v} /\ Painting(v)

LibraryOK == library \in Catalogues /\ edits \in 0..MaxMoves /\ drawn \in 0..edits

LEMMA PaintingAgain ==
  ASSUME NEW v, Painting(v), SameStages, opened' = opened, status' = status
  PROVE  Painting(v)'
<1>1. v.run \in DOMAIN runs' /\ runs'[v.run].stages = runs[v.run].stages BY DEF Painting, SameStages
<1> QED BY <1>1 DEF Painting

LEMMA ViewAgain ==
  ASSUME ViewOK, SameStages, opened' = opened, status' = status, view' = view
  PROVE  ViewOK'
BY PaintingAgain DEF ViewOK

LEMMA FollowsIsTyped ==
  ASSUME NEW run, RunIs(run), NEW s, Follows(run, s)
  PROVE  DOMAIN s \subseteq Ids /\ \A id \in DOMAIN s : s[id] \in StageStatuses
<1>1. DOMAIN s = IdsOf(run.stages) /\ IdsOf(run.stages) \subseteq Ids
  BY RunFacts, IdsAreTyped DEF Follows
<1>2. \A k \in DOMAIN run.stages : Said(run, k) \in StageStatuses
  BY RunFacts, StatusesAre DEF Said
<1> QED BY <1>1, <1>2 DEF Follows, IdsOf

\* Nobody hears the run that changed, or it was changed without a word on the boxes.
LEMMA HearingAgain ==
  ASSUME RunsOK, HearingOK, ViewOK, RunsOK', SameStages, Len(runs') >= Len(runs), Len(runs') \in Nat,
         opened' = opened, UNCHANGED canvas,
         heard # 0 => Follows(runs'[heard], status)
  PROVE  HearingOK' /\ ViewOK'
<1>1. /\ heard' = heard /\ running' = running /\ status' = status /\ view' = view /\ loading' = loading
  BY DEF canvas
<1>2. heard' \in 0..Len(runs') BY <1>1, RunsAre DEF HearingOK
<1>3. HearingOK' BY <1>1, <1>2 DEF HearingOK, Follows, Said
<1> QED BY <1>1, <1>3, ViewAgain

LEMMA RunnerStepKeeps ==
  ASSUME RunsOK, HearingOK, ViewOK, NEW r \in DOMAIN runs, NEW next, NEW told,
         Advances(runs[r], next, told), runs' = [runs EXCEPT ![r] = next], Tell(r, told)
  PROVE  RunsOK' /\ HearingOK' /\ ViewOK'
<1>1. RunIs(next) /\ next.stages = runs[r].stages BY DEF Advances
<1>2. /\ RunsOK' /\ SameStages /\ DOMAIN runs' = DOMAIN runs /\ Len(runs') = Len(runs)
      /\ runs'[r] = next /\ \A s \in DOMAIN runs : s # r => runs'[s] = runs[s]
  BY <1>1, RunChanges
<1>3. Len(runs) \in Nat /\ DOMAIN runs = 1 .. Len(runs) BY RunsAre
<1>4. opened' = opened /\ UNCHANGED <<heard, running, view, loading>> BY DEF Tell
<1>5. CASE r = heard
  <2>1. heard # 0 /\ heard \in DOMAIN runs BY <1>3, <1>5
  <2>2. status' = [id \in DOMAIN told \cup DOMAIN status |-> IF id \in DOMAIN told THEN told[id] ELSE status[id]]
    BY <1>5 DEF Tell
  <2>3. Follows(runs[r], status) /\ view = {} BY <2>1, <1>5 DEF HearingOK
  <2>4. Follows(next, status') BY <2>2, <2>3, TellFollows
  <2>5. DOMAIN status' \subseteq Ids /\ \A id \in DOMAIN status' : status'[id] \in StageStatuses
    BY <2>4, <1>1, FollowsIsTyped
  <2>6. Follows(runs[heard], status)' BY <2>4, <1>2, <1>4, <1>5 DEF Follows, Said
  <2>7. HearingOK' BY <2>3, <2>5, <2>6, <1>2, <1>4 DEF HearingOK
  <2>8. ViewOK' BY <2>3, <1>4 DEF ViewOK
  <2> QED BY <2>7, <2>8, <1>2
<1>6. CASE r # heard
  <2>1. UNCHANGED canvas BY <1>4, <1>6 DEF Tell, canvas
  <2>2. heard # 0 => heard \in DOMAIN runs BY <1>3 DEF HearingOK
  <2>3. heard # 0 => Follows(runs'[heard], status) BY <2>2, <1>2, <1>6 DEF HearingOK
  <2>4. Len(runs') >= Len(runs) /\ Len(runs') \in Nat BY <1>2, <1>3
  <2> QED BY <2>1, <2>3, <2>4, <1>2, <1>4, HearingAgain
<1> QED BY <1>5, <1>6

\* A schedule, or the editor, sends every stage of the drawing once.
LEMMA SentIs ==
  ASSUME HistoryOK, LibraryOK
  PROVE  /\ OrderStages(drawing, library) \in Seq(StageRecords)
         /\ OnceEach(OrderStages(drawing, library))
         /\ \A plan \in {PlanPipelineRun(drawing, library)} \ {<<>>} :
              plan \in Seq(StageRecords) /\ OnceEach(plan)
<1>1. drawing \in Drawings /\ library \in Catalogues BY HistoryIs DEF LibraryOK
<1>2. Arranged(OrderStages(drawing, library), drawing.stages) BY <1>1, OrderIsArranged
<1>3. ASSUME NEW plan \in {PlanPipelineRun(drawing, library)} \ {<<>>}
      PROVE  Arranged(plan, drawing.stages)
  BY <1>1, <1>3, PlanIsArranged
<1> QED BY <1>2, <1>3 DEF Arranged

LEMMA FireKeeps ==
  ASSUME HistoryOK, LibraryOK, RunsOK, HearingOK, ViewOK, FirePipeline
  PROVE  RunsOK' /\ HearingOK' /\ ViewOK'
<1> DEFINE new == NewRun(OrderStages(drawing, library), "schedule")
<1>1. runs' = Append(runs, new) /\ opened' = opened /\ UNCHANGED canvas /\ heard = 0
  BY DEF FirePipeline, SlotTaken
<1>2. RunIs(new) BY SentIs, NewRunIs
<1> HIDE DEF new
<1>3. RunsOK' /\ SameStages /\ Len(runs') = Len(runs) + 1 BY <1>1, <1>2, RunComes
<1>4. Len(runs') >= Len(runs) /\ Len(runs') \in Nat BY <1>3, RunsAre
<1> QED BY <1>1, <1>3, <1>4, HearingAgain

LEMMA StartedIsTyped ==
  ASSUME NEW plan \in Seq(StageRecords), Started(plan)
  PROVE  /\ view' = {} /\ DOMAIN status' = IdsOf(plan) /\ DOMAIN status' \subseteq Ids
         /\ \A id \in DOMAIN status' : status'[id] = "pending" /\ status'[id] \in StageStatuses
<1>1. status' = [id \in IdsOf(plan) |-> "pending"] /\ view' = {} BY DEF Started
<1>2. IdsOf(plan) \subseteq Ids BY IdsAreTyped
<1> QED BY <1>1, <1>2, StatusesAre

LEMMA ExecuteKeeps ==
  ASSUME HistoryOK, LibraryOK, RunsOK, HearingOK, ViewOK, Execute
  PROVE  RunsOK' /\ HearingOK' /\ ViewOK'
<1>1. PICK plan \in {PlanPipelineRun(drawing, library)} \ {<<>>} :
        runs' = Append(runs, NewRun(plan, "studio")) /\ Started(plan)
  BY DEF Execute
<1>2. heard' = Len(runs') /\ running' = TRUE /\ loading' = FALSE BY DEF Execute
<1> DEFINE new == NewRun(plan, "studio")
<1>3. plan \in Seq(StageRecords) /\ OnceEach(plan) BY SentIs
<1>4. RunIs(new) /\ new.stages = plan /\ \A k : Said(new, k) = "pending" BY <1>3, NewRunIs
<1> HIDE DEF new
<1>5. /\ RunsOK' /\ Len(runs') = Len(runs) + 1 /\ runs'[Len(runs) + 1] = new
  BY <1>1, <1>4, RunComes DEF new
<1>6. Len(runs) \in Nat BY RunsAre
<1>7. /\ view' = {} /\ DOMAIN status' = IdsOf(plan) /\ DOMAIN status' \subseteq Ids
      /\ \A id \in DOMAIN status' : status'[id] = "pending" /\ status'[id] \in StageStatuses
  BY <1>1, <1>3, StartedIsTyped
<1>8. Follows(new, status') BY <1>4, <1>7 DEF Follows, IdsOf
<1>9. heard' = Len(runs) + 1 /\ heard' # 0 /\ heard' \in 0 .. Len(runs') BY <1>2, <1>5, <1>6
<1>10. Follows(runs[heard], status)' BY <1>5, <1>8, <1>9 DEF Follows, Said
<1>11. HearingOK' BY <1>2, <1>7, <1>9, <1>10 DEF HearingOK
<1>12. ViewOK' BY <1>7 DEF ViewOK
<1> QED BY <1>5, <1>11, <1>12

LEMMA StopKeeps ==
  ASSUME RunsOK, HearingOK, ViewOK, StopRun
  PROVE  RunsOK' /\ HearingOK' /\ ViewOK'
<1> DEFINE run == runs[heard]
           next == [run EXCEPT !.cancelled = TRUE]
<1>1. heard # 0 /\ opened' = opened /\ UNCHANGED canvas BY DEF StopRun
<1>2. runs' = [runs EXCEPT ![heard] = next] BY DEF StopRun
<1>3. heard \in DOMAIN runs BY <1>1, RunsAre DEF HearingOK
<1>4. RunIs(run) BY <1>3, RunsAre
<1>5. next = [stages |-> run.stages, rows |-> run.rows, by |-> run.by, cancelled |-> TRUE,
              silent |-> run.silent]
  BY <1>4, RunUpdates
<1> HIDE DEF next, run
<1>6. next.stages = run.stages /\ next.rows = run.rows /\ next.silent = run.silent BY <1>5
<1>7. next \in RunRecords BY <1>4, <1>5, RunFacts DEF RunRecords
<1>8. RunIs(next) BY <1>4, <1>6, <1>7 DEF RunIs, Whole, InFlight
<1>9. /\ RunsOK' /\ SameStages /\ Len(runs') = Len(runs) /\ runs'[heard] = next
  BY <1>2, <1>3, <1>6, <1>8, RunChanges DEF run
<1>10. Follows(run, status) BY <1>1 DEF HearingOK, run
<1>11. Follows(next, status) BY <1>6, <1>10 DEF Follows, Said
<1>12. Len(runs') >= Len(runs) /\ Len(runs') \in Nat BY <1>9, RunsAre
<1> QED BY <1>1, <1>9, <1>11, <1>12, HearingAgain

\* Painted from the history: each box with its execution, the others pending.
LEMMA ShowKeeps ==
  ASSUME HistoryOK, RunsOK, HearingOK, NEW r \in DOMAIN runs, ShowRunView(r),
         UNCHANGED <<opened, runs, heard, running>>, loading' \in BOOLEAN
  PROVE  HearingOK' /\ ViewOK'
<1> DEFINE run == runs[r]
           stages == drawing.stages
           paired == MatchStageRuns(stages, run.stages, run.rows)
           spot(id) == CHOOSE m \in DOMAIN stages : stages[m].id = id
           v == [run |-> r, on |-> stages, rows |-> run.rows, byStage |-> paired,
                 unmatched |-> Cardinality(DOMAIN run.rows \ Range(paired))]
<1>0. PICK w : w = v OBVIOUS
<1>1. /\ ~ running /\ view' = {w}
      /\ status' = [id \in IdsOf(stages) |->
                      IF spot(id) \in DOMAIN paired THEN run.rows[paired[spot(id)]] ELSE "pending"]
  BY <1>0 DEF ShowRunView
<1>2. /\ w.run = r /\ w.on = stages /\ w.rows = run.rows /\ w.byStage = paired
      /\ w.unmatched = Cardinality(DOMAIN run.rows \ Range(paired))
  BY <1>0
<1>3. RunIs(run) BY RunsAre
<1>4. stages \in Seq(StageRecords) /\ IdsOf(stages) \subseteq Ids BY HistoryIs, DrawingIs, IdsAreTyped
<1>5. OnceEach(opened.stages) => OnceEach(stages) BY HistoryIs DEF Descends
<1>6. \A n \in DOMAIN paired : paired[n] \in DOMAIN run.rows
  BY <1>3, <1>4, RunFacts, MatchIs DEF Paired
<1> HIDE DEF run, stages, paired, v
<1>7. \A id \in IdsOf(stages) : spot(id) \in DOMAIN stages /\ stages[spot(id)].id = id
  BY DEF IdsOf
<1> HIDE DEF spot
<1>8. DOMAIN status' \subseteq Ids /\ \A id \in DOMAIN status' : status'[id] \in StageStatuses
  BY <1>1, <1>3, <1>4, <1>6, RunFacts, StatusesAre
<1>9. heard' = 0 /\ running' = (heard' # 0) /\ heard' \in 0 .. Len(runs')
  BY <1>1, RunsAre DEF HearingOK
<1>10. HearingOK' BY <1>8, <1>9 DEF HearingOK
<1>11. ASSUME OnceEach(stages), NEW n \in DOMAIN stages
       PROVE  status'[stages[n].id] = IF n \in DOMAIN paired THEN run.rows[paired[n]] ELSE "pending"
  <2>1. stages[n].id \in IdsOf(stages) BY DEF IdsOf
  <2>2. spot(stages[n].id) = n BY <2>1, <1>7, <1>11 DEF OnceEach
  <2> QED BY <2>1, <2>2, <1>1
<1>12. Painting(w)'
  <2>1. run.rows \in Seq(StageStatuses) /\ Len(run.rows) <= Len(run.stages) BY <1>3, RunFacts
  <2>2. w.run \in DOMAIN runs' /\ runs'[w.run].stages = run.stages BY <1>2 DEF run
  <2>3. w.byStage = MatchStageRuns(w.on, runs'[w.run].stages, w.rows) BY <1>2, <2>2 DEF paired
  <2>4. OnceEach(opened'.stages) => OnceEach(w.on) BY <1>2, <1>5
  <2>5. OnceEach(w.on) =>
         \A n \in DOMAIN w.on :
           status'[w.on[n].id] = IF n \in DOMAIN w.byStage THEN w.rows[w.byStage[n]] ELSE "pending"
    BY <1>2, <1>11
  <2> QED BY <1>2, <1>4, <2>1, <2>2, <2>3, <2>4, <2>5 DEF Painting
<1>13. ViewOK' BY <1>1, <1>12 DEF ViewOK
<1> QED BY <1>10, <1>13

LEMMA EditorRunsKeep ==
  ASSUME HistoryOK, LibraryOK, RunsOK, HearingOK, ViewOK, EditorRuns
  PROVE  RunsOK' /\ HearingOK' /\ ViewOK'
<1>1. runs' = runs => RunsOK' /\ SameStages BY DEF RunsOK, RunIs, SameStages
<1>2. CASE Execute BY <1>2, ExecuteKeeps
<1>3. CASE ExecuteRefused
  <2>1. PICK plan \in {PlanPipelineRun(drawing, library)} \ {<<>>} : Started(plan) BY <1>3 DEF ExecuteRefused
  <2>2. plan \in Seq(StageRecords) BY SentIs
  <2>3. /\ view' = {} /\ DOMAIN status' \subseteq Ids /\ \A id \in DOMAIN status' : status'[id] \in StageStatuses
    BY <2>1, <2>2, StartedIsTyped
  <2>4. runs' = runs /\ heard' = heard /\ running' = running /\ ~ running /\ loading' = TRUE
    BY <1>3 DEF ExecuteRefused
  <2>5. HearingOK' BY <2>3, <2>4 DEF HearingOK
  <2> QED BY <2>3, <2>4, <2>5, <1>1 DEF ViewOK
<1>4. CASE StopRun BY <1>4, StopKeeps
<1>5. ASSUME FinishRun PROVE RunsOK' /\ HearingOK' /\ ViewOK'
  <2>1. /\ heard' = 0 /\ running' = FALSE /\ loading' = TRUE /\ runs' = runs /\ opened' = opened
        /\ status' = status /\ view' = view
    BY <1>5 DEF FinishRun
  <2>2. heard' \in 0 .. Len(runs') BY <2>1, RunsAre
  <2>3. heard' = 0 /\ running' = (heard' # 0) /\ loading' \in BOOLEAN BY <2>1, Zenon
  <2>4. DOMAIN status' \subseteq Ids /\ \A id \in DOMAIN status' : status'[id] \in StageStatuses
    BY <2>1 DEF HearingOK
  <2>5. HearingOK' BY <2>2, <2>3, <2>4 DEF HearingOK
  <2> QED BY <2>1, <2>5, <1>1, ViewAgain
<1>6. CASE LoaderAnswers
  <2>1. /\ ShowRunView(Len(runs)) /\ runs # <<>> /\ runs' = runs /\ loading' = FALSE
        /\ UNCHANGED <<opened, runs, heard, running>>
    BY <1>6 DEF LoaderAnswers
  <2>2. Len(runs) \in DOMAIN runs BY <2>1, RunsAre
  <2> QED BY <2>1, <2>2, <1>1, ShowKeeps
<1>7. CASE LoaderFails
  <2>1. /\ loading' = FALSE /\ UNCHANGED <<opened, runs, heard, running, status, view>>
    BY <1>7 DEF LoaderFails
  <2>2. HearingOK' BY <2>1 DEF HearingOK, Follows, Said
  <2> QED BY <2>1, <2>2, <1>1, ViewAgain
<1>8. ASSUME NEW r \in DOMAIN runs, ShowPipelineRun(r) PROVE RunsOK' /\ HearingOK' /\ ViewOK'
  <2>1. /\ ShowRunView(r) /\ loading' = loading /\ runs' = runs
        /\ UNCHANGED <<opened, runs, heard, running>>
    BY <1>8 DEF ShowPipelineRun
  <2>2. loading' \in BOOLEAN BY <2>1 DEF HearingOK
  <2> QED BY <2>1, <2>2, <1>1, ShowKeeps
<1>9. CASE ClearRunView
  <2>1. /\ view # {} /\ view' = {} /\ status' = <<>> /\ UNCHANGED <<opened, runs, heard, running, loading>>
    BY <1>9 DEF ClearRunView, NoStatus
  <2>2. DOMAIN status' = {} /\ heard' = 0 BY <2>1 DEF HearingOK
  <2>3. HearingOK' BY <2>1, <2>2 DEF HearingOK
  <2> QED BY <2>1, <2>3, <1>1 DEF ViewOK
<1> QED BY <1>2, <1>3, <1>4, <1>5, <1>6, <1>7, <1>8, <1>9 DEF EditorRuns, HearResult, StreamBreaks

LEMMA RunnerStepsKeep ==
  ASSUME HistoryOK, LibraryOK, RunsOK, HearingOK, ViewOK, RunnerSteps
  PROVE  RunsOK' /\ HearingOK' /\ ViewOK'
<1>1. CASE FirePipeline BY <1>1, FireKeeps
<1>2. ASSUME NEW r \in DOMAIN runs,
             \/ StageStarts(r) \/ StageRefused(r) \/ CancelledBetween(r)
             \/ \E verdict \in {"success", "error"} : StageEnds(r, verdict)
      PROVE  RunsOK' /\ HearingOK' /\ ViewOK'
  <2>1. PICK next, told : Advances(runs[r], next, told) /\ runs' = [runs EXCEPT ![r] = next] /\ Tell(r, told)
    BY <1>2, RunnerAdvances
  <2> QED BY <2>1, RunnerStepKeeps
<1> QED BY <1>1, <1>2 DEF RunnerSteps

\* A gesture, or an edit of the library, changes no run and no box's colour.
LEMMA QuietKeeps ==
  ASSUME RunsOK, HearingOK, ViewOK, opened' = opened, runs' = runs, UNCHANGED canvas
  PROVE  RunsOK' /\ HearingOK' /\ ViewOK'
<1>1. RunsOK' /\ SameStages BY DEF RunsOK, RunIs, SameStages
<1>2. Len(runs') >= Len(runs) /\ Len(runs') \in Nat BY RunsAre
<1>3. heard # 0 => Follows(runs'[heard], status) BY DEF HearingOK
<1> QED BY <1>1, <1>2, <1>3, HearingAgain

LEMMA EditsAreCounted ==
  ASSUME RunsOK, LibraryOK, Edit
  PROVE  edits' \in 0 .. MaxMoves /\ edits' = edits + 1
<1>1. Len(runs) \in Nat BY RunsAre
<1> QED BY <1>1, BoundsAreNatural DEF LibraryOK, Edit, MayMove

LEMMA LibraryChangesKeep ==
  ASSUME RunsOK, LibraryOK, LibraryChanges
  PROVE  LibraryOK' /\ UNCHANGED <<opened, runs, canvas>>
<1>2. ASSUME NEW next \in Catalogues, LibraryEdit(next)
      PROVE  LibraryOK' /\ UNCHANGED <<opened, runs, canvas>>
  <2>1. edits' \in 0 .. MaxMoves /\ edits' = edits + 1 BY <1>2, EditsAreCounted DEF LibraryEdit
  <2>2. drawn' = drawn /\ library' = next BY <1>2 DEF LibraryEdit, graph
  <2>3. LibraryOK' BY <2>1, <2>2, BoundsAreNatural DEF LibraryOK
  <2> QED BY <2>3, <1>2 DEF LibraryEdit, Edit
<1>3. library \in Catalogues BY DEF LibraryOK
<1>4. /\ \A j : [library EXCEPT !.keeps = @ \ {j}] \in Catalogues
      /\ \A j : [library EXCEPT !.good = @ \ {j}] \in Catalogues
      /\ \A j : \A t \in Targets : [library EXCEPT !.name[j] = library.name[t]] \in Catalogues
  BY <1>3 DEF Catalogues
<1>5. \E next \in Catalogues : LibraryEdit(next)
  BY <1>4 DEF LibraryChanges, DeleteJob, SpoilJob, RenameJob
<1> QED BY <1>2, <1>5

-----------------------------------------------------------------------------
(* The invariant. *)

PipelineInv == HistoryOK /\ LibraryOK /\ RunsOK /\ HearingOK /\ ViewOK

LEMMA CanvasStarts == CanvasInit => PipelineInv
<1> SUFFICES ASSUME CanvasInit PROVE PipelineInv OBVIOUS
<1>1. HistoryOK BY HistoryStarts
<1>2. /\ library \in Libraries /\ edits = 0 /\ drawn = 0 /\ runs = <<>> /\ heard = 0 /\ running = FALSE
      /\ status = <<>> /\ view = {} /\ loading = FALSE
  BY DEF CanvasInit, NoStatus
<1>3. LibraryOK BY <1>2, LibrariesAreNamed, BoundsAreNatural DEF LibraryOK, Catalogues
<1>4. RunsOK BY <1>2 DEF RunsOK
<1>5. DOMAIN status = {} /\ heard \in 0 .. Len(runs) /\ loading \in BOOLEAN
  <2>1. DOMAIN <<>> = {} /\ 0 \in 0 .. Len(<<>>) OBVIOUS
  <2> QED BY <1>2, <2>1, Zenon
<1>8. running = (heard # 0) BY <1>2, Zenon
<1>6. HearingOK BY <1>2, <1>5, <1>8 DEF HearingOK
<1>7. ViewOK BY <1>2 DEF ViewOK
<1> QED BY <1>1, <1>3, <1>4, <1>6, <1>7 DEF PipelineInv

LEMMA RunsLeaveTheLibrary ==
  ASSUME LibraryOK, RunnerSteps \/ EditorRuns
  PROVE  LibraryOK'
<1>1. RunnerSteps => UNCHANGED <<library, edits, drawn>>
  BY DEF RunnerSteps, FirePipeline, StageStarts, StageRefused, StageEnds, CancelledBetween, Tell, graph
<1>2. EditorRuns => UNCHANGED <<library, edits, drawn>>
  BY DEF graph, EditorRuns, Execute, ExecuteRefused, StopRun, HearResult, StreamBreaks, FinishRun,
         LoaderAnswers, LoaderFails, ShowPipelineRun, ClearRunView
<1> QED BY <1>1, <1>2 DEF LibraryOK

LEMMA CanvasStep == PipelineInv /\ [CanvasNext]_canvasVars => PipelineInv'
<1> SUFFICES ASSUME PipelineInv, [CanvasNext]_canvasVars PROVE PipelineInv' OBVIOUS
<1>0. HistoryOK /\ LibraryOK /\ RunsOK /\ HearingOK /\ ViewOK BY DEF PipelineInv
<1>1. HistoryOK' BY <1>0, HistoryStep
<1>2. CASE Draws
  <2>1. /\ UNCHANGED <<opened, library, runs, canvas>>
        /\ UNCHANGED <<edits, drawn>> \/ (Edit /\ drawn' = drawn + 1)
    BY <1>0, <1>2, DrawsKeep
  <2>2. Edit => edits' \in 0 .. MaxMoves /\ edits' = edits + 1 BY <1>0, EditsAreCounted
  <2>3. LibraryOK' BY <1>0, <2>1, <2>2, BoundsAreNatural DEF LibraryOK
  <2> QED BY <1>0, <1>1, <2>1, <2>3, QuietKeeps DEF PipelineInv
<1>3. CASE LibraryChanges
  <2>1. LibraryOK' /\ UNCHANGED <<opened, runs, canvas>> BY <1>0, <1>3, LibraryChangesKeep
  <2> QED BY <1>0, <1>1, <2>1, QuietKeeps DEF PipelineInv
<1>4. CASE RunnerSteps BY <1>0, <1>1, <1>4, RunnerStepsKeep, RunsLeaveTheLibrary DEF PipelineInv
<1>5. CASE EditorRuns BY <1>0, <1>1, <1>5, EditorRunsKeep, RunsLeaveTheLibrary DEF PipelineInv
<1>6. CASE UNCHANGED canvasVars
  <2>1. UNCHANGED <<opened, library, runs, canvas, edits, drawn>> BY <1>6 DEF canvasVars, graph
  <2>2. LibraryOK' BY <1>0, <2>1 DEF LibraryOK
  <2> QED BY <1>0, <1>1, <2>1, <2>2, QuietKeeps DEF PipelineInv
<1> QED BY <1>2, <1>3, <1>4, <1>5, <1>6 DEF CanvasNext

LEMMA CanvasInvariant == CanvasSpec => []PipelineInv
<1> QED BY CanvasStarts, CanvasStep, PTL DEF CanvasSpec

LEMMA SeqOfMore ==
  ASSUME NEW S, NEW T, S \subseteq T, NEW s \in Seq(S)
  PROVE  s \in Seq(T)
OBVIOUS

LEMMA TypesFollow ==
  ASSUME PipelineInv
  PROVE  CanvasTypeOK
<1>0. HistoryOK /\ LibraryOK /\ RunsOK /\ HearingOK /\ ViewOK BY DEF PipelineInv
<1>1. {opened, drawing} \subseteq Drawings BY <1>0, HistoryIs
<1>2. past \in Seq(Drawings) /\ Len(past) <= HistoryLimit /\ future \in Seq(Drawings) /\ Len(future) <= HistoryLimit
  <2>1. Heirs \subseteq Drawings BY DEF Heirs
  <2>2. past \in Seq(Heirs) /\ future \in Seq(Heirs) /\ Len(past) \in Nat /\ Len(future) \in Nat
        /\ HistoryLimit \in Nat /\ Len(past) + Len(future) <= HistoryLimit
    BY <1>0, HistoryIs
  <2>3. past \in Seq(Drawings) /\ future \in Seq(Drawings) BY <2>1, <2>2, SeqOfMore
  <2>4. Len(past) <= HistoryLimit /\ Len(future) <= HistoryLimit BY <2>2
  <2> QED BY <2>3, <2>4
<1>3. library \in [keeps : SUBSET Jobs, good : SUBSET Jobs, name : [Targets -> Nat]]
      /\ edits \in 0..MaxMoves /\ drawn \in 0..edits
  BY <1>0 DEF LibraryOK, Catalogues
<1>4. \A r \in DOMAIN runs :
        /\ runs[r].stages \in Seq([id : Ids, runs : Targets])
        /\ runs[r].rows \in Seq(StageStatuses) /\ Len(runs[r].rows) <= Len(runs[r].stages)
        /\ runs[r].by \in {"studio", "schedule"}
        /\ runs[r].cancelled \in BOOLEAN
  <2> TAKE r \in DOMAIN runs
  <2>1. RunIs(runs[r]) BY <1>0, RunsAre
  <2> DEFINE run == runs[r]
  <2> HIDE DEF run
  <2>2. RunIs(run) BY <2>1 DEF run
  <2>3. run.stages \in Seq(StageRecords) /\ run.rows \in Seq(StageStatuses)
        /\ Len(run.rows) <= Len(run.stages) /\ run.by \in {"studio", "schedule"} /\ run.cancelled \in BOOLEAN
    BY <2>2, RunFacts
  <2> QED BY <2>3 DEF run, StageRecords
<1>5. heard \in 0..Len(runs) /\ running = (heard # 0) /\ loading \in BOOLEAN /\ DOMAIN status \subseteq Ids
  BY <1>0 DEF HearingOK
<1>6. Range(status) \subseteq StageStatuses BY <1>0 DEF HearingOK, Range
<1>7. Cardinality(view) <= 1
  <2>1. view = {} => Cardinality(view) = 0 BY FS_EmptySet
  <2>2. ASSUME NEW v, view = {v} PROVE Cardinality(view) = 1 BY <2>2, FS_Singleton
  <2>3. Cardinality(view) = 0 \/ Cardinality(view) = 1 BY <2>1, <2>2, <1>0 DEF ViewOK
  <2> QED BY <2>3
<1> QED BY <1>1, <1>2, <1>3, <1>4, <1>5, <1>6, <1>7 DEF CanvasTypeOK

(* On a drawing of any size, with a history of any length: whatever was     *)
(* dropped, connected, deleted, undone and redone, the Pipeline on screen   *)
(* has no loop, no link to a box that is gone and no box twice, unless the  *)
(* record was opened with it (onConnect's guard, removeStages, undo, redo). *)
THEOREM PipelineDrawingsStaySound == CanvasSpec => []DrawingsStaySound
<1>1. ASSUME PipelineInv PROVE DrawingsStaySound
  <2>1. CanvasTypeOK BY <1>1, TypesFollow
  <2>2. HistoryOK BY <1>1 DEF PipelineInv
  <2>3. Descends(drawing) /\ opened \in Drawings /\ drawing \in Drawings BY <2>2, HistoryIs
  <2>4. Loops(drawing) \subseteq Loops(opened) BY <2>3 DEF Descends
  <2>5. Dangling(drawing) \subseteq Dangling(opened)
    <3> SUFFICES ASSUME NEW l \in Dangling(drawing) PROVE l \in Dangling(opened) OBVIOUS
    <3>1. PICK id \in {l[1], l[2]} : id \notin IdsOf(drawing.stages) /\ l \in drawing.links BY DEF Dangling
    <3>2. l \in opened.links /\ id \notin IdsOf(opened.stages) BY <2>3, <3>1 DEF Descends
    <3> QED BY <3>1, <3>2 DEF Dangling
  <2>6. ASSUME Distinct(opened) PROVE Distinct(drawing)
    <3>1. opened.stages \in Seq(StageRecords) /\ drawing.stages \in Seq(StageRecords) BY <2>3, DrawingIs
    <3>2. OnceEach(opened.stages) BY <2>6, <3>1, DistinctIsOnceEach DEF Distinct
    <3>3. OnceEach(drawing.stages) BY <2>3, <3>2 DEF Descends
    <3> QED BY <3>1, <3>3, DistinctIsOnceEach DEF Distinct
  <2> QED BY <2>1, <2>4, <2>5, <2>6 DEF DrawingsStaySound
<1> QED BY <1>1, CanvasInvariant, PTL

LEMMA PaintedIsOwn ==
  ASSUME RunsOK, NEW v, Painting(v), OnceEach(v.on)
  PROVE  /\ \A n \in DOMAIN v.on : PaintedWithItsOwn(v, n)
         /\ v.unmatched = 0 \/ LeftOut(v)
<1> DEFINE run == runs[v.run]
           match == v.byStage
<1>1. RunIs(run) BY RunsAre DEF Painting
<1>2. /\ v.on \in Seq(StageRecords) /\ run.stages \in Seq(StageRecords) /\ OnceEach(run.stages)
      /\ v.rows \in Seq(StageStatuses) /\ Len(v.rows) <= Len(run.stages)
      /\ match = MatchStageRuns(v.on, run.stages, v.rows)
      /\ v.unmatched = Cardinality(DOMAIN v.rows \ Range(match))
  BY <1>1, RunFacts DEF Painting, RunIs
<1>3. \A n \in DOMAIN v.on :
        status[v.on[n].id] = IF n \in DOMAIN match THEN v.rows[match[n]] ELSE "pending"
  BY DEF Painting
<1> HIDE DEF match, run
<1>4. /\ \A n \in DOMAIN match : Paired(v.on, run.stages, v.rows, n, match[n])
      /\ \A n, k : Paired(v.on, run.stages, v.rows, n, k) => n \in DOMAIN match /\ match[n] = k
  BY <1>2, MatchIs
<1>5. ASSUME NEW n \in DOMAIN v.on PROVE PaintedWithItsOwn(v, n)
  <2> DEFINE box == v.on[n]
  <2>1. ASSUME n \in DOMAIN match
        PROVE  run.stages[match[n]].runs = box.runs /\ status[box.id] = v.rows[match[n]]
    BY <2>1, <1>3, <1>4 DEF Paired
  <2>2. n \notin DOMAIN match => status[box.id] = "pending" BY <1>3
  <2>3. ASSUME box.runs \in Jobs, BoxesOf(v.on, box.runs) = BoxesOf(run.stages, box.runs),
               NEW k \in DOMAIN run.stages, run.stages[k].id = box.id, k \in DOMAIN v.rows
        PROVE  status[box.id] = v.rows[k]
    <3>1. Paired(v.on, run.stages, v.rows, n, k) BY <1>2, <2>3, OwnIsPaired
    <3>2. n \in DOMAIN match /\ match[n] = k BY <3>1, <1>4
    <3> QED BY <3>2, <1>3
  <2>4. (box.runs \in Jobs /\ BoxesOf(v.on, box.runs) = BoxesOf(run.stages, box.runs)) =>
          \A k \in {i \in DOMAIN run.stages : run.stages[i].id = box.id} \cap DOMAIN v.rows :
            status[box.id] = v.rows[k]
    BY <2>3
  <2> HIDE DEF box
  <2> QED BY <2>1, <2>2, <2>4 DEF PaintedWithItsOwn, run, match, box
<1>6. ASSUME ~ LeftOut(v) PROVE v.unmatched = 0
  <2>1. \A s \in Range(run.stages) : s \in Range(v.on) /\ s.runs \in Jobs
    <3> TAKE s \in Range(run.stages)
    <3>1. s \in Range(v.on) /\ s.runs \notin Files BY <1>6 DEF LeftOut, run
    <3>2. s \in StageRecords BY <1>2 DEF Range
    <3> QED BY <3>1, <3>2 DEF StageRecords, Targets
  <2>2. ASSUME NEW k \in DOMAIN v.rows PROVE k \in Range(match)
    <3>1. PICK n : Paired(v.on, run.stages, v.rows, n, k) BY <1>2, <2>1, AllArePaired
    <3>2. n \in DOMAIN match /\ match[n] = k BY <3>1, <1>4
    <3> QED BY <3>2 DEF Range
  <2>3. DOMAIN v.rows \ Range(match) = {} BY <2>2
  <2> QED BY <2>3, <1>2, FS_EmptySet
<1> QED BY <1>5, <1>6

(* For any drawing, whatever is edited while a run goes and after it: the   *)
(* boxes say what the rows of the run on screen say, each one its own when  *)
(* the boxes of its Job stand as they ran, and an execution without a box   *)
(* means that a stage was dropped, or runs a file (matchStageRuns,          *)
(* showRunView).  The record it was opened with has no box twice.           *)
THEOREM PipelineBoxesTellTheRun ==
  ASSUME \A d \in Opened : Distinct(d)
  PROVE  CanvasSpec => []BoxesTellTheRun
<1>1. ASSUME PipelineInv PROVE BoxesTellTheRun
  <2>1. HistoryOK /\ RunsOK /\ HearingOK /\ ViewOK BY <1>1 DEF PipelineInv
  <2>2. OnceEach(opened.stages)
    <3>1. opened \in Opened /\ opened.stages \in Seq(StageRecords) BY <2>1, HistoryIs, DrawingIs
    <3> QED BY <3>1, DistinctIsOnceEach DEF Distinct
  <2>3. BoxesFollowTheStream
    <3>1. heard # 0 => Follows(runs[heard], status) BY <2>1 DEF HearingOK
    <3> QED BY <3>1 DEF BoxesFollowTheStream, Follows, Said
  <2>4. ASSUME NEW v \in view
        PROVE  /\ ~ running
               /\ \A n \in DOMAIN v.on : PaintedWithItsOwn(v, n)
               /\ v.unmatched = 0 \/ LeftOut(v)
    <3>1. Painting(v) BY <2>1, <2>4 DEF ViewOK
    <3>2. OnceEach(v.on) BY <3>1, <2>2 DEF Painting
    <3>3. ~ running BY <2>1, <2>4 DEF HearingOK
    <3> QED BY <3>1, <3>2, <3>3, <2>1, PaintedIsOwn
  <2> QED BY <2>3, <2>4 DEF BoxesTellTheRun
<1> QED BY <1>1, CanvasInvariant, PTL

-----------------------------------------------------------------------------
(* What a run is of. *)

\* A stage goes after those it is linked from.
LEMMA InTurnRespects ==
  ASSUME NEW S, NEW links, NEW names, NEW q, InTurn(S, links, names, q),
         NEW i \in DOMAIN q, NEW j \in DOMAIN q, <<q[i], q[j]>> \in links, q[i] # q[j]
  PROVE  i < j
<1>1. q \in Seq(S) /\ Len(q) \in Nat /\ DOMAIN q = 1 .. Len(q) BY DEF InTurn
<1>2. q[j] \in Ready(S, links, Ahead(q, j)) BY DEF InTurn, IsFirst
<1>3. <<q[i], q[j]>>[1] = q[i] /\ <<q[i], q[j]>>[2] = q[j] OBVIOUS
<1>4. q[i] \in Ahead(q, j) BY <1>2, <1>3 DEF Ready
<1>5. PICK k \in 1 .. j - 1 : q[k] = q[i] BY <1>4 DEF Ahead
<1>6. k \in DOMAIN q /\ k < j BY <1>1, <1>5
<1>7. k = i BY <1>5, <1>6, InTurnIsOnce
<1> QED BY <1>6, <1>7

\* The next stage is linked from this one, or comes after it by name.
LEMMA InTurnNext ==
  ASSUME NEW S, NEW links, \A l \in links : l = <<l[1], l[2]>>, NEW names, NEW q, InTurn(S, links, names, q),
         NEW n \in DOMAIN q, n + 1 \in DOMAIN q
  PROVE  <<q[n], q[n + 1]>> \in links \/ Precedes(names, q[n], q[n + 1])
<1>1. q \in Seq(S) /\ Len(q) \in Nat /\ DOMAIN q = 1 .. Len(q) /\ n \in Nat BY DEF InTurn
<1>2. IsFirst(q[n], Ready(S, links, Ahead(q, n)), names) /\ q[n + 1] \in Ready(S, links, Ahead(q, n + 1))
  BY DEF InTurn, IsFirst
<1>3. q[n + 1] # q[n] BY <1>1, InTurnIsOnce
<1>4. CASE q[n + 1] \in Ready(S, links, Ahead(q, n))
  BY <1>2, <1>3, <1>4 DEF IsFirst
<1>5. CASE q[n + 1] \notin Ready(S, links, Ahead(q, n))
  <2>1. \A x \in Ahead(q, n + 1) : x \in Ahead(q, n) \/ x = q[n]
    <3> DEFINE before == 1 .. n - 1
               upto   == 1 .. (n + 1) - 1
    <3>1. \A k \in upto : k \in before \/ k = n BY <1>1
    <3>2. Ahead(q, n) = {q[k] : k \in before} /\ Ahead(q, n + 1) = {q[k] : k \in upto} BY DEF Ahead
    <3> HIDE DEF before, upto
    <3> QED BY <3>1, <3>2
  <2>2. Ahead(q, n) \subseteq Ahead(q, n + 1)
    <3> DEFINE before == 1 .. n - 1
               upto   == 1 .. (n + 1) - 1
    <3>1. \A k \in before : k \in upto BY <1>1
    <3>2. Ahead(q, n) = {q[k] : k \in before} /\ Ahead(q, n + 1) = {q[k] : k \in upto} BY DEF Ahead
    <3> HIDE DEF before, upto
    <3> QED BY <3>1, <3>2
  <2>3. PICK l \in links : l[2] = q[n + 1] /\ l[1] # q[n + 1] /\ l[1] \notin Ahead(q, n)
    BY <1>2, <1>5, <2>2 DEF Ready
  <2>4. l[1] \in Ahead(q, n + 1) BY <1>2, <2>3 DEF Ready
  <2>5. l[1] = q[n] BY <2>1, <2>3, <2>4
  <2> QED BY <2>3, <2>5
<1> QED BY <1>4, <1>5

\* The order is the links' and the names', and nothing else's.
LEMMA KahnIsOne ==
  ASSUME NEW S, NEW links, NEW names, NEW others, Ranked(S, names), \A a \in S : others[a] = names[a]
  PROVE  Kahn(S, links, names) = Kahn(S, links, others)
<1>1. Ranked(S, others) BY DEF Ranked
<1>2. /\ InTurn(S, links, names, Kahn(S, links, names)) /\ Ready(S, links, Range(Kahn(S, links, names))) = {}
      /\ InTurn(S, links, others, Kahn(S, links, others)) /\ Ready(S, links, Range(Kahn(S, links, others))) = {}
  BY <1>1, KahnIsInTurn
<1> QED BY <1>2, InTurnIsOne

LEMMA TopologicalOrderIsOne ==
  ASSUME NEW S, NEW links, NEW names, NEW others, Ranked(S, names), \A a \in S : others[a] = names[a]
  PROVE  TopologicalOrder(S, links, names) = TopologicalOrder(S, links, others)
<1> DEFINE rest == S \ Range(Kahn(S, links, names))
<1>1. Kahn(S, links, names) = Kahn(S, links, others) BY KahnIsOne
<1>2. rest \in SUBSET S OBVIOUS
<1>3. Kahn(rest, {}, names) = Kahn(rest, {}, others)
  <2> HIDE DEF rest
  <2>1. Ranked(rest, names) /\ \A a \in rest : others[a] = names[a] BY <1>2, RankedSubset
  <2> QED BY <2>1, KahnIsOne
<1> QED BY <1>1, <1>3 DEF TopologicalOrder, ByNameThenId

\* What is sent is every stage, the linked ones in the order of their links, then the others.
LEMMA PlanIsWholeAndInOrder ==
  ASSUME HistoryOK, LibraryOK, OnceEach(drawing.stages), PlanPipelineRun(drawing, library) # <<>>
  PROVE  WholeAndInOrder(PlanPipelineRun(drawing, library))
<1> DEFINE sent    == PlanPipelineRun(drawing, library)
           stages  == drawing.stages
           links   == LinksShown(drawing)
           linked  == Ends(links)
           names   == StudioNames(stages, library)
           topo    == TopologicalOrder(linked, links, names)
           orphans == ByNameThenId(IdsOf(stages) \ linked, names)
           order   == Resolve(drawing, library).order
           q       == Kahn(linked, links, names)
<1>1. drawing \in Drawings /\ library \in Catalogues /\ stages \in Seq(StageRecords)
  BY HistoryIs, DrawingIs DEF LibraryOK
<1>2. /\ Arranged(sent, stages) /\ ~ Blocked(drawing, library, Resolve(drawing, library))
      /\ Len(sent) = Len(order) /\ DOMAIN sent = DOMAIN order
      /\ \A n \in DOMAIN order : sent[n].id = order[n]
  BY <1>1, PlanIsArranged
<1>3. /\ Resolve(drawing, library) = [order |-> topo.ordered \o orphans, cyclic |-> topo.cyclic]
      /\ Ranked(linked, names) /\ Ranked(IdsOf(stages) \ linked, names)
      /\ Permutes(topo.ordered, linked) /\ Permutes(orphans, IdsOf(stages) \ linked)
      /\ Permutes(order, IdsOf(stages))
  BY <1>1, ResolveIsWhole
<1>4. linked \subseteq IdsOf(stages) BY <1>1, ShownLinksAre
<1>5. \A l \in links : l = <<l[1], l[2]>> /\ l[1] \in linked /\ l[2] \in linked
  <2>1. \A l \in links : l \in Ids \X Ids BY <1>1, DrawingIs DEF LinksShown
  <2> QED BY <2>1 DEF Ends
<1>6. IsFiniteSet(IdsOf(stages)) BY <1>1, IdsAreTyped
<1> HIDE DEF sent, stages, links, linked, names, topo, orphans, order
<1>7. topo.cyclic = {} BY <1>2, <1>3 DEF Blocked
<1>8. /\ topo.ordered = q /\ InTurn(linked, links, names, q)
      /\ InTurn(IdsOf(stages) \ linked, {}, names, orphans)
  <2>1. topo.ordered = q BY <1>3, <1>7, TopologicalOrderIsWhole DEF topo
  <2>2. InTurn(linked, links, names, q) BY <1>3, KahnIsInTurn
  <2>3. InTurn(IdsOf(stages) \ linked, {}, names, orphans)
    <3> DEFINE free == IdsOf(stages) \ linked
    <3>1. orphans = ByNameThenId(free, names) /\ Ranked(free, names) BY <1>3 DEF orphans
    <3> HIDE DEF free
    <3>2. InTurn(free, {}, names, orphans) BY <3>1, SortIsWhole
    <3> QED BY <3>2 DEF free
  <2> QED BY <2>1, <2>2, <2>3
<1> HIDE DEF q
<1>9. order = q \o orphans BY <1>3, <1>8 DEF order
<1>10. /\ q \in Seq(linked) /\ Len(q) \in Nat /\ DOMAIN q = 1 .. Len(q)
       /\ orphans \in Seq(IdsOf(stages) \ linked) /\ Len(orphans) \in Nat /\ DOMAIN orphans = 1 .. Len(orphans)
       /\ \A a \in linked : \E i \in 1 .. Len(q) : q[i] = a
       /\ \A i \in 1 .. Len(q) : q[i] \in linked
       /\ \A i \in 1 .. Len(orphans) : orphans[i] \notin linked
  <2>1. q \in Seq(linked) /\ orphans \in Seq(IdsOf(stages) \ linked) BY <1>3, <1>8 DEF Permutes
  <2>2. \A a \in linked : \E i \in DOMAIN q : q[i] = a BY <1>3, <1>8 DEF Permutes
  <2> QED BY <2>1, <2>2
<1>11. /\ Len(order) = Len(q) + Len(orphans) /\ DOMAIN order = 1 .. Len(q) + Len(orphans)
       /\ \A i \in 1 .. Len(q) + Len(orphans) :
            order[i] = IF i <= Len(q) THEN q[i] ELSE orphans[i - Len(q)]
  <2>1. q \in Seq(IdsOf(stages)) /\ orphans \in Seq(IdsOf(stages)) BY <1>4, <1>10
  <2> QED BY <2>1, <1>9, <1>10, ConcatProperties
<1>12. Len(sent) = Len(stages)
  <2>1. Len(order) = Cardinality(IdsOf(stages)) BY <1>3, <1>6, PermutesMeans
  <2>2. Cardinality(IdsOf(stages)) = Len(stages) BY <1>1, DistinctIsOnceEach DEF stages
  <2> QED BY <1>2, <2>1, <2>2
<1>13. Range(sent) = Range(stages)
  <2>1. sent \in Seq(Range(stages)) /\ IdsOf(sent) = IdsOf(stages) BY <1>2 DEF Arranged
  <2>2. Range(sent) \subseteq Range(stages) BY <2>1 DEF Range
  <2>3. ASSUME NEW s \in Range(stages) PROVE s \in Range(sent)
    <3>1. PICK m \in DOMAIN stages : stages[m] = s BY DEF Range
    <3>2. s.id \in IdsOf(sent) BY <2>1, <3>1 DEF IdsOf
    <3>3. PICK n \in DOMAIN sent : sent[n].id = s.id BY <3>2 DEF IdsOf
    <3>4. sent[n] \in Range(sent) BY DEF Range
    <3>5. PICK k \in DOMAIN stages : stages[k] = sent[n] BY <2>2, <3>4 DEF Range
    <3>6. k = m BY <3>1, <3>3, <3>5 DEF OnceEach, stages
    <3> QED BY <3>1, <3>4, <3>5, <3>6
  <2> QED BY <2>2, <2>3
<1>14. ASSUME NEW s \in Range(sent) PROVE s.runs \in Files \cup (library.keeps \cap library.good)
  <2>1. s \in Range(stages) BY <1>13
  <2>2. s.runs \notin Jobs \ (library.keeps \cap library.good) BY <2>1, <1>2 DEF Blocked, stages
  <2>3. s \in StageRecords BY <2>1, <1>1 DEF Range
  <2> QED BY <2>2, <2>3 DEF StageRecords, Targets
<1>15. ASSUME NEW l \in links, l[1] # l[2]
       PROVE  PlaceOf(sent, l[1]) < PlaceOf(sent, l[2])
  <2>1. PICK i \in 1 .. Len(q) : q[i] = l[1] BY <1>5, <1>10
  <2>2. PICK j \in 1 .. Len(q) : q[j] = l[2] BY <1>5, <1>10
  <2>3. i < j
    <3>1. <<q[i], q[j]>> \in links BY <2>1, <2>2, <1>5, <1>15
    <3>2. q[i] # q[j] /\ i \in DOMAIN q /\ j \in DOMAIN q BY <2>1, <2>2, <1>10, <1>15
    <3>3. InTurn(linked, links, names, q) BY <1>8
    <3> QED BY <3>1, <3>2, <3>3, InTurnRespects
  <2>4. ASSUME NEW k \in 1 .. Len(q) PROVE PlaceOf(sent, q[k]) = k
    <3>0. k \in DOMAIN order /\ order[k] = q[k] BY <1>10, <1>11
    <3>1. k \in DOMAIN sent /\ sent[k].id = q[k] BY <1>2, <3>0
    <3>2. PlaceOf(sent, q[k]) \in DOMAIN sent /\ sent[PlaceOf(sent, q[k])].id = q[k] BY <3>1 DEF PlaceOf
    <3>3. OnceEach(sent) BY <1>2 DEF Arranged
    <3> QED BY <3>1, <3>2, <3>3 DEF OnceEach
  <2>5. PlaceOf(sent, q[i]) = i /\ PlaceOf(sent, q[j]) = j BY <2>4
  <2> QED BY <2>1, <2>2, <2>3, <2>5
<1>16. ASSUME NEW n \in 1 .. Len(sent) - 1
       PROVE  /\ sent[n + 1].id \in linked => sent[n].id \in linked
              /\ \/ sent[n].id \in linked /\ sent[n + 1].id \notin linked
                 \/ <<sent[n].id, sent[n + 1].id>> \in links
                 \/ Precedes(names, sent[n].id, sent[n + 1].id)
  <2>0. /\ Len(sent) = Len(q) + Len(orphans) /\ n \in Nat
        /\ n \in 1 .. Len(q) + Len(orphans) /\ n + 1 \in 1 .. Len(q) + Len(orphans)
    BY <1>2, <1>10, <1>11
  <2>1. sent[n].id = order[n] /\ sent[n + 1].id = order[n + 1] BY <2>0, <1>2, <1>11
  <2>2. CASE n + 1 <= Len(q)
    <3>1. n \in DOMAIN q /\ n + 1 \in DOMAIN q /\ n <= Len(q) BY <2>0, <2>2, <1>10
    <3>2. order[n] = q[n] /\ order[n + 1] = q[n + 1] BY <2>0, <2>2, <3>1, <1>11
    <3>3. <<q[n], q[n + 1]>> \in links \/ Precedes(names, q[n], q[n + 1])
      BY <3>1, <1>5, <1>8, InTurnNext
    <3>4. q[n] \in linked BY <3>1, <1>10
    <3> QED BY <2>1, <3>2, <3>3, <3>4
  <2>3. CASE n <= Len(q) /\ ~ n + 1 <= Len(q)
    <3>1. n \in 1 .. Len(q) /\ (n + 1) - Len(q) \in 1 .. Len(orphans) BY <2>0, <2>3, <1>10
    <3>2. order[n] = q[n] /\ order[n + 1] = orphans[(n + 1) - Len(q)] BY <2>0, <2>3, <1>11
    <3> QED BY <2>1, <3>1, <3>2, <1>10
  <2>4. CASE ~ n <= Len(q)
    <3> DEFINE m == n - Len(q)
    <3>1. m \in DOMAIN orphans /\ m + 1 \in DOMAIN orphans /\ ~ n + 1 <= Len(q) /\ (n + 1) - Len(q) = m + 1
      BY <2>0, <2>4, <1>10
    <3>2. order[n] = orphans[m] /\ order[n + 1] = orphans[(n + 1) - Len(q)]
      BY <2>0, <2>4, <3>1, <1>11
    <3> HIDE DEF m
    <3>3. Precedes(names, orphans[m], orphans[m + 1])
      <4> DEFINE none == {}
      <4>1. InTurn(IdsOf(stages) \ linked, none, names, orphans) BY <1>8
      <4>2. \A l \in none : l = <<l[1], l[2]>> OBVIOUS
      <4>3. \A a : a \notin none OBVIOUS
      <4> HIDE DEF none
      <4> QED BY <3>1, <4>1, <4>2, <4>3, InTurnNext
    <3>5. orphans[m + 1] \notin linked BY <3>1, <1>10
    <3> QED BY <2>1, <3>1, <3>2, <3>3, <3>5
  <2> QED BY <2>0, <2>2, <2>3, <2>4, <1>10
<1> QED BY <1>12, <1>13, <1>14, <1>15, <1>16 DEF WholeAndInOrder, sent, stages, links, linked, names

\* A box that is dropped joins no link, and leaves what the links join as it was.
LEMMA DroppedLinksNothing ==
  ASSUME NEW d, NEW e, Descends(d), Descends(e), e.links = d.links, IdsOf(d.stages) \subseteq IdsOf(e.stages)
  PROVE  LinksShown(e) = LinksShown(d)
<1>1. LinksShown(d) \subseteq LinksShown(e) BY DEF LinksShown
<1>2. ASSUME NEW l \in LinksShown(e) PROVE l \in LinksShown(d)
  <2>1. l \in d.links /\ l[1] \in IdsOf(e.stages) /\ l[2] \in IdsOf(e.stages) BY DEF LinksShown
  <2>2. ASSUME NEW id \in {l[1], l[2]}, id \notin IdsOf(d.stages) PROVE FALSE
    <3>1. l \in opened.links /\ id \notin IdsOf(opened.stages) BY <2>1, <2>2 DEF Descends
    <3>2. id \in Ends(opened.links) BY <3>1, <2>2 DEF Ends
    <3>3. id \in IdsOf(e.stages) BY <2>1, <2>2
    <3> QED BY <3>1, <3>2, <3>3 DEF Descends
  <2> QED BY <2>1, <2>2 DEF LinksShown
<1> QED BY <1>1, <1>2

\* The numbers of the linked boxes: the first part of the order.
LEMMA NumbersAre ==
  ASSUME NEW d \in Drawings, NEW lib \in Catalogues
  PROVE  SubSeq(Resolve(d, lib).order, 1, Cardinality(Ends(LinksShown(d)))) =
           TopologicalOrder(Ends(LinksShown(d)), LinksShown(d), StudioNames(d.stages, lib)).ordered
<1> DEFINE names   == StudioNames(d.stages, lib)
           linked  == Ends(LinksShown(d))
           topo    == TopologicalOrder(linked, LinksShown(d), names)
           orphans == ByNameThenId(IdsOf(d.stages) \ linked, names)
           order   == Resolve(d, lib).order
           p == topo.ordered
           n == Cardinality(linked)
<1>1. /\ Resolve(d, lib) = [order |-> topo.ordered \o orphans, cyclic |-> topo.cyclic]
      /\ Ranked(linked, names)
      /\ Permutes(topo.ordered, linked) /\ Permutes(orphans, IdsOf(d.stages) \ linked)
  BY ResolveIsWhole
<1>2. linked \subseteq IdsOf(d.stages) BY ShownLinksAre
<1> HIDE DEF names, linked, topo, orphans
<1>3. order = p \o orphans BY <1>1
<1>4. Len(p) = n BY <1>1, PermutesMeans DEF Ranked
<1> HIDE DEF order, p, n
<1>5. p \in Seq(IdsOf(d.stages)) /\ orphans \in Seq(IdsOf(d.stages)) /\ Len(p) \in Nat
  <2>1. p \in Seq(linked) /\ orphans \in Seq(IdsOf(d.stages) \ linked) BY <1>1 DEF Permutes, p
  <2> QED BY <2>1, <1>2
<1>6. /\ order \in Seq(IdsOf(d.stages)) /\ Len(order) = Len(p) + Len(orphans)
      /\ \A i \in 1 .. Len(p) + Len(orphans) : order[i] = IF i <= Len(p) THEN p[i] ELSE orphans[i - Len(p)]
  BY <1>3, <1>5, ConcatProperties
<1>7. n \in Nat /\ n <= Len(order) /\ \A i \in 1 .. n : i \in 1 .. Len(p) + Len(orphans) /\ i <= Len(p)
  <2>1. Len(p) \in Nat /\ Len(orphans) \in Nat BY <1>5
  <2> QED BY <2>1, <1>4, <1>6
<1>8. n \in Int /\ \A i \in 1 .. n : order[i] \in IdsOf(d.stages)
  <2>1. \A i \in 1 .. Len(order) : order[i] \in IdsOf(d.stages) BY <1>6
  <2>2. \A i \in 1 .. n : i \in 1 .. Len(order) BY <1>6, <1>7
  <2> QED BY <2>1, <2>2, <1>7
<1> DEFINE first == SubSeq(order, 1, n)
<1>9. /\ first \in Seq(IdsOf(d.stages)) /\ Len(first) = IF 1 <= n THEN n - 1 + 1 ELSE 0
      /\ \A i \in 1 .. n - 1 + 1 : first[i] = order[1 + i - 1]
  BY <1>8, SubSeqProperties
<1>10. \A i \in 1 .. n : i \in 1 .. n - 1 + 1 /\ 1 + i - 1 = i BY <1>7
<1>11. Len(first) = n BY <1>7, <1>9
<1> HIDE DEF first
<1>12. \A i \in 1 .. n : first[i] = p[i] BY <1>6, <1>7, <1>9, <1>10
<1>13. first = p BY <1>4, <1>5, <1>9, <1>11, <1>12, SeqEqual
<1> QED BY <1>13 DEF first, order, p, n, topo, linked, names

LEMMA NumbersStay ==
  ASSUME NEW d, NEW e, Descends(d), Descends(e), OnceEach(e.stages), NEW lib \in Catalogues,
         e.links = d.links, Range(d.stages) \subseteq Range(e.stages)
  PROVE  LET linked == Cardinality(Ends(LinksShown(d)))
         IN  SubSeq(Resolve(e, lib).order, 1, linked) = SubSeq(Resolve(d, lib).order, 1, linked)
<1> DEFINE linked == Ends(LinksShown(d))
           names  == StudioNames(d.stages, lib)
           others == StudioNames(e.stages, lib)
<1>1. d \in Drawings /\ e \in Drawings /\ d.stages \in Seq(StageRecords) /\ e.stages \in Seq(StageRecords)
  BY DrawingIs DEF Descends
<1>2. IdsOf(d.stages) \subseteq IdsOf(e.stages)
  <2> SUFFICES ASSUME NEW n \in DOMAIN d.stages PROVE d.stages[n].id \in IdsOf(e.stages) BY DEF IdsOf
  <2>1. d.stages[n] \in Range(e.stages) BY DEF Range
  <2>2. PICK m \in DOMAIN e.stages : e.stages[m] = d.stages[n] BY <2>1 DEF Range
  <2> QED BY <2>2 DEF IdsOf
<1>3. LinksShown(e) = LinksShown(d) BY <1>2, DroppedLinksNothing
<1>4. linked \subseteq IdsOf(d.stages) BY <1>1, ShownLinksAre
<1>5. ASSUME NEW id \in linked PROVE others[id] = names[id]
  <2>1. id \in IdsOf(d.stages) /\ id \in IdsOf(e.stages) BY <1>2, <1>4
  <2>2. /\ StageOf(d.stages, id) \in Range(d.stages) /\ StageOf(d.stages, id).id = id
        /\ StageOf(e.stages, id) \in Range(e.stages) /\ StageOf(e.stages, id).id = id
    BY <1>1, <2>1, StageOfIs
  <2>3. StageOf(d.stages, id) = StageOf(e.stages, id)
    <3>1. PICK m \in DOMAIN e.stages : e.stages[m] = StageOf(d.stages, id) BY <2>2 DEF Range
    <3>2. PICK n \in DOMAIN e.stages : e.stages[n] = StageOf(e.stages, id) BY <2>2 DEF Range
    <3>3. m = n BY <3>1, <3>2, <2>2 DEF OnceEach
    <3> QED BY <3>1, <3>2, <3>3
  <2> QED BY <2>1, <2>3 DEF StudioNames
<1>6. Ranked(linked, names) BY <1>1, ResolveIsWhole
<1> HIDE DEF linked, names, others
<1>7. TopologicalOrder(linked, LinksShown(d), names) = TopologicalOrder(linked, LinksShown(d), others)
  BY <1>5, <1>6, TopologicalOrderIsOne
<1>8. SubSeq(Resolve(d, lib).order, 1, Cardinality(linked)) =
        TopologicalOrder(linked, LinksShown(d), names).ordered
  BY <1>1, NumbersAre DEF linked, names
<1>9. SubSeq(Resolve(e, lib).order, 1, Cardinality(linked)) =
        TopologicalOrder(linked, LinksShown(d), others).ordered
  <2>1. SubSeq(Resolve(e, lib).order, 1, Cardinality(Ends(LinksShown(e)))) =
          TopologicalOrder(Ends(LinksShown(e)), LinksShown(e), StudioNames(e.stages, lib)).ordered
    BY <1>1, NumbersAre
  <2> QED BY <2>1, <1>3 DEF linked, others
<1> QED BY <1>7, <1>8, <1>9 DEF linked

\* With every stage linked and every Job there, the schedule's order is the canvas's,
\* a loop or not.
LEMMA OrderIsShown ==
  ASSUME NEW d \in Drawings, NEW lib \in Catalogues, ~ Loose(d),
         \A s \in Range(d.stages) : s.runs \in Files \cup lib.keeps
  PROVE  OrderStages(d, lib) = StagesShown(d, lib)
<1> DEFINE ids     == IdsOf(d.stages)
           links   == LinksShown(d)
           names   == StudioNames(d.stages, lib)
           others  == ServerNames(d.stages, lib)
           topo    == TopologicalOrder(ids, links, names)
           orphans == ByNameThenId(ids \ Ends(links), names)
<1>1. Ends(links) = ids BY ShownLinksAre DEF Loose
<1>2. d.stages \in Seq(StageRecords) BY DrawingIs
<1>3. ASSUME NEW id \in ids PROVE others[id] = names[id]
  <2>1. StageOf(d.stages, id) \in Range(d.stages) BY <1>2, StageOfIs
  <2>2. StageOf(d.stages, id).runs \in Files \cup lib.keeps BY <2>1
  <2> QED BY <2>2 DEF StudioNames, ServerNames
<1>4. /\ Resolve(d, lib).order = topo.ordered \o orphans
      /\ Ranked(ids, names) /\ Permutes(topo.ordered, ids) /\ Permutes(orphans, ids \ Ends(links))
  <2>1. LET t == TopologicalOrder(Ends(links), links, names)
        IN  /\ Resolve(d, lib) = [order |-> t.ordered \o orphans, cyclic |-> t.cyclic]
            /\ Ranked(ids, names) /\ Permutes(t.ordered, Ends(links)) /\ Permutes(orphans, ids \ Ends(links))
    BY ResolveIsWhole
  <2> HIDE DEF links, names, orphans, ids
  <2> QED BY <2>1, <1>1
<1> HIDE DEF ids, links, names, others
<1>5. topo = TopologicalOrder(ids, links, others) BY <1>3, <1>4, TopologicalOrderIsOne
<1> HIDE DEF topo, orphans
<1>6. Resolve(d, lib).order = topo.ordered
  <2>1. ids \ Ends(links) = {} BY <1>1
  <2>2. orphans \in Seq({}) BY <1>4, <2>1 DEF Permutes
  <2>3. orphans = <<>> BY <2>2
  <2>4. topo.ordered \in Seq(ids) BY <1>4 DEF Permutes
  <2> QED BY <2>3, <2>4, <1>4, ConcatEmptySeq
<1>7. StagesShown(d, lib) = [n \in DOMAIN topo.ordered |-> StageOf(d.stages, topo.ordered[n])]
  BY <1>6 DEF StagesShown
<1>8. OrderStages(d, lib) = [n \in DOMAIN topo.ordered |-> StageOf(d.stages, topo.ordered[n])]
  BY <1>5 DEF OrderStages, ids, links, others
<1> QED BY <1>7, <1>8

\* Only a run that is sent or fired is new.
LEMMA NewRunsAreSent ==
  ASSUME PipelineInv, CanvasNext, NEW r \in DOMAIN runs' \ DOMAIN runs
  PROVE  \/ /\ PlanPipelineRun(drawing, library) # <<>>
            /\ runs'[r].by = "studio" /\ runs'[r].stages = PlanPipelineRun(drawing, library)
         \/ /\ FirePipeline
            /\ runs'[r].by = "schedule" /\ runs'[r].stages = OrderStages(drawing, library)
<1>0. HistoryOK /\ LibraryOK /\ RunsOK /\ HearingOK BY DEF PipelineInv
<1>1. CASE Execute
  <2>1. PICK plan \in {PlanPipelineRun(drawing, library)} \ {<<>>} : runs' = Append(runs, NewRun(plan, "studio"))
    BY <1>1 DEF Execute
  <2>2. plan \in Seq(StageRecords) /\ OnceEach(plan) BY <1>0, SentIs
  <2> DEFINE new == NewRun(plan, "studio")
  <2>3. RunIs(new) /\ new.stages = plan /\ new.by = "studio" BY <2>2, NewRunIs
  <2>4. runs' = Append(runs, new) BY <2>1
  <2> HIDE DEF new
  <2>5. runs'[Len(runs) + 1] = new /\ DOMAIN runs' \ DOMAIN runs = {Len(runs) + 1} BY <1>0, <2>3, <2>4, RunComes
  <2> QED BY <2>1, <2>3, <2>5
<1>2. CASE FirePipeline
  <2> DEFINE new == NewRun(OrderStages(drawing, library), "schedule")
  <2>1. runs' = Append(runs, new) BY <1>2 DEF FirePipeline
  <2>2. OrderStages(drawing, library) \in Seq(StageRecords) /\ OnceEach(OrderStages(drawing, library))
    BY <1>0, SentIs
  <2>3. RunIs(new) /\ new.stages = OrderStages(drawing, library) /\ new.by = "schedule" BY <2>2, NewRunIs
  <2> HIDE DEF new
  <2>4. runs'[Len(runs) + 1] = new /\ DOMAIN runs' \ DOMAIN runs = {Len(runs) + 1} BY <1>0, <2>1, <2>3, RunComes
  <2> QED BY <2>3, <2>4, <1>2
<1>3. CASE runs' = runs BY <1>3
<1>4. ASSUME NEW s \in DOMAIN runs, NEW next, runs' = [runs EXCEPT ![s] = next]
      PROVE  FALSE
  BY <1>4
<1>5. ASSUME NEW s \in DOMAIN runs,
             \/ StageStarts(s) \/ StageRefused(s) \/ CancelledBetween(s)
             \/ \E verdict \in {"success", "error"} : StageEnds(s, verdict)
      PROVE  FALSE
  BY <1>0, <1>4, <1>5, RunnerAdvances
<1>6. CASE StopRun
  <2>1. heard # 0 /\ heard \in DOMAIN runs BY <1>0, <1>6, RunsAre DEF StopRun, HearingOK
  <2> QED BY <1>4, <1>6, <2>1 DEF StopRun
<1>7. Draws => runs' = runs BY <1>0, DrawsKeep
<1>8. LibraryChanges => runs' = runs BY <1>0, LibraryChangesKeep
<1>9. RunnerSteps => FirePipeline BY <1>5 DEF RunnerSteps
<1>10. EditorRuns => Execute \/ StopRun \/ runs' = runs
  BY DEF EditorRuns, ExecuteRefused, HearResult, StreamBreaks, FinishRun, LoaderAnswers, LoaderFails,
         ShowPipelineRun, ClearRunView
<1> QED BY <1>1, <1>2, <1>3, <1>6, <1>7, <1>8, <1>9, <1>10 DEF CanvasNext

(* For any drawing and library, whatever was edited, undone and redone: a   *)
(* run sent from the canvas is every stage once, in the order of its links  *)
(* and names, or there is no run; a box that is dropped leaves the numbers  *)
(* of the linked ones as they are; and a schedule runs a Pipeline whose     *)
(* stages are all linked in the very order its canvas numbers them, one     *)
(* the editor refuses to send for a loop or a broken Job included           *)
(* (planPipelineRun, resolvePipeline, order_stages).  The record it was     *)
(* opened with has no box twice.                                            *)
THEOREM PipelineRunsAreTheDrawing ==
  ASSUME \A d \in Opened : Distinct(d)
  PROVE  CanvasSpec => RunsAreTheDrawing
<1> DEFINE Sent == \A r \in DOMAIN runs' \ DOMAIN runs :
                     IF runs'[r].by = "studio" THEN WholeAndInOrder(runs'[r].stages)
                     ELSE ScheduledAsShown(runs'[r])
<1>1. ASSUME PipelineInv, PipelineInv', CanvasNext PROVE Sent /\ NumbersHold
  <2>1. HistoryOK /\ HistoryOK' /\ LibraryOK BY <1>1 DEF PipelineInv
  <2>2. opened' = opened
    <3>1. Draws => opened' = opened BY <2>1, DrawsKeep
    <3> QED BY <3>1, <1>1, OthersLeaveTheGraph
  <2>3. OnceEach(opened.stages)
    <3>1. opened \in Opened /\ opened.stages \in Seq(StageRecords) BY <2>1, HistoryIs, DrawingIs
    <3> QED BY <3>1, DistinctIsOnceEach DEF Distinct
  <2>4. Descends(drawing) /\ Descends(drawing')
    <3>1. Heirs' = Heirs BY <2>2 DEF Heirs, Descends
    <3>2. drawing' \in Heirs' BY <2>1 DEF HistoryOK
    <3> QED BY <3>1, <3>2, <2>1, HistoryIs, HeirsAre
  <2>5. OnceEach(drawing.stages) /\ OnceEach(drawing'.stages) BY <2>3, <2>4 DEF Descends
  <2>6. drawing \in Drawings /\ library \in Catalogues BY <2>1, <2>4 DEF LibraryOK, Descends
  <2>7. ASSUME NEW r \in DOMAIN runs' \ DOMAIN runs
        PROVE  IF runs'[r].by = "studio" THEN WholeAndInOrder(runs'[r].stages) ELSE ScheduledAsShown(runs'[r])
    <3>1. CASE /\ PlanPipelineRun(drawing, library) # <<>>
               /\ runs'[r].by = "studio" /\ runs'[r].stages = PlanPipelineRun(drawing, library)
      <4>1. WholeAndInOrder(PlanPipelineRun(drawing, library))
        BY <3>1, <2>1, <2>5, PlanIsWholeAndInOrder
      <4> QED BY <3>1, <4>1
    <3>2. CASE /\ FirePipeline
               /\ runs'[r].by = "schedule" /\ runs'[r].stages = OrderStages(drawing, library)
      <4>1. \A s \in Range(drawing.stages) : s.runs \in Files \cup library.keeps BY <3>2 DEF FirePipeline
      <4>2. ScheduledAsShown(runs'[r])
        BY <3>2, <4>1, <2>6, OrderIsShown DEF ScheduledAsShown
      <4> QED BY <3>2, <4>2
    <3> QED BY <3>1, <3>2, <1>1, NewRunsAreSent
  <2>8. NumbersHold
    <3> SUFFICES ASSUME drawing'.links = drawing.links, Range(drawing.stages) \subseteq Range(drawing'.stages)
                 PROVE  LET linked == Cardinality(Ends(LinksShown(drawing)))
                        IN  SubSeq(Resolve(drawing', library).order, 1, linked) =
                              SubSeq(Resolve(drawing, library).order, 1, linked)
      BY DEF NumbersHold
    <3> QED BY <2>4, <2>5, <2>6, NumbersStay
  <2> QED BY <2>7, <2>8
<1>2. ASSUME PipelineInv, PipelineInv', [CanvasNext]_canvasVars PROVE [Sent /\ NumbersHold]_canvasVars
  BY <1>1, <1>2
<1> QED BY <1>2, CanvasInvariant, PTL DEF CanvasSpec, RunsAreTheDrawing
=============================================================================
