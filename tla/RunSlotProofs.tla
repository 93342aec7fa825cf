--------------------------- MODULE RunSlotProofs ---------------------------
(***************************************************************************)
(* Proofs about the run slot, for any set of runs, any bounds, and clients *)
(* that may or may not leave.                                              *)
(***************************************************************************)
EXTENDS RunSlot, TLAPS

(***************************************************************************)
(* The invariant that carries the safety results. OneHolder alone is not   *)
(* inductive: that Unlock frees the lock of nobody else follows from the   *)
(* request itself holding it, and that Executed leaves the right phase     *)
(* behind follows from where a live worker's route can be.                 *)
(***************************************************************************)
RouteMatchesKind ==
  \A r \in Runs :
    /\ pc[r] \in {"execute", "raised"} => kind[r] = "sync"
    /\ pc[r] \in {"response", "stream", "result"} \/ r \in left => kind[r] = "stream"

WorkerIsAttended ==
  \A r \in Runs : Working(r) => pc[r] \in {"execute", "stream"} \/ r \in left

SlotInv ==
  /\ TypeOK
  /\ RouteMatchesKind
  /\ WorkerIsAttended
  /\ OneHolder
  /\ ActiveNamesTheHolder

-----------------------------------------------------------------------------
LEMMA InitSlotInv == Init => SlotInv
<1> SUFFICES ASSUME Init PROVE SlotInv
  OBVIOUS
<1> USE RunsAssumption, BoundsAssumption
    DEF Init, Kinds, Phases, Setup, Running, Leaving, Closing, Stuck, Over
<1>1. TypeOK
  <2>1. locked \in BOOLEAN
    BY Zenon
  <2> QED
    BY <2>1 DEF TypeOK, Outcomes, Statuses
<1>2. RouteMatchesKind /\ WorkerIsAttended
  BY DEF RouteMatchesKind, WorkerIsAttended, Working
<1>3. OneHolder /\ ActiveNamesTheHolder
  BY DEF OneHolder, ActiveNamesTheHolder, HoldsLock, IsNamed, ClosesUnderLock
<1> QED
  BY <1>1, <1>2, <1>3 DEF SlotInv

LEMMA TypeStep == TypeOK /\ [Next]_vars => TypeOK'
<1> SUFFICES ASSUME TypeOK, [Next]_vars PROVE TypeOK'
  OBVIOUS
<1> USE RunsAssumption, BoundsAssumption
    DEF TypeOK, Kinds, Phases, Setup, Running, Leaving, Closing, Stuck, Over,
        Outcomes, Statuses, requestVars, slotVars, bookVars, rowVars, cancelVars,
        At, GoTo, Working
<1>1. ASSUME NEW r \in Runs, NEW p \in Phases, Step(r, p)
      PROVE  pc' \in [Runs -> Phases] /\ kind' = kind
  <2>1. After(r, p) \in Phases
    BY DEF After
  <2> QED
    BY <1>1, <2>1 DEF Step
<1>2. ASSUME NEW r \in Runs, Acquire(r) PROVE TypeOK'
  BY <1>2 DEF Acquire
<1>3. ASSUME NEW r \in Runs, RefuseBusy(r) PROVE TypeOK'
  BY <1>3 DEF RefuseBusy
<1>4. ASSUME NEW r \in Runs, Route(r) PROVE TypeOK'
  <2>1. CASE Admit(r)         BY <2>1 DEF Admit
  <2>2. CASE RefuseUnpaid(r)  BY <2>2 DEF RefuseUnpaid
  <2>3. CASE OpenRun(r)       BY <2>3 DEF OpenRun
  <2>4. CASE OpenJob(r)       BY <2>4 DEF OpenJob
  <2>5. CASE OpenFails(r)     BY <2>5 DEF OpenFails
  <2>6. CASE Begin(r)         BY <2>6 DEF Begin
  <2>7. CASE StartWorker(r)   BY <2>7 DEF StartWorker
  <2>8. CASE SeeSentinel(r)   BY <2>8 DEF SeeSentinel
  <2>9. CASE ReadFlag(r)      BY <2>9, <1>1 DEF ReadFlag
  <2>10. CASE CloseJob(r)     BY <2>10, <1>1 DEF CloseJob, Verdict
  <2>11. CASE CloseRun(r)     BY <2>11, <1>1 DEF CloseRun, Verdict
  <2>12. CASE SettleHold(r)   BY <2>12, <1>1 DEF SettleHold, Released
  <2>13. CASE Charge(r)       BY <2>13, <1>1 DEF Charge
  <2>14. CASE SendResult(r)   BY <2>14, <1>1 DEF SendResult
  <2>15. CASE EndActive(r)    BY <2>15, <1>1 DEF EndActive
  <2>16. CASE Unlock(r)       BY <2>16, <1>1 DEF Unlock
  <2>17. CASE GiveBack(r)     BY <2>17, <1>1 DEF GiveBack, Released
  <2>18. CASE CloseFails(r)   BY <2>18 DEF CloseFails
  <2>19. CASE Propagate(r)    BY <2>19, <1>1 DEF Propagate
  <2> QED
    BY <1>4, <2>1, <2>2, <2>3, <2>4, <2>5, <2>6, <2>7, <2>8, <2>9, <2>10,
       <2>11, <2>12, <2>13, <2>14, <2>15, <2>16, <2>17, <2>18, <2>19 DEF Route
<1>5. ASSUME NEW r \in Runs, Executed(r) PROVE TypeOK'
  BY <1>5 DEF Executed
<1>6. ASSUME NEW r \in Runs, HangUp(r) \/ Desert(r) PROVE TypeOK'
  BY <1>6 DEF HangUp, Desert
<1>7. ASSUME NEW r \in Runs, CancelRequest(r) PROVE TypeOK'
  BY <1>7 DEF CancelRequest
<1>8. ASSUME NEW r \in Runs, CancelSparkJobs(r) PROVE TypeOK'
  BY <1>8 DEF CancelSparkJobs
<1>9. CASE Kill
  <2>1. locked' \in BOOLEAN
    BY <1>9, Zenon DEF Kill
  <2> QED
    BY <1>9, <2>1 DEF Kill, Released
<1>10. CASE UNCHANGED vars
  BY <1>10 DEF vars
<1> QED
  BY <1>2, <1>3, <1>4, <1>5, <1>6, <1>7, <1>8, <1>9, <1>10 DEF Next

LEMMA SlotStep == SlotInv /\ [Next]_vars => SlotInv'
<1> SUFFICES ASSUME SlotInv, [Next]_vars PROVE SlotInv'
  OBVIOUS
<1>1. TypeOK'
  BY TypeStep DEF SlotInv
<1> USE RunsAssumption
    DEF SlotInv, RouteMatchesKind, WorkerIsAttended, OneHolder,
        ActiveNamesTheHolder, HoldsLock, IsNamed, ClosesUnderLock, Working,
        TypeOK, Phases, Setup, Running, Leaving, Closing, Stuck, Over,
        requestVars, slotVars, At, GoTo
<1>2. ASSUME NEW r \in Runs, Acquire(r) PROVE SlotInv'
  BY <1>1, <1>2 DEF Acquire
<1>3. ASSUME NEW r \in Runs, RefuseBusy(r) PROVE SlotInv'
  BY <1>1, <1>3 DEF RefuseBusy
<1>4. ASSUME NEW r \in Runs, Route(r) PROVE SlotInv'
  <2>1. CASE Admit(r) BY <1>1, <2>1 DEF Admit
  <2>2. CASE RefuseUnpaid(r) BY <1>1, <2>2 DEF RefuseUnpaid
  <2>3. CASE OpenRun(r) BY <1>1, <2>3 DEF OpenRun
  <2>4. CASE OpenJob(r) BY <1>1, <2>4 DEF OpenJob
  <2>5. CASE OpenFails(r) BY <1>1, <2>5 DEF OpenFails
  <2>6. CASE Begin(r)
    <3>1. CASE kind[r] = "sync" BY <1>1, <2>6, <3>1 DEF Begin
    <3>2. CASE kind[r] = "stream" BY <1>1, <2>6, <3>2 DEF Begin
    <3> QED BY <3>1, <3>2 DEF Kinds
  <2>7. CASE StartWorker(r) BY <1>1, <2>7 DEF StartWorker
  <2>8. CASE SeeSentinel(r) BY <1>1, <2>8 DEF SeeSentinel
  <2>9. CASE ReadFlag(r)
    <3>1. CASE kind[r] = "sync"
      <4>1. pc[r] = "readFlag" /\ pc' = [pc EXCEPT ![r] = "end"]
        BY <2>9, <3>1 DEF ReadFlag, Step, After
      <4> QED BY <1>1, <2>9, <3>1, <4>1 DEF ReadFlag, Step
    <3>2. CASE kind[r] = "stream"
      <4>1. pc[r] = "readFlag" /\ pc' = [pc EXCEPT ![r] = "closeJob"]
        BY <2>9, <3>2 DEF ReadFlag, Step, After
      <4> QED BY <1>1, <2>9, <3>2, <4>1 DEF ReadFlag, Step
    <3> QED BY <3>1, <3>2 DEF Kinds
  <2>10. CASE CloseJob(r) BY <1>1, <2>10 DEF CloseJob, Step, After
  <2>11. CASE CloseRun(r)
    <3>1. CASE kind[r] = "sync"
      <4>1. pc[r] = "closeRun" /\ pc' = [pc EXCEPT ![r] = "settle"]
        BY <2>11, <3>1 DEF CloseRun, Step, After
      <4> QED BY <1>1, <2>11, <3>1, <4>1 DEF CloseRun, Step
    <3>2. CASE kind[r] = "stream"
      <4>1. PICK q \in {"result", "settle"} :
              pc[r] = "closeRun" /\ pc' = [pc EXCEPT ![r] = q]
        BY <2>11, <3>2 DEF CloseRun, Step, After
      <4> QED BY <1>1, <2>11, <3>2, <4>1 DEF CloseRun, Step
    <3> QED BY <3>1, <3>2 DEF Kinds
  <2>12. CASE SettleHold(r) BY <1>1, <2>12 DEF SettleHold, Step, After
  <2>13. CASE Charge(r)
    <3>1. CASE kind[r] = "sync"
      <4>1. pc[r] = "charge" /\ pc' = [pc EXCEPT ![r] = "done"]
        BY <2>13, <3>1 DEF Charge, Step, After
      <4> QED BY <1>1, <2>13, <3>1, <4>1 DEF Charge, Step
    <3>2. CASE kind[r] = "stream"
      <4>1. pc[r] = "charge" /\ pc' = [pc EXCEPT ![r] = "result"]
        BY <2>13, <3>2 DEF Charge, Step, After
      <4> QED BY <1>1, <2>13, <3>2, <4>1 DEF Charge, Step
    <3> QED BY <3>1, <3>2 DEF Kinds
  <2>14. CASE SendResult(r) BY <1>1, <2>14 DEF SendResult, Step, After
  <2>15. CASE EndActive(r) BY <1>1, <2>15 DEF EndActive, Step, After
  <2>16. CASE Unlock(r) BY <1>1, <2>16 DEF Unlock, Step, After
  <2>17. CASE GiveBack(r) BY <1>1, <2>17 DEF GiveBack, Step, After
  <2>18. CASE CloseFails(r) BY <1>1, <2>18 DEF CloseFails
  <2>19. CASE Propagate(r)
    <3>1. CASE kind[r] = "sync"
      <4>1. pc[r] = "closeFailed" /\ pc' = [pc EXCEPT ![r] = "raised"]
        BY <2>19, <3>1 DEF Propagate, Step, After
      <4> QED BY <1>1, <2>19, <3>1, <4>1 DEF Propagate, Step
    <3>2. CASE kind[r] = "stream"
      <4>1. pc[r] = "closeFailed" /\ pc' = [pc EXCEPT ![r] = "end"]
        BY <2>19, <3>2 DEF Propagate, Step, After
      <4> QED BY <1>1, <2>19, <3>2, <4>1 DEF Propagate, Step
    <3> QED BY <3>1, <3>2 DEF Kinds
  <2> QED
    BY <1>4, <2>1, <2>2, <2>3, <2>4, <2>5, <2>6, <2>7, <2>8, <2>9, <2>10, <2>11, <2>12, <2>13, <2>14, <2>15, <2>16, <2>17, <2>18, <2>19 DEF Route
<1>5. ASSUME NEW r \in Runs, Executed(r) PROVE SlotInv'
  BY <1>1, <1>5 DEF Executed
<1>6. ASSUME NEW r \in Runs, HangUp(r) \/ Desert(r) PROVE SlotInv'
  BY <1>1, <1>6 DEF HangUp, Desert
<1>7. ASSUME NEW r \in Runs, CancelRequest(r) PROVE SlotInv'
  BY <1>1, <1>7 DEF CancelRequest
<1>8. ASSUME NEW r \in Runs, CancelSparkJobs(r) PROVE SlotInv'
  BY <1>1, <1>8 DEF CancelSparkJobs
<1>9. CASE Kill
  BY <1>1, <1>9 DEF Kill
<1>10. CASE UNCHANGED vars
  BY <1>1, <1>10 DEF vars
<1> QED
  BY <1>2, <1>3, <1>4, <1>5, <1>6, <1>7, <1>8, <1>9, <1>10 DEF Next

-----------------------------------------------------------------------------
\* Type correctness of the run slot, for any runs and bounds.
THEOREM SlotTypes == Spec => []TypeOK
<1>1. Init => TypeOK
  BY InitSlotInv DEF SlotInv
<1> QED
  BY <1>1, TypeStep, PTL DEF Spec

LEMMA SlotInvariant == Spec => []SlotInv
  BY InitSlotInv, SlotStep, PTL DEF Spec

\* The lock has exactly one holder while it is taken and none while it is free:
\* no interleaving of routes, hang-ups, cancels and restarts breaks the pairing.
THEOREM LockHasOneHolder == Spec => []OneHolder
<1>1. SlotInv => OneHolder
  BY DEF SlotInv
<1> QED
  BY <1>1, SlotInvariant, PTL

\* The cancel route can reach exactly the run between its begin and its end.
THEOREM ActiveRunIsTheHolder == Spec => []ActiveNamesTheHolder
<1>1. SlotInv => ActiveNamesTheHolder
  BY DEF SlotInv
<1> QED
  BY <1>1, SlotInvariant, PTL

\* Two executions overlap only when a client of one of them hung up.
THEOREM OverlapIsAHangUp == Spec => []OverlapNeedsAHangUp
<1>1. SlotInv => OverlapNeedsAHangUp
  BY DEF SlotInv, OverlapNeedsAHangUp, OneHolder, WorkerIsAttended, HoldsLock, Stuck, Running
<1> QED
  BY <1>1, SlotInvariant, PTL

\* The exclusion the shared Spark session rests on, from its three sides.
THEOREM SlotExcludes == Spec => []SlotIsExclusive
<1>1. OneHolder /\ ActiveNamesTheHolder /\ OverlapNeedsAHangUp => SlotIsExclusive
  BY DEF SlotIsExclusive
<1> QED
  BY <1>1, LockHasOneHolder, ActiveRunIsTheHolder, OverlapIsAHangUp, PTL

-----------------------------------------------------------------------------
(***************************************************************************)
(* Serial execution. The phase of a route whose client stayed says what its *)
(* worker has done, so a run starts from "waiting" and never starts again; *)
(* a client that leaves, leaves for good.                                  *)
(***************************************************************************)
Before == {"idle", "refused", "broken", "response"} \union Setup
Behind == {"done", "raised"} \union Leaving \union Closing

AttendedInv ==
  \A r \in Runs :
    /\ r \in left => pc[r] \in Leaving \union {"done", "deserted", "killed"}
    /\ pc[r] \in Before => worker[r] = "none"
    /\ pc[r] \in Behind => worker[r] = "finished" \/ r \in left
    /\ pc[r] = "execute" => worker[r] = "working"
    /\ pc[r] = "stream" => worker[r] # "none"
    /\ pc[r] = "killed" => worker[r] # "working"

LEMMA AttendedInit == Init => AttendedInv
  BY DEF Init, AttendedInv, Before, Behind, Setup, Leaving, Closing

LEMMA AttendedStep ==
  ASSUME SlotInv, AttendedInv, [Next]_vars
  PROVE  AttendedInv'
<1> USE DEF SlotInv, TypeOK, RouteMatchesKind, AttendedInv, Before, Behind, Phases,
            Setup, Running, Leaving, Closing, Stuck, Over, Working, requestVars, At, GoTo
<1>1. ASSUME NEW r \in Runs, NEW p \in Closing \union Leaving, Step(r, p)
      PROVE  /\ pc[r] = p
             /\ \E q \in Behind : pc' = [pc EXCEPT ![r] = q]
  <2>1. After(r, p) \in Behind
    BY DEF After
  <2> QED
    BY <1>1, <2>1 DEF Step
<1>11. ASSUME NEW r \in Runs, NEW p \in Leaving, Step(r, p), r \in left
       PROVE  \E q \in Leaving \union {"done"} : pc' = [pc EXCEPT ![r] = q]
  <2>1. After(r, p) \in Leaving \union {"done"}
    BY <1>11 DEF After, Kinds
  <2> QED
    BY <1>11, <2>1 DEF Step
<1>2. ASSUME NEW r \in Runs, Acquire(r) PROVE AttendedInv'
  BY <1>2 DEF Acquire
<1>3. ASSUME NEW r \in Runs, RefuseBusy(r) PROVE AttendedInv'
  BY <1>3 DEF RefuseBusy
<1>4. ASSUME NEW r \in Runs, Route(r) PROVE AttendedInv'
  <2>1. CASE Admit(r) BY <2>1 DEF Admit
  <2>2. CASE RefuseUnpaid(r) BY <2>2 DEF RefuseUnpaid
  <2>3. CASE OpenRun(r) BY <2>3 DEF OpenRun
  <2>4. CASE OpenJob(r) BY <2>4 DEF OpenJob
  <2>5. CASE OpenFails(r) BY <2>5 DEF OpenFails
  <2>6. CASE Begin(r) BY <2>6 DEF Begin
  <2>7. CASE StartWorker(r) BY <2>7 DEF StartWorker
  <2>8. CASE SeeSentinel(r) BY <2>8 DEF SeeSentinel
  <2>9. CASE ReadFlag(r) BY <2>9, <1>1 DEF ReadFlag
  <2>10. CASE CloseJob(r) BY <2>10, <1>1 DEF CloseJob
  <2>11. CASE CloseRun(r) BY <2>11, <1>1 DEF CloseRun
  <2>12. CASE SettleHold(r) BY <2>12, <1>1 DEF SettleHold
  <2>13. CASE Charge(r) BY <2>13, <1>1 DEF Charge
  <2>14. CASE SendResult(r) BY <2>14, <1>1 DEF SendResult
  <2>15. CASE EndActive(r) BY <2>15, <1>1, <1>11 DEF EndActive
  <2>16. CASE Unlock(r) BY <2>16, <1>1, <1>11 DEF Unlock
  <2>17. CASE GiveBack(r) BY <2>17, <1>1, <1>11 DEF GiveBack
  <2>18. CASE CloseFails(r) BY <2>18 DEF CloseFails
  <2>19. CASE Propagate(r) BY <2>19, <1>1 DEF Propagate
  <2> QED
    BY <1>4, <2>1, <2>2, <2>3, <2>4, <2>5, <2>6, <2>7, <2>8, <2>9, <2>10, <2>11, <2>12, <2>13, <2>14, <2>15, <2>16, <2>17, <2>18, <2>19 DEF Route
<1>5. ASSUME NEW r \in Runs, Executed(r) PROVE AttendedInv'
  BY <1>5 DEF Executed
<1>6. ASSUME NEW r \in Runs, HangUp(r) \/ Desert(r) PROVE AttendedInv'
  BY <1>6 DEF HangUp, Desert
<1>7. ASSUME NEW r \in Runs, CancelRequest(r) PROVE AttendedInv'
  BY <1>7 DEF CancelRequest
<1>8. ASSUME NEW r \in Runs, CancelSparkJobs(r) PROVE AttendedInv'
  BY <1>8 DEF CancelSparkJobs
<1>9. CASE Kill
  BY <1>9 DEF Kill
<1>10. CASE UNCHANGED vars
  BY <1>10 DEF vars
<1> QED
  BY <1>2, <1>3, <1>4, <1>5, <1>6, <1>7, <1>8, <1>9, <1>10 DEF Next

\* Whatever does not start an execution leaves every run as it is or ends it.
OnlyEnds == \A s \in Runs : State(s)' \in {State(s), "ended"}

LEMMA OnlyEndsIsEnd == OnlyEnds => Serial!Next
<1> SUFFICES ASSUME OnlyEnds PROVE Serial!Next
  OBVIOUS
<1> DEFINE ended == {s \in Runs : State(s)' = "ended"}
<1>1. [s \in Runs |-> State(s)]' = [s \in Runs |-> IF s \in ended THEN "ended" ELSE State(s)]
  BY DEF OnlyEnds
<1>2. Serial!End(ended)
  BY <1>1 DEF Serial!End
<1> QED
  BY <1>2 DEF Serial!Next

\* A run that starts executing finds every other run not executing.
LEMMA StartIsSerial ==
  ASSUME SlotInv, AttendedInv, NEW r \in Runs,
         pc[r] \in {"begin", "response"}, left' = left,
         pc'[r] \in {"execute", "stream"},
         worker' = [worker EXCEPT ![r] = "working"],
         \A s \in Runs \ {r} : pc'[s] = pc[s]
  PROVE  Serial!Next
<1> USE DEF SlotInv, TypeOK, Working
<1>1. \A s \in Runs : Working(s) => s \in left
  BY DEF WorkerIsAttended, AttendedInv, OneHolder, HoldsLock, Before, Setup, Stuck, Running
<1>2. State(r) = "waiting" /\ State(r)' = "executing"
  <2>1. worker[r] = "none" /\ worker'[r] = "working"
    BY DEF AttendedInv, Before, Setup
  <2>2. State(r) = "waiting"
    BY <2>1 DEF State, Stuck, Over, AttendedInv, Leaving
  <2>3. State(r)' = "executing"
    BY <2>1, <2>2 DEF State, Stuck, Over
  <2> QED
    BY <2>2, <2>3
<1>3. \A s \in Runs \ {r} : State(s)' = State(s) /\ State(s) # "executing"
  BY <1>1 DEF State, Stuck, Over
<1>4. Serial!Start(r)
  BY <1>2, <1>3 DEF Serial!Start
<1> QED
  BY <1>4 DEF Serial!Next

LEMMA SerialStep ==
  ASSUME SlotInv, AttendedInv, [Next]_vars
  PROVE  [Serial!Next]_([r \in Runs |-> State(r)])
<1> USE DEF SlotInv, TypeOK, RouteMatchesKind, AttendedInv, Before, Behind, Phases,
            Setup, Running, Leaving, Closing, Stuck, Over, Working, State, OnlyEnds,
            requestVars, At, GoTo
<1>1. ASSUME NEW r \in Runs, NEW p \in Closing \union Leaving, Step(r, p)
      PROVE  /\ pc[r] = p
             /\ \E q \in Behind : pc' = [pc EXCEPT ![r] = q]
  <2>1. After(r, p) \in Behind
    BY DEF After
  <2> QED
    BY <1>1, <2>1 DEF Step
<1>2. ASSUME NEW r \in Runs, Acquire(r) PROVE OnlyEnds
  BY <1>2 DEF Acquire
<1>3. ASSUME NEW r \in Runs, RefuseBusy(r) PROVE OnlyEnds
  BY <1>3 DEF RefuseBusy
<1>4. ASSUME NEW r \in Runs, Route(r) PROVE OnlyEnds \/ Serial!Next
  <2>1. CASE Admit(r) BY <2>1 DEF Admit
  <2>2. CASE RefuseUnpaid(r) BY <2>2 DEF RefuseUnpaid
  <2>3. CASE OpenRun(r) BY <2>3 DEF OpenRun
  <2>4. CASE OpenJob(r) BY <2>4 DEF OpenJob
  <2>5. CASE OpenFails(r) BY <2>5 DEF OpenFails
  <2>6. CASE SeeSentinel(r) BY <2>6 DEF SeeSentinel
  <2>7. CASE ReadFlag(r) BY <2>7, <1>1 DEF ReadFlag
  <2>8. CASE CloseJob(r) BY <2>8, <1>1 DEF CloseJob
  <2>9. CASE CloseRun(r) BY <2>9, <1>1 DEF CloseRun
  <2>10. CASE SettleHold(r) BY <2>10, <1>1 DEF SettleHold
  <2>11. CASE Charge(r) BY <2>11, <1>1 DEF Charge
  <2>12. CASE SendResult(r) BY <2>12, <1>1 DEF SendResult
  <2>13. CASE EndActive(r) BY <2>13, <1>1 DEF EndActive
  <2>14. CASE Unlock(r) BY <2>14, <1>1 DEF Unlock
  <2>15. CASE GiveBack(r) BY <2>15, <1>1 DEF GiveBack
  <2>16. CASE Begin(r)
    <3>1. CASE kind[r] = "sync"
      BY <2>16, <3>1, StartIsSerial DEF Begin
    <3>2. CASE kind[r] = "stream"
      BY <2>16, <3>2 DEF Begin
    <3> QED BY <3>1, <3>2 DEF Kinds
  <2>17. CASE StartWorker(r)
    BY <2>17, StartIsSerial, ZenonT(60) DEF StartWorker
  <2>18. CASE CloseFails(r) BY <2>18 DEF CloseFails
  <2>19. CASE Propagate(r) BY <2>19, <1>1 DEF Propagate
  <2> QED
    BY <1>4, <2>1, <2>2, <2>3, <2>4, <2>5, <2>6, <2>7, <2>8, <2>9, <2>10, <2>11, <2>12, <2>13, <2>14, <2>15, <2>16, <2>17, <2>18, <2>19 DEF Route
<1>5. ASSUME NEW r \in Runs, Executed(r) PROVE OnlyEnds
  BY <1>5 DEF Executed
<1>6. ASSUME NEW r \in Runs, HangUp(r) \/ Desert(r) PROVE OnlyEnds
  BY <1>6 DEF HangUp, Desert
<1>7. ASSUME NEW r \in Runs, CancelRequest(r) PROVE OnlyEnds
  BY <1>7 DEF CancelRequest
<1>8. ASSUME NEW r \in Runs, CancelSparkJobs(r) PROVE OnlyEnds
  BY <1>8 DEF CancelSparkJobs
<1>9. CASE Kill
  <2> SUFFICES OnlyEnds
    BY OnlyEndsIsEnd
  <2> QED
    BY <1>9 DEF Kill
<1>10. CASE UNCHANGED vars
  BY <1>10 DEF vars
<1> QED
  BY <1>2, <1>3, <1>4, <1>5, <1>6, <1>7, <1>8, <1>9, <1>10, OnlyEndsIsEnd DEF Next

\* Among the runs whose clients stay, the run slot implements serial execution: the
\* exclusion the framework's shared session and stores rely on.
THEOREM SlotIsSerial == Spec => RunsAreSerial
<1>1. Init => Serial!Init
  BY DEF Init, Serial!Init, State, Working, Stuck, Over
<1>2. SlotInv /\ AttendedInv /\ [Next]_vars => AttendedInv'
  BY AttendedStep
<1>3. SlotInv /\ AttendedInv /\ [Next]_vars
        => [Serial!Next]_([r \in Runs |-> State(r)])
  BY SerialStep
<1> QED
  BY <1>1, <1>2, <1>3, AttendedInit, SlotInvariant, PTL
  DEF Spec, RunsAreSerial, Serial!Spec

-----------------------------------------------------------------------------
(***************************************************************************)
(* The history. RowsAgree says nothing of the rows a route has still to    *)
(* close: the phase of the route says which these are, and a verdict stays *)
(* what it was between the two writes because the flag is read once and    *)
(* the execution is over. A client that leaves takes the route past them.  *)
(***************************************************************************)
Unclosed(r) ==
  \/ pc[r] \in {"idle", "refused", "readFlag", "closeJob"} \union Setup \union Running \union Stuck
  \/ kind[r] = "sync" /\ pc[r] \in Leaving

HistoryInv ==
  \A r \in Runs :
    /\ worker[r] = "finished" => outcome[r] # "none"
    /\ Unclosed(r) => ~Closed(jobRow[r]) /\ ~Closed(runRow[r])
    /\ pc[r] = "closeRun" => jobRow[r] = Verdict(r) /\ ~Closed(runRow[r])
    /\ pc[r] \in {"settle", "charge"} => runRow[r] = Verdict(r)
    /\ hold[r] = "none" => pc[r] \in {"idle", "refused", "admit", "broken", "killed"}
    /\ pc[r] = "charge" => hold[r] = "released"
    /\ r \in charged => pc[r] \in {"result", "done", "killed"} \union Leaving /\ ~Unclosed(r)

HistoryWhole == SlotInv /\ AttendedInv /\ HistoryInv /\ RowsAgree

(***************************************************************************)
(* Cancellation. The flag that is up belongs to an accepted cancellation,  *)
(* only runs past their begin can be accepted, and an abort that reaches   *)
(* the work of a run whose client stayed finds the run it was meant for    *)
(* past its execution, since the one at work holds the lock.               *)
(***************************************************************************)
CancelInv ==
  /\ active.cancelled => active.run \in accepted
  /\ aborting \subseteq accepted
  /\ \A r \in accepted : pc[r] \notin {"idle", "refused", "broken"} \union Setup
  /\ \A r \in Runs :
       /\ r \in accepted /\ pc[r] \in Running \union {"readFlag"} => active.cancelled
       /\ seen[r] \/ "cancelled" \in {jobRow[r], runRow[r]} => r \in accepted
       /\ \A s \in abortedBy[r] :
            s \in accepted /\ (s = r \/ r \in left \/ pc[s] \notin Running \/ worker[s] = "finished")

LEMMA HistoryInit == Init => HistoryInv /\ RowsAgree
  BY DEF Init, HistoryInv, RowsAgree, Unclosed, Closed, Setup, Running, Stuck, Leaving

\* What a step does to the two rows of every execution: a closed one stays.
RowsStay ==
  \A r \in Runs :
    /\ Closed(runRow[r]) => runRow'[r] = runRow[r]
    /\ Closed(jobRow[r]) => jobRow'[r] = jobRow[r]

LEMMA HistoryStep ==
  ASSUME HistoryWhole, [Next]_vars
  PROVE  HistoryInv' /\ RowsAgree' /\ RowsStay
<1> DEFINE Goal == HistoryInv' /\ RowsAgree' /\ RowsStay
<1> SUFFICES Goal
  OBVIOUS
<1> USE DEF HistoryWhole, SlotInv, TypeOK, RouteMatchesKind, AttendedInv, Before, Behind,
            HistoryInv, RowsAgree, RowsStay, Unclosed, Closed, Verdict, Statuses, Outcomes,
            Kinds, Setup, Running, Leaving, Closing, Stuck, Working,
            requestVars, slotVars, bookVars, rowVars, At, GoTo
<1>1. ASSUME NEW r \in Runs, Acquire(r) PROVE Goal
  BY <1>1 DEF Acquire
<1>2. ASSUME NEW r \in Runs, RefuseBusy(r) PROVE Goal
  BY <1>2 DEF RefuseBusy
<1>3. ASSUME NEW r \in Runs, Route(r) PROVE Goal
  <2>1. CASE Admit(r) BY <2>1 DEF Admit
  <2>2. CASE RefuseUnpaid(r) BY <2>2 DEF RefuseUnpaid
  <2>3. CASE OpenRun(r) BY <2>3 DEF OpenRun
  <2>4. CASE OpenJob(r) BY <2>4 DEF OpenJob
  <2>5. CASE OpenFails(r) BY <2>5 DEF OpenFails
  <2>6. CASE Begin(r) BY <2>6 DEF Begin
  <2>7. CASE StartWorker(r) BY <2>7 DEF StartWorker
  <2>8. CASE SeeSentinel(r) BY <2>8 DEF SeeSentinel
  <2>9. CASE ReadFlag(r) BY <2>9 DEF ReadFlag, Step, After
  <2>10. CASE CloseJob(r) BY <2>10 DEF CloseJob, Step, After
  <2>11. CASE CloseRun(r) BY <2>11 DEF CloseRun, Step, After
  <2>12. CASE SettleHold(r) BY <2>12 DEF SettleHold, Step, After, Released
  <2>13. CASE Charge(r) BY <2>13 DEF Charge, Step, After
  <2>14. CASE SendResult(r) BY <2>14 DEF SendResult, Step, After
  <2>15. CASE EndActive(r) BY <2>15 DEF EndActive, Step, After
  <2>16. CASE Unlock(r) BY <2>16 DEF Unlock, Step, After
  <2>17. CASE GiveBack(r) BY <2>17 DEF GiveBack, Step, After, Released
  <2>18. CASE CloseFails(r) BY <2>18 DEF CloseFails
  <2>19. CASE Propagate(r) BY <2>19 DEF Propagate, Step, After
  <2> QED
    BY <1>3, <2>1, <2>2, <2>3, <2>4, <2>5, <2>6, <2>7, <2>8, <2>9, <2>10, <2>11, <2>12,
       <2>13, <2>14, <2>15, <2>16, <2>17, <2>18, <2>19 DEF Route
<1>4. ASSUME NEW r \in Runs, Executed(r) PROVE Goal
  <2>1. pc[r] \in {"execute", "stream"} \/ r \in left
    BY <1>4 DEF Executed, WorkerIsAttended
  <2>2. PICK o \in Outcomes \ {"none"} : outcome' = [outcome EXCEPT ![r] = o]
    BY <1>4 DEF Executed
  <2>3. CASE kind[r] = "sync"
    <3>1. pc[r] = "execute" /\ pc' = [pc EXCEPT ![r] = "readFlag"] /\ UNCHANGED kind
      BY <1>4, <2>1, <2>3 DEF Executed
    <3> QED
      BY <1>4, <2>2, <3>1 DEF Executed
  <2>4. CASE kind[r] = "stream"
    <3>1. pc[r] \notin Closing /\ UNCHANGED requestVars
      BY <1>4, <2>1, <2>4 DEF Executed
    <3> QED
      BY <1>4, <2>2, <3>1 DEF Executed
  <2> QED
    BY <2>3, <2>4
<1>5. ASSUME NEW r \in Runs, HangUp(r) \/ Desert(r) PROVE Goal
  BY <1>5 DEF HangUp, Desert
<1>6. ASSUME NEW r \in Runs, CancelRequest(r) PROVE Goal
  BY <1>6 DEF CancelRequest
<1>7. ASSUME NEW r \in Runs, CancelSparkJobs(r) PROVE Goal
  BY <1>7 DEF CancelSparkJobs
<1>8. CASE Kill
  <2>1. ASSUME NEW r \in Runs
        PROVE  /\ pc'[r] \in {"killed", pc[r]} /\ (pc'[r] = "killed" \/ pc[r] \in Over \ Stuck)
               /\ worker'[r] \in {"none", worker[r]}
               /\ hold'[r] = IF hold[r] = "open" THEN "released" ELSE hold[r]
    BY <1>8 DEF Kill, Released
  <2>2. HistoryInv'
    BY <1>8, <2>1 DEF Kill, Over
  <2> QED
    BY <1>8, <2>1, <2>2 DEF Kill
<1>9. CASE UNCHANGED vars
  BY <1>9 DEF vars
<1> QED
  BY <1>1, <1>2, <1>3, <1>4, <1>5, <1>6, <1>7, <1>8, <1>9 DEF Next

LEMMA CancelInit == Init => CancelInv
<1> SUFFICES ASSUME Init PROVE CancelInv
  OBVIOUS
<1>1. \A r \in Runs : ~seen[r]
  BY Zenon DEF Init
<1>2. ~active.cancelled
  BY Zenon DEF Init
<1> QED
  BY <1>1, <1>2 DEF Init, CancelInv

LEMMA CancelStep ==
  ASSUME SlotInv, AttendedInv, CancelInv, [Next]_vars
  PROVE  CancelInv'
<1> USE RunsAssumption
    DEF SlotInv, TypeOK, RouteMatchesKind, WorkerIsAttended, ActiveNamesTheHolder,
        AttendedInv, Before, Behind, CancelInv, Verdict, Outcomes, Kinds, Setup, Running,
        Leaving, Closing, Stuck, IsNamed, ClosesUnderLock, Working, requestVars, slotVars,
        bookVars, rowVars, cancelVars, At, GoTo
<1>1. ASSUME NEW r \in Runs, Acquire(r) PROVE CancelInv'
  BY <1>1 DEF Acquire
<1>2. ASSUME NEW r \in Runs, RefuseBusy(r) PROVE CancelInv'
  BY <1>2 DEF RefuseBusy
<1>3. ASSUME NEW r \in Runs, Route(r) PROVE CancelInv'
  <2>1. CASE Admit(r) BY <2>1 DEF Admit
  <2>2. CASE RefuseUnpaid(r) BY <2>2 DEF RefuseUnpaid
  <2>3. CASE OpenRun(r) BY <2>3 DEF OpenRun
  <2>4. CASE OpenJob(r) BY <2>4 DEF OpenJob
  <2>5. CASE OpenFails(r) BY <2>5 DEF OpenFails
  <2>6. CASE Begin(r)
    <3>1. \A s \in Runs \ {r} : pc[s] \notin Running \union {"readFlag"}
      BY <2>6 DEF Begin, OneHolder, HoldsLock
    <3>2. pc'[r] \in {"execute", "response"} /\ \A s \in Runs \ {r} : pc'[s] = pc[s]
      BY <2>6 DEF Begin
    <3>3. ~active'.cancelled /\ r \notin accepted
      BY <2>6 DEF Begin
    <3> QED
      BY <2>6, <3>1, <3>2, <3>3 DEF Begin
  <2>7. CASE StartWorker(r) BY <2>7 DEF StartWorker
  <2>8. CASE SeeSentinel(r) BY <2>8 DEF SeeSentinel
  <2>9. CASE ReadFlag(r) BY <2>9 DEF ReadFlag, Step, After
  <2>10. CASE CloseJob(r) BY <2>10 DEF CloseJob, Step, After
  <2>11. CASE CloseRun(r) BY <2>11 DEF CloseRun, Step, After
  <2>12. CASE SettleHold(r) BY <2>12 DEF SettleHold, Step, After
  <2>13. CASE Charge(r) BY <2>13 DEF Charge, Step, After
  <2>14. CASE SendResult(r) BY <2>14 DEF SendResult, Step, After
  <2>15. CASE EndActive(r) BY <2>15 DEF EndActive, Step, After
  <2>16. CASE Unlock(r) BY <2>16 DEF Unlock, Step, After
  <2>17. CASE GiveBack(r) BY <2>17 DEF GiveBack, Step, After
  <2>18. CASE CloseFails(r) BY <2>18 DEF CloseFails
  <2>19. CASE Propagate(r) BY <2>19 DEF Propagate, Step, After
  <2> QED
    BY <1>3, <2>1, <2>2, <2>3, <2>4, <2>5, <2>6, <2>7, <2>8, <2>9, <2>10, <2>11, <2>12,
       <2>13, <2>14, <2>15, <2>16, <2>17, <2>18, <2>19 DEF Route
<1>4. ASSUME NEW r \in Runs, Executed(r) PROVE CancelInv'
  BY <1>4 DEF Executed
<1>5. ASSUME NEW r \in Runs, HangUp(r) \/ Desert(r) PROVE CancelInv'
  BY <1>5 DEF HangUp, Desert
<1>6. ASSUME NEW r \in Runs, CancelRequest(r) PROVE CancelInv'
  BY <1>6 DEF CancelRequest
<1>7. ASSUME NEW r \in Runs, CancelSparkJobs(r) PROVE CancelInv'
  BY <1>7 DEF CancelSparkJobs, OneHolder, HoldsLock
<1>8. CASE Kill
  BY <1>8 DEF Kill, Over
<1>9. CASE UNCHANGED vars
  BY <1>9 DEF vars
<1> QED
  BY <1>1, <1>2, <1>3, <1>4, <1>5, <1>6, <1>7, <1>8, <1>9 DEF Next

-----------------------------------------------------------------------------
LEMMA HistoryInvariant == Spec => []HistoryWhole
<1>1. SlotInv /\ AttendedInv /\ [Next]_vars => AttendedInv'
  BY AttendedStep
<1>2. HistoryWhole /\ [Next]_vars => HistoryInv' /\ RowsAgree'
  BY HistoryStep
<1>3. SlotInv /\ AttendedInv /\ HistoryInv /\ RowsAgree <=> HistoryWhole
  BY DEF HistoryWhole
<1> QED
  BY <1>1, <1>2, <1>3, AttendedInit, HistoryInit, SlotInvariant, PTL DEF Spec

\* The history tells one story of an execution: its two rows close with one verdict,
\* nothing is charged for what is not shown as over, and no worker that comes late, no
\* cancellation and no restart writes a closed row again.
THEOREM HistoryKeeps == Spec => HistoryIsKept
<1>1. HistoryWhole => RowsAgree
  BY DEF HistoryWhole
<1>2. HistoryWhole /\ [Next]_vars => [RowsStay]_rowVars
  BY HistoryStep
<1>3. HistoryWhole /\ [Next]_vars =>
        [\A r \in Runs :
           /\ Closed(runRow[r]) => runRow'[r] = runRow[r]
           /\ Closed(jobRow[r]) => jobRow'[r] = jobRow[r]]_rowVars
  BY <1>2 DEF RowsStay
<1> QED
  BY <1>1, <1>3, HistoryInvariant, PTL DEF Spec, HistoryIsKept, ClosedForGood

\* A cancellation accepted before the route reads the flag is there when it does, a row
\* says "cancelled" of nobody else, and the abort that follows hits another run's work
\* only once its own run is past its execution or the other was left behind.
THEOREM CancelsAreHeard == Spec => []CancellationIsHeard
<1>1. SlotInv /\ CancelInv => CancellationIsHeard
  BY DEF SlotInv, CancelInv, CancellationIsHeard, ActiveNamesTheHolder, IsNamed, TypeOK, Running
<1>2. SlotInv /\ AttendedInv /\ CancelInv /\ [Next]_vars => AttendedInv' /\ CancelInv'
  BY AttendedStep, CancelStep
<1> QED
  BY <1>1, <1>2, AttendedInit, CancelInit, SlotInvariant, PTL DEF Spec

=============================================================================
