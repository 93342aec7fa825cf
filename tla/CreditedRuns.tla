---------------------------- MODULE CreditedRuns ----------------------------
(***************************************************************************)
(* The credit store as the run routes of main.py drive it. A run reserves  *)
(* while it holds the run lock, and from there the routes differ:          *)
(*                                                                         *)
(*   sync    POST /run gives the lock back, then the hold, and settles the *)
(*           account only after the history is written                     *)
(*   stream  POST /run/stream settles first and gives the lock back last   *)
(*                                                                         *)
(* A run whose execution raised is never charged, it only gives back its   *)
(* hold. The phases of a route in between are those of module RunSlot.     *)
(***************************************************************************)
EXTENDS Credits

CONSTANTS
  RouteOf,  \* the route that takes each run
  NoRun     \* nobody has the run lock

ASSUME RouteAssumption == RouteOf \in [Runs -> {"sync", "stream"}]
ASSUME NoRunAssumption == NoRun \notin Runs

VARIABLE running  \* the run that has _RUN_LOCK

runVars == <<vars, running>>

InitRuns == Init /\ running = NoRun

AdmitRun(r, writes) ==
  /\ running = NoRun
  /\ running' = r
  /\ Reserve(r, writes)

\* The lock is taken, the reservation refused, the lock given back.
RefuseRun(r, writes) ==
  /\ running = NoRun
  /\ ReserveRefused(r, writes)
  /\ UNCHANGED running

Leave(r) ==
  /\ running = r
  /\ running' = NoRun
  /\ UNCHANGED vars

ReleaseRun(r) ==
  /\ RouteOf[r] = "sync" => running # r
  /\ Release(r)
  /\ UNCHANGED running

ChargeRun(r, writes) ==
  /\ RouteOf[r] = "sync" <=> running # r
  /\ Charge(r, writes)
  /\ UNCHANGED running

\* What happens to an account while runs are in progress.
Meanwhile ==
  /\ \/ \E t \in Teams : Account(t) \/ RecordAssist(t) \/ \E n \in Grants : Grant(t, n)
     \/ MonthTurns
  /\ UNCHANGED running

RestartRuns ==
  /\ Restart
  /\ running' = NoRun

NextRuns ==
  \/ \E r \in Runs, w \in 1..MaxWrites : AdmitRun(r, w) \/ RefuseRun(r, w)
  \/ \E r \in Runs : Leave(r) \/ ReleaseRun(r) \/ \E w \in 0..MaxWrites : ChargeRun(r, w)
  \/ Meanwhile
  \/ RestartRuns

SpecRuns == InitRuns /\ [][NextRuns]_runVars

-----------------------------------------------------------------------------
\* Nobody but runs has taken anything from an account: no turn of the assistant was
\* billed to it and no administrator corrected it downwards. Neither looks at `held`.
OnlyRunsSpend(entries) ==
  \A i \in DOMAIN entries : entries[i].reason = "run" \/ entries[i].amount >= 0

\* A run that was admitted with a hold, and wrote no more than it declared, pays in
\* full: what it reserved is still there when it is charged. The admission check is
\* worth this much, and the order in which a route gives back, settles and lets the
\* next run in decides whether it is.
HoldCoversRun ==
  [][\A r \in Runs :
       LET t == Payer[r]
           e == Last(ledger'[t])
       IN  /\ request[r] = "admitted" /\ request'[r] = "charged"
           /\ ledger'[t] # ledger[t] /\ OnlyRunsSpend(ledger[t])
           /\ -e.amount <= reservation[r].amount
           => e.short = 0]_vars

=============================================================================
