----------------------------- MODULE Schedules -----------------------------
(***************************************************************************)
(* Scheduled runs (main.py, _sweep_schedules and what it calls). A sweep   *)
(* takes the time once and goes through the schedules of the library: it   *)
(* reads when each last fired (its anchor), works out what is due, claims  *)
(* it by moving the anchor and runs it to its end before it looks at the   *)
(* next. The timer sweeps over and over; a person may start a sweep at any *)
(* moment. All runs, of sweeps and of persons, share the run slot: a       *)
(* scheduled run that finds it taken is given up, never queued. A restart  *)
(* of the process forgets the anchors.                                     *)
(***************************************************************************)
EXTENDS CronTimes, Sequences

CONSTANTS
  Library,     \* the schedules, in the order the library lists them
  Sweepers,    \* the threads that sweep
  Timer,       \* the one that never stops sweeping
  Grace,       \* SPARQUET_STUDIO_SCHEDULER_GRACE
  MaxTime,     \* bound: the last instant
  MaxRestarts, \* bound on restarts of the process
  Person       \* whoever runs something else

Keys == {Library[i] : i \in DOMAIN Library}

\* An empty library leaves nothing to sweep; cron and clock are known from instant 0 on, and
\* the first showing of a repeated minute is not before it.
ASSUME LibraryAssumption == Library \in Seq(Keys) /\ Library # <<>>
ASSUME ClockAssumption ==
  \A k \in Keys :
    /\ Cron[k] \subseteq Nat
    /\ Zone[k] \in [before : Int, after : Int, at : Nat]
    /\ Zone[k].before - Zone[k].after <= Zone[k].at
ASSUME BoundAssumption == MaxTime \in Nat /\ MaxRestarts \in Nat
ASSUME TimerAssumption ==
  Timer \in Sweepers /\ Nothing \notin Sweepers /\ Person \notin Sweepers \union {Nothing}
ASSUME GraceAssumption == Grace \in Nat

VARIABLES
  now,      \* the clock
  up,       \* the process runs
  started,  \* _SCHEDULER_STARTED_AT
  anchors,  \* _SCHEDULE_ANCHORS
  slot,     \* who has the run lock
  pc, asOf, index, due, read,  \* of each sweep: its step, `now`, schedule, `due`, anchor read
  restarts,
  lastDue   \* the occurrence each schedule was last claimed for, by whatever process

sweepVars == <<pc, asOf, index, due, read>>
scheduleVars == <<now, up, started, anchors, slot, sweepVars, restarts, lastDue>>

ScheduleInit ==
  /\ now = 0 /\ up = TRUE /\ started = 0 /\ restarts = 0
  /\ anchors = [k \in Keys |-> Nothing]
  /\ slot = Nothing
  /\ pc = [s \in Sweepers |-> "idle"]
  /\ asOf = [s \in Sweepers |-> 0] /\ index = [s \in Sweepers |-> 1]
  /\ due = [s \in Sweepers |-> Nothing] /\ read = [s \in Sweepers |-> Nothing]
  /\ lastDue = [k \in Keys |-> Nothing]

Key(s) == Library[index[s]]
Goto(s, where) == pc' = [pc EXCEPT ![s] = where]

\* On to the next schedule; after the last the sweep is over.
NextSchedule(s) ==
  /\ IF index[s] = Len(Library)
     THEN /\ Goto(s, "idle")
          /\ index' = [index EXCEPT ![s] = 1] /\ asOf' = [asOf EXCEPT ![s] = 0]
     ELSE /\ Goto(s, "look")
          /\ index' = [index EXCEPT ![s] = @ + 1] /\ UNCHANGED asOf
  /\ due' = [due EXCEPT ![s] = Nothing] /\ read' = [read EXCEPT ![s] = Nothing]

-----------------------------------------------------------------------------
Tick ==
  /\ now < MaxTime
  /\ now' = now + 1
  /\ UNCHANGED <<up, started, anchors, slot, sweepVars, restarts, lastDue>>

\* The time of the whole sweep is taken here.
Begin(s) ==
  /\ up /\ pc[s] = "idle"
  /\ asOf' = [asOf EXCEPT ![s] = now]
  /\ Goto(s, "look")
  /\ UNCHANGED <<now, up, started, anchors, slot, index, due, read, restarts, lastDue>>

\* Mutant of Anchor: before its first run in this process a schedule has only the grace.
AnchorForgets(k) == IF anchors[k] = Nothing THEN 0 ELSE anchors[k]

\* What has not fired in this process counts as fired when the process started.
Anchor(k) == IF anchors[k] = Nothing THEN started ELSE anchors[k]

\* due_at for whatever a sweep may find.
DueTable ==
  [k \in Keys |-> [a \in 0..MaxTime |-> [t \in 0..MaxTime |-> due_at(k, a, t, Grace)]]]

\* The anchor is read under the lock, the decision made outside it.
Look(s) ==
  /\ pc[s] = "look"
  /\ LET k == Key(s)
         fire == DueTable[k][Anchor(k)][asOf[s]]
     IN  IF fire = Nothing
         THEN NextSchedule(s)
         ELSE /\ due' = [due EXCEPT ![s] = fire]
              /\ read' = [read EXCEPT ![s] = anchors[k]]
              /\ Goto(s, "claim") /\ UNCHANGED <<asOf, index>>
  /\ UNCHANGED <<now, up, started, anchors, slot, restarts, lastDue>>

\* It is written down as fired before it runs, with the time it is by now.
Claim(s) ==
  /\ pc[s] = "claim"
  /\ anchors' = [anchors EXCEPT ![Key(s)] = now]
  /\ lastDue' = [lastDue EXCEPT ![Key(s)] = due[s]]
  /\ Goto(s, "fire")
  /\ UNCHANGED <<now, up, started, slot, asOf, index, due, read, restarts>>

\* The run route is called in the thread of the sweep.
Fire(s) ==
  /\ pc[s] = "fire"
  /\ slot = Nothing
  /\ slot' = s
  /\ Goto(s, "running")
  /\ UNCHANGED <<now, up, started, anchors, asOf, index, due, read, restarts, lastDue>>

\* Mutant of Refused: a run that finds the slot taken is waited for.
RefusedOnlyIfFree(s) ==
  /\ pc[s] = "fire" /\ slot = Nothing
  /\ NextSchedule(s)
  /\ UNCHANGED <<now, up, started, anchors, slot, restarts, lastDue>>

\* 409 while something runs, or at any time no account, no file, no credit: the
\* occurrence is spent.
Refused(s) ==
  /\ pc[s] = "fire"
  /\ NextSchedule(s)
  /\ UNCHANGED <<now, up, started, anchors, slot, restarts, lastDue>>

Finish(s) ==
  /\ pc[s] = "running"
  /\ slot' = Nothing
  /\ NextSchedule(s)
  /\ UNCHANGED <<now, up, started, anchors, restarts, lastDue>>

PersonRuns ==
  /\ up /\ slot = Nothing /\ slot' = Person
  /\ UNCHANGED <<now, up, started, anchors, sweepVars, restarts, lastDue>>

PersonEnds ==
  /\ slot = Person /\ slot' = Nothing
  /\ UNCHANGED <<now, up, started, anchors, sweepVars, restarts, lastDue>>

Down ==
  /\ up /\ restarts < MaxRestarts
  /\ up' = FALSE /\ restarts' = restarts + 1
  /\ slot' = Nothing
  /\ anchors' = [k \in Keys |-> Nothing]
  /\ pc' = [s \in Sweepers |-> "idle"]
  /\ asOf' = [s \in Sweepers |-> 0] /\ index' = [s \in Sweepers |-> 1]
  /\ due' = [s \in Sweepers |-> Nothing] /\ read' = [s \in Sweepers |-> Nothing]
  /\ UNCHANGED <<now, started, lastDue>>

Up ==
  /\ ~up /\ up' = TRUE
  /\ started' = now
  /\ UNCHANGED <<now, anchors, slot, sweepVars, restarts, lastDue>>

Sweep(s) == Look(s) \/ Claim(s) \/ Fire(s) \/ Refused(s) \/ Finish(s)

ScheduleNext ==
  \/ Tick \/ PersonRuns \/ PersonEnds \/ Down \/ Up
  \/ \E s \in Sweepers : Begin(s) \/ Sweep(s)

\* The timer sweeps again and again, a sweep that has begun goes on, what it runs
\* ends, and a process that is down comes up. The clock, persons and crashes owe nothing.
ScheduleSpec ==
  /\ ScheduleInit /\ [][ScheduleNext]_scheduleVars
  /\ WF_scheduleVars(Up) /\ WF_scheduleVars(Begin(Timer))
  /\ \A s \in Sweepers : WF_scheduleVars(Sweep(s))

-----------------------------------------------------------------------------
Steps == {"idle", "look", "claim", "fire", "running"}

ScheduleTypeOK ==
  /\ now \in 0..MaxTime /\ started \in 0..now /\ up \in BOOLEAN
  /\ restarts \in 0..MaxRestarts
  /\ anchors \in [Keys -> {Nothing} \union started..now]
  /\ lastDue \in [Keys -> {Nothing} \union 0..now]
  /\ pc \in [Sweepers -> Steps] /\ index \in [Sweepers -> DOMAIN Library]
  /\ asOf \in [Sweepers -> 0..now]
  /\ due \in [Sweepers -> {Nothing} \union 0..now]
  /\ read \in [Sweepers -> {Nothing} \union 0..now]
  /\ slot \in Sweepers \union {Nothing, Person}
  /\ \A s \in Sweepers : pc[s] = "running" <=> slot = s

Claims(s) == pc[s] = "claim" /\ pc'[s] = "fire"

\* The occurrences a schedule runs for only move forward, across sweeps, long runs
\* and restarts, so none is run twice. Two ways out: a sweep whose look at the
\* anchor is stale by now, and the repetition of an hour.
FiresMoveForward ==
  /\ []ScheduleTypeOK
  /\ [][\A s \in Sweepers : Claims(s) =>
          \/ due[s] > lastDue[Key(s)]
          \/ read[s] # anchors[Key(s)]
          \/ \E t \in lastDue[Key(s)]..asOf[s] : Repeated(Key(s), t)]_scheduleVars

\* Every occurrence while the process is up is answered: a run begins for it or after
\* it, or it is refused, or it grows older than the grace, or the process restarts.
\* Nobody who keeps the slot can hold this up.
OccurrencesAreAnswered ==
  \A k \in Keys : \A o \in Occurrences(k, MaxTime) :
    (now >= o /\ started < o) ~>
      (anchors[k] >= o \/ now >= o + Grace \/ started >= o)
=============================================================================
