------------------------------ MODULE Session ------------------------------
(***************************************************************************)
(* The one Spark session of the runner (main.py, _ensure_framework and     *)
(* those who call it; sparquet/core/context.py, SparkContextManager). Every *)
(* request first makes sure the session has the connectors it needs. If it *)
(* lacks one, the session is stopped, its JVM shut down and a new one      *)
(* built, unless a run has the run lock or a query counted itself in.      *)
(* Requests obtain the session lazily and hold on to what they obtained:   *)
(*                                                                         *)
(*   query   ensure, obtain, count itself in, open its source, run its     *)
(*           SQL, count itself out                                         *)
(*   schema  ensure, count itself in, obtain, read, count itself out       *)
(*   parse   obtain from whatever framework there is (/query/validate)     *)
(*   run     under the run lock, for each stage: ensure, obtain, execute   *)
(*                                                                         *)
(* A session is what its creation-time configurations were; once it is     *)
(* stopped, or its JVM shut down, it is dead for whoever still has it. The *)
(* lock of module RunSlot is one variable here.                            *)
(***************************************************************************)
EXTENDS Integers, Sequences, FiniteSets

CONSTANTS
  Requests,
  Kind,     \* what each request is
  Wants,    \* the creation-time configs each request needs, stage by stage
  NoOne

Kinds == {"query", "schema", "parse", "run"}

ASSUME RequestsAssumption == IsFiniteSet(Requests)
ASSUME NoOneAssumption == NoOne \notin Requests
ASSUME KindAssumption == Kind \in [Requests -> Kinds]

Configs == UNION {UNION {Wants[p][i] : i \in DOMAIN Wants[p]} : p \in Requests}

ASSUME ConfigsAssumption == \A configs \in SUBSET Configs : configs # NoOne
ASSUME WantsAssumption ==
  \A p \in Requests : Wants[p] \in Seq(SUBSET Configs) /\ Len(Wants[p]) > 0

VARIABLES
  framework,   \* configs of _framework, NoOne while there is none
  session,     \* SparkContextManager._session: "none", "live", or "dead"
  built,       \* the configs it was built with
  sessionLock, \* who has _SESSION_LOCK
  runLock,     \* who has _RUN_LOCK
  count,       \* _QUERY_COUNT
  pc,
  stage,       \* the stage a run is at
  mine,        \* configs of the framework a request was given
  spark,       \* the session a request obtained, as it is now
  meddled,     \* a session was built in the middle of a restart or from an old framework
  late         \* requests that counted themselves in after a restart was decided

sessionVars == <<framework, session, built, meddled>>
lockVars    == <<sessionLock, runLock>>
vars == <<sessionVars, lockVars, count, pc, stage, mine, spark, late>>

Init ==
  /\ framework = NoOne /\ session = "none" /\ built = {} /\ meddled = FALSE
  /\ sessionLock = NoOne /\ runLock = NoOne /\ count = 0 /\ late = {}
  /\ pc = [p \in Requests |-> "asked"]
  /\ stage = [p \in Requests |-> 1]
  /\ mine = [p \in Requests |-> {}]
  /\ spark = [p \in Requests |-> "none"]

Wanted(p)    == Wants[p][stage[p]]
LastStage(p) == stage[p] = Len(Wants[p])
Goto(p, where) == pc' = [pc EXCEPT ![p] = where]

\* get_or_create, which nothing guards: the session there is, or a new one.
GetOrCreate(configs) ==
  IF session = "none"
  THEN /\ session' = "live"
       /\ built' = configs
       /\ meddled' = \/ meddled
                     \/ \E r \in Requests : pc[r] \in {"release", "rebuild"}
                     \/ ~(framework \subseteq configs)
  ELSE UNCHANGED <<session, built, meddled>>

\* _session_gap of the session GetOrCreate(framework) returns; the configuration of a
\* dead session cannot be read, which counts as no gap.
Gap(p) ==
  CASE session = "none" -> Wanted(p) \ framework
    [] session = "live" -> Wanted(p) \ built
    [] session = "dead" -> {}

AfterEnsure(p) == IF Kind[p] = "schema" THEN "enter" ELSE "obtain"
AfterObtain(p) ==
  CASE Kind[p] = "query"  -> "enter"
    [] Kind[p] = "schema" -> "open"
    [] Kind[p] = "run"    -> "execute"
    [] Kind[p] = "parse"  -> "done"

\* The request ends; a run gives its lock back unless its generator already did.
End(p, how) ==
  /\ Goto(p, how)
  /\ runLock' = IF runLock = p THEN NoOne ELSE runLock

-----------------------------------------------------------------------------
Ask(p) ==
  /\ pc[p] = "asked"
  /\ Kind[p] # "parse"
  /\ \/ Kind[p] = "run" /\ runLock = NoOne /\ runLock' = p
     \/ Kind[p] # "run" /\ UNCHANGED runLock
  /\ Goto(p, "ensure")
  /\ UNCHANGED <<sessionVars, sessionLock, count, stage, mine, spark, late>>

\* /query/validate takes the framework as it stands and no lock at all.
AskParse(p) ==
  /\ pc[p] = "asked" /\ Kind[p] = "parse"
  /\ IF framework = NoOne
     THEN Goto(p, "done") /\ UNCHANGED mine
     ELSE Goto(p, "obtain") /\ mine' = [mine EXCEPT ![p] = framework]
  /\ UNCHANGED <<sessionVars, lockVars, count, stage, spark, late>>

\* _ensure_framework under the session lock, as far as it needs no restart. The
\* first framework is only made: its session is built by whoever obtains it first.
Ensure(p) ==
  /\ pc[p] = "ensure" /\ sessionLock = NoOne
  /\ \/ /\ framework = NoOne
        /\ framework' = Wanted(p)
        /\ UNCHANGED <<session, built, meddled>>
     \/ /\ framework # NoOne /\ Wanted(p) = {}
        /\ UNCHANGED sessionVars
     \/ /\ framework # NoOne /\ Wanted(p) # {}
        /\ GetOrCreate(framework)
        /\ Gap(p) = {}
        /\ UNCHANGED framework
  /\ mine' = [mine EXCEPT ![p] = framework']
  /\ Goto(p, AfterEnsure(p))
  /\ UNCHANGED <<lockVars, count, stage, spark, late>>

\* It lacks something: the session lock is kept from here.
FindGap(p) ==
  /\ pc[p] = "ensure" /\ sessionLock = NoOne
  /\ framework # NoOne /\ Wanted(p) # {}
  /\ GetOrCreate(framework)
  /\ Gap(p) # {}
  /\ sessionLock' = p
  /\ Goto(p, "gap")
  /\ UNCHANGED <<framework, runLock, count, stage, mine, spark, late>>

\* Mutants of Decide: nobody looks at the queries in flight; the run lock is waited
\* for with the session lock in hand.
DecideUncounted(p) ==
  /\ pc[p] = "gap"
  /\ IF Kind[p] = "run" \/ runLock = NoOne
     THEN Goto(p, "stop") /\ (IF Kind[p] = "run" THEN UNCHANGED runLock ELSE runLock' = p)
          /\ UNCHANGED sessionLock
     ELSE End(p, "refused") /\ sessionLock' = NoOne
  /\ UNCHANGED <<sessionVars, count, stage, mine, spark, late>>
DecideWaiting(p) ==
  /\ pc[p] = "gap"
  /\ Kind[p] # "run" => runLock = NoOne
  /\ IF count = 0
     THEN Goto(p, "stop") /\ (IF Kind[p] = "run" THEN UNCHANGED runLock ELSE runLock' = p)
          /\ UNCHANGED sessionLock
     ELSE End(p, "refused") /\ sessionLock' = NoOne
  /\ UNCHANGED <<sessionVars, count, stage, mine, spark, late>>

\* Restart, or refuse (409) while a query is counted or a run has the run lock. The
\* lock is tried, never waited for; a run takes its own for granted, even if its
\* generator has given it back.
Decide(p) ==
  /\ pc[p] = "gap"
  /\ IF count = 0 /\ (Kind[p] = "run" \/ runLock = NoOne)
     THEN Goto(p, "stop") /\ (IF Kind[p] = "run" THEN UNCHANGED runLock ELSE runLock' = p)
          /\ UNCHANGED sessionLock
     ELSE End(p, "refused") /\ sessionLock' = NoOne
  /\ UNCHANGED <<sessionVars, count, stage, mine, spark, late>>

\* Everything the old JVM served is dead, for those who have it too.
Killed(state) == IF state = "live" THEN "dead" ELSE state
KillSession ==
  /\ spark' = [r \in Requests |-> Killed(spark[r])]

\* Mutant of Stop: what the old session could open is not asked for again.
StopForgets(p) ==
  /\ pc[p] = "stop"
  /\ mine' = [mine EXCEPT ![p] = Wanted(p)]
  /\ session' = "none"
  /\ KillSession
  /\ Goto(p, "release")
  /\ UNCHANGED <<framework, built, meddled, lockVars, count, stage, late>>

\* SparkContextManager.stop(); what is rebuilt has what the old session had as well.
Stop(p) ==
  /\ pc[p] = "stop"
  /\ mine' = [mine EXCEPT ![p] = built \union Wanted(p)]
  /\ session' = "none"
  /\ KillSession
  /\ Goto(p, "release")
  /\ UNCHANGED <<framework, built, meddled, lockVars, count, stage, late>>

\* _release_jvm: a session that was built meanwhile dies, but stays the session.
ReleaseJvm(p) ==
  /\ pc[p] = "release"
  /\ session' = Killed(session)
  /\ KillSession
  /\ Goto(p, "rebuild")
  /\ UNCHANGED <<framework, built, meddled, lockVars, count, stage, mine, late>>

\* The new framework and its session, unless somebody built one meanwhile.
Rebuild(p) ==
  /\ pc[p] = "rebuild"
  /\ framework' = mine[p]
  /\ IF session = "none"
     THEN session' = "live" /\ built' = mine[p]
     ELSE UNCHANGED <<session, built>>
  /\ sessionLock' = NoOne
  /\ runLock' = IF Kind[p] = "run" THEN runLock ELSE NoOne
  /\ Goto(p, AfterEnsure(p))
  /\ UNCHANGED <<meddled, count, stage, mine, spark, late>>

\* A session with the merged configurations cannot be built: the framework is the
\* new one, the session is left to the next request.
RebuildFails(p) ==
  /\ pc[p] = "rebuild" /\ session = "none"
  /\ framework' = mine[p]
  /\ sessionLock' = NoOne
  /\ End(p, "refused")
  /\ UNCHANGED <<session, built, meddled, count, stage, mine, spark, late>>

\* framework.spark, outside every lock; for a run Pipeline._execute, which adds
\* what the pipeline declares.
Obtain(p) ==
  /\ pc[p] = "obtain"
  /\ GetOrCreate(IF Kind[p] = "run" THEN mine[p] \union Wanted(p) ELSE mine[p])
  /\ spark' = [spark EXCEPT ![p] = session']
  /\ mine' = [mine EXCEPT ![p] = {}]
  /\ Goto(p, AfterObtain(p))
  /\ UNCHANGED <<framework, lockVars, count, stage, late>>

\* A session has to be built and cannot be.
ObtainFails(p) ==
  /\ pc[p] = "obtain" /\ session = "none"
  /\ IF Kind[p] = "schema" THEN Goto(p, "leave") /\ UNCHANGED runLock ELSE End(p, "refused")
  /\ UNCHANGED <<sessionVars, sessionLock, count, stage, mine, spark, late>>

\* _query_enter.
Enter(p) ==
  /\ pc[p] = "enter"
  /\ count' = count + 1
  /\ late' = IF \E r \in Requests : pc[r] = "stop" THEN late \union {p} ELSE late
  /\ Goto(p, IF Kind[p] = "schema" THEN "obtain" ELSE "open")
  /\ UNCHANGED <<sessionVars, lockVars, stage, mine, spark>>

\* A schema is read, the source of a query opened. Neither works on a dead session.
Open(p) ==
  /\ pc[p] = "open"
  /\ Goto(p, IF spark[p] = "live" /\ Kind[p] = "query" THEN "sql" ELSE "leave")
  /\ UNCHANGED <<sessionVars, lockVars, count, stage, mine, spark, late>>

\* The statement runs, on whatever became of the session.
Sql(p) ==
  /\ pc[p] = "sql"
  /\ Goto(p, "leave")
  /\ UNCHANGED <<sessionVars, lockVars, count, stage, mine, spark, late>>

\* Mutant of Leave: a query that fails is never counted out.
LeaveIfWell(p) ==
  /\ pc[p] = "leave"
  /\ count' = IF spark[p] = "dead" THEN count ELSE count - 1
  /\ Goto(p, "done")
  /\ UNCHANGED <<sessionVars, lockVars, stage, mine, spark, late>>

\* _query_exit, in the `finally`.
Leave(p) ==
  /\ pc[p] = "leave"
  /\ count' = count - 1
  /\ Goto(p, "done")
  /\ UNCHANGED <<sessionVars, lockVars, stage, mine, spark, late>>

\* One stage of a run; a stage whose session died fails, and the run stops there.
Execute(p) ==
  /\ pc[p] = "execute"
  /\ IF spark[p] = "dead" THEN End(p, "refused") /\ UNCHANGED stage
     ELSE IF LastStage(p) THEN End(p, "done") /\ UNCHANGED stage
     ELSE /\ stage' = [stage EXCEPT ![p] = @ + 1]
          /\ Goto(p, "ensure")
          /\ UNCHANGED runLock
  /\ UNCHANGED <<sessionVars, sessionLock, count, mine, spark, late>>

Ended == {"done", "refused"}

\* The browser of a run leaves: the run lock is given back, the worker goes on.
Abandon(p) ==
  /\ Kind[p] = "run" /\ runLock = p
  /\ pc[p] \notin Ended
  /\ runLock' = NoOne
  /\ UNCHANGED <<sessionVars, sessionLock, count, pc, stage, mine, spark, late>>

Step(p) ==
  \/ AskParse(p) \/ Ensure(p) \/ FindGap(p) \/ Decide(p) \/ Stop(p) \/ ReleaseJvm(p)
  \/ Rebuild(p) \/ RebuildFails(p) \/ Obtain(p) \/ ObtainFails(p) \/ Enter(p) \/ Open(p) \/ Sql(p)
  \/ Leave(p) \/ Execute(p)

Next == \E p \in Requests : Ask(p) \/ Abandon(p) \/ Step(p)

\* The thread of a request that has something to do is scheduled.
Spec == Init /\ [][Next]_vars /\ \A p \in Requests : WF_vars(Step(p))

-----------------------------------------------------------------------------
Pcs == {"asked", "ensure", "gap", "stop", "release", "rebuild", "obtain", "enter",
        "open", "sql", "leave", "execute"} \union Ended

\* The queries between _query_enter and _query_exit.
Counted == {p \in Requests :
  pc[p] \in {"open", "sql", "leave"} \/ (pc[p] = "obtain" /\ Kind[p] = "schema")}

TypeOK ==
  /\ pc \in [Requests -> Pcs]
  /\ framework = NoOne \/ framework \subseteq Configs
  /\ session \in {"none", "live", "dead"} /\ built \subseteq Configs
  /\ {sessionLock, runLock} \subseteq Requests \union {NoOne}
  /\ count = Cardinality(Counted)
  /\ stage \in [Requests -> Nat] /\ \A p \in Requests : stage[p] \in 1..Len(Wants[p])
  /\ mine \in [Requests -> SUBSET Configs]
  /\ spark \in [Requests -> {"none", "live", "dead"}]
  /\ meddled \in BOOLEAN /\ late \subseteq Requests

Abandoned(p) == Kind[p] = "run" /\ pc[p] \notin {"asked"} \union Ended /\ runLock # p

\* A session is not stopped under work that was visible when the restart was decided:
\* a query it interrupts counted itself in after that, a run it interrupts, or the run
\* that restarts it, is one whose client has left.
RestartSparesTheWorking ==
  [][\A p, r \in Requests :
       /\ pc[p] = "stop" /\ pc'[p] = "release"
       /\ r # p /\ spark[r] = "live"
       => /\ pc[r] \in {"open", "sql"} => r \in late
          /\ pc[r] = "execute" => Abandoned(r) \/ Abandoned(p)]_vars

\* Whoever works on a live session has the connectors it asked for, as long as no
\* bystander has built one in the middle of a restart, or from a framework that a
\* restart has replaced: what such a session lacks, the ones after it lack too.
SessionServesRequest ==
  \A p \in Requests :
    /\ pc[p] \in {"open", "sql", "execute"}
    /\ spark[p] = "live" /\ ~meddled
    => Wanted(p) \subseteq built

\* Nobody waits forever: the two locks are taken in both orders, and the request ends.
EveryRequestEnds ==
  \A p \in Requests : pc[p] \notin {"asked"} \union Ended ~> pc[p] \in Ended
=============================================================================
