--------------------------- MODULE SessionProofs ---------------------------
(***************************************************************************)
(* Proofs about the Spark session, for any finite set of requests, any     *)
(* connectors and runs of any number of stages.                            *)
(***************************************************************************)
EXTENDS Session, FiniteSetTheorems, TLAPS

\* What the state of a request says of its kind.
KindInv ==
  \A p \in Requests :
    /\ pc[p] \in {"enter", "open", "leave"} => Kind[p] \in {"query", "schema"}
    /\ pc[p] = "sql" => Kind[p] = "query"
    /\ pc[p] = "execute" => Kind[p] = "run"

\* Who restarts the session has its lock, and the run lock unless it is a run itself;
\* everybody who is counted by the time it stops the session came after the decision.
RestartInv ==
  \A p \in Requests :
    /\ pc[p] \in {"gap", "stop", "release", "rebuild"} => sessionLock = p
    /\ pc[p] \in {"stop", "release", "rebuild"} /\ Kind[p] # "run" => runLock = p
    /\ pc[p] = "stop" => Counted \subseteq late

SessionInv == TypeOK /\ KindInv /\ RestartInv

-----------------------------------------------------------------------------
LEMMA WantedIsConfigs ==
  ASSUME TypeOK, NEW p \in Requests
  PROVE  Wanted(p) \subseteq Configs
<1>1. Wants[p] \in Seq(SUBSET Configs) /\ stage[p] \in 1..Len(Wants[p])
  BY WantsAssumption DEF TypeOK
<1>2. Wants[p][stage[p]] \in SUBSET Configs
  BY <1>1
<1> QED
  BY <1>2 DEF Wanted

\* What obtaining a session leaves of the state's types, whoever obtains it.
LEMMA ObtainTypes ==
  ASSUME TypeOK, NEW S, S \subseteq Configs, GetOrCreate(S)
  PROVE  /\ session' \in {"live", "dead"} /\ built' \subseteq Configs
         /\ meddled' \in BOOLEAN
<1>1. session' \in {"live", "dead"} /\ built' \subseteq Configs
  BY DEF TypeOK, GetOrCreate
<1>2. meddled' \in BOOLEAN
  <2>1. CASE session = "none"
    BY <2>1, Zenon DEF GetOrCreate
  <2>2. CASE session # "none"
    BY <2>2 DEF TypeOK, GetOrCreate
  <2> QED
    BY <2>1, <2>2
<1> QED
  BY <1>1, <1>2

LEMMA AfterObtaining ==
  ASSUME NEW p \in Requests
  PROVE  /\ Kind[p] = "query"  => AfterObtain(p) = "enter"
         /\ Kind[p] = "schema" => AfterObtain(p) = "open"
         /\ Kind[p] = "run"    => AfterObtain(p) = "execute"
         /\ Kind[p] = "parse"  => AfterObtain(p) = "done"
         /\ Kind[p] \in Kinds
  BY KindAssumption DEF AfterObtain, Kinds

LEMMA CountedIsFinite == IsFiniteSet(Counted)
<1>1. Counted \in SUBSET Requests
  BY DEF Counted
<1> QED
  BY <1>1, RequestsAssumption, FS_Subset

LEMMA SessionInit == Init => SessionInv
<1> SUFFICES ASSUME Init PROVE SessionInv
  OBVIOUS
<1>1. Counted = {}
  BY DEF Init, Counted
<1>2. count = Cardinality(Counted)
  BY <1>1, FS_EmptySet DEF Init
<1>3. stage \in [Requests -> Nat] /\ \A p \in Requests : stage[p] \in 1..Len(Wants[p])
  BY WantsAssumption DEF Init
<1>4. TypeOK
  BY <1>2, <1>3 DEF Init, TypeOK, Pcs, Ended
<1>5. KindInv /\ RestartInv
  BY DEF Init, KindInv, RestartInv
<1> QED
  BY <1>4, <1>5 DEF SessionInv

\* The steps that count nobody in or out.
LEMMA SameCount ==
  ASSUME TypeOK, UNCHANGED count, Counted' = Counted
  PROVE  count' = Cardinality(Counted')
  BY DEF TypeOK

-----------------------------------------------------------------------------
LEMMA SessionStep == SessionInv /\ [Next]_vars => SessionInv'
<1> SUFFICES ASSUME SessionInv, [Next]_vars PROVE SessionInv'
  OBVIOUS
<1>0. TypeOK /\ KindInv /\ RestartInv
  BY DEF SessionInv
<1>00. CASE UNCHANGED vars
  <2>1. TypeOK'
    BY <1>0, <1>00 DEF TypeOK, vars, sessionVars, lockVars, Counted
  <2>2. KindInv' /\ RestartInv'
    BY <1>0, <1>00 DEF KindInv, RestartInv, vars, sessionVars, lockVars, Counted
  <2> QED
    BY <2>1, <2>2 DEF SessionInv
<1> SUFFICES ASSUME NEW p \in Requests, Ask(p) \/ Abandon(p) \/ Step(p)
             PROVE  SessionInv'
  BY <1>00 DEF Next
<1>w. Wanted(p) \subseteq Configs
  BY <1>0, WantedIsConfigs
<1> USE DEF sessionVars, lockVars, Goto
<1>1. CASE Ask(p)
  <2>1. Counted' = Counted
    BY <1>0, <1>1, KindAssumption DEF Ask, TypeOK, KindInv, Counted, Kinds, Pcs, Ended
  <2>2. count' = Cardinality(Counted')
    BY <1>0, <1>1, <2>1, SameCount DEF Ask
  <2>3. pc' \in [Requests -> Pcs]
    BY <1>0, <1>1 DEF Ask, TypeOK, Pcs, Ended
  <2>4. TypeOK'
    BY <1>0, <1>w, <1>1, <2>2, <2>3 DEF Ask, TypeOK
  <2>5. KindInv'
    BY <1>0, <1>1, KindAssumption DEF Ask, TypeOK, KindInv, Kinds
  <2>6. RestartInv'
    BY <1>0, <1>1, <2>1, NoOneAssumption DEF Ask, TypeOK, RestartInv
  <2> QED
    BY <2>4, <2>5, <2>6 DEF SessionInv
<1>2. CASE AskParse(p)
  <2>1. Counted' = Counted
    BY <1>0, <1>2, KindAssumption DEF AskParse, TypeOK, KindInv, Counted, Kinds, Pcs, Ended
  <2>2. count' = Cardinality(Counted')
    BY <1>0, <1>2, <2>1, SameCount DEF AskParse
  <2>3. pc' \in [Requests -> Pcs]
    BY <1>0, <1>2 DEF AskParse, TypeOK, Pcs, Ended
  <2>4. TypeOK'
    BY <1>0, <1>w, <1>2, <2>2, <2>3 DEF AskParse, TypeOK
  <2>5. KindInv'
    BY <1>0, <1>2, KindAssumption DEF AskParse, TypeOK, KindInv, Kinds
  <2>6. RestartInv'
    BY <1>0, <1>2, <2>1, NoOneAssumption DEF AskParse, TypeOK, RestartInv
  <2> QED
    BY <2>4, <2>5, <2>6 DEF SessionInv
<1>3. CASE Ensure(p)
  <2>1. Counted' = Counted
    BY <1>0, <1>3, KindAssumption DEF Ensure, AfterEnsure, TypeOK, KindInv, Counted, Kinds, Pcs, Ended
  <2>2. count' = Cardinality(Counted')
    BY <1>0, <1>3, <2>1, SameCount DEF Ensure
  <2>3. pc' \in [Requests -> Pcs]
    BY <1>0, <1>3 DEF Ensure, AfterEnsure, TypeOK, Pcs, Ended
  <2>4. TypeOK'
    <3>1. session' \in {"none", "live", "dead"} /\ built' \subseteq Configs
      BY <1>0, <1>3 DEF Ensure, GetOrCreate, TypeOK
    <3>2. meddled' \in BOOLEAN
      <4>1. CASE UNCHANGED meddled
        BY <1>0, <4>1 DEF TypeOK
      <4>2. CASE framework # NoOne /\ GetOrCreate(framework)
        BY <1>0, <4>2, ObtainTypes DEF TypeOK
      <4> QED
        BY <1>3, <4>1, <4>2 DEF Ensure
    <3>3. framework' = NoOne \/ framework' \subseteq Configs
      BY <1>0, <1>w, <1>3 DEF Ensure, TypeOK
    <3> QED
      BY <1>0, <1>w, <1>3, <2>2, <2>3, <3>1, <3>2, <3>3 DEF Ensure, AfterEnsure, TypeOK
  <2>5. KindInv'
    BY <1>0, <1>3, KindAssumption DEF Ensure, AfterEnsure, TypeOK, KindInv, Kinds
  <2>6. RestartInv'
    BY <1>0, <1>3, <2>1, NoOneAssumption DEF Ensure, AfterEnsure, TypeOK, RestartInv
  <2> QED
    BY <2>4, <2>5, <2>6 DEF SessionInv
<1>4. CASE FindGap(p)
  <2>1. Counted' = Counted
    BY <1>0, <1>4, KindAssumption DEF FindGap, TypeOK, KindInv, Counted, Kinds, Pcs, Ended
  <2>2. count' = Cardinality(Counted')
    BY <1>0, <1>4, <2>1, SameCount DEF FindGap
  <2>3. pc' \in [Requests -> Pcs]
    BY <1>0, <1>4 DEF FindGap, TypeOK, Pcs, Ended
  <2>4. TypeOK'
    <3>1. session' \in {"none", "live", "dead"} /\ built' \subseteq Configs
      BY <1>0, <1>4 DEF FindGap, GetOrCreate, TypeOK
    <3>2. meddled' \in BOOLEAN
      <4>1. CASE UNCHANGED meddled
        BY <1>0, <4>1 DEF TypeOK
      <4>2. CASE framework # NoOne /\ GetOrCreate(framework)
        BY <1>0, <4>2, ObtainTypes DEF TypeOK
      <4> QED
        BY <1>4, <4>1, <4>2 DEF FindGap
    <3>3. framework' = NoOne \/ framework' \subseteq Configs
      BY <1>0, <1>w, <1>4 DEF FindGap, TypeOK
    <3> QED
      BY <1>0, <1>w, <1>4, <2>2, <2>3, <3>1, <3>2, <3>3 DEF FindGap, TypeOK
  <2>5. KindInv'
    BY <1>0, <1>4, KindAssumption DEF FindGap, TypeOK, KindInv, Kinds
  <2>6. RestartInv'
    BY <1>0, <1>4, <2>1, NoOneAssumption DEF FindGap, TypeOK, RestartInv
  <2> QED
    BY <2>4, <2>5, <2>6 DEF SessionInv
<1>5. CASE Decide(p)
  <2>1. Counted' = Counted
    BY <1>0, <1>5, KindAssumption DEF Decide, End, TypeOK, KindInv, Counted, Kinds, Pcs, Ended
  <2>2. count' = Cardinality(Counted')
    BY <1>0, <1>5, <2>1, SameCount DEF Decide
  <2>3. pc' \in [Requests -> Pcs]
    BY <1>0, <1>5 DEF Decide, End, TypeOK, Pcs, Ended
  <2>4. TypeOK'
    BY <1>0, <1>w, <1>5, <2>2, <2>3 DEF Decide, End, TypeOK
  <2>5. KindInv'
    BY <1>0, <1>5, KindAssumption DEF Decide, End, TypeOK, KindInv, Kinds
  <2>6. RestartInv'
    <3>1. count = 0 => Counted = {}
      BY <1>0, CountedIsFinite, FS_EmptySet DEF TypeOK
    <3> QED
      BY <1>0, <1>5, <2>1, <3>1, NoOneAssumption DEF Decide, End, TypeOK, RestartInv
  <2> QED
    BY <2>4, <2>5, <2>6 DEF SessionInv
<1>6. CASE Stop(p)
  <2>1. Counted' = Counted
    BY <1>0, <1>6, KindAssumption DEF Stop, KillSession, Killed, TypeOK, KindInv, Counted, Kinds, Pcs, Ended
  <2>2. count' = Cardinality(Counted')
    BY <1>0, <1>6, <2>1, SameCount DEF Stop
  <2>3. pc' \in [Requests -> Pcs]
    BY <1>0, <1>6 DEF Stop, KillSession, Killed, TypeOK, Pcs, Ended
  <2>4. TypeOK'
    BY <1>0, <1>w, <1>6, <2>2, <2>3 DEF Stop, KillSession, Killed, TypeOK
  <2>5. KindInv'
    BY <1>0, <1>6, KindAssumption DEF Stop, KillSession, Killed, TypeOK, KindInv, Kinds
  <2>6. RestartInv'
    BY <1>0, <1>6, <2>1, NoOneAssumption DEF Stop, KillSession, Killed, TypeOK, RestartInv
  <2> QED
    BY <2>4, <2>5, <2>6 DEF SessionInv
<1>7. CASE ReleaseJvm(p)
  <2>1. Counted' = Counted
    BY <1>0, <1>7, KindAssumption DEF ReleaseJvm, KillSession, Killed, TypeOK, KindInv, Counted, Kinds, Pcs, Ended
  <2>2. count' = Cardinality(Counted')
    BY <1>0, <1>7, <2>1, SameCount DEF ReleaseJvm
  <2>3. pc' \in [Requests -> Pcs]
    BY <1>0, <1>7 DEF ReleaseJvm, KillSession, Killed, TypeOK, Pcs, Ended
  <2>4. TypeOK'
    BY <1>0, <1>w, <1>7, <2>2, <2>3 DEF ReleaseJvm, KillSession, Killed, TypeOK
  <2>5. KindInv'
    BY <1>0, <1>7, KindAssumption DEF ReleaseJvm, KillSession, Killed, TypeOK, KindInv, Kinds
  <2>6. RestartInv'
    BY <1>0, <1>7, <2>1, NoOneAssumption DEF ReleaseJvm, KillSession, Killed, TypeOK, RestartInv
  <2> QED
    BY <2>4, <2>5, <2>6 DEF SessionInv
<1>8. CASE Rebuild(p)
  <2>1. Counted' = Counted
    BY <1>0, <1>8, KindAssumption DEF Rebuild, AfterEnsure, TypeOK, KindInv, Counted, Kinds, Pcs, Ended
  <2>2. count' = Cardinality(Counted')
    BY <1>0, <1>8, <2>1, SameCount DEF Rebuild
  <2>3. pc' \in [Requests -> Pcs]
    BY <1>0, <1>8 DEF Rebuild, AfterEnsure, TypeOK, Pcs, Ended
  <2>4. TypeOK'
    BY <1>0, <1>w, <1>8, <2>2, <2>3 DEF Rebuild, AfterEnsure, TypeOK
  <2>5. KindInv'
    BY <1>0, <1>8, KindAssumption DEF Rebuild, AfterEnsure, TypeOK, KindInv, Kinds
  <2>6. RestartInv'
    BY <1>0, <1>8, <2>1, NoOneAssumption DEF Rebuild, AfterEnsure, TypeOK, RestartInv
  <2> QED
    BY <2>4, <2>5, <2>6 DEF SessionInv
<1>9. CASE RebuildFails(p)
  <2>1. Counted' = Counted
    BY <1>0, <1>9, KindAssumption DEF RebuildFails, End, TypeOK, KindInv, Counted, Kinds, Pcs, Ended
  <2>2. count' = Cardinality(Counted')
    BY <1>0, <1>9, <2>1, SameCount DEF RebuildFails
  <2>3. pc' \in [Requests -> Pcs]
    BY <1>0, <1>9 DEF RebuildFails, End, TypeOK, Pcs, Ended
  <2>4. TypeOK'
    BY <1>0, <1>w, <1>9, <2>2, <2>3 DEF RebuildFails, End, TypeOK
  <2>5. KindInv'
    BY <1>0, <1>9, KindAssumption DEF RebuildFails, End, TypeOK, KindInv, Kinds
  <2>6. RestartInv'
    BY <1>0, <1>9, <2>1, NoOneAssumption DEF RebuildFails, End, TypeOK, RestartInv
  <2> QED
    BY <2>4, <2>5, <2>6 DEF SessionInv
<1>10. CASE Obtain(p)
  <2> DEFINE S == IF Kind[p] = "run" THEN mine[p] \union Wanted(p) ELSE mine[p]
  <2>0. S \subseteq Configs /\ GetOrCreate(S)
    BY <1>0, <1>w, <1>10 DEF Obtain, TypeOK
  <2>a. /\ session' \in {"live", "dead"} /\ built' \subseteq Configs
        /\ meddled' \in BOOLEAN
    <3> HIDE DEF S
    <3> QED
      BY <1>0, <2>0, ObtainTypes
  <2>b. /\ pc[p] = "obtain" /\ pc' = [pc EXCEPT ![p] = AfterObtain(p)]
        /\ spark' = [spark EXCEPT ![p] = session'] /\ mine' = [mine EXCEPT ![p] = {}]
        /\ UNCHANGED <<framework, lockVars, count, stage, late>>
    BY <1>10 DEF Obtain
  <2> HIDE DEF S
  <2>1. Counted' = Counted
    BY <1>0, <2>b, AfterObtaining DEF TypeOK, KindInv, Counted, Kinds, Pcs, Ended
  <2>2. count' = Cardinality(Counted')
    BY <1>0, <2>b, <2>1, SameCount
  <2>3. pc' \in [Requests -> Pcs]
    BY <1>0, <2>b, AfterObtaining DEF TypeOK, Kinds, Pcs, Ended
  <2>4. TypeOK'
    BY <1>0, <2>a, <2>b, <2>2, <2>3 DEF TypeOK
  <2>5. KindInv'
    BY <1>0, <2>b, AfterObtaining DEF TypeOK, KindInv, Kinds
  <2>6. RestartInv'
    BY <1>0, <2>b, <2>1, AfterObtaining DEF TypeOK, RestartInv, Kinds
  <2> QED
    BY <2>4, <2>5, <2>6 DEF SessionInv
<1>11. CASE ObtainFails(p)
  <2>1. Counted' = Counted
    BY <1>0, <1>11, KindAssumption DEF ObtainFails, End, TypeOK, KindInv, Counted, Kinds, Pcs, Ended
  <2>2. count' = Cardinality(Counted')
    BY <1>0, <1>11, <2>1, SameCount DEF ObtainFails
  <2>3. pc' \in [Requests -> Pcs]
    BY <1>0, <1>11 DEF ObtainFails, End, TypeOK, Pcs, Ended
  <2>4. TypeOK'
    BY <1>0, <1>w, <1>11, <2>2, <2>3 DEF ObtainFails, End, TypeOK
  <2>5. KindInv'
    BY <1>0, <1>11, KindAssumption DEF ObtainFails, End, TypeOK, KindInv, Kinds
  <2>6. RestartInv'
    BY <1>0, <1>11, <2>1, NoOneAssumption DEF ObtainFails, End, TypeOK, RestartInv
  <2> QED
    BY <2>4, <2>5, <2>6 DEF SessionInv
<1>12. CASE Open(p)
  <2>1. Counted' = Counted
    BY <1>0, <1>12, KindAssumption DEF Open, TypeOK, KindInv, Counted, Kinds, Pcs, Ended
  <2>2. count' = Cardinality(Counted')
    BY <1>0, <1>12, <2>1, SameCount DEF Open
  <2>3. pc' \in [Requests -> Pcs]
    BY <1>0, <1>12 DEF Open, TypeOK, Pcs, Ended
  <2>4. TypeOK'
    BY <1>0, <1>w, <1>12, <2>2, <2>3 DEF Open, TypeOK
  <2>5. KindInv'
    BY <1>0, <1>12, KindAssumption DEF Open, TypeOK, KindInv, Kinds
  <2>6. RestartInv'
    BY <1>0, <1>12, <2>1, NoOneAssumption DEF Open, TypeOK, RestartInv
  <2> QED
    BY <2>4, <2>5, <2>6 DEF SessionInv
<1>13. CASE Sql(p)
  <2>1. Counted' = Counted
    BY <1>0, <1>13, KindAssumption DEF Sql, TypeOK, KindInv, Counted, Kinds, Pcs, Ended
  <2>2. count' = Cardinality(Counted')
    BY <1>0, <1>13, <2>1, SameCount DEF Sql
  <2>3. pc' \in [Requests -> Pcs]
    BY <1>0, <1>13 DEF Sql, TypeOK, Pcs, Ended
  <2>4. TypeOK'
    BY <1>0, <1>w, <1>13, <2>2, <2>3 DEF Sql, TypeOK
  <2>5. KindInv'
    BY <1>0, <1>13, KindAssumption DEF Sql, TypeOK, KindInv, Kinds
  <2>6. RestartInv'
    BY <1>0, <1>13, <2>1, NoOneAssumption DEF Sql, TypeOK, RestartInv
  <2> QED
    BY <2>4, <2>5, <2>6 DEF SessionInv
<1>15. CASE Execute(p)
  <2>1. Counted' = Counted
    BY <1>0, <1>15, KindAssumption DEF Execute, End, TypeOK, KindInv, Counted, Kinds, Pcs, Ended
  <2>2. count' = Cardinality(Counted')
    BY <1>0, <1>15, <2>1, SameCount DEF Execute
  <2>3. pc' \in [Requests -> Pcs]
    BY <1>0, <1>15 DEF Execute, End, TypeOK, Pcs, Ended
  <2>4. TypeOK'
    <3>1. Wants[p] \in Seq(SUBSET Configs) /\ Len(Wants[p]) \in Nat
      BY WantsAssumption
    <3>2. /\ stage' \in [Requests -> Nat]
          /\ \A q \in Requests : stage'[q] \in 1..Len(Wants[q])
      <4>1. CASE UNCHANGED stage
        BY <1>0, <4>1 DEF TypeOK
      <4>2. CASE stage' = [stage EXCEPT ![p] = @ + 1] /\ stage[p] # Len(Wants[p])
        <5>1. stage[p] \in 1..Len(Wants[p]) /\ stage \in [Requests -> Nat]
          BY <1>0 DEF TypeOK
        <5>2. stage[p] + 1 \in 1..Len(Wants[p])
          BY <3>1, <4>2, <5>1
        <5> QED
          BY <1>0, <4>2, <5>1, <5>2 DEF TypeOK
      <4> QED
        BY <1>15, <4>1, <4>2 DEF Execute, LastStage
    <3> QED
      BY <1>0, <1>15, <2>2, <2>3, <3>2 DEF Execute, End, TypeOK
  <2>5. KindInv'
    BY <1>0, <1>15, KindAssumption DEF Execute, End, TypeOK, KindInv, Kinds
  <2>6. RestartInv'
    BY <1>0, <1>15, <2>1, NoOneAssumption DEF Execute, End, TypeOK, RestartInv
  <2> QED
    BY <2>4, <2>5, <2>6 DEF SessionInv
<1>16. CASE Abandon(p)
  <2>1. Counted' = Counted
    BY <1>0, <1>16, KindAssumption DEF Abandon, TypeOK, KindInv, Counted, Kinds, Pcs, Ended
  <2>2. count' = Cardinality(Counted')
    BY <1>0, <1>16, <2>1, SameCount DEF Abandon
  <2>3. pc' \in [Requests -> Pcs]
    BY <1>0, <1>16 DEF Abandon, TypeOK, Pcs, Ended
  <2>4. TypeOK'
    BY <1>0, <1>w, <1>16, <2>2, <2>3 DEF Abandon, TypeOK
  <2>5. KindInv'
    BY <1>0, <1>16, KindAssumption DEF Abandon, TypeOK, KindInv, Kinds
  <2>6. RestartInv'
    BY <1>0, <1>16, <2>1, NoOneAssumption DEF Abandon, TypeOK, RestartInv
  <2> QED
    BY <2>4, <2>5, <2>6 DEF SessionInv
<1>17. CASE Enter(p)
  <2>1. Counted' = Counted \union {p} /\ p \notin Counted
    BY <1>0, <1>17 DEF Enter, TypeOK, KindInv, Counted
  <2>2. count' = Cardinality(Counted')
    BY <1>0, <1>17, <2>1, CountedIsFinite, FS_AddElement DEF Enter, TypeOK
  <2>3. pc' \in [Requests -> Pcs]
    BY <1>0, <1>17 DEF Enter, TypeOK, Pcs, Ended
  <2>4. TypeOK'
    BY <1>0, <1>17, <2>2, <2>3 DEF Enter, TypeOK
  <2>5. KindInv'
    BY <1>0, <1>17 DEF Enter, TypeOK, KindInv
  <2>6. RestartInv'
    BY <1>0, <1>17, <2>1 DEF Enter, TypeOK, RestartInv
  <2> QED
    BY <2>4, <2>5, <2>6 DEF SessionInv
<1>18. CASE Leave(p)
  <2>1. Counted' = Counted \ {p} /\ p \in Counted
    BY <1>0, <1>18 DEF Leave, TypeOK, Counted
  <2>2. count' = Cardinality(Counted')
    BY <1>0, <1>18, <2>1, CountedIsFinite, FS_RemoveElement DEF Leave, TypeOK
  <2>3. pc' \in [Requests -> Pcs]
    BY <1>0, <1>18 DEF Leave, TypeOK, Pcs, Ended
  <2>4. TypeOK'
    BY <1>0, <1>18, <2>2, <2>3 DEF Leave, TypeOK
  <2>5. KindInv'
    BY <1>0, <1>18 DEF Leave, TypeOK, KindInv
  <2>6. RestartInv'
    BY <1>0, <1>18, <2>1 DEF Leave, TypeOK, RestartInv
  <2> QED
    BY <2>4, <2>5, <2>6 DEF SessionInv
<1> QED
  BY <1>1, <1>2, <1>3, <1>4, <1>5, <1>6, <1>7, <1>8, <1>9, <1>10, <1>11, <1>12, <1>13, <1>15, <1>16, <1>17, <1>18 DEF Step

-----------------------------------------------------------------------------
LEMMA SessionInvariant == Spec => []SessionInv
  BY SessionInit, SessionStep, PTL DEF Spec

\* Type correctness; the count of queries is the number of queries in flight.
THEOREM SessionTypes == Spec => []TypeOK
<1>1. SessionInv => TypeOK
  BY DEF SessionInv
<1> QED
  BY <1>1, SessionInvariant, PTL

\* A restart never stops the session under work that was visible when it was decided,
\* unless a run whose client has left is part of it.
THEOREM TheWorkingAreSpared == Spec => RestartSparesTheWorking
<1> DEFINE Spares ==
      \A p, r \in Requests :
        /\ pc[p] = "stop" /\ pc'[p] = "release"
        /\ r # p /\ spark[r] = "live"
        => /\ pc[r] \in {"open", "sql"} => r \in late
           /\ pc[r] = "execute" => Abandoned(r) \/ Abandoned(p)
<1>1. SessionInv => Spares
  <2> SUFFICES ASSUME SessionInv, NEW p \in Requests, NEW r \in Requests, pc[p] = "stop", r # p
               PROVE  /\ pc[r] \in {"open", "sql"} => r \in late
                      /\ pc[r] = "execute" => Abandoned(r) \/ Abandoned(p)
    OBVIOUS
  <2>1. ASSUME pc[r] \in {"open", "sql"} PROVE r \in late
    BY <2>1 DEF SessionInv, RestartInv, Counted
  <2>2. ASSUME pc[r] = "execute" PROVE Abandoned(r) \/ Abandoned(p)
    <3>1. CASE Kind[p] = "run"
      BY <2>2, <3>1 DEF SessionInv, KindInv, Abandoned, Ended
    <3>2. CASE Kind[p] # "run"
      BY <2>2, <3>2 DEF SessionInv, KindInv, RestartInv, Abandoned, Ended
    <3> QED
      BY <3>1, <3>2
  <2> QED
    BY <2>1, <2>2
<1>2. SessionInv => [Spares]_vars
  BY <1>1
<1> QED
  BY <1>2, SessionInvariant, PTL DEF RestartSparesTheWorking

-----------------------------------------------------------------------------
(***************************************************************************)
(* What a session serves. Requests obtain their session after they made    *)
(* sure of it, so what they were promised has to survive the restarts in   *)
(* between: it is in the session while there is one, in what the one who   *)
(* restarts it is going to build, and in the framework otherwise.          *)
(***************************************************************************)
Ensured == {p \in Requests :
  pc[p] \in {"obtain", "enter", "open", "sql", "execute"} /\ Kind[p] # "parse"}

Restarting == {r \in Requests : pc[r] \in {"release", "rebuild"}}

\* Every request that made sure of its session finds what it wants in these configs.
Promised(configs) == \A p \in Ensured : Wanted(p) \subseteq configs

PromiseInv ==
  /\ session # "dead"
  /\ session = "live" => framework \subseteq built /\ Restarting = {} /\ Promised(built)
  /\ \A r \in Requests : pc[r] \in {"gap", "stop"} => session = "live"
  /\ \A r \in Restarting :
       framework \subseteq mine[r] /\ Wanted(r) \subseteq mine[r] /\ Promised(mine[r])
  /\ session = "none" /\ Restarting = {} => Promised(framework)

ServeInv ==
  /\ framework = NoOne =>
       session = "none" /\ \A p \in Requests : pc[p] \in {"asked", "ensure"} \union Ended
  /\ \A p \in Requests : spark[p] = "live" => session = "live"
  /\ meddled \/ PromiseInv

LEMMA ServeInit == Init => ServeInv
<1> SUFFICES ASSUME Init PROVE ServeInv
  OBVIOUS
<1>1. PromiseInv
  BY DEF Init, PromiseInv, Promised, Ensured, Restarting
<1> QED
  BY <1>1 DEF Init, ServeInv

\* What whoever obtains a session gets, unless that is the meddling.
LEMMA ObtainServes ==
  ASSUME TypeOK, ServeInv, framework # NoOne, NEW configs, GetOrCreate(configs), ~meddled'
  PROVE  /\ ~meddled /\ session' = "live" /\ Restarting = {}
         /\ framework \subseteq built' /\ Promised(built')
         /\ session = "live" => built' = built
         /\ session = "none" => built' = configs
<1>1. ~meddled /\ PromiseInv
  BY DEF GetOrCreate, ServeInv
<1>2. CASE session = "live"
  BY <1>1, <1>2 DEF GetOrCreate, PromiseInv, Promised
<1>3. CASE session = "none"
  <2>1. Restarting = {} /\ framework \subseteq configs /\ built' = configs /\ session' = "live"
    BY <1>3 DEF GetOrCreate, Restarting
  <2> QED
    BY <1>1, <1>3, <2>1 DEF PromiseInv, Promised
<1> QED
  BY <1>1, <1>2, <1>3 DEF TypeOK, PromiseInv

LEMMA MeddledStays == TypeOK /\ meddled /\ [Next]_vars => meddled'
<1> SUFFICES ASSUME meddled, [Next]_vars PROVE meddled'
  OBVIOUS
<1> QED
  BY DEF Next, Step, vars, sessionVars, GetOrCreate, Ask, Abandon, AskParse, Ensure, FindGap,
         Decide, Stop, ReleaseJvm, Rebuild, RebuildFails, Obtain, ObtainFails, Enter, Open,
         Sql, Leave, Execute

\* The steps that leave session, framework and promises alone: whoever is ensured or
\* restarting afterwards was so before and wants what it wanted.
LEMMA BystanderServes ==
  ASSUME TypeOK, ServeInv, UNCHANGED sessionVars,
         \A q \in Restarting : mine'[q] = mine[q],
         \A q \in Requests : spark'[q] \in {spark[q], session},
         Ensured' \subseteq Ensured, Restarting' = Restarting,
         \A q \in Ensured' \union Restarting' : stage'[q] = stage[q],
         \A q \in Requests : pc'[q] \in {"gap", "stop"} => pc[q] \in {"gap", "stop"},
         \A q \in Requests : pc'[q] \in {"asked", "ensure", pc[q]} \union Ended \/ framework # NoOne
  PROVE  ServeInv'
<1>1. \A q \in Requests : spark'[q] = "live" => session' = "live"
  BY DEF ServeInv, sessionVars
<1>2. framework' = NoOne =>
        session' = "none" /\ \A q \in Requests : pc'[q] \in {"asked", "ensure"} \union Ended
  BY DEF ServeInv, sessionVars
<1>3. ASSUME PromiseInv PROVE PromiseInv'
  <2>1. \A configs : Promised(configs) => \A q \in Ensured' : Wanted(q)' \subseteq configs
    BY DEF Promised, Wanted, Ensured
  <2>2. \A q \in Restarting' : Wanted(q)' = Wanted(q)
    BY DEF Wanted
  <2> QED
    BY <1>3, <2>1, <2>2 DEF PromiseInv, Promised, sessionVars
<1> QED
  BY <1>1, <1>2, <1>3 DEF ServeInv, sessionVars

LEMMA ServeStep ==
  ASSUME SessionInv, ServeInv, [Next]_vars
  PROVE  ServeInv'
<1>0. TypeOK /\ KindInv /\ RestartInv /\ TypeOK'
  BY SessionStep DEF SessionInv
<1> USE DEF sessionVars, lockVars, Goto
<1>00. CASE UNCHANGED vars
  <2>1. Ensured' = Ensured /\ Restarting' = Restarting
    BY <1>00 DEF vars, Ensured, Restarting
  <2> QED
    BY <1>0, <1>00, <2>1, BystanderServes DEF vars, TypeOK, Ensured, Restarting
<1> SUFFICES ASSUME NEW p \in Requests, Ask(p) \/ Abandon(p) \/ Step(p)
             PROVE  ServeInv'
  BY <1>00 DEF Next
<1>w. Wanted(p) \subseteq Configs
  BY <1>0, WantedIsConfigs
<1>l. ASSUME NEW configs, GetOrCreate(configs) PROVE session = "live" => session' = "live"
  BY <1>l DEF GetOrCreate
<1>r. ASSUME pc[p] \in {"stop", "release", "rebuild"} \/ sessionLock = NoOne
      PROVE  \A q \in Requests \ {p} : pc[q] \notin {"gap", "stop", "release", "rebuild"}
  BY <1>0, <1>r, NoOneAssumption DEF RestartInv
<1>1. CASE Ask(p)
  <2>1. Ensured' \subseteq Ensured /\ Restarting' = Restarting
    BY <1>0, <1>1 DEF Ask, TypeOK, Ensured, Restarting
  <2>2. \A q \in Requests :
          /\ q # p => pc'[q] = pc[q] /\ stage'[q] = stage[q] /\ spark'[q] = spark[q]
          /\ pc'[q] \in {"gap", "stop"} => pc[q] \in {"gap", "stop"}
          /\ spark'[q] \in {spark[q], session}
    BY <1>0, <1>1 DEF Ask, TypeOK
  <2>3. \A q \in Ensured' \union Restarting' : stage'[q] = stage[q]
    BY <1>0, <1>1, <2>2 DEF Ask, TypeOK, Ensured, Restarting
  <2>4. UNCHANGED sessionVars /\ \A q \in Restarting : mine'[q] = mine[q]
    BY <1>0, <1>1 DEF Ask, TypeOK, Restarting
  <2>5. \A q \in Requests : pc'[q] \in {"asked", "ensure", pc[q]} \union Ended \/ framework # NoOne
    BY <1>0, <1>1, <2>2 DEF Ask, TypeOK, ServeInv, Ended
  <2> QED
    BY <1>0, <2>1, <2>2, <2>3, <2>4, <2>5, BystanderServes
<1>2. CASE Abandon(p)
  <2>1. Ensured' \subseteq Ensured /\ Restarting' = Restarting
    BY <1>0, <1>2 DEF Abandon, TypeOK, Ensured, Restarting
  <2>2. \A q \in Requests :
          /\ q # p => pc'[q] = pc[q] /\ stage'[q] = stage[q] /\ spark'[q] = spark[q]
          /\ pc'[q] \in {"gap", "stop"} => pc[q] \in {"gap", "stop"}
          /\ spark'[q] \in {spark[q], session}
    BY <1>0, <1>2 DEF Abandon, TypeOK
  <2>3. \A q \in Ensured' \union Restarting' : stage'[q] = stage[q]
    BY <1>0, <1>2, <2>2 DEF Abandon, TypeOK, Ensured, Restarting
  <2>4. UNCHANGED sessionVars /\ \A q \in Restarting : mine'[q] = mine[q]
    BY <1>0, <1>2 DEF Abandon, TypeOK, Restarting
  <2>5. \A q \in Requests : pc'[q] \in {"asked", "ensure", pc[q]} \union Ended \/ framework # NoOne
    BY <1>0, <1>2, <2>2 DEF Abandon, TypeOK, ServeInv, Ended
  <2> QED
    BY <1>0, <2>1, <2>2, <2>3, <2>4, <2>5, BystanderServes
<1>3. CASE AskParse(p)
  <2>1. Ensured' \subseteq Ensured /\ Restarting' = Restarting
    BY <1>0, <1>3 DEF AskParse, TypeOK, Ensured, Restarting
  <2>2. \A q \in Requests :
          /\ q # p => pc'[q] = pc[q] /\ stage'[q] = stage[q] /\ spark'[q] = spark[q]
          /\ pc'[q] \in {"gap", "stop"} => pc[q] \in {"gap", "stop"}
          /\ spark'[q] \in {spark[q], session}
    BY <1>0, <1>3 DEF AskParse, TypeOK
  <2>3. \A q \in Ensured' \union Restarting' : stage'[q] = stage[q]
    BY <1>0, <1>3, <2>2 DEF AskParse, TypeOK, Ensured, Restarting
  <2>4. UNCHANGED sessionVars /\ \A q \in Restarting : mine'[q] = mine[q]
    BY <1>0, <1>3 DEF AskParse, TypeOK, Restarting
  <2>5. \A q \in Requests : pc'[q] \in {"asked", "ensure", pc[q]} \union Ended \/ framework # NoOne
    BY <1>0, <1>3, <2>2 DEF AskParse, TypeOK, ServeInv, Ended
  <2> QED
    BY <1>0, <2>1, <2>2, <2>3, <2>4, <2>5, BystanderServes
<1>4. CASE Decide(p)
  <2>1. Ensured' \subseteq Ensured /\ Restarting' = Restarting
    BY <1>0, <1>4 DEF Decide, TypeOK, Ensured, Restarting, End
  <2>2. \A q \in Requests :
          /\ q # p => pc'[q] = pc[q] /\ stage'[q] = stage[q] /\ spark'[q] = spark[q]
          /\ pc'[q] \in {"gap", "stop"} => pc[q] \in {"gap", "stop"}
          /\ spark'[q] \in {spark[q], session}
    BY <1>0, <1>4 DEF Decide, TypeOK, End
  <2>3. \A q \in Ensured' \union Restarting' : stage'[q] = stage[q]
    BY <1>0, <1>4, <2>2 DEF Decide, TypeOK, Ensured, Restarting, End
  <2>4. UNCHANGED sessionVars /\ \A q \in Restarting : mine'[q] = mine[q]
    BY <1>0, <1>4 DEF Decide, TypeOK, Restarting
  <2>5. \A q \in Requests : pc'[q] \in {"asked", "ensure", pc[q]} \union Ended \/ framework # NoOne
    BY <1>0, <1>4, <2>2 DEF Decide, TypeOK, ServeInv, Ended, End
  <2> QED
    BY <1>0, <2>1, <2>2, <2>3, <2>4, <2>5, BystanderServes
<1>5. CASE ObtainFails(p)
  <2>1. Ensured' \subseteq Ensured /\ Restarting' = Restarting
    BY <1>0, <1>5 DEF ObtainFails, TypeOK, Ensured, Restarting, End
  <2>2. \A q \in Requests :
          /\ q # p => pc'[q] = pc[q] /\ stage'[q] = stage[q] /\ spark'[q] = spark[q]
          /\ pc'[q] \in {"gap", "stop"} => pc[q] \in {"gap", "stop"}
          /\ spark'[q] \in {spark[q], session}
    BY <1>0, <1>5 DEF ObtainFails, TypeOK, End
  <2>3. \A q \in Ensured' \union Restarting' : stage'[q] = stage[q]
    BY <1>0, <1>5, <2>2 DEF ObtainFails, TypeOK, Ensured, Restarting, End
  <2>4. UNCHANGED sessionVars /\ \A q \in Restarting : mine'[q] = mine[q]
    BY <1>0, <1>5 DEF ObtainFails, TypeOK, Restarting
  <2>5. \A q \in Requests : pc'[q] \in {"asked", "ensure", pc[q]} \union Ended \/ framework # NoOne
    BY <1>0, <1>5, <2>2 DEF ObtainFails, TypeOK, ServeInv, Ended, End
  <2> QED
    BY <1>0, <2>1, <2>2, <2>3, <2>4, <2>5, BystanderServes
<1>6. CASE Enter(p)
  <2>1. Ensured' \subseteq Ensured /\ Restarting' = Restarting
    BY <1>0, <1>6 DEF Enter, TypeOK, Ensured, Restarting
  <2>2. \A q \in Requests :
          /\ q # p => pc'[q] = pc[q] /\ stage'[q] = stage[q] /\ spark'[q] = spark[q]
          /\ pc'[q] \in {"gap", "stop"} => pc[q] \in {"gap", "stop"}
          /\ spark'[q] \in {spark[q], session}
    BY <1>0, <1>6 DEF Enter, TypeOK
  <2>3. \A q \in Ensured' \union Restarting' : stage'[q] = stage[q]
    BY <1>0, <1>6, <2>2 DEF Enter, TypeOK, Ensured, Restarting
  <2>4. UNCHANGED sessionVars /\ \A q \in Restarting : mine'[q] = mine[q]
    BY <1>0, <1>6 DEF Enter, TypeOK, Restarting
  <2>5. \A q \in Requests : pc'[q] \in {"asked", "ensure", pc[q]} \union Ended \/ framework # NoOne
    BY <1>0, <1>6, <2>2 DEF Enter, TypeOK, ServeInv, Ended
  <2> QED
    BY <1>0, <2>1, <2>2, <2>3, <2>4, <2>5, BystanderServes
<1>7. CASE Open(p)
  <2>1. Ensured' \subseteq Ensured /\ Restarting' = Restarting
    BY <1>0, <1>7 DEF Open, TypeOK, Ensured, Restarting
  <2>2. \A q \in Requests :
          /\ q # p => pc'[q] = pc[q] /\ stage'[q] = stage[q] /\ spark'[q] = spark[q]
          /\ pc'[q] \in {"gap", "stop"} => pc[q] \in {"gap", "stop"}
          /\ spark'[q] \in {spark[q], session}
    BY <1>0, <1>7 DEF Open, TypeOK
  <2>3. \A q \in Ensured' \union Restarting' : stage'[q] = stage[q]
    BY <1>0, <1>7, <2>2 DEF Open, TypeOK, Ensured, Restarting
  <2>4. UNCHANGED sessionVars /\ \A q \in Restarting : mine'[q] = mine[q]
    BY <1>0, <1>7 DEF Open, TypeOK, Restarting
  <2>5. \A q \in Requests : pc'[q] \in {"asked", "ensure", pc[q]} \union Ended \/ framework # NoOne
    BY <1>0, <1>7, <2>2 DEF Open, TypeOK, ServeInv, Ended
  <2> QED
    BY <1>0, <2>1, <2>2, <2>3, <2>4, <2>5, BystanderServes
<1>8. CASE Sql(p)
  <2>1. Ensured' \subseteq Ensured /\ Restarting' = Restarting
    BY <1>0, <1>8 DEF Sql, TypeOK, Ensured, Restarting
  <2>2. \A q \in Requests :
          /\ q # p => pc'[q] = pc[q] /\ stage'[q] = stage[q] /\ spark'[q] = spark[q]
          /\ pc'[q] \in {"gap", "stop"} => pc[q] \in {"gap", "stop"}
          /\ spark'[q] \in {spark[q], session}
    BY <1>0, <1>8 DEF Sql, TypeOK
  <2>3. \A q \in Ensured' \union Restarting' : stage'[q] = stage[q]
    BY <1>0, <1>8, <2>2 DEF Sql, TypeOK, Ensured, Restarting
  <2>4. UNCHANGED sessionVars /\ \A q \in Restarting : mine'[q] = mine[q]
    BY <1>0, <1>8 DEF Sql, TypeOK, Restarting
  <2>5. \A q \in Requests : pc'[q] \in {"asked", "ensure", pc[q]} \union Ended \/ framework # NoOne
    BY <1>0, <1>8, <2>2 DEF Sql, TypeOK, ServeInv, Ended
  <2> QED
    BY <1>0, <2>1, <2>2, <2>3, <2>4, <2>5, BystanderServes
<1>9. CASE Leave(p)
  <2>1. Ensured' \subseteq Ensured /\ Restarting' = Restarting
    BY <1>0, <1>9 DEF Leave, TypeOK, Ensured, Restarting
  <2>2. \A q \in Requests :
          /\ q # p => pc'[q] = pc[q] /\ stage'[q] = stage[q] /\ spark'[q] = spark[q]
          /\ pc'[q] \in {"gap", "stop"} => pc[q] \in {"gap", "stop"}
          /\ spark'[q] \in {spark[q], session}
    BY <1>0, <1>9 DEF Leave, TypeOK
  <2>3. \A q \in Ensured' \union Restarting' : stage'[q] = stage[q]
    BY <1>0, <1>9, <2>2 DEF Leave, TypeOK, Ensured, Restarting
  <2>4. UNCHANGED sessionVars /\ \A q \in Restarting : mine'[q] = mine[q]
    BY <1>0, <1>9 DEF Leave, TypeOK, Restarting
  <2>5. \A q \in Requests : pc'[q] \in {"asked", "ensure", pc[q]} \union Ended \/ framework # NoOne
    BY <1>0, <1>9, <2>2 DEF Leave, TypeOK, ServeInv, Ended
  <2> QED
    BY <1>0, <2>1, <2>2, <2>3, <2>4, <2>5, BystanderServes
<1>11. CASE Execute(p)
  <2>1. Ensured' \subseteq Ensured /\ Restarting' = Restarting
    BY <1>0, <1>11 DEF Execute, TypeOK, Ensured, Restarting, End
  <2>2. \A q \in Requests :
          /\ q # p => pc'[q] = pc[q] /\ stage'[q] = stage[q] /\ spark'[q] = spark[q]
          /\ pc'[q] \in {"gap", "stop"} => pc[q] \in {"gap", "stop"}
          /\ spark'[q] \in {spark[q], session}
    BY <1>0, <1>11 DEF Execute, TypeOK, End
  <2>3. \A q \in Ensured' \union Restarting' : stage'[q] = stage[q]
    BY <1>0, <1>11, <2>2 DEF Execute, TypeOK, Ensured, Restarting, End
  <2>4. UNCHANGED sessionVars /\ \A q \in Restarting : mine'[q] = mine[q]
    BY <1>0, <1>11 DEF Execute, TypeOK, Restarting
  <2>5. \A q \in Requests : pc'[q] \in {"asked", "ensure", pc[q]} \union Ended \/ framework # NoOne
    BY <1>0, <1>11, <2>2 DEF Execute, TypeOK, ServeInv, Ended, End
  <2> QED
    BY <1>0, <2>1, <2>2, <2>3, <2>4, <2>5, BystanderServes
<1>12. CASE Ensure(p)
  <2> USE DEF Ensure
  <2>0. /\ pc' = [pc EXCEPT ![p] = AfterEnsure(p)] /\ AfterEnsure(p) \in {"enter", "obtain"}
        /\ UNCHANGED <<stage, spark>>
        /\ Restarting = {} /\ Restarting' = {} /\ Ensured' \subseteq Ensured \union {p}
    <3>1. AfterEnsure(p) \in {"enter", "obtain"}
      BY DEF AfterEnsure
    <3> QED
      BY <1>0, <1>12, <1>r, <3>1 DEF TypeOK, Restarting, Ensured
  <2>1. CASE framework = NoOne /\ framework' = Wanted(p) /\ UNCHANGED <<session, built, meddled>>
    <3>1. framework' # NoOne
      BY <1>w, <2>1, ConfigsAssumption
    <3>2. session' = "none" /\ Ensured = {} /\ \A q \in Requests : pc'[q] \notin {"gap", "stop"}
      BY <1>0, <2>0, <2>1 DEF ServeInv, Ensured, Ended, TypeOK
    <3>3. Promised(framework)'
      BY <2>0, <2>1, <3>2 DEF Promised, Wanted
    <3> QED
      BY <2>0, <2>1, <3>1, <3>2, <3>3 DEF ServeInv, PromiseInv
  <2>2. CASE framework # NoOne /\ Wanted(p) = {} /\ UNCHANGED sessionVars
    <3>1. \A configs : Promised(configs) => \A q \in Ensured' : Wanted(q)' \subseteq configs
      BY <2>0, <2>2 DEF Promised, Wanted
    <3>2. \A q \in Requests : pc'[q] \in {"gap", "stop"} => pc[q] \in {"gap", "stop"}
      BY <1>0, <2>0 DEF TypeOK
    <3>3. PromiseInv => PromiseInv'
      BY <2>0, <2>2, <3>1, <3>2 DEF PromiseInv, Promised
    <3> QED
      BY <2>0, <2>2, <3>3 DEF ServeInv
  <2>3. CASE framework # NoOne /\ GetOrCreate(framework) /\ Gap(p) = {} /\ UNCHANGED framework
    <3>1. ASSUME ~meddled' PROVE PromiseInv'
      <4>1. /\ session' = "live" /\ framework \subseteq built' /\ Promised(built')
            /\ session = "live" => built' = built
            /\ session = "none" => built' = framework
            /\ session # "dead"
        BY <1>0, <2>3, <3>1, ObtainServes DEF ServeInv, PromiseInv
      <4>2. Wanted(p) \subseteq built'
        BY <1>0, <2>3, <4>1 DEF Gap, TypeOK
      <4>3. Promised(built)'
        BY <2>0, <4>1, <4>2 DEF Promised, Wanted
      <4> QED
        BY <2>0, <2>3, <4>1, <4>3 DEF PromiseInv
    <3> QED
      BY <1>l, <2>0, <2>3, <3>1 DEF ServeInv
  <2> QED
    BY <1>12, <2>1, <2>2, <2>3
<1>13. CASE FindGap(p)
  <2>0. /\ Restarting' = {} /\ Ensured' \subseteq Ensured
        /\ UNCHANGED <<stage, spark, framework>> /\ framework # NoOne
    BY <1>0, <1>13, <1>r DEF FindGap, TypeOK, Restarting, Ensured
  <2>1. ASSUME ~meddled' PROVE PromiseInv'
    <3>1. session' = "live" /\ framework \subseteq built' /\ Promised(built')
      BY <1>0, <1>13, <2>1, ObtainServes DEF FindGap
    <3>2. Promised(built)'
      BY <2>0, <3>1 DEF Promised, Wanted
    <3> QED
      BY <2>0, <3>1, <3>2 DEF PromiseInv
  <2> QED
    BY <1>13, <1>l, <2>0, <2>1 DEF FindGap, ServeInv
<1>14. CASE Stop(p)
  <2>0. /\ pc[p] = "stop" /\ session' = "none" /\ UNCHANGED <<framework, built, meddled, stage>>
        /\ mine'[p] = built \union Wanted(p) /\ Ensured' \subseteq Ensured
        /\ Restarting = {} /\ Restarting' = {p}
        /\ \A q \in Requests : pc'[q] \notin {"gap", "stop"}
    BY <1>0, <1>14, <1>r DEF Stop, TypeOK, Restarting, Ensured
  <2>1. \A q \in Requests : spark'[q] # "live"
    BY <1>0, <1>14 DEF Stop, KillSession, Killed
  <2>2. ASSUME PromiseInv PROVE PromiseInv'
    <3>1. framework \subseteq built /\ Promised(built)
      BY <2>0, <2>2 DEF PromiseInv
    <3>2. Wanted(p)' \subseteq mine'[p] /\ Promised(mine'[p])
      BY <2>0, <3>1 DEF Promised, Wanted
    <3>3. \A q \in Ensured' : Wanted(q)' \subseteq mine'[p]
      BY <2>0, <3>2 DEF Promised, Wanted
    <3> QED
      BY <2>0, <3>1, <3>2, <3>3 DEF PromiseInv, Promised
  <2> QED
    BY <2>0, <2>1, <2>2 DEF ServeInv, Ended
<1>15. CASE ReleaseJvm(p)
  <2>0. /\ pc[p] = "release" /\ session' = Killed(session)
        /\ UNCHANGED <<framework, built, meddled, stage, mine>>
        /\ Ensured' \subseteq Ensured /\ p \in Restarting /\ Restarting' = Restarting
        /\ \A q \in Requests : pc'[q] \notin {"gap", "stop"}
    BY <1>0, <1>15, <1>r DEF ReleaseJvm, TypeOK, Restarting, Ensured
  <2>1. \A q \in Requests : spark'[q] # "live"
    BY <1>0, <1>15 DEF ReleaseJvm, KillSession, Killed
  <2>2. ASSUME PromiseInv PROVE PromiseInv'
    <3>1. session' = "none"
      BY <1>0, <2>0, <2>2 DEF PromiseInv, Killed, TypeOK
    <3>2. \A configs : Promised(configs) => \A q \in Ensured' : Wanted(q)' \subseteq configs
      BY <2>0 DEF Promised, Wanted
    <3> QED
      BY <2>0, <2>2, <3>1, <3>2 DEF PromiseInv, Promised, Wanted
  <2>3. framework # NoOne
    BY <2>0 DEF ServeInv, Ended
  <2> QED
    BY <2>0, <2>1, <2>2, <2>3 DEF ServeInv
<1>16. CASE Rebuild(p) \/ RebuildFails(p)
  <2>0. /\ pc[p] = "rebuild" /\ framework' = mine[p] /\ UNCHANGED <<meddled, stage, spark, mine>>
        /\ Ensured' \subseteq Ensured \union {p} /\ Restarting = {p} /\ Restarting' = {}
        /\ \A q \in Requests : pc'[q] \notin {"gap", "stop"}
    <3>1. AfterEnsure(p) \in {"enter", "obtain"}
      BY DEF AfterEnsure
    <3> QED
      BY <1>0, <1>16, <1>r, <3>1, ZenonT(60) DEF Rebuild, RebuildFails, End, TypeOK, Restarting, Ensured
  <2>1. framework' # NoOne
    BY <1>0, <2>0, ConfigsAssumption DEF TypeOK
  <2>2. session = "live" => session' = "live"
    BY <1>16 DEF Rebuild, RebuildFails
  <2>3. ASSUME PromiseInv PROVE PromiseInv'
    <3>1. session = "none" /\ Wanted(p) \subseteq mine[p] /\ Promised(mine[p])
      BY <1>0, <2>0, <2>3 DEF PromiseInv, TypeOK
    <3>2. \A q \in Ensured' : Wanted(q)' \subseteq mine[p]
      BY <2>0, <3>1 DEF Promised, Wanted
    <3>3. session' \in {"none", "live"} /\ (session' = "live" => built' = mine[p])
      BY <1>16, <3>1 DEF Rebuild, RebuildFails
    <3> QED
      BY <2>0, <3>2, <3>3 DEF PromiseInv, Promised
  <2> QED
    BY <2>0, <2>1, <2>2, <2>3 DEF ServeInv
<1>17. CASE Obtain(p)
  <2>0. /\ UNCHANGED <<framework, stage>> /\ framework # NoOne
        /\ Ensured' \subseteq Ensured /\ Restarting' = Restarting
        /\ \A q \in Requests : spark'[q] \in {spark[q], session'}
    <3>1. AfterObtain(p) \in {"enter", "open", "execute", "done"}
      BY AfterObtaining DEF Kinds
    <3>2. Kind[p] = "parse" => AfterObtain(p) = "done"
      BY AfterObtaining
    <3>3. framework # NoOne
      BY <1>17 DEF Obtain, ServeInv, Ended
    <3> QED
      BY <1>0, <1>17, <3>1, <3>2, <3>3 DEF Obtain, TypeOK, Ensured, Restarting
  <2>1. PICK configs : GetOrCreate(configs)
    BY <1>17 DEF Obtain
  <2>2. ASSUME ~meddled' PROVE PromiseInv'
    <3>1. session' = "live" /\ framework \subseteq built' /\ Promised(built') /\ Restarting = {}
      BY <1>0, <2>0, <2>1, <2>2, ObtainServes
    <3>2. Promised(built)'
      BY <2>0, <3>1 DEF Promised, Wanted
    <3> QED
      BY <2>0, <3>1, <3>2 DEF PromiseInv
  <2> QED
    BY <1>l, <2>0, <2>1, <2>2 DEF ServeInv
<1> QED
  BY <1>1, <1>2, <1>3, <1>4, <1>5, <1>6, <1>7, <1>8, <1>9, <1>11, <1>12, <1>13, <1>14,
     <1>15, <1>16, <1>17 DEF Step

\* Whoever works on a live session has the connectors it asked for, through every
\* restart somebody else decided on, unless a session was built behind a restart's back.
THEOREM SessionsServe == Spec => []SessionServesRequest
<1>1. SessionInv /\ ServeInv => SessionServesRequest
  <2> SUFFICES ASSUME SessionInv, ServeInv, NEW p \in Requests, pc[p] \in {"open", "sql", "execute"},
                      spark[p] = "live", ~meddled
               PROVE  Wanted(p) \subseteq built
    BY DEF SessionServesRequest
  <2> QED
    BY DEF SessionInv, ServeInv, PromiseInv, Promised, Ensured, KindInv
<1>2. SessionInv /\ ServeInv /\ [Next]_vars => ServeInv'
  BY ServeStep
<1> QED
  BY <1>1, <1>2, ServeInit, SessionInvariant, PTL DEF Spec

=============================================================================
