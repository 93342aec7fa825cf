-------------------------- MODULE StudioRunsProofs --------------------------
(***************************************************************************)
(* Proofs about StudioRuns, for every set of documents, every number of    *)
(* boxes and every number of runs.                                         *)
(***************************************************************************)
EXTENDS StudioRuns, FiniteSetTheorems, WellFoundedInduction, TLAPS

RunType ==
  [doc : Docs \union {"none"}, here : BOOLEAN, stream : {"none", "sent", "live", "over"},
   server : {"none", "running"} \union Verdicts, made : 0 .. 2 * Boxes,
   asked : BOOLEAN, started : BOOLEAN, settled : BOOLEAN, dropped : BOOLEAN, left : BOOLEAN]
RefsType == [holds : Run \union {0}, live : Run \union {0}, stopping : {"no", "own", "other"}]
StopType == [id : Run, here : BOOLEAN, drops : SUBSET Run]

StoreOK ==
  /\ twin \in Twins
  /\ open \in Docs /\ running \in BOOLEAN /\ stray \in BOOLEAN
  /\ shown \in [of : Run \union {0}, status : Outcomes]
  /\ painted \in [Box -> Statuses] /\ by \in [Box -> Run \union {0}]
  /\ view \in Run \union {0} /\ load \in BOOLEAN
RunsOK == runs \in [Run -> RunType]
PanelOK == refs \in RefsType /\ stops \subseteq StopType

LEMMA Bounds ==
  Boxes \in Nat \ {0} /\ MaxRuns \in Nat \ {0} /\ Run \subseteq Nat \ {0} /\ Box \subseteq Nat \ {0}
BY BoundsAssumption DEF Run, Box

LEMMA TypesInParts == TypeOK <=> StoreOK /\ RunsOK /\ PanelOK
BY DEF TypeOK, StoreOK, RunsOK, PanelOK, RunType, RefsType, StopType

LEMMA InitTypes == Init => TypeOK
<1> SUFFICES ASSUME Init PROVE StoreOK /\ RunsOK /\ PanelOK
  BY TypesInParts
<1>1. Unsent \in RunType
  BY Bounds DEF Unsent, RunType
<1>2. RunsOK
  BY <1>1 DEF Init, RunsOK
<1>3. PanelOK
  BY DEF Init, PanelOK, RefsType, NoRefs
<1>4. painted \in [Box -> Statuses] /\ by \in [Box -> Run \union {0}]
  BY DEF Init, Blank, Nobody, Statuses
<1>5. shown \in [of : Run \union {0}, status : Outcomes]
  BY DEF Init, Nothing, Outcomes, Statuses
<1>6. twin \in Twins /\ open \in Docs /\ running \in BOOLEAN /\ stray \in BOOLEAN /\ view = 0 /\ load \in BOOLEAN
  BY Zenon DEF Init
<1> QED BY <1>2, <1>3, <1>4, <1>5, <1>6 DEF StoreOK

\* Of the intervals from x to the last run, x in a set of runs, the smallest starts at the
\* greatest of the set.
LEMMA GreatestRun ==
  ASSUME NEW T, T \subseteq Run, T # {}
  PROVE  \E x \in T : \A y \in T : y <= x
<1> DEFINE Above == {x .. MaxRuns : x \in T}
<1>1. Above \subseteq FiniteSubsetsOf(Run)
  <2>1. \A x \in T : IsFiniteSet(x .. MaxRuns) /\ x .. MaxRuns \in SUBSET Run
    BY Bounds, FS_Interval DEF Run
  <2> QED
    BY <2>1 DEF FiniteSubsetsOf
<1>2. Above # {}
  OBVIOUS
<1>3. PICK B \in Above : \A C \in Above : ~ (<<C, B>> \in StrictSubsetOrdering(Run))
  BY <1>1, <1>2, WFMin, FS_StrictSubsetOrderingWellFounded
<1>4. PICK x \in T : B = x .. MaxRuns
  OBVIOUS
<1>5. ASSUME NEW y \in T, y > x PROVE FALSE
  <2>1. x \in 1 .. MaxRuns /\ y \in 1 .. MaxRuns /\ MaxRuns \in Nat
    BY Bounds DEF Run
  <2>2. y .. MaxRuns \subseteq x .. MaxRuns /\ x \in x .. MaxRuns /\ x \notin y .. MaxRuns
    BY <1>5, <2>1
  <2>3. y .. MaxRuns \in Above /\ y .. MaxRuns \in SUBSET Run /\ x .. MaxRuns \in SUBSET Run
    BY <2>1 DEF Run
  <2>4. <<y .. MaxRuns, x .. MaxRuns>> \in StrictSubsetOrdering(Run)
    BY <2>2, <2>3 DEF StrictSubsetOrdering
  <2> QED
    BY <1>3, <1>4, <2>3, <2>4
<1> QED
  BY <1>5, Bounds

\* What the history shows of a document is a run of it that the runner took.
LEMMA LatestIsARun ==
  ASSUME NEW d, Latest(d) # 0
  PROVE  Latest(d) \in Run /\ runs[Latest(d)].doc = d /\ runs[Latest(d)].server # "none"
<1> DEFINE past == {r \in Run : runs[r].doc = d /\ runs[r].server # "none"}
<1>1. past # {} /\ Latest(d) = CHOOSE r \in past : \A q \in past : q <= r
  BY Zenon DEF Latest
<1>2. \E r \in past : \A q \in past : q <= r
  BY <1>1, GreatestRun
<1>3. Latest(d) \in past
  <2> HIDE DEF past
  <2> QED BY <1>1, <1>2, Zenon
<1> QED BY <1>3

\* What a box can show of a run.
LEMMA StepTypes ==
  ASSUME RunsOK, NEW r \in Run, runs[r].server # "none"
  PROVE  [b \in Box |-> StepAt(b, runs[r].made, runs[r].server)] \in [Box -> Statuses]
<1>1. runs[r].server \in Statuses
  BY DEF RunsOK, RunType, Statuses, Verdicts
<1>2. \A b \in Box : StepAt(b, runs[r].made, runs[r].server) \in Statuses
  BY <1>1, Zenon DEF StepAt, Statuses
<1> QED BY <1>2

-----------------------------------------------------------------------------
(* What each action leaves of the types.                                    *)

LEMMA LeftTypes == RunsOK => Left \in [Run -> RunType]
BY DEF RunsOK, RunType, Left, Streaming

LEMMA OrphanTypes ==
  ASSUME NEW all \in [Run -> RunType] PROVE Orphaned(all) \in [Run -> RunType]
BY DEF RunType, Orphaned

LEMMA DropTypes == ASSUME RunsOK, NEW held PROVE Drop(held) \in [Run -> RunType]
<1>1. \A r \in Run : (runs[r].dropped \/ (r \in held /\ Streaming(r))) \in BOOLEAN
  OBVIOUS
<1> QED BY <1>1 DEF RunsOK, RunType, Drop

LEMMA OneRunTypes ==
  ASSUME NEW all \in [Run -> RunType], NEW r \in Run, NEW run \in RunType
  PROVE  [all EXCEPT ![r] = run] \in [Run -> RunType]
OBVIOUS

\* The runs as any action leaves them.
LEMMA RunsStep == TypeOK /\ Next => RunsOK'
<1> SUFFICES ASSUME TypeOK, Next PROVE RunsOK'
  OBVIOUS
<1> USE TypesInParts
<1>1. CASE UNCHANGED runs
  BY <1>1 DEF RunsOK
<1>2. ASSUME NEW d \in Docs, Reopen(d) PROVE RunsOK'
  <2>1. runs' = Orphaned(Left)
    BY <1>2 DEF Reopen
  <2> HIDE DEF Left
  <2>2. Left \in [Run -> RunType]
    BY LeftTypes
  <2> QED BY <2>1, <2>2, OrphanTypes DEF RunsOK
<1>3. ASSUME NEW d \in Docs, Switch(d) PROVE RunsOK'
  BY <1>3, LeftTypes DEF Switch, RunsOK
<1>4. CASE Remount
  BY <1>4, ZenonT(60) DEF Remount, Orphaned, RunsOK, RunType
<1>5. ASSUME NEW r \in Run, Execute(r) PROVE RunsOK'
  BY <1>5, Bounds DEF Execute, RunsOK, RunType, Unsent, StoreOK
<1>6. ASSUME NEW r \in Run, Accept(r) PROVE RunsOK'
  <2>1. [runs[r] EXCEPT !.stream = "live", !.server = "running"] \in RunType
    BY DEF RunsOK, RunType
  <2>2. runs' = [runs EXCEPT ![r] = [runs[r] EXCEPT !.stream = "live", !.server = "running"]]
    BY <1>6 DEF Accept, RunsOK
  <2> QED BY <2>1, <2>2, OneRunTypes DEF RunsOK
<1>7. ASSUME NEW r \in Run, runs' = Over(r) PROVE RunsOK'
  BY <1>7, ZenonT(60) DEF Over, RunsOK, RunType
<1>8. ASSUME NEW r \in Run, RunnerSteps(r) PROVE RunsOK'
  BY <1>8, Bounds DEF RunnerSteps, RunsOK, RunType
<1>9. ASSUME NEW r \in Run, NEW verdict \in Verdicts, RunnerEnds(r, verdict) PROVE RunsOK'
  <2>1. [runs[r] EXCEPT !.server = verdict, !.asked = FALSE] \in RunType
    BY DEF RunsOK, RunType
  <2>2. runs' = [runs EXCEPT ![r] = [runs[r] EXCEPT !.server = verdict, !.asked = FALSE]]
    BY <1>9 DEF RunnerEnds, RunsOK
  <2> QED BY <2>1, <2>2, OneRunTypes DEF RunsOK
<1>10. ASSUME NEW r \in Run, HearStart(r) PROVE RunsOK'
  BY <1>10, ZenonT(60) DEF HearStart, RunsOK, RunType
<1>11. ASSUME NEW r \in Run, HearStep(r) PROVE RunsOK'
  BY <1>11, Bounds DEF HearStep, RunsOK, RunType
<1>12. ASSUME NEW r \in Run, HearResult(r) PROVE RunsOK'
  BY <1>12, ZenonT(60) DEF HearResult, RunsOK, RunType
<1>13. CASE Stop
  BY <1>13, DropTypes DEF Stop, RunsOK
<1>14. ASSUME NEW s \in stops, StopIsAccepted(s) PROVE RunsOK'
  BY <1>14, ZenonT(60) DEF StopIsAccepted, RunsOK, RunType, PanelOK, StopType
<1>15. ASSUME NEW s \in stops, StopIsRefused(s) PROVE RunsOK'
  <2>1. s.id \in Run
    BY DEF PanelOK, StopType
  <2>2. Drop(IF s.here THEN {refs.holds} ELSE s.drops) \in [Run -> RunType]
    BY DropTypes
  <2>3. PICK heard \in {FALSE, runs[s.id].server = "running"} :
          runs' = [Drop(IF s.here THEN {refs.holds} ELSE s.drops) EXCEPT ![s.id].asked = @ \/ heard]
    BY <1>15, Zenon DEF StopIsRefused
  <2> DEFINE all == Drop(IF s.here THEN {refs.holds} ELSE s.drops)
  <2> HIDE DEF all
  <2>4. (all[s.id].asked \/ heard) \in BOOLEAN /\ all \in [Run -> RunType]
    BY <2>2, <2>3 DEF all
  <2>5. PICK asked \in BOOLEAN : asked = (all[s.id].asked \/ heard)
    BY <2>4
  <2>6. all[s.id] \in RunType /\ [all[s.id] EXCEPT !.asked = asked] \in RunType
    BY <2>1, <2>4 DEF RunType
  <2>7. runs' = [all EXCEPT ![s.id] = [all[s.id] EXCEPT !.asked = asked]]
    BY <2>1, <2>3, <2>4, <2>5 DEF all
  <2> QED BY <2>1, <2>4, <2>6, <2>7, OneRunTypes DEF RunsOK
<1> QED
  BY <1>1, <1>2, <1>3, <1>4, <1>5, <1>6, <1>7, <1>8, <1>9, <1>10, <1>11, <1>12, <1>13, <1>14, <1>15
     DEF Next, PaintHistory, HistoryFails, ClearRunView, PickRun, Refuse, StreamCloses, StreamBreaks, Aborted, Ended

\* What a panel keeps, as any action leaves it.
LEMMA PanelStep == TypeOK /\ Next => PanelOK'
<1> SUFFICES ASSUME TypeOK, Next PROVE PanelOK'
  OBVIOUS
<1> USE TypesInParts
<1>1. CASE UNCHANGED panels
  BY <1>1 DEF panels, PanelOK
<1>2. CASE PutAway
  <2>1. refs' \in RefsType
    BY <1>2 DEF PutAway, NoRefs, RefsType
  <2>2. ASSUME NEW s \in stops
        PROVE  [s EXCEPT !.here = FALSE, !.drops = IF s.here THEN {refs.holds} \ {0} ELSE @] \in StopType
    <3>1. s \in StopType /\ {refs.holds} \ {0} \in SUBSET Run
      BY DEF PanelOK, RefsType
    <3> QED BY <3>1 DEF StopType
  <2> QED BY <1>2, <2>1, <2>2 DEF PutAway, PanelOK
<1>3. ASSUME NEW r \in Run, Execute(r) PROVE PanelOK'
  BY <1>3 DEF Execute, PanelOK, RefsType
<1>4. ASSUME NEW r \in Run, HearStart(r) PROVE PanelOK'
  BY <1>4 DEF HearStart, PanelOK, RefsType
<1>5. ASSUME NEW r \in Run, NEW what, Ended(r, what) PROVE PanelOK'
  BY <1>5 DEF Ended, PanelOK, RefsType, NoRefs
<1>6. CASE Stop
  <2>1. refs' \in RefsType
    BY <1>6 DEF Stop, PanelOK, RefsType
  <2>2. refs.live # 0 => [id |-> refs.live, here |-> TRUE, drops |-> {}] \in StopType
    BY DEF PanelOK, RefsType, StopType
  <2> QED BY <1>6, <2>1, <2>2 DEF Stop, PanelOK
<1>7. ASSUME UNCHANGED refs, NEW s \in stops, stops' = stops \ {s} PROVE PanelOK'
  BY <1>7 DEF PanelOK
<1> QED
  BY <1>1, <1>2, <1>3, <1>4, <1>5, <1>6, <1>7
     DEF Next, panels, PaintHistory, HistoryFails, ClearRunView, PickRun, Reopen, Switch, Remount, Accept,
         Refuse, RunnerSteps, RunnerEnds, HearStep, HearResult, StreamCloses, StreamBreaks, Aborted,
         StopIsAccepted, StopIsRefused

\* The store, as any action leaves it: what the loader asks for first.
LEMMA LoadStep == TypeOK /\ Next => load' \in BOOLEAN
<1> SUFFICES ASSUME TypeOK, Next PROVE load' \in BOOLEAN
  OBVIOUS
<1>1. load \in BOOLEAN /\ (Rendered => load' \in BOOLEAN)
  BY Zenon DEF TypeOK, Rendered
<1> QED
  BY <1>1, ZenonT(60)
     DEF Next, PaintHistory, HistoryFails, ClearRunView, PickRun, Reopen, Switch, Remount, Execute, Accept,
         Refuse, RunnerSteps, RunnerEnds, HearStart, HearStep, HearResult, StreamCloses, StreamBreaks, Aborted,
         Stop, StopIsAccepted, StopIsRefused, Ended

LEMMA StoreStep == TypeOK /\ Next => StoreOK'
<1> SUFFICES ASSUME TypeOK, Next PROVE StoreOK'
  OBVIOUS
<1> USE TypesInParts
<1>1. load' \in BOOLEAN
  BY LoadStep
<1>2. CASE UNCHANGED <<twin, store, stray>>
  BY <1>1, <1>2 DEF store, StoreOK
<1>3. ASSUME NEW r \in Run, runs[r].server # "none", ShowRunView(r), UNCHANGED <<twin, open, running, shown, stray>>
      PROVE  StoreOK'
  BY <1>1, <1>3, StepTypes DEF ShowRunView, StoreOK
<1>4. CASE PaintHistory
  <2>1. CASE Latest(open) = 0
    BY <1>1, <1>4, <2>1 DEF PaintHistory, StoreOK
  <2> QED BY <1>3, <1>4, <2>1, LatestIsARun DEF PaintHistory
<1>5. CASE ClearRunView
  BY <1>1, <1>5 DEF ClearRunView, StoreOK, Blank, Nobody, Statuses
<1>6. ASSUME NEW d \in Docs, Opened(d), UNCHANGED twin PROVE StoreOK'
  BY <1>1, <1>6 DEF Opened, StoreOK, Blank, Nobody, Nothing, Statuses, Outcomes
<1>7. ASSUME NEW r \in Run, Execute(r) PROVE StoreOK'
  <2>1. shown' \in [of : Run \union {0}, status : Outcomes]
    BY <1>7 DEF Execute, Nothing, Outcomes, Statuses
  <2>2. stray' \in BOOLEAN /\ running' \in BOOLEAN /\ open' = open /\ view' = 0 /\ twin' = twin
    BY <1>7, Zenon DEF Execute, StoreOK
  <2>3. painted' \in [Box -> Statuses] /\ by' \in [Box -> Run \union {0}]
    BY <1>7 DEF Execute, Statuses
  <2> QED BY <1>1, <2>1, <2>2, <2>3 DEF StoreOK
<1>8. ASSUME NEW r \in Run PROVE Strayed(r) \in BOOLEAN
  BY DEF Strayed, StoreOK, RunsOK, RunType
<1>9. ASSUME NEW r \in Run, NEW what \in [of : Run \union {0}, status : Outcomes], Ended(r, what) PROVE StoreOK'
  BY <1>1, <1>8, <1>9 DEF Ended, StoreOK
<1>10. ASSUME NEW r \in Run, Refuse(r) PROVE StoreOK'
  <2>1. Nothing \in [of : Run \union {0}, status : Outcomes]
        /\ [of |-> r, status |-> IF runs[r].dropped THEN "dropped" ELSE "lost"] \in [of : Run \union {0}, status : Outcomes]
    BY DEF Nothing, Outcomes, Statuses
  <2> QED BY <1>9, <1>10, <2>1 DEF Refuse
<1>11. ASSUME NEW r \in Run, StreamBreaks(r) \/ Aborted(r) PROVE StoreOK'
  <2>1. \A status \in {"lost", "dropped"} : [of |-> r, status |-> status] \in [of : Run \union {0}, status : Outcomes]
    BY DEF Outcomes
  <2> QED BY <1>9, <1>11, <2>1 DEF StreamBreaks, Aborted
<1>12. ASSUME NEW r \in Run, StreamCloses(r) PROVE StoreOK'
  <2>1. \A status \in {"lost", runs[r].server} : [of |-> r, status |-> status] \in [of : Run \union {0}, status : Outcomes]
    BY DEF Outcomes, Statuses, RunsOK, RunType, Verdicts
  <2> QED BY <1>9, <1>12, <2>1 DEF StreamCloses, StoreOK
<1>13. ASSUME NEW r \in Run, HearStep(r) PROVE StoreOK'
  <2>1. painted' \in [Box -> Statuses] /\ by' \in [Box -> Run \union {0}]
    BY <1>13 DEF HearStep, StoreOK, Statuses
  <2>2. shown' \in [of : Run \union {0}, status : Outcomes]
    BY <1>13 DEF HearStep, StoreOK, Outcomes, Statuses
  <2> QED BY <1>1, <1>8, <1>13, <2>1, <2>2 DEF HearStep, StoreOK
<1>14. ASSUME NEW r \in Run, HearResult(r) PROVE StoreOK'
  <2>1. runs[r].server \in Statuses \intersect Outcomes
    BY <1>14 DEF HearResult, Verdicts, Statuses, Outcomes
  <2>2. painted' \in [Box -> Statuses] /\ by' \in [Box -> Run \union {0}]
    BY <1>14, <2>1 DEF HearResult, StoreOK
  <2>3. shown' \in [of : Run \union {0}, status : Outcomes]
    BY <1>14, <2>1 DEF HearResult, StoreOK
  <2>4. running' \in BOOLEAN
    BY <1>14, Zenon DEF HearResult, StoreOK
  <2> QED BY <1>1, <1>8, <1>14, <2>2, <2>3, <2>4 DEF HearResult, StoreOK
<1> QED
  BY <1>2, <1>3, <1>4, <1>5, <1>6, <1>7, <1>10, <1>11, <1>12, <1>13, <1>14
     DEF Next, HistoryFails, PickRun, Reopen, Switch, Remount, Accept, RunnerSteps, RunnerEnds, HearStart,
         Stop, StopIsAccepted, StopIsRefused, Opened

LEMMA TypeStep == TypeOK /\ [Next]_vars => TypeOK'
<1>1. TypeOK /\ UNCHANGED vars => TypeOK'
  BY DEF TypeOK, vars, store, panels
<1>2. (StoreOK /\ RunsOK /\ PanelOK)' => TypeOK'
  BY DEF TypeOK, StoreOK, RunsOK, PanelOK, RunType, RefsType, StopType
<1> QED BY <1>1, <1>2, RunsStep, PanelStep, StoreStep

\* The types of the model hold in every state of it: stores, panels and runs of every
\* document (index.ts, RunPanel.tsx, PipelineRunPanel.tsx).
THEOREM StudioIsTyped == Spec => []TypeOK
BY InitTypes, TypeStep, PTL DEF Spec

-----------------------------------------------------------------------------
(* A run and what is known of it.                                           *)

Known(r) ==
  /\ runs[r].stream \in {"none", "sent"} => runs[r].server = "none"
  /\ runs[r].stream = "live" => runs[r].server # "none"
  /\ IF runs[r].stream = "none" THEN runs[r].doc = "none" ELSE runs[r].doc \in Docs
  /\ runs[r].server = "none" => runs[r].made = 0
  /\ runs[r].server = "success" => runs[r].made = 2 * Boxes
  /\ runs[r].settled => runs[r].server \in Verdicts
  /\ runs[r].here \/ runs[r].settled => Streaming(r)

KnownInv == \A r \in Run : Known(r)

\* What stays of a run when only what its reader and its runner are told changes.
Same(q) ==
  /\ runs'[q].doc = runs[q].doc /\ runs'[q].here = runs[q].here
  /\ runs'[q].stream = runs[q].stream /\ runs'[q].server = runs[q].server
  /\ runs'[q].made = runs[q].made /\ runs'[q].started = runs[q].started
  /\ runs'[q].settled = runs[q].settled /\ runs'[q].left = runs[q].left

\* What a refused Stop does to a run.
LEMMA RefusedStop ==
  ASSUME TypeOK, NEW s \in stops, StopIsRefused(s), NEW q \in Run
  PROVE  /\ Same(q)
         /\ runs[q].asked => runs'[q].asked
         /\ runs[q].dropped => runs'[q].dropped
         /\ s.here /\ q = refs.holds /\ Streaming(q) => runs'[q].dropped
<1> USE TypesInParts
<1> DEFINE held == IF s.here THEN {refs.holds} ELSE s.drops
           drop == runs[q].dropped \/ (q \in held /\ Streaming(q))
<1>1. s.id \in Run /\ runs[q] \in RunType
  BY DEF PanelOK, StopType, RunsOK
<1>2. PICK heard \in {FALSE, runs[s.id].server = "running"} :
        runs' = [Drop(held) EXCEPT ![s.id].asked = @ \/ heard]
  BY Zenon DEF StopIsRefused
<1> HIDE DEF held
<1>3. PICK dropped \in BOOLEAN : dropped = drop
  OBVIOUS
<1>4. Drop(held)[q] = [runs[q] EXCEPT !.dropped = dropped]
  BY <1>3 DEF Drop
<1>5. s.here /\ q = refs.holds /\ Streaming(q) => dropped
  BY <1>3 DEF held
<1>6. runs[q].dropped => dropped
  BY <1>3
<1> HIDE DEF drop
<1>7. PICK asked \in BOOLEAN : asked = (IF q = s.id THEN runs[q].asked \/ heard ELSE runs[q].asked)
  BY <1>1, <1>2 DEF RunType
<1>8. runs'[q] = [runs[q] EXCEPT !.asked = asked, !.dropped = dropped]
  <2>1. Drop(held) \in [Run -> RunType]
    BY DropTypes
  <2>2. CASE q # s.id
    <3>1. runs'[q] = Drop(held)[q] /\ asked = runs[q].asked
      BY <1>1, <1>2, <1>7, <2>1, <2>2
    <3> QED BY <1>1, <1>4, <3>1 DEF RunType
  <2>3. CASE q = s.id
    <3>1. runs'[q] = [Drop(held)[q] EXCEPT !.asked = Drop(held)[q].asked \/ heard]
      BY <1>1, <1>2, <2>1, <2>3
    <3>2. Drop(held)[q].asked = runs[q].asked
      BY <1>1, <1>4 DEF RunType
    <3>3. (Drop(held)[q].asked \/ heard) = asked
      BY <1>7, <2>3, <3>2
    <3> QED BY <1>1, <1>4, <3>1, <3>3 DEF RunType
  <2> QED BY <2>2, <2>3
<1>9. runs[q].asked => asked
  BY <1>7
<1> QED BY <1>1, <1>5, <1>6, <1>8, <1>9 DEF RunType, Same

LEMMA KnownStep == TypeOK /\ KnownInv /\ Next => KnownInv'
<1> SUFFICES ASSUME TypeOK, KnownInv, Next, NEW q \in Run PROVE Known(q)'
  BY DEF KnownInv
<1> USE TypesInParts
<1>1. Known(q) /\ runs[q] \in RunType /\ runs \in [Run -> RunType]
  BY DEF KnownInv, RunsOK
<1>2. CASE UNCHANGED runs
  BY <1>1, <1>2 DEF Known, Streaming
<1>3. ASSUME NEW d \in Docs, Reopen(d) PROVE Known(q)'
  BY <1>1, <1>3 DEF Reopen, Orphaned, Left, Known, Streaming, RunType
<1>4. ASSUME NEW d \in Docs, Switch(d) PROVE Known(q)'
  BY <1>1, <1>4 DEF Switch, Left, Known, Streaming, RunType
<1>5. CASE Remount
  BY <1>1, <1>5 DEF Remount, Orphaned, Known, Streaming, RunType
<1>6. ASSUME NEW r \in Run, Execute(r) PROVE Known(q)'
  BY <1>1, <1>6, Bounds DEF Execute, Known, Streaming, Unsent, StoreOK, Verdicts
<1>7. ASSUME NEW r \in Run, Accept(r) PROVE Known(q)'
  BY <1>1, <1>7 DEF Accept, Known, Streaming, RunType
<1>8. ASSUME NEW r \in Run, runs' = Over(r), Streaming(r) PROVE Known(q)'
  BY <1>1, <1>8 DEF Over, Known, Streaming, RunType
<1>9. ASSUME NEW r \in Run, RunnerSteps(r) PROVE Known(q)'
  BY <1>1, <1>9, Bounds DEF RunnerSteps, Known, Streaming, RunType, Verdicts
<1>10. ASSUME NEW r \in Run, NEW verdict \in Verdicts, RunnerEnds(r, verdict) PROVE Known(q)'
  BY <1>1, <1>10 DEF RunnerEnds, Known, Streaming, RunType, Verdicts
<1>11. ASSUME NEW r \in Run, HearStart(r) PROVE Known(q)'
  BY <1>1, <1>11 DEF HearStart, Live, Known, Streaming, RunType
<1>12. ASSUME NEW r \in Run, HearStep(r) PROVE Known(q)'
  BY <1>1, <1>12, Bounds DEF HearStep, Live, Known, Streaming, RunType, Verdicts
<1>13. ASSUME NEW r \in Run, HearResult(r) PROVE Known(q)'
  BY <1>1, <1>13 DEF HearResult, Live, Known, Streaming, RunType
<1>14. CASE Stop
  BY <1>1, <1>14 DEF Stop, Drop, Known, Streaming, RunType
<1>15. ASSUME NEW s \in stops, StopIsAccepted(s) PROVE Known(q)'
  BY <1>1, <1>15 DEF StopIsAccepted, Known, Streaming, RunType, PanelOK, StopType
<1>16. ASSUME NEW s \in stops, StopIsRefused(s) PROVE Known(q)'
  BY <1>1, <1>16, RefusedStop DEF Known, Streaming, Same
<1> QED
  BY <1>2, <1>3, <1>4, <1>5, <1>6, <1>7, <1>8, <1>9, <1>10, <1>11, <1>12, <1>13, <1>14, <1>15, <1>16
     DEF Next, PaintHistory, HistoryFails, ClearRunView, PickRun, Refuse, StreamCloses, StreamBreaks, Aborted, Ended,
         Live, Streaming

-----------------------------------------------------------------------------
(* Stop. What a panel has in its refs is a run it follows itself; and one   *)
(* that waits for the answer to a Stop of its own still follows a run.      *)

RefsInv ==
  /\ refs.holds # 0 => runs[refs.holds].here
  /\ refs.live # 0 => runs[refs.live].here
  /\ refs.stopping = "own" => \E q \in Run : runs[q].here

\* Run q has been told to stop, or needs not be.
Heeds(q) == runs[q].asked \/ runs[q].dropped \/ runs[q].server \in Verdicts

StopInv == RefsInv /\ StopIsUnderWay

LEMMA StopStep == TypeOK /\ KnownInv /\ StopInv /\ Next => StopInv'
<1> SUFFICES ASSUME TypeOK, KnownInv, StopInv, Next PROVE StopInv'
  OBVIOUS
<1> USE TypesInParts
<1>1. /\ refs \in RefsType /\ runs \in [Run -> RunType] /\ 0 \notin Run
      /\ \A q \in Run : runs[q] \in RunType /\ Known(q)
      /\ stops \subseteq StopType
  BY Bounds DEF RunsOK, PanelOK, KnownInv
\* Nothing a panel has or follows changes, and what heeds goes on doing so.
<1>2. ASSUME UNCHANGED panels,
             \A q \in Run : runs'[q].here = runs[q].here /\ (Heeds(q) => Heeds(q)')
      PROVE  StopInv'
  BY <1>1, <1>2 DEF panels, StopInv, RefsInv, StopIsUnderWay, Heeds, RefsType
<1>3. CASE UNCHANGED runs /\ UNCHANGED panels
  BY <1>2, <1>3 DEF Heeds
<1>4. CASE refs' = NoRefs
  BY <1>4 DEF StopInv, RefsInv, StopIsUnderWay, NoRefs
<1>5. ASSUME NEW d \in Docs, Switch(d) PROVE StopInv'
  <2>1. \A q \in Run : runs'[q].here = runs[q].here /\ (Heeds(q) => Heeds(q)')
    BY <1>1, <1>5 DEF Switch, Left, Heeds, RunType
  <2> QED BY <1>2, <1>5, <2>1 DEF Switch, panels
<1>6. ASSUME NEW r \in Run, Execute(r) PROVE StopInv'
  <2>1. ~runs[r].here /\ refs' = [refs EXCEPT !.holds = r] /\ UNCHANGED stops
    BY <1>6 DEF Execute, Unsent
  <2>2. runs'[r].here /\ \A q \in Run \ {r} : runs'[q] = runs[q]
    BY <1>1, <1>6 DEF Execute, Unsent
  <2>3. RefsInv'
    BY <1>1, <2>1, <2>2 DEF StopInv, RefsInv, RefsType
  <2>4. refs'.stopping = "own" => \E q \in Run : runs'[q].here /\ q # refs'.holds
    BY <1>1, <2>1, <2>2 DEF StopInv, RefsInv, RefsType
  <2> QED BY <2>3, <2>4 DEF StopInv, StopIsUnderWay
<1>7. ASSUME NEW r \in Run, Accept(r) PROVE StopInv'
  <2>1. \A q \in Run : runs'[q].here = runs[q].here /\ (Heeds(q) => Heeds(q)')
    BY <1>1, <1>7 DEF Accept, Heeds, RunType, Known, Verdicts
  <2> QED BY <1>2, <1>7, <2>1 DEF Accept
<1>8. ASSUME NEW r \in Run, RunnerSteps(r) \/ HearStep(r) PROVE StopInv'
  <2>1. \A q \in Run : runs'[q].here = runs[q].here /\ (Heeds(q) => Heeds(q)')
    BY <1>1, <1>8 DEF RunnerSteps, HearStep, Heeds, RunType
  <2> QED BY <1>2, <1>8, <2>1 DEF RunnerSteps, HearStep
<1>9. ASSUME NEW r \in Run, NEW verdict \in Verdicts, RunnerEnds(r, verdict) PROVE StopInv'
  <2>1. \A q \in Run : runs'[q].here = runs[q].here /\ (Heeds(q) => Heeds(q)')
    BY <1>1, <1>9 DEF RunnerEnds, Heeds, RunType
  <2> QED BY <1>2, <1>9, <2>1 DEF RunnerEnds
<1>10. ASSUME NEW r \in Run, HearStart(r) PROVE StopInv'
  <2>1. \A q \in Run : runs'[q].here = runs[q].here /\ (Heeds(q) => Heeds(q)')
    BY <1>1, <1>10 DEF HearStart, Heeds, RunType
  <2>2. UNCHANGED stops /\ refs' = IF runs[r].here THEN [refs EXCEPT !.live = r] ELSE refs
    BY <1>10 DEF HearStart
  <2> QED BY <1>1, <2>1, <2>2 DEF StopInv, RefsInv, StopIsUnderWay, Heeds, RefsType
<1>11. ASSUME NEW r \in Run, HearResult(r) PROVE StopInv'
  <2>1. \A q \in Run : runs'[q].here = runs[q].here /\ (Heeds(q) => Heeds(q)')
    BY <1>1, <1>11 DEF HearResult, Heeds, RunType
  <2> QED BY <1>2, <1>11, <2>1 DEF HearResult
<1>12. ASSUME NEW r \in Run, NEW what, Ended(r, what) PROVE StopInv'
  <2>1. ~runs'[r].here /\ \A q \in Run \ {r} : runs'[q] = runs[q]
    BY <1>1, <1>12 DEF Ended, Over, RunType
  <2>2. CASE runs[r].here
    <3>1. refs' = [NoRefs EXCEPT !.holds = IF refs.holds = r THEN 0 ELSE refs.holds]
      BY <1>12, <2>2 DEF Ended
    <3> QED BY <1>1, <2>1, <3>1 DEF StopInv, RefsInv, StopIsUnderWay, RefsType, NoRefs
  <2>3. CASE ~runs[r].here
    <3>1. UNCHANGED panels
      BY <1>12, <2>3 DEF Ended, panels
    <3> QED BY <1>1, <2>1, <2>3, <3>1 DEF panels, StopInv, RefsInv, StopIsUnderWay, RefsType
  <2> QED BY <2>2, <2>3
<1>13. CASE Stop
  <2>1. refs' = [refs EXCEPT !.stopping = IF refs.holds # 0 THEN "own" ELSE "other"]
    BY <1>13 DEF Stop
  <2>2. \A q \in Run : Same(q)
    BY <1>1, <1>13 DEF Stop, Drop, Same, RunType
  <2>3. RefsInv'
    BY <1>1, <2>1, <2>2 DEF StopInv, RefsInv, RefsType, Same
  <2>4. ASSUME refs.holds # 0, \A q \in Run : runs[q].here => q = refs.holds
        PROVE  (\E s \in stops' : s.id = refs.holds /\ s.here) \/ runs'[refs.holds].dropped
    <3>1. CASE refs.live = 0
      BY <1>1, <1>13, <2>4, <3>1 DEF Stop, Drop, StopInv, RefsInv, Known, RefsType, RunType
    <3>2. CASE refs.live # 0
      <4>1. refs.live = refs.holds
        BY <1>1, <2>4, <3>2 DEF StopInv, RefsInv, RefsType
      <4>2. [id |-> refs.live, here |-> TRUE, drops |-> {}] \in stops'
        BY <1>13, <3>2 DEF Stop
      <4> QED BY <4>1, <4>2
    <3> QED BY <3>1, <3>2
  <2> QED BY <1>1, <2>1, <2>2, <2>3, <2>4 DEF StopInv, StopIsUnderWay, Same, RefsType
<1>14. ASSUME NEW s \in stops, StopIsAccepted(s) PROVE StopInv'
  <2>1. s.id \in Run /\ UNCHANGED refs /\ stops' = stops \ {s}
    BY <1>1, <1>14 DEF StopIsAccepted, StopType
  <2>2. runs'[s.id].asked /\ \A q \in Run : Same(q) /\ (Heeds(q) => Heeds(q)')
    BY <1>1, <1>14, <2>1 DEF StopIsAccepted, Same, Heeds, RunType
  <2> QED BY <1>1, <2>1, <2>2 DEF StopInv, RefsInv, StopIsUnderWay, Heeds, Same, RefsType
<1>15. ASSUME NEW s \in stops, StopIsRefused(s) PROVE StopInv'
  <2>1. UNCHANGED refs /\ stops' = stops \ {s}
    BY <1>15 DEF StopIsRefused
  <2>2. \A q \in Run : Same(q) /\ (Heeds(q) => Heeds(q)')
    BY <1>15, RefusedStop DEF Same, Heeds
  <2>3. s.here /\ s.id = refs.holds => runs'[refs.holds].dropped
    <3>1. refs.holds # 0 => refs.holds \in Run /\ Streaming(refs.holds)
      BY <1>1 DEF StopInv, RefsInv, Known, RefsType
    <3> QED BY <1>1, <1>15, <3>1, RefusedStop DEF StopType
  <2> QED BY <1>1, <2>1, <2>2, <2>3 DEF StopInv, RefsInv, StopIsUnderWay, Heeds, Same, RefsType
<1> QED
  BY <1>3, <1>4, <1>5, <1>6, <1>7, <1>8, <1>9, <1>10, <1>11, <1>12, <1>13, <1>14, <1>15
     DEF Next, panels, PaintHistory, HistoryFails, ClearRunView, PickRun, Reopen, Remount, PutAway, Refuse,
         StreamCloses, StreamBreaks, Aborted

LEMMA StopInit == Init => KnownInv /\ StopInv
<1> SUFFICES ASSUME Init PROVE KnownInv /\ StopInv
  OBVIOUS
<1>1. \A r \in Run : runs[r] = Unsent
  BY DEF Init
<1>2. KnownInv
  BY <1>1 DEF KnownInv, Known, Unsent, Streaming
<1>3. StopInv
  BY DEF Init, StopInv, RefsInv, StopIsUnderWay, NoRefs
<1> QED BY <1>2, <1>3

LEMMA Stuttering == UNCHANGED vars => ((KnownInv <=> KnownInv') /\ (StopInv <=> StopInv'))
BY DEF vars, store, panels, KnownInv, Known, Streaming, StopInv, RefsInv, StopIsUnderWay

LEMMA RunsAreKnown == Spec => []KnownInv
<1>1. Init => KnownInv
  BY StopInit
<1>2. TypeOK /\ KnownInv /\ [Next]_vars => KnownInv'
  BY KnownStep, Stuttering
<1> QED BY StudioIsTyped, <1>1, <1>2, PTL DEF Spec

\* Stop pressed on a panel that follows one run, its own, is under way until the run is
\* over: whatever else the panel, the runner and the answers of other Stops do between
\* (cancel in RunPanel.tsx and PipelineRunPanel.tsx).
THEOREM StopsAreUnderWay == Spec => []StopIsUnderWay
<1>1. Init => StopInv
  BY StopInit
<1>2. TypeOK /\ KnownInv /\ StopInv /\ [Next]_vars => StopInv'
  BY StopStep, Stuttering
<1>3. StopInv => StopIsUnderWay
  BY DEF StopInv
<1> QED BY StudioIsTyped, RunsAreKnown, <1>1, <1>2, <1>3, PTL DEF Spec

-----------------------------------------------------------------------------
(* What the panel says. Of the runs that stream, the current ones were sent *)
(* by this visit of the document that is open. Undisturbed there is one at  *)
(* most, and `running` while it has no result.                              *)

Current(r) == Streaming(r) /\ ~runs[r].left

OneRun ==
  /\ running => \E r \in Run : Current(r)
  /\ \A r \in Run : Current(r) =>
       /\ \A q \in Run : Current(q) => q = r
       /\ ~runs[r].settled => running

ShownSays ==
  shown.of # 0 =>
    /\ runs[shown.of].doc = open
    /\ shown.status = "running" => twin = "job" /\ running /\ Current(shown.of)
    /\ shown.status \in Verdicts => runs[shown.of].server = shown.status

CurrentInv == \A r \in Run : Current(r) => runs[r].doc = open
PanelInv == CurrentInv /\ (Calm => OneRun /\ ShownSays)

LEMMA PanelInvHolds == TypeOK /\ PanelInv => PanelTellsTheTruth
<1> SUFFICES ASSUME TypeOK, PanelInv, Calm
             PROVE  /\ shown.of # 0 =>
                         /\ runs[shown.of].doc = open
                         /\ shown.status = "running" => running /\ Streaming(shown.of)
                         /\ shown.status \in Verdicts => runs[shown.of].server = shown.status
                    /\ running => Followed # {}
                    /\ (\E r \in Followed : ~runs[r].left /\ ~runs[r].settled) => running
  BY DEF PanelTellsTheTruth
<1> QED BY DEF PanelInv, CurrentInv, OneRun, ShownSays, Followed, Current

\* Nothing the panel speaks of changes.
Undisturbed ==
  /\ UNCHANGED <<twin, open, running, shown, stray>>
  /\ \A q \in Run :
       /\ Current(q)' <=> Current(q)
       /\ runs'[q].doc = runs[q].doc /\ runs'[q].settled = runs[q].settled
       /\ runs[q].server \in Verdicts => runs'[q].server = runs[q].server

LEMMA UndisturbedPanel == TypeOK /\ PanelInv /\ Undisturbed => PanelInv'
<1> SUFFICES ASSUME TypeOK, PanelInv, Undisturbed PROVE PanelInv'
  OBVIOUS
<1>1. shown.of # 0 => shown.of \in Run
  BY DEF TypeOK
<1>2. CurrentInv'
  BY DEF Undisturbed, PanelInv, CurrentInv
<1>3. Calm => OneRun' /\ ShownSays'
  <2>1. Calm => OneRun'
    BY DEF Undisturbed, PanelInv, OneRun
  <2>2. Calm => ShownSays'
    BY <1>1 DEF Undisturbed, PanelInv, ShownSays
  <2> QED BY <2>1, <2>2
<1>4. Calm' <=> Calm
  BY DEF Undisturbed, Calm
<1> QED BY <1>2, <1>3, <1>4 DEF PanelInv

\* When an execution ends undisturbed no run is current any more.
LEMMA EndedPanel ==
  ASSUME TypeOK, PanelInv, NEW r \in Run, NEW what, Streaming(r), Ended(r, what),
         Calm /\ Current(r) => /\ what.of # 0 => /\ what.of \in Run /\ runs[what.of].doc = open
                                                 /\ what.status # "running"
                                                 /\ what.status \in Verdicts => runs[what.of].server = what.status
  PROVE  PanelInv'
<1> USE TypesInParts
<1>1. \A q \in Run : runs'[q].doc = runs[q].doc /\ runs'[q].server = runs[q].server
  BY DEF Ended, Over, RunsOK, RunType
<1>2. ~Current(r)' /\ \A q \in Run \ {r} : Current(q)' <=> Current(q)
  BY DEF Ended, Over, RunsOK, RunType, Current, Streaming
<1>3. ~running' /\ shown' = what /\ open' = open /\ (stray' <=> stray \/ runs[r].left)
  BY Zenon DEF Ended, Strayed
<1>4. CurrentInv'
  BY <1>1, <1>2, <1>3 DEF PanelInv, CurrentInv
<1>5. ASSUME Calm' PROVE OneRun' /\ ShownSays'
  <2>1. Calm /\ Current(r)
    BY <1>3, <1>5 DEF Calm, Current
  <2>2. \A q \in Run : ~Current(q)'
    BY <1>2, <2>1 DEF PanelInv, OneRun
  <2>3. OneRun'
    BY <1>3, <2>2 DEF OneRun
  <2>4. ShownSays'
    BY <1>1, <1>3, <2>1 DEF ShownSays
  <2> QED BY <2>3, <2>4
<1> QED BY <1>4, <1>5 DEF PanelInv

\* Whoever comes to a document finds no run that this visit sent.
LEMMA NoneIsCurrent ==
  ASSUME TypeOK, PanelInv, NEW d, Reopen(d) \/ Switch(d), NEW q \in Run
  PROVE  ~Current(q)'
<1> USE TypesInParts
<1>1. Left[q].left <=> (runs[q].left \/ (Streaming(q) /\ runs[q].doc = open))
  BY DEF Left, RunsOK, RunType
<1>2. Left \in [Run -> RunType] /\ Left[q].stream = runs[q].stream
  BY LeftTypes DEF Left, RunsOK, RunType
<1>3. runs'[q].left = Left[q].left /\ runs'[q].stream = runs[q].stream
  <2> HIDE DEF Left
  <2> QED BY <1>2 DEF Reopen, Switch, Orphaned, RunType
<1> QED BY <1>1, <1>3 DEF PanelInv, CurrentInv, Current, Streaming

LEMMA PanelSpeaks == TypeOK /\ KnownInv /\ PanelInv /\ Next => PanelInv'
<1> SUFFICES ASSUME TypeOK, KnownInv, PanelInv, Next PROVE PanelInv'
  OBVIOUS
<1> USE TypesInParts
<1>1. /\ runs \in [Run -> RunType] /\ 0 \notin Run
      /\ \A q \in Run : runs[q] \in RunType /\ Known(q)
  BY Bounds DEF RunsOK, KnownInv
<1>2. CASE UNCHANGED <<twin, open, running, shown, stray>> /\ \A q \in Run : Same(q)
  <2>1. Undisturbed
    BY <1>2 DEF Undisturbed, Same, Current, Streaming
  <2> QED BY <2>1, UndisturbedPanel
<1>3. CASE UNCHANGED <<twin, open, running, shown, runs, stray>>
  BY <1>2, <1>3 DEF Same
<1>4. ASSUME NEW d \in Docs, Opened(d), \A q \in Run : ~Current(q)' PROVE PanelInv'
  BY <1>4 DEF Opened, Nothing, PanelInv, CurrentInv, OneRun, ShownSays
<1>5. ASSUME NEW d \in Docs, Reopen(d) \/ Switch(d) PROVE PanelInv'
  BY <1>4, <1>5, NoneIsCurrent DEF Reopen, Switch
<1>6. CASE Remount
  <2>1. \A q \in Run : Current(q)' = Current(q) /\ runs'[q].doc = runs[q].doc
                       /\ runs'[q].settled = runs[q].settled /\ runs'[q].server = runs[q].server
    BY <1>1, <1>6 DEF Remount, Orphaned, Current, Streaming, RunType
  <2> QED BY <1>6, <2>1, UndisturbedPanel DEF Remount, store, Undisturbed
<1>7. ASSUME NEW r \in Run, Execute(r) PROVE PanelInv'
  <2>1. runs'[r].doc = open /\ Current(r)' /\ ~Current(r) /\ runs[r].stream = "none"
    BY <1>1, <1>7 DEF Execute, Unsent, Current, Streaming
  <2>2. \A q \in Run \ {r} : runs'[q] = runs[q] /\ (Current(q)' <=> Current(q))
    BY <1>1, <1>7 DEF Execute, Current, Streaming
  <2>3. ~running /\ running' /\ open' = open /\ (Calm' => Calm /\ \A q \in Run : runs[q].stream = "live" => runs[q].left)
    BY <1>7, Zenon DEF Execute, Calm
  <2>4. CurrentInv'
    BY <2>1, <2>2, <2>3 DEF PanelInv, CurrentInv
  <2>5. ASSUME Calm' PROVE OneRun' /\ ShownSays'
    <3>1. \A q \in Run : Current(q) => runs[q].settled
      BY <2>3, <2>5 DEF PanelInv, OneRun
    <3>2. \A q \in Run : ~Current(q)
      BY <1>1, <2>3, <2>5, <3>1 DEF Known, Current, Streaming, Verdicts
    <3>3. OneRun'
      BY <2>1, <2>2, <2>3, <3>2 DEF OneRun
    <3>4. twin' = twin /\ (shown' = Nothing \/ (twin = "job" /\ shown' = [of |-> r, status |-> "running"]))
      BY <1>7 DEF Execute
    <3>5. ShownSays'
      BY <2>1, <2>3, <3>4 DEF ShownSays, Nothing, Verdicts
    <3> QED BY <3>3, <3>5
  <2> QED BY <2>4, <2>5 DEF PanelInv
<1>8. ASSUME NEW r \in Run, Accept(r) PROVE PanelInv'
  <2>1. Undisturbed
    BY <1>1, <1>8 DEF Accept, store, Undisturbed, Current, Streaming, RunType, Known, Verdicts
  <2> QED BY <2>1, UndisturbedPanel
<1>9. ASSUME NEW r \in Run, Refuse(r) PROVE PanelInv'
  <2>1. Streaming(r) /\ (Current(r) => runs[r].doc = open)
    BY <1>9 DEF Refuse, Streaming, PanelInv, CurrentInv
  <2>2. CASE Ended(r, [of |-> r, status |-> IF runs[r].dropped THEN "dropped" ELSE "lost"])
    BY <2>1, <2>2, EndedPanel DEF Verdicts
  <2>3. CASE Ended(r, Nothing)
    BY <2>1, <2>3, EndedPanel DEF Nothing
  <2> QED BY <1>9, <2>2, <2>3 DEF Refuse
<1>10. ASSUME NEW r \in Run, StreamBreaks(r) \/ Aborted(r) PROVE PanelInv'
  <2>1. Streaming(r) /\ (Current(r) => runs[r].doc = open)
    BY <1>10 DEF StreamBreaks, Aborted, Live, Streaming, PanelInv, CurrentInv
  <2>2. CASE Ended(r, [of |-> r, status |-> "lost"])
    BY <2>1, <2>2, EndedPanel DEF Verdicts
  <2>3. CASE Ended(r, [of |-> r, status |-> "dropped"])
    BY <2>1, <2>3, EndedPanel DEF Verdicts
  <2> QED BY <1>10, <2>2, <2>3 DEF StreamBreaks, Aborted
<1>11. ASSUME NEW r \in Run, StreamCloses(r) PROVE PanelInv'
  <2>1. Streaming(r) /\ runs[r].server \in Verdicts /\ (Current(r) => runs[r].doc = open)
    BY <1>1, <1>11 DEF StreamCloses, Streaming, Known, PanelInv, CurrentInv
  <2>2. CASE Ended(r, [of |-> r, status |-> runs[r].server])
    BY <2>1, <2>2, EndedPanel DEF Verdicts
  <2>3. CASE Ended(r, [of |-> r, status |-> "lost"])
    BY <2>1, <2>3, EndedPanel DEF Verdicts
  <2>4. CASE Ended(r, shown) /\ twin # "job"
    <3>1. Calm /\ shown.of # 0 => shown.status # "running" /\ shown.of \in Run
      BY <2>4 DEF PanelInv, ShownSays, StoreOK
    <3> QED BY <2>1, <2>4, <3>1, EndedPanel DEF PanelInv, ShownSays
  <2> QED BY <1>11, <2>2, <2>3, <2>4 DEF StreamCloses
<1>12. ASSUME NEW r \in Run, RunnerSteps(r) \/ HearStart(r) PROVE PanelInv'
  <2>1. Undisturbed
    BY <1>1, <1>12 DEF RunnerSteps, HearStart, store, Undisturbed, Current, Streaming, RunType
  <2> QED BY <2>1, UndisturbedPanel
<1>13. ASSUME NEW r \in Run, NEW verdict \in Verdicts, RunnerEnds(r, verdict) PROVE PanelInv'
  <2>1. Undisturbed
    BY <1>1, <1>13 DEF RunnerEnds, store, Undisturbed, Current, Streaming, RunType, Verdicts
  <2> QED BY <2>1, UndisturbedPanel
<1>14. ASSUME NEW r \in Run, HearStep(r) PROVE PanelInv'
  <2>1. \A q \in Run : /\ (Current(q)' <=> Current(q)) /\ runs'[q].doc = runs[q].doc
                       /\ runs'[q].settled = runs[q].settled /\ runs'[q].server = runs[q].server
    BY <1>1, <1>14 DEF HearStep, Current, Streaming, RunType
  <2>2. /\ UNCHANGED <<twin, open, running>> /\ (stray' <=> stray \/ runs[r].left)
        /\ Streaming(r) /\ ~runs[r].settled
    BY <1>1, <1>14 DEF HearStep, Live, Streaming, Strayed, Known, Verdicts
  <2>3. CurrentInv'
    BY <2>1, <2>2 DEF PanelInv, CurrentInv
  <2>4. ASSUME Calm' PROVE OneRun' /\ ShownSays'
    <3>1. Calm /\ Current(r)
      BY <2>2, <2>4 DEF Calm, Current
    <3>2. running /\ runs[r].doc = open
      BY <2>2, <3>1 DEF PanelInv, OneRun, CurrentInv
    <3>3. OneRun'
      BY <2>1, <2>2, <3>1 DEF PanelInv, OneRun
    <3>4. CASE twin = "job"
      <4>1. shown' = [of |-> r, status |-> "running"]
        BY <1>14, <3>4 DEF HearStep
      <4> QED BY <2>1, <2>2, <3>1, <3>2, <3>3, <3>4, <4>1 DEF ShownSays, Verdicts
    <3>5. CASE twin # "job"
      <4>1. shown' = shown /\ (shown.of # 0 => shown.of \in Run)
        BY <1>14, <3>5 DEF HearStep, StoreOK
      <4> QED BY <2>1, <2>2, <3>1, <3>3, <4>1 DEF PanelInv, ShownSays
    <3> QED BY <3>4, <3>5
  <2> QED BY <2>3, <2>4 DEF PanelInv
<1>15. ASSUME NEW r \in Run, HearResult(r) PROVE PanelInv'
  <2>1. \A q \in Run : /\ (Current(q)' <=> Current(q)) /\ runs'[q].doc = runs[q].doc
                       /\ runs'[q].server = runs[q].server
                       /\ q # r => runs'[q].settled = runs[q].settled
    BY <1>1, <1>15 DEF HearResult, Current, Streaming, RunType
  <2>2. /\ UNCHANGED <<twin, open>> /\ (stray' <=> stray \/ runs[r].left)
        /\ Streaming(r) /\ ~runs[r].settled /\ runs'[r].settled /\ runs[r].server \in Verdicts
        /\ (running' <=> running /\ twin = "job")
    BY <1>1, <1>15 DEF HearResult, Live, Streaming, Strayed, RunType
  <2>3. CurrentInv'
    BY <2>1, <2>2 DEF PanelInv, CurrentInv
  <2>4. ASSUME Calm' PROVE OneRun' /\ ShownSays'
    <3>1. Calm /\ Current(r)
      BY <2>2, <2>4 DEF Calm, Current
    <3>2. running /\ runs[r].doc = open
      BY <2>2, <3>1 DEF PanelInv, OneRun, CurrentInv
    <3>3. OneRun'
      BY <2>1, <2>2, <3>1 DEF PanelInv, OneRun
    <3>4. CASE twin = "job"
      <4>1. shown' = shown /\ (shown.of # 0 => shown.of \in Run)
        BY <1>15, <3>4 DEF HearResult, StoreOK
      <4> QED BY <2>1, <2>2, <3>1, <3>2, <3>3, <3>4, <4>1 DEF PanelInv, ShownSays
    <3>5. CASE twin # "job"
      <4>1. shown' = [of |-> r, status |-> runs[r].server]
        BY <1>15, <3>5 DEF HearResult
      <4> QED BY <2>1, <2>2, <3>2, <3>3, <4>1 DEF ShownSays, Verdicts
    <3> QED BY <3>4, <3>5
  <2> QED BY <2>3, <2>4 DEF PanelInv
<1>16. CASE Stop
  <2>1. \A q \in Run : Same(q)
    BY <1>1, <1>16 DEF Stop, Drop, Same, RunType
  <2> QED BY <1>2, <1>16, <2>1 DEF Stop, store
<1>17. ASSUME NEW s \in stops, StopIsAccepted(s) PROVE PanelInv'
  <2>1. \A q \in Run : Same(q)
    BY <1>1, <1>17 DEF StopIsAccepted, Same, RunType, PanelOK, StopType
  <2> QED BY <1>2, <1>17, <2>1 DEF StopIsAccepted, store
<1>18. ASSUME NEW s \in stops, StopIsRefused(s) PROVE PanelInv'
  BY <1>2, <1>18, RefusedStop DEF StopIsRefused, store
<1> QED
  BY <1>3, <1>5, <1>6, <1>7, <1>8, <1>9, <1>10, <1>11, <1>12, <1>13, <1>14, <1>15, <1>16, <1>17, <1>18
     DEF Next, PaintHistory, HistoryFails, ClearRunView, PickRun, store

LEMMA PanelIsTrue == Spec => []PanelInv
<1>1. Init => PanelInv
  <2> SUFFICES ASSUME Init PROVE PanelInv
    OBVIOUS
  <2>1. \A r \in Run : ~Current(r)
    BY DEF Init, Unsent, Current, Streaming
  <2>2. shown.of = 0 /\ ~running
    BY DEF Init, Nothing
  <2> QED BY <2>1, <2>2 DEF PanelInv, CurrentInv, OneRun, ShownSays
<1>2. TypeOK /\ KnownInv /\ PanelInv /\ UNCHANGED vars => PanelInv'
  BY UndisturbedPanel DEF vars, store, Undisturbed, Current, Streaming
<1>3. TypeOK /\ KnownInv /\ PanelInv /\ [Next]_vars => PanelInv'
  BY <1>2, PanelSpeaks
<1> QED BY StudioIsTyped, RunsAreKnown, <1>1, <1>3, PTL DEF Spec

\* What the panel says of a run is what became of it, and Run is disabled while one is
\* under way: in whatever order documents, panels and streams come and go, as long as
\* nothing of another visit wrote to the store.
THEOREM PanelsTellTheTruth == Spec => []PanelTellsTheTruth
BY StudioIsTyped, PanelIsTrue, PanelInvHolds, PTL

-----------------------------------------------------------------------------
(* What the boxes tell. While the run sent by this visit has no result the  *)
(* boxes are its own, and the box that spins is the one of its last step.   *)

\* The boxes tell nothing that did not become of r.
Tells(r) ==
  /\ view \in {0, r} /\ \A b \in Box : by[b] \in {0, r}
  /\ r # 0 =>
       /\ runs[r].doc = open
       /\ \A b \in Box :
            /\ painted[b] = "success" => 2 * b <= runs[r].made
            /\ painted[b] = "running" => 2 * b - 1 <= runs[r].made
            /\ painted[b] \in {"error", "cancelled"} => painted[b] = runs[r].server
            /\ painted[b] = "running" /\ view = 0 => ~runs[r].settled

Owns(r) ==
  /\ view = 0 /\ \A b \in Box : by[b] = r
  /\ ~runs[r].dropped => \A b \in Box : painted[b] = "running" => runs[r].made = 2 * b - 1

BoxesInv ==
  Calm => \E r \in Run \union {0} :
            Tells(r) /\ \A q \in Run : Current(q) /\ ~runs[q].settled => Owns(q)

LEMMA BoxesInvHolds == TypeOK /\ BoxesInv => BoxesTellOneRun
BY Zenon DEF BoxesInv, BoxesTellOneRun, Tells

\* The boxes stay as they are, and so does what they tell of.
LEMMA BoxesStay ==
  ASSUME TypeOK, KnownInv, BoxesInv, UNCHANGED <<open, painted, by, view>>, Calm' => Calm,
         \A q \in Run :
           /\ runs'[q].doc = runs[q].doc \/ runs[q].stream = "none"
           /\ runs[q].made <= runs'[q].made /\ runs'[q].made \in Nat
           /\ runs[q].server \in Verdicts => runs'[q].server = runs[q].server
           /\ runs'[q].settled => runs[q].settled
           /\ Current(q)' /\ ~runs'[q].settled =>
                /\ Current(q) /\ ~runs[q].settled /\ (runs[q].dropped => runs'[q].dropped)
                /\ runs'[q].dropped \/ runs'[q].made = runs[q].made
  PROVE  BoxesInv'
<1> SUFFICES ASSUME Calm' PROVE \E r \in Run \union {0} :
        Tells(r)' /\ \A q \in Run : Current(q)' /\ ~runs'[q].settled => Owns(q)'
  BY DEF BoxesInv
<1>1. PICK r \in Run \union {0} : Tells(r) /\ \A q \in Run : Current(q) /\ ~runs[q].settled => Owns(q)
  BY DEF BoxesInv
<1>2. Tells(r)'
  <2>1. 0 \notin Run /\ \A b \in Box : b \in Nat
    BY Bounds
  <2>2. CASE r = 0
    BY <1>1, <2>2 DEF Tells
  <2>3. CASE r # 0
    <3>1. r \in Run /\ runs[r].stream # "none" /\ runs[r].made \in Nat
      BY <1>1, <2>3, Bounds, DocsAssumption DEF Tells, KnownInv, Known, TypeOK
    <3> QED BY <1>1, <2>1, <2>3, <3>1 DEF Tells, Verdicts
  <2> QED BY <2>2, <2>3
<1>3. ASSUME NEW q \in Run, Current(q)', ~runs'[q].settled PROVE Owns(q)'
  BY <1>1, <1>3 DEF Owns
<1> QED BY <1>2, <1>3

\* What the boxes show of a past run, a step at a time.
LEMMA StepTells ==
  ASSUME TypeOK, NEW r \in Run, Known(r), NEW b \in Box, NEW box, box = StepAt(b, runs[r].made, runs[r].server)
  PROVE  /\ box = "success" => 2 * b <= runs[r].made
         /\ box = "running" => 2 * b - 1 <= runs[r].made
         /\ box \in {"error", "cancelled"} => box = runs[r].server
<1>1. runs[r].made \in Nat /\ b \in Nat /\ b <= Boxes /\ Boxes \in Nat
  BY Bounds DEF TypeOK, Box
<1>2. CASE 2 * b <= runs[r].made
  BY <1>1, <1>2 DEF StepAt
<1>3. CASE ~(2 * b <= runs[r].made) /\ 2 * b - 1 = runs[r].made
  <2>1. box = runs[r].server
    BY <1>3 DEF StepAt
  <2> QED BY <1>1, <1>3, <2>1 DEF Known
<1>4. CASE ~(2 * b <= runs[r].made) /\ 2 * b - 1 # runs[r].made
  BY <1>4 DEF StepAt
<1> QED BY <1>2, <1>3, <1>4

LEMMA BoxesStep == TypeOK /\ KnownInv /\ PanelInv /\ PanelInv' /\ BoxesInv /\ Next => BoxesInv'
<1> SUFFICES ASSUME TypeOK, KnownInv, PanelInv, PanelInv', BoxesInv, Next PROVE BoxesInv'
  OBVIOUS
<1> USE TypesInParts
<1>1. /\ runs \in [Run -> RunType] /\ 0 \notin Run /\ Boxes \in Nat \ {0}
      /\ \A q \in Run : runs[q] \in RunType /\ Known(q) /\ runs[q].made \in Nat /\ runs'[q].made \in Nat
  <2>1. runs \in [Run -> RunType] /\ runs' \in [Run -> RunType]
    BY RunsStep DEF RunsOK
  <2>2. \A run \in RunType : run.made \in Nat
    BY Bounds DEF RunType
  <2> HIDE DEF RunType
  <2> QED BY <2>1, <2>2, Bounds DEF KnownInv
<1>2. CASE UNCHANGED <<open, painted, by, view, stray>>
           /\ \A q \in Run : Same(q) /\ (runs[q].dropped => runs'[q].dropped)
  BY <1>1, <1>2, BoxesStay DEF Same, Current, Streaming, Calm
<1>3. CASE UNCHANGED <<open, painted, by, view, stray, runs>>
  BY <1>2, <1>3 DEF Same
<1>4. ASSUME ~running, UNCHANGED <<open, running, stray, runs>>, Calm', NEW r \in Run \union {0}, Tells(r)' PROVE BoxesInv'
  <2>1. \A q \in Run : Current(q)' => runs'[q].settled
    BY <1>4 DEF PanelInv, OneRun
  <2> QED BY <1>4, <2>1 DEF BoxesInv
<1>5. ASSUME NEW r \in Run, runs[r].server # "none", runs[r].doc = open, ShowRunView(r),
             UNCHANGED <<open, running, stray, runs>>
      PROVE  BoxesInv'
  <2>1. CASE running
    BY <1>3, <1>5, <2>1 DEF ShowRunView
  <2>2. CASE ~running /\ Calm'
    <3>1. /\ painted' = [b \in Box |-> StepAt(b, runs[r].made, runs[r].server)]
          /\ by' = [b \in Box |-> r] /\ view' = r
      BY <1>5, <2>2 DEF ShowRunView
    <3>2. Tells(r)'
      BY <1>1, <1>5, <3>1, StepTells DEF Tells
    <3> QED BY <1>4, <1>5, <2>2, <3>2
  <2> QED BY <2>1, <2>2 DEF BoxesInv
<1>6. CASE PaintHistory
  <2>1. CASE Latest(open) = 0
    BY <1>3, <1>6, <2>1 DEF PaintHistory
  <2> QED BY <1>5, <1>6, <2>1, LatestIsARun DEF PaintHistory
<1>7. ASSUME NEW r \in Run, PickRun(r) PROVE BoxesInv'
  BY <1>5, <1>7 DEF PickRun
<1>8. CASE ClearRunView
  <2>1. Tells(0)'
    BY <1>8 DEF ClearRunView, Tells, Nobody
  <2> QED BY <1>4, <1>8, <2>1 DEF ClearRunView, BoxesInv
<1>9. ASSUME NEW d \in Docs, Reopen(d) \/ Switch(d) PROVE BoxesInv'
  <2>1. Tells(0)'
    BY <1>9 DEF Reopen, Switch, Opened, Tells, Nobody
  <2>2. \A q \in Run : ~Current(q)'
    BY <1>9, NoneIsCurrent
  <2> QED BY <2>1, <2>2 DEF BoxesInv
<1>10. CASE Remount
  <2>1. \A q \in Run : /\ runs'[q].doc = runs[q].doc /\ runs'[q].made = runs[q].made
                       /\ runs'[q].server = runs[q].server /\ runs'[q].settled = runs[q].settled
                       /\ runs'[q].dropped = runs[q].dropped /\ (Current(q)' <=> Current(q))
    BY <1>1, <1>10 DEF Remount, Orphaned, Current, Streaming, RunType
  <2>2. UNCHANGED <<open, painted, by, view, stray>>
    BY <1>10 DEF Remount, store
  <2> QED BY <1>1, <2>1, <2>2, BoxesStay DEF Calm
<1>11. ASSUME NEW r \in Run, Execute(r) PROVE BoxesInv'
  <2>1. runs'[r].doc = open /\ Current(r)' /\ open' = open /\ view' = 0
    BY <1>1, <1>11 DEF Execute, Unsent, Current, Streaming
  <2>2. painted' = [b \in Box |-> "pending"] /\ by' = [b \in Box |-> r]
    BY <1>11 DEF Execute
  <2>3. Tells(r)'
    BY <2>1, <2>2 DEF Tells
  <2>4. Owns(r)'
    BY <2>1, <2>2 DEF Owns
  <2>5. Calm' => \A q \in Run : Current(q)' => q = r
    BY <2>1 DEF PanelInv, OneRun
  <2> QED BY <2>3, <2>4, <2>5 DEF BoxesInv
<1>12. ASSUME NEW r \in Run, Accept(r) PROVE BoxesInv'
  <2>1. \A q \in Run : /\ runs'[q].doc = runs[q].doc /\ runs'[q].made = runs[q].made
                       /\ (runs[q].server \in Verdicts => runs'[q].server = runs[q].server)
                       /\ runs'[q].settled = runs[q].settled
                       /\ runs'[q].dropped = runs[q].dropped /\ (Current(q)' <=> Current(q))
    BY <1>1, <1>12 DEF Accept, Current, Streaming, RunType, Known, Verdicts
  <2> QED BY <1>1, <1>12, <2>1, BoxesStay DEF Accept, store, Calm
<1>13. ASSUME NEW r \in Run, NEW what, Ended(r, what) PROVE BoxesInv'
  <2>1. \A q \in Run : /\ runs'[q].doc = runs[q].doc /\ runs'[q].made = runs[q].made
                       /\ runs'[q].server = runs[q].server /\ (runs'[q].settled => runs[q].settled)
                       /\ (Current(q)' => q # r /\ Current(q))
                       /\ (q # r => runs'[q] = runs[q])
    BY <1>1, <1>13 DEF Ended, Over, Current, Streaming, RunType
  <2>2. UNCHANGED <<open, painted, by, view>> /\ (Calm' => Calm)
    BY <1>13, Zenon DEF Ended, Strayed, Calm
  <2> QED BY <1>1, <2>1, <2>2, BoxesStay
<1>14. ASSUME NEW r \in Run, RunnerSteps(r) PROVE BoxesInv'
  <2>1. \A q \in Run : /\ runs'[q].doc = runs[q].doc /\ runs[q].made <= runs'[q].made
                       /\ runs'[q].server = runs[q].server /\ runs'[q].settled = runs[q].settled
                       /\ runs'[q].dropped = runs[q].dropped /\ (Current(q)' <=> Current(q))
                       /\ (q # r => runs'[q].made = runs[q].made)
    BY <1>1, <1>14 DEF RunnerSteps, Current, Streaming, RunType
  <2>2. Current(r) => runs[r].dropped
    BY <1>1, <1>14 DEF RunnerSteps, Live, Current, Streaming, Known
  <2> QED BY <1>1, <1>14, <2>1, <2>2, BoxesStay DEF RunnerSteps, store, Calm
<1>15. ASSUME NEW r \in Run, NEW verdict \in Verdicts, RunnerEnds(r, verdict) PROVE BoxesInv'
  <2>1. \A q \in Run : /\ runs'[q].doc = runs[q].doc /\ runs'[q].made = runs[q].made
                       /\ (runs[q].server \in Verdicts => runs'[q].server = runs[q].server)
                       /\ runs'[q].settled = runs[q].settled
                       /\ runs'[q].dropped = runs[q].dropped /\ (Current(q)' <=> Current(q))
    BY <1>1, <1>15 DEF RunnerEnds, Current, Streaming, RunType, Verdicts
  <2> QED BY <1>1, <1>15, <2>1, BoxesStay DEF RunnerEnds, store, Calm
<1>16. ASSUME NEW r \in Run, HearStart(r) PROVE BoxesInv'
  <2>1. \A q \in Run : /\ runs'[q].doc = runs[q].doc /\ runs'[q].made = runs[q].made
                       /\ runs'[q].server = runs[q].server /\ runs'[q].settled = runs[q].settled
                       /\ runs'[q].dropped = runs[q].dropped /\ (Current(q)' <=> Current(q))
    BY <1>1, <1>16 DEF HearStart, Current, Streaming, RunType
  <2> QED BY <1>1, <1>16, <2>1, BoxesStay DEF HearStart, store, Calm
\* The first box has a run, so the run of this visit is the one the boxes tell.
<1>17. ASSUME NEW r \in Run, Current(r), ~runs[r].settled, Calm
       PROVE  Tells(r) /\ Owns(r) /\ runs[r].doc = open /\ \A q \in Run : Current(q) => q = r
  <2>1. PICK p \in Run \union {0} : Tells(p) /\ \A q \in Run : Current(q) /\ ~runs[q].settled => Owns(q)
    BY <1>17 DEF BoxesInv
  <2>2. 1 \in Box
    BY <1>1 DEF Box
  <2>3. p = r
    BY <1>1, <1>17, <2>1, <2>2 DEF Tells, Owns
  <2> QED BY <1>17, <2>1, <2>3 DEF PanelInv, OneRun, CurrentInv
<1>18. ASSUME NEW r \in Run, HearStep(r) PROVE BoxesInv'
  <2>1. \A q \in Run : /\ runs'[q].settled = runs[q].settled /\ (Current(q)' <=> Current(q))
    BY <1>1, <1>18 DEF HearStep, Current, Streaming, RunType
  <2>2. /\ UNCHANGED <<open, view>> /\ (Calm' => Calm /\ Current(r)) /\ ~runs[r].settled /\ ~runs[r].dropped
    BY <1>1, <1>18 DEF HearStep, Live, Streaming, Strayed, Known, Verdicts, Calm, Current
  <2> DEFINE n == runs[r].made + 1
             box == (n + 1) \div 2
  <2>3. ASSUME Calm' PROVE Tells(r)' /\ Owns(r)' /\ \A q \in Run : Current(q) => q = r
    <3>1. Tells(r) /\ Owns(r) /\ runs[r].doc = open /\ \A q \in Run : Current(q) => q = r
      BY <1>17, <2>2, <2>3
    <3>2. /\ painted' = [painted EXCEPT ![box] = IF n = 2 * box THEN "success" ELSE "running"]
          /\ by' = [by EXCEPT ![box] = r]
      BY <1>18, <3>1 DEF HearStep
    <3>3. /\ runs'[r].made = n /\ runs'[r].doc = runs[r].doc /\ runs'[r].server = runs[r].server
          /\ ~runs'[r].settled
      BY <1>1, <1>18, <2>2 DEF HearStep, RunType
    <3>4. box \in Nat /\ (n = 2 * box \/ n = 2 * box - 1) /\ \A b \in Box : b \in Nat
      BY <1>1, Bounds
    <3>5. painted \in [Box -> Statuses] /\ by \in [Box -> Run \union {0}]
      BY DEF StoreOK
    <3> HIDE DEF box
    <3>6. \A b \in Box : by'[b] = r
      BY <3>1, <3>2, <3>5 DEF Owns
    <3>7. ASSUME NEW b \in Box
          PROVE  /\ painted'[b] = "success" => 2 * b <= n
                 /\ painted'[b] = "running" => 2 * b - 1 = n
                 /\ painted'[b] \in {"error", "cancelled"} => painted'[b] = runs[r].server
      <4>1. CASE b = box
        BY <1>1, <3>2, <3>4, <3>5, <4>1
      <4>2. CASE b # box
        <5>1. painted'[b] = painted[b]
          BY <3>2, <3>5, <4>2
        <5>2. painted[b] # "running"
          <6>1. painted[b] = "running" => runs[r].made = 2 * b - 1
            BY <2>2, <3>1 DEF Owns
          <6>2. runs[r].made = 2 * b - 1 => n = 2 * b /\ b = box
            BY <1>1, <3>4
          <6> QED BY <4>2, <6>1, <6>2
        <5> QED BY <1>1, <3>1, <3>4, <5>1, <5>2 DEF Tells
      <4> QED BY <4>1, <4>2
    <3>8. Tells(r)'
      BY <1>1, <2>2, <3>1, <3>3, <3>4, <3>6, <3>7 DEF Tells
    <3>9. Owns(r)'
      BY <2>2, <3>1, <3>3, <3>6, <3>7 DEF Owns
    <3> QED BY <3>1, <3>8, <3>9
  <2> QED BY <2>1, <2>3 DEF BoxesInv
<1>19. ASSUME NEW r \in Run, HearResult(r) PROVE BoxesInv'
  <2>1. \A q \in Run : Current(q)' <=> Current(q)
    BY <1>1, <1>19 DEF HearResult, Current, Streaming, RunType
  <2>2. /\ UNCHANGED <<open, view>> /\ (Calm' => Calm /\ Current(r)) /\ ~runs[r].settled /\ ~runs[r].dropped
    BY <1>1, <1>19 DEF HearResult, Live, Streaming, Strayed, Calm, Current
  <2>3. ASSUME Calm' PROVE Tells(r)' /\ runs'[r].settled /\ \A q \in Run : Current(q) => q = r
    <3>1. Tells(r) /\ Owns(r) /\ runs[r].doc = open /\ \A q \in Run : Current(q) => q = r
      BY <1>17, <2>2, <2>3
    <3>2. /\ runs'[r].made = runs[r].made /\ runs'[r].doc = runs[r].doc /\ runs'[r].server = runs[r].server
          /\ runs'[r].settled /\ runs[r].server \in Verdicts
      BY <1>1, <1>19 DEF HearResult, RunType
    <3>3. \A b \in Box : by'[b] = r
      BY <1>19, <3>1 DEF HearResult, Owns
    <3>4. ASSUME NEW b \in Box
          PROVE  /\ painted'[b] = "success" => 2 * b <= runs[r].made
                 /\ painted'[b] # "running"
                 /\ painted'[b] \in {"error", "cancelled"} => painted'[b] = runs[r].server
      <4>1. b \in Nat
        BY Bounds
      <4>2. CASE 2 * b - 1 = runs[r].made
        <5>1. painted'[b] = runs[r].server
          BY <1>19, <3>1, <4>2 DEF HearResult, Interrupted
        <5>2. runs[r].server # "success"
          BY <1>1, <4>1, <4>2 DEF Known
        <5> QED BY <3>2, <5>1, <5>2 DEF Verdicts
      <4>3. CASE 2 * b - 1 # runs[r].made
        <5>1. painted'[b] = painted[b]
          BY <1>19, <4>3 DEF HearResult, Interrupted
        <5> QED BY <1>1, <2>2, <3>1, <4>3, <5>1 DEF Tells, Owns
      <4> QED BY <4>2, <4>3
    <3>5. Tells(r)'
      BY <2>2, <3>1, <3>2, <3>3, <3>4 DEF Tells
    <3> QED BY <3>1, <3>2, <3>5
  <2> QED BY <2>1, <2>3 DEF BoxesInv
<1>20. CASE Stop
  <2>1. \A q \in Run : Same(q) /\ (runs[q].dropped => runs'[q].dropped)
    BY <1>1, <1>20 DEF Stop, Drop, Same, RunType
  <2> QED BY <1>2, <1>20, <2>1 DEF Stop, store
<1>21. ASSUME NEW s \in stops, StopIsAccepted(s) PROVE BoxesInv'
  <2>1. \A q \in Run : Same(q) /\ (runs[q].dropped => runs'[q].dropped)
    BY <1>1, <1>21 DEF StopIsAccepted, Same, RunType, PanelOK, StopType
  <2> QED BY <1>2, <1>21, <2>1 DEF StopIsAccepted, store
<1>22. ASSUME NEW s \in stops, StopIsRefused(s) PROVE BoxesInv'
  BY <1>2, <1>22, RefusedStop DEF StopIsRefused, store
<1> QED
  BY <1>3, <1>6, <1>7, <1>8, <1>9, <1>10, <1>11, <1>12, <1>13, <1>14, <1>15, <1>16, <1>18, <1>19, <1>20, <1>21, <1>22
     DEF Next, HistoryFails, Refuse, StreamCloses, StreamBreaks, Aborted, store

\* The boxes tell one run of the document that is open, the one the banner names, and
\* nothing the runner did not say, in whatever order the stream, the end of the run and
\* the answers of the history arrive (useJobRunView.ts, usePipelineRunView.ts, the
\* statuses of runView.ts).
THEOREM BoxesTellTheTruth == Spec => []BoxesTellOneRun
<1>1. Init => BoxesInv
  <2> SUFFICES ASSUME Init PROVE BoxesInv
    OBVIOUS
  <2>1. \A r \in Run : ~Current(r)
    BY DEF Init, Unsent, Current, Streaming
  <2>2. Tells(0)
    BY DEF Init, Nobody, Tells
  <2> QED BY <2>1, <2>2 DEF BoxesInv
<1>2. UNCHANGED vars => (BoxesInv <=> BoxesInv')
  BY DEF vars, store, BoxesInv, Calm, Tells, Owns, Current, Streaming
<1>3. TypeOK /\ KnownInv /\ PanelInv /\ PanelInv' /\ BoxesInv /\ [Next]_vars => BoxesInv'
  BY <1>2, BoxesStep
<1> QED BY StudioIsTyped, RunsAreKnown, PanelIsTrue, BoxesInvHolds, <1>1, <1>3, PTL DEF Spec
=============================================================================
