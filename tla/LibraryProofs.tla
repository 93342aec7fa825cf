---------------------------- MODULE LibraryProofs ----------------------------
(***************************************************************************)
(* Proofs about LibraryStorage: its types, that no record a user saved is  *)
(* lost (RecordsAreSomewhere), and that a session at rest has the library  *)
(* its users left (LibraryIsWhole), for any keys, starts, edits, imports,  *)
(* faults and closings.                                                    *)
(***************************************************************************)
EXTENDS LibraryStorage, TLAPS

-----------------------------------------------------------------------------
(* Types.                                                                  *)

LEMMA Bounds == {MaxEdits, MaxImports, MaxFaults, MaxCloses} \subseteq Nat
BY BoundsAssumption

LEMMA SomeRecords ==
  /\ Missing \in Records
  /\ \A shape \in {"old", "new"} : Imported(shape) \in Records
  /\ Nothing \in Bundles
  /\ \A record \in Records : record # Missing => UpgradeJob(record) \in Records
BY Bounds DEF Missing, Imported, Records, Texts, Shapes, Nothing, Bundles, UpgradeJob

LEMMA BundlesOf ==
  ASSUME NEW library \in Libraries
  PROVE  /\ library.record \in Bundles
         /\ ReadBundle(library) \in Bundles
         /\ Old(library) \in Bundles
BY SomeRecords DEF Libraries, ReadBundle, Old, Bundles

LEMMA SeenType == TypeOK => Seen \in Libraries
BY DEF TypeOK, Seen

LEMMA RequestsOf ==
  ASSUME TypeOK, NEW bundle \in Bundles
  PROVE  Sets(bundle) \subseteq Requests /\ Deletes \subseteq Requests
BY SeenType, BundlesOf, SomeRecords DEF Sets, Deletes, Requests, Bundles, Libraries

\* One request that is written changes one record there and the same in the mirror.
LEMMA WriteType ==
  ASSUME TypeOK, NEW k \in Keys, NEW value \in Records
  PROVE  /\ [disk EXCEPT !.record[k] = value] \in Libraries
         /\ [tab.mirror EXCEPT !.record[k] = value] \in Libraries
BY DEF TypeOK, Libraries, Bundles

Sessions == [at : Phases, work : Works, mirror : Libraries,
             held : Bundles, bundle : Bundles, plan : Bundles]

LEMMA SessionsOf ==
  ASSUME TypeOK
  PROVE  /\ \A phase \in Phases : Enter(phase) \in Sessions /\ Rest(phase) \in Sessions
         /\ Rested \in Sessions
         /\ Closed \in Sessions
         /\ \A k \in Keys, value \in Records, base \in Records :
              Mirrored(tab, [key |-> k, value |-> value, base |-> base]) \in Sessions
         /\ \A session \in Sessions, version \in Versions : MirroredVersion(session, version) \in Sessions
<1>1. \A phase \in Phases : Enter(phase) \in Sessions /\ Rest(phase) \in Sessions
  BY SomeRecords DEF TypeOK, Sessions, Enter, Rest, Works
<1>2. Rested \in Sessions
  BY <1>1 DEF Rested, Phases
<1>3. Closed \in Sessions
  BY SomeRecords DEF Closed, Sessions, Phases, Works, Libraries, Versions
<1>4. \A k \in Keys, value \in Records, base \in Records :
        Mirrored(tab, [key |-> k, value |-> value, base |-> base]) \in Sessions
  <2> SUFFICES ASSUME NEW k \in Keys, NEW value \in Records, NEW base \in Records
               PROVE  Mirrored(tab, [key |-> k, value |-> value, base |-> base]) \in Sessions
    OBVIOUS
  <2>1. [tab.mirror EXCEPT !.record[k] = value] \in Libraries
    BY WriteType
  <2>2. tab \in Sessions
    BY DEF TypeOK, Sessions
  <2> QED BY <2>1, <2>2 DEF Mirrored, Sessions
<1>5. \A session \in Sessions, version \in Versions : MirroredVersion(session, version) \in Sessions
  BY DEF MirroredVersion, Sessions, Libraries
<1> QED BY <1>1, <1>2, <1>3, <1>4, <1>5

LEMMA MadeType ==
  ASSUME TypeOK,
         \/ UNCHANGED made
         \/ Fault
         \/ made.imports < MaxImports /\ Count("imports")
         \/ made.edits < MaxEdits /\ Count("edits")
         \/ made.closes < MaxCloses /\ Count("closes")
  PROVE  made' \in [edits : 0 .. MaxEdits, imports : 0 .. MaxImports,
                    faults : 0 .. MaxFaults, closes : 0 .. MaxCloses]
BY Bounds DEF TypeOK, Fault, Count

\* What a request that fails leaves behind.
LEMMA FailsType ==
  ASSUME TypeOK, NEW r \in Requests, Fails(r)
  PROVE  /\ disk' \in Libraries /\ tab' \in Sessions
         /\ made' \in [edits : 0 .. MaxEdits, imports : 0 .. MaxImports,
                       faults : 0 .. MaxFaults, closes : 0 .. MaxCloses]
         /\ waived' \subseteq Keys /\ broken' \in BOOLEAN
<1>1. made' \in [edits : 0 .. MaxEdits, imports : 0 .. MaxImports,
                 faults : 0 .. MaxFaults, closes : 0 .. MaxCloses]
  BY MadeType DEF Fails
<1>2. disk' \in Libraries
  <2>1. UNCHANGED disk \/ Write(r)
    BY DEF Fails
  <2>2. [disk EXCEPT !.record[r.key] = r.value] \in Libraries
    BY WriteType DEF Requests
  <2> QED BY <2>1, <2>2 DEF Write, TypeOK
<1>3. tab' \in Sessions
  BY SessionsOf DEF Fails, PartFails, Phases
<1>4. waived' \subseteq Keys /\ broken' \in BOOLEAN
  BY DEF Fails, PartFails, Forgotten, TypeOK, Requests
<1> QED BY <1>1, <1>2, <1>3, <1>4

LEMMA LandType ==
  ASSUME TypeOK, NEW r \in Requests, Write(r), tab' = Mirrored(tab, r)
  PROVE  disk' \in Libraries /\ tab' \in Sessions
<1>1. r = [key |-> r.key, value |-> r.value, base |-> r.base]
  BY DEF Requests
<1>2. disk' \in Libraries
  BY WriteType DEF Write, Requests
<1> QED BY <1>1, <1>2, SessionsOf DEF Requests

-----------------------------------------------------------------------------

LEMMA InitType == Init => TypeOK
<1> SUFFICES ASSUME Init PROVE TypeOK
  OBVIOUS
<1>1. PICK start \in Starts :
        /\ backend = start.backend /\ disk = start.disk /\ local = start.local
        /\ last = LET library == IF backend = "workspace" /\ ~HasRecords(disk) THEN local ELSE disk
                  IN  [k \in Keys |-> library.record[k].text]
  BY DEF Init
<1>2. backend \in {"workspace", "browser"} /\ disk \in Libraries /\ local \in Libraries
  BY <1>1, StartsAssumption
<1>3. last \in [Keys -> Texts]
  BY <1>1, <1>2 DEF Libraries, Bundles, Records
<1>4. backup \in Bundles /\ tab \in Sessions
  BY SomeRecords DEF Init, Closed, Sessions, Phases, Works, Libraries, Versions
<1>5. made \in [edits : 0 .. MaxEdits, imports : 0 .. MaxImports,
                faults : 0 .. MaxFaults, closes : 0 .. MaxCloses]
  BY Bounds DEF Init
<1> QED BY <1>2, <1>3, <1>4, <1>5 DEF Init, TypeOK, Sessions

\* Requests, answered or not.
LEMMA AnswersType ==
  ASSUME TypeOK,
         (\E r \in sent : Land(r) \/ Bounce(r)) \/ (\E r \in late : LandLate(r) \/ DropLate(r))
  PROVE  TypeOK'
<1>1. ASSUME NEW r \in sent, Land(r) PROVE TypeOK'
  <2>1. r \in Requests
    BY DEF TypeOK
  <2>2. disk' \in Libraries /\ tab' \in Sessions
    BY <1>1, <2>1, LandType DEF Land
  <2> QED BY <1>1, <2>1, <2>2 DEF Land, TypeOK, Sessions, Requests
<1>2. ASSUME NEW r \in sent, Bounce(r) PROVE TypeOK'
  <2>1. r \in Requests
    BY DEF TypeOK
  <2>2. /\ disk' \in Libraries /\ tab' \in Sessions
        /\ made' \in [edits : 0 .. MaxEdits, imports : 0 .. MaxImports,
                      faults : 0 .. MaxFaults, closes : 0 .. MaxCloses]
        /\ waived' \subseteq Keys /\ broken' \in BOOLEAN
    BY <1>2, <2>1, FailsType DEF Bounce
  <2> QED BY <1>2, <2>1, <2>2 DEF Bounce, TypeOK, Sessions
<1>3. ASSUME NEW r \in late, LandLate(r) PROVE TypeOK'
  <2>1. r \in Requests
    BY DEF TypeOK
  <2>2. disk' \in Libraries /\ tab' \in Sessions
    BY <1>3, <2>1, LandType DEF LandLate
  <2> QED BY <1>3, <2>1, <2>2 DEF LandLate, TypeOK, Sessions, Requests
<1>4. ASSUME NEW r \in late, DropLate(r) PROVE TypeOK'
  <2>1. made' \in [edits : 0 .. MaxEdits, imports : 0 .. MaxImports,
                   faults : 0 .. MaxFaults, closes : 0 .. MaxCloses]
    BY <1>4, MadeType DEF DropLate
  <2> QED BY <1>4, <2>1 DEF DropLate, TypeOK
<1> QED BY <1>1, <1>2, <1>3, <1>4

\* Opening, adopting and migrating.
LEMMA OpeningType ==
  ASSUME TypeOK, Open \/ Adopted \/ Migrate
  PROVE  TypeOK'
<1>1. CASE Open
  <2> DEFINE session == [Closed EXCEPT !.mirror = IF backend = "workspace" THEN disk ELSE @]
  <2>1. session \in Sessions
    BY SessionsOf DEF TypeOK, Sessions, Closed
  <2>2. tab' \in Sessions
    BY <1>1, <2>1, ZenonT(60) DEF Open, Sessions, Phases, Works
  <2>3. sent' \subseteq Requests
    <3>1. \A k \in Keys : [key |-> k, value |-> ReadBundle(local)[k], base |-> Missing] \in Requests
      BY BundlesOf, SomeRecords DEF TypeOK, Requests, Bundles
    <3> QED BY <1>1, <3>1 DEF Open, TypeOK
  <2> QED BY <1>1, <2>2, <2>3 DEF Open, TypeOK, Sessions, ghosts
<1>2. CASE Adopted
  <2>1. tab' \in Sessions
    BY <1>2, SessionsOf DEF Adopted, Phases, Versions, TypeOK, Libraries
  <2>2. disk' \in Libraries
    BY <1>2 DEF Adopted, TypeOK, Libraries
  <2>3. made' \in [edits : 0 .. MaxEdits, imports : 0 .. MaxImports,
                   faults : 0 .. MaxFaults, closes : 0 .. MaxCloses]
    BY <1>2, MadeType DEF Adopted
  <2>4. broken' \in BOOLEAN
    BY <1>2, Zenon DEF Adopted, TypeOK
  <2> QED BY <1>2, <2>1, <2>2, <2>3, <2>4 DEF Adopted, TypeOK, Sessions
<1>3. CASE Migrate
  <2>1. tab' \in Sessions
    <3>1. [Enter("keep") EXCEPT !.work = "migrate", !.held = ReadBundle(Seen)] \in Sessions
      <4>1. Enter("keep") \in Sessions /\ ReadBundle(Seen) \in Bundles
        BY SessionsOf, SeenType, BundlesOf DEF Phases
      <4> QED BY <4>1 DEF Sessions, Works
    <3>2. tab \in Sessions
      BY DEF TypeOK, Sessions
    <3> QED BY <1>3, <3>1, <3>2, SessionsOf DEF Migrate, Phases, Versions
  <2>2. disk' \in Libraries
    BY <1>3 DEF Migrate, TypeOK, Libraries, Versions
  <2>3. made' \in [edits : 0 .. MaxEdits, imports : 0 .. MaxImports,
                   faults : 0 .. MaxFaults, closes : 0 .. MaxCloses]
    BY <1>3, MadeType DEF Migrate
  <2> QED BY <1>3, <2>1, <2>2, <2>3 DEF Migrate, TypeOK, Sessions, ghosts
<1> QED BY <1>1, <1>2, <1>3

\* The works, from what is kept to what is put back.
LEMMA WorkingType ==
  ASSUME TypeOK,
         Keep \/ (\E k \in Keys : Upgrade(k)) \/ Stamp \/ Wiped \/ PutDone \/ Undo \/ Unwiped \/ Undone
  PROVE  TypeOK'
<1>t. tab \in Sessions
  BY DEF TypeOK, Sessions
<1>1. CASE Keep
  <2>1. /\ Rested \in Sessions /\ Enter("wipe") \in Sessions
        /\ [Enter("upgrade") EXCEPT !.plan = Old(Seen)] \in Sessions
    <3>1. Enter("upgrade") \in Sessions /\ Old(Seen) \in Bundles
      BY SessionsOf, SeenType, BundlesOf DEF Phases
    <3> QED BY <3>1, SessionsOf DEF Sessions, Phases
  <2>2. tab' \in Sessions /\ sent' \subseteq Requests
    BY <1>1, <2>1, RequestsOf, SomeRecords DEF Keep, TypeOK
  <2>3. backup' \in Bundles /\ waived' \subseteq Keys
    BY <1>1 DEF Keep, TypeOK, Overwritten
  <2>4. made' \in [edits : 0 .. MaxEdits, imports : 0 .. MaxImports,
                   faults : 0 .. MaxFaults, closes : 0 .. MaxCloses]
    BY <1>1, MadeType DEF Keep
  <2> QED BY <1>1, <2>2, <2>3, <2>4 DEF Keep, TypeOK, Sessions
<1>2. ASSUME NEW k \in Keys, Upgrade(k) PROVE TypeOK'
  <2> DEFINE r == [key |-> k, value |-> UpgradeJob(tab.plan[k]), base |-> Seen.record[k]]
  <2>1. r \in Requests /\ r.key = k
    BY <1>2, SomeRecords, SeenType DEF Upgrade, Requests, TypeOK, Libraries, Bundles
  <2>2. CASE Fails(r)
    <3>1. /\ disk' \in Libraries /\ tab' \in Sessions
          /\ made' \in [edits : 0 .. MaxEdits, imports : 0 .. MaxImports,
                        faults : 0 .. MaxFaults, closes : 0 .. MaxCloses]
          /\ waived' \subseteq Keys /\ broken' \in BOOLEAN
      BY <2>1, <2>2, FailsType
    <3> QED BY <1>2, <3>1 DEF Upgrade, TypeOK, Sessions
  <2>3. CASE ~Fails(r)
    <3>1. Write(r) /\ tab' = [Mirrored(tab, r) EXCEPT !.plan[k] = Missing]
      BY <1>2, <2>3 DEF Upgrade
    <3>2. disk' \in Libraries
      <4>1. [disk EXCEPT !.record[r.key] = r.value] \in Libraries
        BY <2>1, WriteType DEF Requests
      <4> QED BY <3>1, <4>1 DEF Write
    <3>3. tab' \in Sessions
      <4>1. Mirrored(tab, r) \in Sessions
        BY <2>1, SessionsOf DEF Requests
      <4>2. ASSUME NEW session \in Sessions PROVE [session EXCEPT !.plan[k] = Missing] \in Sessions
        BY SomeRecords DEF Sessions, Bundles
      <4> QED BY <3>1, <4>1, <4>2
    <3> HIDE DEF r
    <3>4. waived' \subseteq Keys
      BY <1>2, <2>3 DEF Upgrade, TypeOK, r
    <3> QED BY <1>2, <2>3, <3>2, <3>3, <3>4 DEF Upgrade, TypeOK, Sessions, r
  <2> QED BY <2>2, <2>3
<1>3. CASE Stamp
  <2>1. tab' \in Sessions
    BY <1>3, SessionsOf DEF Stamp, Phases, Versions
  <2>2. disk' \in Libraries
    BY <1>3 DEF Stamp, TypeOK, Libraries, Versions
  <2>3. last' \in [Keys -> Texts]
    BY <1>3 DEF Stamp, Decided, TypeOK, Bundles, Records
  <2>4. made' \in [edits : 0 .. MaxEdits, imports : 0 .. MaxImports,
                   faults : 0 .. MaxFaults, closes : 0 .. MaxCloses]
    BY <1>3, MadeType DEF Stamp
  <2> QED BY <1>3, <2>1, <2>2, <2>3, <2>4 DEF Stamp, TypeOK, Sessions
<1>4. CASE Wiped
  BY <1>4, RequestsOf, SessionsOf DEF Wiped, TypeOK, Sessions, ghosts, Phases
<1>5. CASE PutDone
  <2>1. tab' \in Sessions
    <3>1. Enter("upgrade") \in Sessions /\ Old(Seen) \in Bundles /\ Nothing \in Bundles
      BY SessionsOf, SeenType, BundlesOf, SomeRecords DEF Phases
    <3> QED BY <1>5, <3>1 DEF PutDone, Sessions
  <2> QED BY <1>5, <2>1 DEF PutDone, TypeOK, Sessions, ghosts
<1>6. CASE Undo
  BY <1>6, RequestsOf, SomeRecords, SessionsOf DEF Undo, TypeOK, Sessions, ghosts, Phases
<1>7. CASE Unwiped
  BY <1>7, RequestsOf, SessionsOf DEF Unwiped, TypeOK, Sessions, ghosts, Phases
<1>8. CASE Undone
  BY <1>8, SessionsOf DEF Undone, TypeOK, Sessions, ghosts
<1> QED BY <1>1, <1>2, <1>3, <1>4, <1>5, <1>6, <1>7, <1>8

LEMMA FreshType ==
  ASSUME TypeOK, made.edits < MaxEdits
  PROVE  /\ \A shape \in {"old", "new"} : Fresh(shape) \in Records
         /\ \A shape \in {"old", "new"} : Fresh(shape).text \in Texts
BY Bounds DEF TypeOK, Fresh, Records, Texts, Shapes

\* Users, and sessions that end.
LEMMA UsersType ==
  ASSUME TypeOK,
         \/ Close
         \/ \E work \in {"merge", "replace"}, shape \in {"old", "new"}, keys \in (SUBSET Keys) \ {{}} :
              Import(work, shape, keys)
         \/ \E k \in Keys : Edit(k) \/ Delete(k) \/ Elsewhere(k)
  PROVE  TypeOK'
<1>1. CASE Close
  <2>1. made' \in [edits : 0 .. MaxEdits, imports : 0 .. MaxImports,
                   faults : 0 .. MaxFaults, closes : 0 .. MaxCloses]
    BY <1>1, MadeType DEF Close
  <2>2. broken' \in BOOLEAN
    BY <1>1, Zenon DEF Close, TypeOK, Halfway
  <2> QED BY <1>1, <2>1, <2>2, SessionsOf DEF Close, TypeOK, Sessions, Forgotten
<1>2. ASSUME NEW work \in {"merge", "replace"}, NEW shape \in {"old", "new"}, NEW keys \in SUBSET Keys,
             Import(work, shape, keys)
      PROVE  TypeOK'
  <2> DEFINE bundle == [k \in Keys |-> IF k \in keys THEN Imported(shape) ELSE Missing]
  <2>1. bundle \in Bundles /\ ReadBundle(Seen) \in Bundles
    BY SomeRecords, SeenType, BundlesOf DEF Bundles
  <2>2. Enter(IF work = "replace" THEN "keep" ELSE "put") \in Sessions
    BY SessionsOf DEF Phases
  <2>3. tab' \in Sessions
    BY <1>2, <2>1, <2>2 DEF Import, Sessions, Works
  <2>4. sent' \subseteq Requests
    BY <1>2, <2>1, RequestsOf DEF Import
  <2>5. made' \in [edits : 0 .. MaxEdits, imports : 0 .. MaxImports,
                   faults : 0 .. MaxFaults, closes : 0 .. MaxCloses]
    BY <1>2, MadeType DEF Import
  <2> HIDE DEF bundle
  <2> QED BY <1>2, <2>3, <2>4, <2>5 DEF Import, TypeOK, Sessions, ghosts
<1>3. ASSUME NEW k \in Keys, Edit(k) \/ Delete(k) PROVE TypeOK'
  <2>1. PICK value \in Records : LET r == [key |-> k, value |-> value, base |-> Seen.record[k]]
                                 IN  Write(r) /\ tab' = Mirrored(tab, r)
    BY <1>3, FreshType, SomeRecords DEF Edit, Delete
  <2> DEFINE r == [key |-> k, value |-> value, base |-> Seen.record[k]]
  <2>2. r \in Requests
    BY SeenType DEF Requests, Libraries, Bundles
  <2>3. disk' \in Libraries /\ tab' \in Sessions
    BY <2>1, <2>2, LandType
  <2>4. made' \in [edits : 0 .. MaxEdits, imports : 0 .. MaxImports,
                   faults : 0 .. MaxFaults, closes : 0 .. MaxCloses]
    BY <1>3, MadeType DEF Edit, Delete
  <2>5. last' \in [Keys -> Texts]
    BY <1>3, FreshType, Bounds DEF Edit, Delete, TypeOK, Texts
  <2> QED BY <1>3, <2>3, <2>4, <2>5 DEF Edit, Delete, TypeOK, Sessions
<1>4. ASSUME NEW k \in Keys, Elsewhere(k) PROVE TypeOK'
  <2>1. PICK value \in Records :
          /\ disk' = [disk EXCEPT !.record[k] = value,
                                  !.version = IF @ = "none" THEN "current" ELSE @]
          /\ value.text \in Texts
          /\ last' = [j \in Keys |-> IF j = k THEN value.text
                                     ELSE IF HasRecords(disk) \/ tab.at # "closed" THEN last[j]
                                     ELSE 0]
    <3> DEFINE fresh == Fresh(IF disk.version = "old" THEN "old" ELSE "new")
    <3>1. fresh \in Records /\ fresh.text \in Texts
      BY <1>4, FreshType DEF Elsewhere
    <3> HIDE DEF fresh
    <3>2. /\ disk' = [disk EXCEPT !.record[k] = fresh,
                                  !.version = IF @ = "none" THEN "current" ELSE @]
          /\ last' = [j \in Keys |-> IF j = k THEN fresh.text
                                     ELSE IF HasRecords(disk) \/ tab.at # "closed" THEN last[j]
                                     ELSE 0]
      BY <1>4 DEF Elsewhere, fresh
    <3> QED BY <3>1, <3>2
  <2>2. disk' \in Libraries
    BY <2>1 DEF TypeOK, Libraries, Bundles, Versions
  <2>3. made' \in [edits : 0 .. MaxEdits, imports : 0 .. MaxImports,
                   faults : 0 .. MaxFaults, closes : 0 .. MaxCloses]
    BY <1>4, MadeType DEF Elsewhere
  <2>4. last' \in [Keys -> Texts]
    BY <2>1, Bounds DEF TypeOK, Texts
  <2>5. broken' \in BOOLEAN
    BY <1>4, Zenon DEF Elsewhere, TypeOK
  <2> QED BY <1>4, <2>2, <2>3, <2>4, <2>5 DEF Elsewhere, TypeOK
<1> QED BY <1>1, <1>2, <1>3, <1>4

LEMMA TypeStep == TypeOK /\ [Next]_vars => TypeOK'
<1> SUFFICES ASSUME TypeOK, [Next]_vars PROVE TypeOK'
  OBVIOUS
<1>1. CASE UNCHANGED vars
  BY <1>1 DEF vars, TypeOK
<1> QED BY <1>1, AnswersType, OpeningType, WorkingType, UsersType DEF Next, Work

\* The library, what is under way to it and what a session holds have their types.
THEOREM LibraryIsTyped == Spec => []TypeOK
BY InitType, TypeStep, PTL DEF Spec

-----------------------------------------------------------------------------
(* What a step does to the records, one by one.                            *)

Remote == backend = "workspace"

\* The session stays where it is in its work.
Still ==
  /\ tab'.at = tab.at /\ tab'.work = tab.work
  /\ tab'.held = tab.held /\ tab'.bundle = tab.bundle /\ tab'.plan = tab.plan

\* A session at rest.
Resting(phase) ==
  /\ tab'.at = phase /\ tab'.work = "none"
  /\ tab'.held = Nothing /\ tab'.bundle = Nothing /\ tab'.plan = Nothing

Writes(k, value) ==
  /\ \A j \in Keys : disk'.record[j] = IF j = k THEN value ELSE disk.record[j]
  /\ disk'.version = disk.version

Mirrors(k, value) ==
  /\ \A j \in Keys :
       tab'.mirror.record[j] = IF Remote /\ j = k THEN value ELSE tab.mirror.record[j]
  /\ tab'.mirror.version = tab.mirror.version

LEMMA WriteFrame ==
  ASSUME TypeOK, NEW r \in Requests, Write(r)
  PROVE  Writes(r.key, r.value)
BY DEF TypeOK, Libraries, Bundles, Requests, Write, Writes

LEMMA MirrorFrame ==
  ASSUME TypeOK, NEW r \in Requests, tab' = Mirrored(tab, r)
  PROVE  Still /\ Mirrors(r.key, r.value)
<1>1. tab \in Sessions
  BY DEF TypeOK, Sessions
<1>2. CASE Remote
  <2>1. tab' = [tab EXCEPT !.mirror.record[r.key] = r.value]
    BY <1>2 DEF Mirrored, Remote
  <2>2. tab'.mirror = [tab.mirror EXCEPT !.record[r.key] = r.value] /\ Still
    BY <1>1, <2>1 DEF Sessions, Still
  <2> QED BY <1>1, <1>2, <2>2 DEF Mirrors, Sessions, Libraries, Bundles, Requests
<1>3. CASE ~Remote
  BY <1>3 DEF Mirrored, Remote, Still, Mirrors
<1> QED BY <1>2, <1>3

LEMMA LandFrame ==
  ASSUME TypeOK, NEW r \in sent, Land(r)
  PROVE  /\ r \in Requests
         /\ Still /\ Writes(r.key, r.value) /\ Mirrors(r.key, r.value)
         /\ sent' = sent \ {r}
         /\ waived \subseteq waived' /\ waived' \subseteq waived \union {r.key}
         /\ r.key \notin waived' => ~Spoils(r)
         /\ CanRead /\ ~Conflicts(r)
         /\ UNCHANGED <<backend, local, backup, late, made, last, broken>>
<1>1. r \in Requests
  BY DEF TypeOK
<1>2. Still /\ Writes(r.key, r.value) /\ Mirrors(r.key, r.value)
  BY <1>1, WriteFrame, MirrorFrame DEF Land
<1> QED BY <1>1, <1>2 DEF Land

\* What lands late on a workspace changes no record but those it is excused for.
LEMMA LandLateFrame ==
  ASSUME TypeOK, NEW r \in late, LandLate(r)
  PROVE  /\ r \in Requests
         /\ Still /\ Writes(r.key, r.value) /\ Mirrors(r.key, r.value)
         /\ late' = late \ {r}
         /\ waived \subseteq waived' /\ waived' \subseteq waived \union {r.key}
         /\ r.key \notin waived' => ~Spoils(r)
         /\ Remote => \A j \in Keys \ waived' :
                        disk'.record[j] = disk.record[j] /\ tab'.mirror.record[j] = tab.mirror.record[j]
         /\ UNCHANGED <<backend, local, backup, sent, made, last, broken>>
<1>1. r \in Requests
  BY DEF TypeOK
<1>2. Still /\ Writes(r.key, r.value) /\ Mirrors(r.key, r.value)
  BY <1>1, WriteFrame, MirrorFrame DEF LandLate
<1>3. Remote => \A j \in Keys \ waived' :
                  disk'.record[j] = disk.record[j] /\ tab'.mirror.record[j] = tab.mirror.record[j]
  BY <1>2 DEF LandLate, LandsOver, Writes, Mirrors, Remote
<1> QED BY <1>1, <1>2, <1>3 DEF LandLate

LEMMA DropFrame ==
  ASSUME TypeOK, NEW r \in late, DropLate(r)
  PROVE  /\ late' = late \ {r}
         /\ made'.edits = made.edits
         /\ UNCHANGED <<backend, disk, local, backup, tab, sent, last, waived, broken>>
BY DEF DropLate, Fault, Count, TypeOK

Undoing == {"unwipe", "unput"}
LEMMA FailsFrame ==
  ASSUME TypeOK, NEW r \in Requests, Fails(r)
  PROVE  /\ made'.edits = made.edits
         /\ tab'.mirror = tab.mirror
         /\ tab.at = "adopt" => Resting("unready")
         /\ tab.at \in Undoing => Resting(IF tab.work = "migrate" THEN "unready" ELSE "ready")
         /\ tab.at \notin {"adopt"} \union Undoing =>
              /\ tab'.at = "undo" /\ tab'.work = tab.work
              /\ tab'.held = tab.held /\ tab'.bundle = tab.bundle /\ tab'.plan = tab.plan
         /\ broken' = (broken \/ tab.at \in {"adopt"} \union Undoing)
         /\ waived \subseteq waived'
         /\ \/ disk' = disk
            \/ /\ Remote /\ ~Conflicts(r) /\ Writes(r.key, r.value)
               /\ r.key \notin waived' => ~Unheard(r) /\ ~Spoils(r)
         /\ tab.at \in Undoing /\ (Remote \/ tab.work = "merge") =>
              \A j \in Keys \ waived' :
                last[j] \in {0, disk'.record[j].text, backup[j].text, local.record[j].text}
<1>t. tab \in Sessions
  BY DEF TypeOK, Sessions
<1>1. PICK record, lost :
        /\ PartFails(record, lost)
        /\ record = disk'.record
        /\ \/ disk' = disk
           \/ /\ Remote /\ ~Conflicts(r) /\ Write(r)
              /\ lost = IF Unheard(r) \/ Spoils(r) THEN {r.key} ELSE {}
  <2>1. CASE UNCHANGED disk /\ PartFails(disk.record, {})
    BY <2>1
  <2>2. CASE /\ Remote /\ ~Conflicts(r) /\ Write(r)
             /\ PartFails(disk'.record, IF Unheard(r) \/ Spoils(r) THEN {r.key} ELSE {})
    BY <2>2
  <2> QED BY <2>1, <2>2 DEF Fails, Remote
<1>2. made'.edits = made.edits
  BY DEF Fails, Fault, Count, TypeOK
<1>3. /\ tab'.mirror = tab.mirror
      /\ tab.at = "adopt" => Resting("unready")
      /\ tab.at \in Undoing => Resting(IF tab.work = "migrate" THEN "unready" ELSE "ready")
      /\ tab.at \notin {"adopt"} \union Undoing =>
              /\ tab'.at = "undo" /\ tab'.work = tab.work
              /\ tab'.held = tab.held /\ tab'.bundle = tab.bundle /\ tab'.plan = tab.plan
  BY <1>1, <1>t DEF PartFails, Sessions, Resting, Rested, Rest, Enter, Undoing
<1>4. /\ broken' = (broken \/ tab.at \in {"adopt"} \union Undoing)
      /\ waived \subseteq waived'
  BY <1>1 DEF PartFails, Undoing
<1>5. \/ disk' = disk
      \/ /\ Remote /\ ~Conflicts(r) /\ Writes(r.key, r.value)
         /\ r.key \notin waived' => ~Unheard(r) /\ ~Spoils(r)
  <2>1. lost \subseteq waived'
    BY <1>1 DEF PartFails
  <2> QED BY <1>1, <2>1, WriteFrame
<1>6. tab.at \in Undoing /\ (Remote \/ tab.work = "merge") =>
              \A j \in Keys \ waived' :
                last[j] \in {0, disk'.record[j].text, backup[j].text, local.record[j].text}
  BY <1>1 DEF PartFails, Forgotten, Undoing, Remote
<1> QED BY <1>2, <1>3, <1>4, <1>5, <1>6

LEMMA BounceFrame ==
  ASSUME TypeOK, NEW r \in sent, Bounce(r)
  PROVE  /\ r \in Requests /\ Fails(r) /\ CanRead
         /\ sent' = {} /\ late' = late \union (sent \ {r})
         /\ UNCHANGED <<backend, local, backup, last>>
BY DEF Bounce, TypeOK

SameRecords == disk'.record = disk.record /\ tab'.mirror.record = tab.mirror.record
SameVersions == disk'.version = disk.version /\ tab'.mirror.version = tab.mirror.version

\* A version written where the session works, which it hears of.
Stamps(version) ==
  disk'.version = version /\ tab'.mirror.version = IF Remote THEN version ELSE tab.mirror.version

LEMMA EnterIs ==
  ASSUME TypeOK, NEW phase \in Phases
  PROVE  /\ tab' = Rest(phase) => Resting(phase) /\ tab'.mirror = tab.mirror
         /\ tab' = Enter(phase) =>
              /\ tab'.at = phase /\ tab'.work = tab.work /\ tab'.mirror = tab.mirror
              /\ tab'.held = tab.held /\ tab'.bundle = tab.bundle /\ tab'.plan = tab.plan
         /\ \A version \in Versions : tab' = MirroredVersion(Rest(phase), version) =>
              /\ Resting(phase) /\ tab'.mirror.record = tab.mirror.record
              /\ tab'.mirror.version = IF Remote THEN version ELSE tab.mirror.version
<1>1. tab \in Sessions
  BY DEF TypeOK, Sessions
<1>2. /\ tab' = Rest(phase) => Resting(phase) /\ tab'.mirror = tab.mirror
      /\ tab' = Enter(phase) =>
              /\ tab'.at = phase /\ tab'.work = tab.work /\ tab'.mirror = tab.mirror
              /\ tab'.held = tab.held /\ tab'.bundle = tab.bundle /\ tab'.plan = tab.plan
  BY <1>1 DEF Sessions, Rest, Enter, Resting
<1>3. ASSUME NEW version \in Versions, tab' = MirroredVersion(Rest(phase), version)
      PROVE  /\ Resting(phase) /\ tab'.mirror.record = tab.mirror.record
             /\ tab'.mirror.version = IF Remote THEN version ELSE tab.mirror.version
  <2>1. /\ Rest(phase) \in Sessions /\ Rest(phase).mirror = tab.mirror
        /\ Rest(phase).at = phase /\ Rest(phase).work = "none" /\ Rest(phase).held = Nothing
        /\ Rest(phase).bundle = Nothing /\ Rest(phase).plan = Nothing
    BY <1>1, SessionsOf DEF Sessions, Rest, Enter
  <2> QED BY <1>3, <2>1 DEF MirroredVersion, Sessions, Libraries, Resting, Remote
<1> QED BY <1>2, <1>3

LEMMA OpenFrame ==
  ASSUME TypeOK, Open
  PROVE  /\ tab.at = "closed"
         /\ tab'.held = Nothing /\ tab'.bundle = Nothing /\ tab'.plan = Nothing
         /\ Remote => tab'.mirror = disk
         /\ ~Remote => tab'.mirror = Closed.mirror
         /\ \/ /\ Remote /\ disk.record = Nothing
               /\ tab'.at = "adopt" /\ tab'.work = "adopt"
               /\ sent' = {[key |-> k, value |-> local.record[k], base |-> Missing] :
                             k \in {j \in Keys : Readable(local.record[j])}}
            \/ /\ ~(Remote /\ disk.record = Nothing /\ local.record # Nothing)
               /\ tab'.at = "unready" /\ tab'.work = "none" /\ sent' = sent
         /\ UNCHANGED <<backend, disk, local, backup, late, made, last, waived, broken>>
<1>1. \A k \in Keys : Readable(local.record[k]) => ReadBundle(local)[k] = local.record[k]
  BY DEF ReadBundle
<1>2. {[key |-> k, value |-> ReadBundle(local)[k], base |-> Missing] :
          k \in {j \in Keys : Readable(local.record[j])}}
        = {[key |-> k, value |-> local.record[k], base |-> Missing] :
             k \in {j \in Keys : Readable(local.record[j])}}
  BY <1>1
<1> DEFINE session == [Closed EXCEPT !.mirror = IF backend = "workspace" THEN disk ELSE @]
<1>3. /\ session.held = Nothing /\ session.bundle = Nothing /\ session.plan = Nothing
      /\ session.mirror = IF Remote THEN disk ELSE Closed.mirror
      /\ session.work = "none" /\ session \in Sessions
  BY SomeRecords, SessionsOf DEF Closed, Remote, TypeOK, Sessions
<1>4. \/ /\ Remote /\ disk.record = Nothing
         /\ tab' = [session EXCEPT !.at = "adopt", !.work = "adopt"]
         /\ sent' = {[key |-> k, value |-> ReadBundle(local)[k], base |-> Missing] :
                       k \in {j \in Keys : Readable(local.record[j])}}
      \/ /\ ~(Remote /\ disk.record = Nothing /\ local.record # Nothing)
         /\ tab' = [session EXCEPT !.at = "unready"] /\ sent' = sent
  BY DEF Open, HasRecords, Remote
<1>5. UNCHANGED <<backend, disk, local, backup, late, made, last, waived, broken>> /\ tab.at = "closed"
  BY DEF Open, ghosts
<1> HIDE DEF session
<1> QED BY <1>2, <1>3, <1>4, <1>5 DEF Sessions

LEMMA AdoptedFrame ==
  ASSUME TypeOK, Adopted
  PROVE  /\ tab.at = "adopt" /\ sent = {}
         /\ Resting("unready") /\ SameRecords
         /\ \/ /\ SameVersions
               /\ broken' = (broken \/ Unversioned)
            \/ /\ local.version # "none" /\ Stamps(local.version)
               /\ broken' = broken
         /\ made'.edits = made.edits
         /\ UNCHANGED <<backend, local, backup, sent, late, last, waived>>
<1>1. made'.edits = made.edits
  BY DEF Adopted, Fault, Count, TypeOK
<1>2. local.version \in Versions /\ disk \in Libraries
  BY DEF TypeOK, Libraries
<1>3. CASE disk' = disk /\ tab' = Rest("unready") /\ broken' = (broken \/ Unversioned)
  BY <1>1, <1>3, EnterIs DEF Adopted, SameRecords, SameVersions, Phases
<1>4. CASE /\ local.version # "none" /\ disk' = [disk EXCEPT !.version = local.version]
           /\ tab' = MirroredVersion(Rest("unready"), local.version) /\ broken' = broken
  <2>1. disk'.record = disk.record /\ disk'.version = local.version
    BY <1>2, <1>4 DEF Libraries
  <2> QED BY <1>1, <1>2, <1>4, <2>1, EnterIs DEF Adopted, SameRecords, Stamps, Phases
<1> QED BY <1>3, <1>4 DEF Adopted

LEMMA MigrateFrame ==
  ASSUME TypeOK, Migrate
  PROVE  /\ tab.at = "unready" /\ CanRead /\ SameRecords
         /\ \/ Seen.version = "current" /\ Resting("ready") /\ SameVersions
            \/ /\ Seen.version = "none" /\ Seen.record = Nothing
               /\ Resting("ready") /\ Stamps("current")
            \/ UNCHANGED <<disk, tab>>
            \/ /\ Seen.version # "current" /\ SameVersions
               /\ tab'.at = "keep" /\ tab'.work = "migrate" /\ tab'.held = ReadBundle(Seen)
               /\ tab'.bundle = tab.bundle /\ tab'.plan = tab.plan
         /\ made'.edits = made.edits
         /\ UNCHANGED <<backend, local, backup, sent, late, last, waived, broken>>
<1>1. made'.edits = made.edits
  BY DEF Migrate, Fault, Count, TypeOK
<1>2. disk \in Libraries /\ tab \in Sessions
  BY DEF TypeOK, Sessions
<1>3. CASE Seen.version = "current" /\ tab' = Rest("ready") /\ disk' = disk
  BY <1>1, <1>3, EnterIs DEF Migrate, SameRecords, SameVersions, Phases, ghosts
<1>4. CASE /\ Seen.version = "none" /\ ~HasRecords(Seen)
           /\ disk' = [disk EXCEPT !.version = "current"]
           /\ tab' = MirroredVersion(Rest("ready"), "current")
  <2>1. disk'.record = disk.record /\ disk'.version = "current"
    BY <1>2, <1>4 DEF Libraries
  <2> QED BY <1>1, <1>4, <2>1, EnterIs DEF Migrate, SameRecords, Stamps, Phases, Versions, HasRecords, ghosts
<1>5. CASE UNCHANGED <<disk, tab>>
  BY <1>1, <1>5 DEF Migrate, SameRecords, ghosts
<1>6. CASE /\ Seen.version # "current" /\ disk' = disk
           /\ tab' = [Enter("keep") EXCEPT !.work = "migrate", !.held = ReadBundle(Seen)]
  <2>1. /\ tab'.mirror = tab.mirror
        /\ tab'.at = "keep" /\ tab'.work = "migrate" /\ tab'.held = ReadBundle(Seen)
        /\ tab'.bundle = tab.bundle /\ tab'.plan = tab.plan
    BY <1>2, <1>6 DEF Sessions, Enter
  <2> QED BY <1>1, <1>6, <2>1 DEF Migrate, SameRecords, SameVersions, ghosts
<1> QED BY <1>3, <1>4, <1>5, <1>6 DEF Migrate

LEMMA KeepFrame ==
  ASSUME TypeOK, Keep
  PROVE  /\ tab.at = "keep" /\ tab'.mirror = tab.mirror
         /\ \/ /\ tab'.work = tab.work /\ tab'.held = tab.held /\ tab'.bundle = tab.bundle
               /\ \/ /\ tab.work = "migrate" /\ tab'.at = "upgrade"
                     /\ tab'.plan = Old(Seen) /\ sent' = sent
                  \/ /\ tab.work # "migrate" /\ tab'.at = "wipe"
                     /\ tab'.plan = tab.plan /\ sent' = Deletes
               /\ ~Remote => backup' = tab.held /\ waived' = waived \union Overwritten
               /\ Remote => UNCHANGED <<backup, waived>>
            \/ /\ ~Remote /\ Resting(IF tab.work = "migrate" THEN "unready" ELSE "ready")
               /\ UNCHANGED <<sent, backup, waived>>
         /\ made'.edits = made.edits
         /\ UNCHANGED <<backend, disk, local, late, last, broken>>
<1>1. made'.edits = made.edits /\ tab.at = "keep"
  BY DEF Keep, Fault, Count, TypeOK
<1>2. backend \in {"workspace", "browser"} /\ tab \in Sessions
  BY DEF TypeOK, Sessions
<1>3. CASE ~Remote /\ tab' = Rested /\ UNCHANGED <<sent, backup, waived>>
  BY <1>1, <1>3, EnterIs DEF Keep, Rested, Phases
<1>4. CASE /\ IF tab.work = "migrate"
              THEN tab' = [Enter("upgrade") EXCEPT !.plan = Old(Seen)] /\ UNCHANGED sent
              ELSE tab' = Enter("wipe") /\ sent' = Deletes
           /\ IF backend = "browser"
              THEN backup' = tab.held /\ waived' = waived \union Overwritten
              ELSE UNCHANGED <<backup, waived>>
  <2>1. /\ tab'.mirror = tab.mirror
        /\ tab'.work = tab.work /\ tab'.held = tab.held /\ tab'.bundle = tab.bundle
        /\ \/ /\ tab.work = "migrate" /\ tab'.at = "upgrade"
              /\ tab'.plan = Old(Seen) /\ sent' = sent
           \/ /\ tab.work # "migrate" /\ tab'.at = "wipe"
              /\ tab'.plan = tab.plan /\ sent' = Deletes
    BY <1>2, <1>4 DEF Enter, Sessions
  <2>2. /\ ~Remote => backup' = tab.held /\ waived' = waived \union Overwritten
        /\ Remote => UNCHANGED <<backup, waived>>
    BY <1>2, <1>4 DEF Remote
  <2> QED BY <1>1, <2>1, <2>2 DEF Keep
<1> QED BY <1>2, <1>3, <1>4 DEF Keep, Remote

LEMMA StampFrame ==
  ASSUME TypeOK, Stamp
  PROVE  /\ tab.at = "upgrade" /\ tab.plan = Nothing /\ SameRecords
         /\ \/ Resting("ready") /\ Stamps("current") /\ last' = Decided /\ broken' = broken
            \/ /\ tab'.at = "undo" /\ tab'.work = tab.work
               /\ tab'.held = tab.held /\ tab'.bundle = tab.bundle /\ tab'.plan = tab.plan
               /\ last' = last
               /\ (SameVersions /\ broken' = broken) \/ broken'
         /\ made'.edits = made.edits
         /\ UNCHANGED <<backend, local, backup, sent, late, waived>>
<1>1. made'.edits = made.edits
  BY DEF Stamp, Fault, Count, TypeOK
<1>2. disk \in Libraries
  BY DEF TypeOK
<1>3. CASE /\ disk' = [disk EXCEPT !.version = "current"]
           /\ tab' = MirroredVersion(Rest("ready"), "current")
           /\ last' = Decided /\ broken' = broken
  <2>1. disk'.record = disk.record /\ disk'.version = "current"
    BY <1>2, <1>3 DEF Libraries
  <2> QED BY <1>1, <1>3, <2>1, EnterIs DEF Stamp, SameRecords, Stamps, Phases, Versions
<1>4. CASE tab' = Enter("undo") /\ disk' = disk /\ last' = last /\ broken' = broken
  BY <1>1, <1>4, EnterIs DEF Stamp, SameRecords, SameVersions, Phases
<1>5. CASE tab' = Enter("undo") /\ disk' = [disk EXCEPT !.version = "current"] /\ last' = last /\ broken' = TRUE
  <2>1. disk'.record = disk.record
    BY <1>2, <1>5 DEF Libraries
  <2> QED BY <1>1, <1>5, <2>1, EnterIs DEF Stamp, SameRecords, Phases
<1> QED BY <1>3, <1>4, <1>5 DEF Stamp

LEMMA UpgradeFrame ==
  ASSUME TypeOK, NEW k \in Keys, Upgrade(k)
  PROVE  LET r == [key |-> k, value |-> UpgradeJob(tab.plan[k]), base |-> Seen.record[k]] IN
         /\ tab.at = "upgrade" /\ tab.plan[k] # Missing
         /\ r \in Requests
         /\ \/ /\ ~Conflicts(r)
               /\ Writes(k, r.value) /\ Mirrors(k, r.value)
               /\ tab'.at = tab.at /\ tab'.work = tab.work
               /\ tab'.held = tab.held /\ tab'.bundle = tab.bundle
               /\ \A j \in Keys : tab'.plan[j] = IF j = k THEN Missing ELSE tab.plan[j]
               /\ waived \subseteq waived' /\ waived' \subseteq waived \union {k}
               /\ k \notin waived' => ~Spoils(r)
               /\ made'.edits = made.edits /\ broken' = broken
            \/ Fails(r)
         /\ UNCHANGED <<backend, local, backup, sent, late, last>>
<1> DEFINE r == [key |-> k, value |-> UpgradeJob(tab.plan[k]), base |-> Seen.record[k]]
<1>1. tab.at = "upgrade" /\ tab.plan[k] # Missing
  BY DEF Upgrade
<1>2. r \in Requests
  BY <1>1, SomeRecords, SeenType DEF Requests, TypeOK, Libraries, Bundles
<1>3. CASE Fails(r)
  BY <1>1, <1>2, <1>3 DEF Upgrade
<1>4. CASE ~Fails(r)
  <2>1. /\ ~Conflicts(r) /\ Write(r)
        /\ tab' = [Mirrored(tab, r) EXCEPT !.plan[k] = Missing]
        /\ waived' = IF Spoils(r) THEN waived \union {k} ELSE waived
        /\ UNCHANGED <<made, broken>>
        /\ UNCHANGED <<backend, local, backup, sent, late, last>>
    BY <1>4 DEF Upgrade
  <2>2. r.key = k
    OBVIOUS
  <2>3. tab \in Sessions /\ Mirrored(tab, r) \in Sessions
    BY <1>2, SessionsOf DEF TypeOK, Sessions, Requests
  <2>4. /\ tab'.mirror = Mirrored(tab, r).mirror /\ tab'.at = Mirrored(tab, r).at
        /\ tab'.work = Mirrored(tab, r).work
        /\ tab'.held = Mirrored(tab, r).held /\ tab'.bundle = Mirrored(tab, r).bundle
        /\ \A j \in Keys : tab'.plan[j] = IF j = k THEN Missing ELSE Mirrored(tab, r).plan[j]
    <3> HIDE DEF r
    <3> QED BY <2>1, <2>3 DEF Sessions, Bundles
  <2>5. /\ Mirrored(tab, r).at = tab.at /\ Mirrored(tab, r).work = tab.work
        /\ Mirrored(tab, r).held = tab.held /\ Mirrored(tab, r).bundle = tab.bundle
        /\ Mirrored(tab, r).plan = tab.plan
        /\ Mirrored(tab, r).mirror =
             IF Remote THEN [tab.mirror EXCEPT !.record[k] = r.value] ELSE tab.mirror
    <3> HIDE DEF r
    <3> QED BY <2>2, <2>3 DEF Sessions, Mirrored, Remote
  <2>6. Writes(k, r.value)
    BY <1>2, <2>1, <2>2, WriteFrame
  <2>7. Mirrors(k, r.value)
    <3> HIDE DEF r
    <3>1. tab.mirror \in Libraries
      BY <2>3 DEF Sessions
    <3>2. tab'.mirror = IF Remote THEN [tab.mirror EXCEPT !.record[k] = r.value] ELSE tab.mirror
      BY <2>4, <2>5
    <3> QED BY <3>1, <3>2 DEF Mirrors, Libraries, Bundles
  <2> HIDE DEF r
  <2>8. /\ ~Conflicts(r)
        /\ Writes(k, r.value) /\ Mirrors(k, r.value)
        /\ tab'.at = tab.at /\ tab'.work = tab.work
        /\ tab'.held = tab.held /\ tab'.bundle = tab.bundle
        /\ \A j \in Keys : tab'.plan[j] = IF j = k THEN Missing ELSE tab.plan[j]
        /\ waived \subseteq waived' /\ waived' \subseteq waived \union {k}
        /\ k \notin waived' => ~Spoils(r)
        /\ made'.edits = made.edits /\ broken' = broken
    BY <2>1, <2>4, <2>5, <2>6, <2>7
  <2> QED BY <1>1, <1>2, <2>1, <2>8 DEF r
<1> HIDE DEF r
<1> QED BY <1>3, <1>4 DEF r

Enters(phase) ==
  /\ tab'.at = phase /\ tab'.work = tab.work /\ tab'.mirror = tab.mirror
  /\ tab'.held = tab.held /\ tab'.bundle = tab.bundle

LEMMA TurnFrame ==
  ASSUME TypeOK, Wiped \/ PutDone \/ Undo \/ Unwiped \/ Undone
  PROVE  /\ \/ /\ tab.at = "wipe" /\ sent = {} /\ Enters("put")
               /\ tab'.plan = tab.plan /\ sent' = Sets(tab.bundle)
            \/ /\ tab.at = "put" /\ sent = {} /\ Enters("upgrade") /\ sent' = sent
               /\ tab'.plan = IF IsOld(tab.bundle) THEN Old(Seen) ELSE Nothing
            \/ /\ tab.at = "undo" /\ CanRead /\ Enters("unwipe")
               /\ tab'.plan = tab.plan /\ sent' = Deletes
            \/ /\ tab.at = "unwipe" /\ sent = {} /\ Enters("unput")
               /\ tab'.plan = tab.plan /\ sent' = Sets(tab.held)
            \/ /\ tab.at = "unput" /\ sent = {} /\ sent' = sent /\ tab'.mirror = tab.mirror
               /\ Resting(IF tab.work = "migrate" THEN "unready" ELSE "ready")
         /\ UNCHANGED <<backend, disk, local, backup, late, made, last, waived, broken>>
<1>1. CASE Wiped
  BY <1>1, EnterIs DEF Wiped, Enters, Phases, ghosts
<1>2. CASE PutDone
  <2>1. tab \in Sessions
    BY DEF TypeOK, Sessions
  <2> QED BY <1>2, <2>1 DEF PutDone, Enters, Enter, Sessions, ghosts
<1>3. CASE Undo
  BY <1>3, EnterIs DEF Undo, Enters, Phases, ghosts
<1>4. CASE Unwiped
  BY <1>4, EnterIs DEF Unwiped, Enters, Phases, ghosts
<1>5. CASE Undone
  BY <1>5, EnterIs DEF Undone, Rested, Phases, ghosts
<1> QED BY <1>1, <1>2, <1>3, <1>4, <1>5

LEMMA ImportFrame ==
  ASSUME TypeOK, NEW work \in {"merge", "replace"}, NEW shape \in {"old", "new"}, NEW keys \in SUBSET Keys,
         Import(work, shape, keys)
  PROVE  /\ tab.at = "ready" /\ CanRead
         /\ tab'.work = work /\ tab'.held = ReadBundle(Seen) /\ tab'.plan = tab.plan
         /\ \A k \in Keys : tab'.bundle[k] = IF k \in keys THEN Imported(shape) ELSE Missing
         /\ tab'.mirror = tab.mirror
         /\ \/ work = "replace" /\ tab'.at = "keep" /\ sent' = {}
            \/ work = "merge" /\ tab'.at = "put" /\ sent' = Sets(tab'.bundle)
         /\ made'.edits = made.edits
         /\ UNCHANGED <<backend, disk, local, backup, late, last, waived, broken>>
<1>1. made'.edits = made.edits /\ tab \in Sessions
  BY DEF Import, Count, TypeOK, Sessions
<1> DEFINE bundle == [k \in Keys |-> IF k \in keys THEN Imported(shape) ELSE Missing]
<1>2. /\ tab' = [Enter(IF work = "replace" THEN "keep" ELSE "put") EXCEPT
                   !.work = work, !.bundle = bundle, !.held = ReadBundle(Seen)]
      /\ sent' = IF work = "replace" THEN {} ELSE Sets(bundle)
      /\ UNCHANGED <<backend, disk, local, backup, late, last, waived, broken>>
      /\ tab.at = "ready" /\ CanRead
  BY DEF Import, ghosts
<1>3. \A k \in Keys : bundle[k] = IF k \in keys THEN Imported(shape) ELSE Missing
  OBVIOUS
<1> HIDE DEF bundle
<1> QED BY <1>1, <1>2, <1>3 DEF Sessions, Enter

LEMMA EditFrame ==
  ASSUME TypeOK, NEW k \in Keys, Edit(k) \/ Delete(k)
  PROVE  /\ tab.at = "ready" /\ CanRead /\ Still
         /\ \E value \in Records :
              /\ \/ value = Missing
                 \/ value.shape = "new" /\ value.text = made.edits + 4
              /\ Writes(k, value) /\ Mirrors(k, value)
              /\ \A j \in Keys : last'[j] = IF j = k THEN value.text ELSE last[j]
         /\ waived' = waived \ {k}
         /\ made'.edits = made.edits + 1
         /\ UNCHANGED <<backend, local, backup, sent, late, broken>>
<1>1. PICK value \in Records :
        /\ value = Missing \/ (value.shape = "new" /\ value.text = made.edits + 4)
        /\ last' = [last EXCEPT ![k] = value.text]
        /\ LET r == [key |-> k, value |-> value, base |-> Seen.record[k]]
           IN  Write(r) /\ tab' = Mirrored(tab, r)
  <2>1. CASE Edit(k)
    <3>1. Fresh("new") \in Records
      BY <2>1, FreshType DEF Edit
    <3> QED BY <2>1, <3>1 DEF Edit, Fresh
  <2>2. CASE Delete(k)
    BY <2>2, SomeRecords DEF Delete, Missing
  <2> QED BY <2>1, <2>2
<1> DEFINE r == [key |-> k, value |-> value, base |-> Seen.record[k]]
<1>2. r \in Requests
  BY SeenType DEF Requests, Libraries, Bundles
<1>3. Still /\ Writes(k, value) /\ Mirrors(k, value)
  BY <1>1, <1>2, WriteFrame, MirrorFrame
<1>4. \A j \in Keys : last'[j] = IF j = k THEN value.text ELSE last[j]
  BY <1>1 DEF TypeOK
<1>5. made'.edits = made.edits + 1
  BY DEF Edit, Delete, Count, TypeOK
<1> QED BY <1>1, <1>3, <1>4, <1>5 DEF Edit, Delete

LEMMA ElsewhereFrame ==
  ASSUME TypeOK, NEW k \in Keys, Elsewhere(k)
  PROVE  /\ \E value \in Records :
              /\ value.text = made.edits + 4
              /\ value.shape = IF disk.version = "old" THEN "old" ELSE "new"
              /\ \A j \in Keys : disk'.record[j] = IF j = k THEN value ELSE disk.record[j]
         /\ disk'.version = IF disk.version = "none" THEN "current" ELSE disk.version
         /\ disk.version = "none" => Remote /\ disk.record = Nothing
         /\ last'[k] = made.edits + 4
         /\ \A j \in Keys : j # k =>
              last'[j] = IF disk.record # Nothing \/ tab.at # "closed" THEN last[j] ELSE 0
         /\ waived' = waived \ {k}
         /\ broken' = (broken \/ (disk.version # "current" /\ tab.at # "closed"))
         /\ made'.edits = made.edits + 1
         /\ UNCHANGED <<backend, local, backup, tab, sent, late>>
<1> DEFINE value == Fresh(IF disk.version = "old" THEN "old" ELSE "new")
<1>1. value \in Records
  BY FreshType DEF Elsewhere
<1>2. value.text = made.edits + 4 /\ value.shape = IF disk.version = "old" THEN "old" ELSE "new"
  BY DEF Fresh
<1>3. /\ disk' = [disk EXCEPT !.record[k] = value,
                              !.version = IF @ = "none" THEN "current" ELSE @]
      /\ last' = [j \in Keys |-> IF j = k THEN value.text
                                 ELSE IF HasRecords(disk) \/ tab.at # "closed" THEN last[j]
                                 ELSE 0]
  BY DEF Elsewhere
<1>4. made'.edits = made.edits + 1
  BY DEF Elsewhere, Count, TypeOK
<1> HIDE DEF value
<1>5. disk \in Libraries
  BY DEF TypeOK
<1>6. /\ \A j \in Keys : disk'.record[j] = IF j = k THEN value ELSE disk.record[j]
      /\ disk'.version = IF disk.version = "none" THEN "current" ELSE disk.version
  BY <1>3, <1>5 DEF Libraries, Bundles
<1>7. /\ last'[k] = made.edits + 4
      /\ \A j \in Keys : j # k =>
            last'[j] = IF disk.record # Nothing \/ tab.at # "closed" THEN last[j] ELSE 0
  BY <1>2, <1>3 DEF HasRecords
<1>8. disk.version = "none" => Remote /\ disk.record = Nothing
  BY DEF Elsewhere, HasRecords, Remote
<1>9. broken' = (broken \/ (disk.version # "current" /\ tab.at # "closed"))
  BY Zenon DEF Elsewhere
<1> QED BY <1>1, <1>2, <1>4, <1>6, <1>7, <1>8, <1>9 DEF Elsewhere

LEMMA CloseFrame ==
  ASSUME TypeOK, Close
  PROVE  /\ tab.at # "closed" /\ tab' = Closed /\ Resting("closed")
         /\ sent' = {} /\ late' = {}
         /\ broken' = (broken \/ Halfway)
         /\ waived' = IF Halfway THEN waived \union Forgotten(disk.record) ELSE waived
         /\ made'.edits = made.edits
         /\ UNCHANGED <<backend, disk, local, backup, last>>
<1>1. broken' = (broken \/ Halfway)
  BY Zenon DEF Close
<1> QED BY <1>1 DEF Close, Count, TypeOK, Closed, Resting

-----------------------------------------------------------------------------
(* Where a session can be, and what it then holds and awaits.              *)

AtRest == {"closed", "unready", "ready"}
Importing == tab.work \in {"merge", "replace"}
Working == tab.work \in {"migrate", "merge", "replace"}

PhaseInv ==
  /\ tab.at \in AtRest =>
       tab.work = "none" /\ tab.held = Nothing /\ tab.bundle = Nothing /\ tab.plan = Nothing
  /\ tab.at = "adopt" <=> tab.work = "adopt"
  /\ tab.at = "adopt" => Remote /\ late = {} /\ tab.held = Nothing /\ tab.bundle = Nothing
  /\ tab.at \notin AtRest \union {"adopt"} => Working
  /\ tab.at = "keep" => tab.work # "merge"
  /\ tab.at = "wipe" => tab.work = "replace"
  /\ tab.at = "put" => Importing
  /\ tab.work = "migrate" => tab.bundle = Nothing
  /\ tab.at = "closed" => sent = {} /\ late = {}
  /\ sent # {} => tab.at \in {"adopt", "wipe", "put", "unwipe", "unput"}
  /\ ~Remote /\ late # {} => tab.at \in {"undo", "ready", "unready"}
  /\ ~Remote /\ tab.work \in {"replace", "migrate"} /\ tab.at # "keep" => backup = tab.held
  /\ ~Remote => local.record = Nothing

LEMMA ReadsInOrder == TypeOK /\ CanRead /\ ~Remote => late = {}
BY DEF TypeOK, CanRead, Remote

LEMMA PhaseStep ==
  ASSUME TypeOK, PhaseInv, Next
  PROVE  PhaseInv'
<1> USE DEF PhaseInv, AtRest, Importing, Working
<1>0. TypeOK /\ tab.at \in Phases
  BY DEF TypeOK
<1>r. UNCHANGED backend => Remote' = Remote
  BY DEF Remote
<1>1. ASSUME NEW r \in sent, Land(r) PROVE PhaseInv'
  BY <1>0, <1>1, <1>r, LandFrame DEF Still
<1>2. ASSUME NEW r \in sent, Bounce(r) PROVE PhaseInv'
  <2>1. Fails(r) /\ r \in Requests /\ (CanRead /\ ~Remote => late = {})
    BY <1>2, BounceFrame, ReadsInOrder
  <2> QED BY <1>0, <1>2, <1>r, <2>1, BounceFrame, FailsFrame DEF Resting, Undoing, Phases
<1>3. ASSUME NEW r \in late, LandLate(r) PROVE PhaseInv'
  BY <1>0, <1>3, <1>r, LandLateFrame DEF Still
<1>4. ASSUME NEW r \in late, DropLate(r) PROVE PhaseInv'
  BY <1>0, <1>4, <1>r, DropFrame
<1>5. CASE Open
  BY <1>0, <1>5, <1>r, OpenFrame
<1>6. CASE Adopted
  BY <1>0, <1>6, <1>r, AdoptedFrame DEF Resting
<1>7. CASE Migrate
  BY <1>0, <1>7, <1>r, MigrateFrame, ReadsInOrder DEF Resting
<1>8. CASE Keep
  BY <1>0, <1>8, <1>r, KeepFrame DEF Resting
<1>9. CASE Stamp
  BY <1>0, <1>9, <1>r, StampFrame DEF Resting
<1>10. ASSUME NEW k \in Keys, Upgrade(k) PROVE PhaseInv'
  <2> DEFINE r == [key |-> k, value |-> UpgradeJob(tab.plan[k]), base |-> Seen.record[k]]
  <2>1. r \in Requests /\ tab.at = "upgrade" /\ UNCHANGED <<backend, local, backup, sent, late, last>>
    BY <1>0, <1>10, UpgradeFrame
  <2>2. \/ /\ tab'.at = tab.at /\ tab'.work = tab.work
           /\ tab'.held = tab.held /\ tab'.bundle = tab.bundle
        \/ Fails(r)
    BY <1>0, <1>10, UpgradeFrame
  <2> HIDE DEF r
  <2> QED BY <1>0, <1>10, <1>r, <2>1, <2>2, FailsFrame DEF Undoing
<1>11. CASE Wiped \/ PutDone \/ Undo \/ Unwiped \/ Undone
  BY <1>0, <1>11, <1>r, TurnFrame, ReadsInOrder DEF Enters, Resting
<1>12. ASSUME NEW work \in {"merge", "replace"}, NEW shape \in {"old", "new"}, NEW keys \in SUBSET Keys,
              Import(work, shape, keys)
       PROVE  PhaseInv'
  BY <1>0, <1>12, <1>r, ImportFrame, ReadsInOrder
<1>13. ASSUME NEW k \in Keys, Edit(k) \/ Delete(k) PROVE PhaseInv'
  BY <1>0, <1>13, <1>r, EditFrame DEF Still
<1>14. ASSUME NEW k \in Keys, Elsewhere(k) PROVE PhaseInv'
  BY <1>0, <1>14, <1>r, ElsewhereFrame
<1>15. CASE Close
  BY <1>0, <1>15, <1>r, CloseFrame DEF Resting
<1> QED
  BY <1>1, <1>2, <1>3, <1>4, <1>5, <1>6, <1>7, <1>8, <1>9, <1>10, <1>11, <1>12, <1>13, <1>14, <1>15
     DEF Next, Work

-----------------------------------------------------------------------------
(* What the records and the requests are.                                  *)

LEMMA SetsAre ==
  ASSUME NEW bundle
  PROVE  /\ \A r \in Sets(bundle) :
              r.key \in Keys /\ r.value = bundle[r.key] /\ r.value # Missing /\ r.base = Seen.record[r.key]
         /\ \A k \in Keys : bundle[k] # Missing => \E r \in Sets(bundle) : r.key = k
         /\ \A r, q \in Sets(bundle) : r.key = q.key => r = q
<1>1. ASSUME NEW r \in Sets(bundle)
      PROVE  \E k \in Keys : bundle[k] # Missing /\ r = [key |-> k, value |-> bundle[k], base |-> Seen.record[k]]
  BY DEF Sets
<1>2. ASSUME NEW k \in Keys, bundle[k] # Missing PROVE \E r \in Sets(bundle) : r.key = k
  <2>1. [key |-> k, value |-> bundle[k], base |-> Seen.record[k]] \in Sets(bundle)
    BY <1>2 DEF Sets
  <2> QED BY <2>1
<1>3. ASSUME NEW r \in Sets(bundle)
      PROVE  /\ r.key \in Keys /\ bundle[r.key] # Missing
             /\ r = [key |-> r.key, value |-> bundle[r.key], base |-> Seen.record[r.key]]
  BY <1>1
<1>4. ASSUME NEW r \in Sets(bundle), NEW q \in Sets(bundle), r.key = q.key PROVE r = q
  BY <1>3, <1>4
<1> QED BY <1>1, <1>2, <1>4

LEMMA DeletesAre ==
  /\ \A r \in Deletes :
       r.key \in Keys /\ r.value = Missing /\ Seen.record[r.key] # Missing /\ r.base = Seen.record[r.key]
  /\ \A k \in Keys : Seen.record[k] # Missing => \E r \in Deletes : r.key = k
  /\ \A r, q \in Deletes : r.key = q.key => r = q
<1>1. ASSUME NEW r \in Deletes
      PROVE  \E k \in Keys : Seen.record[k] # Missing /\ r = [key |-> k, value |-> Missing, base |-> Seen.record[k]]
  BY DEF Deletes
<1>2. ASSUME NEW k \in Keys, Seen.record[k] # Missing PROVE \E r \in Deletes : r.key = k
  <2>1. [key |-> k, value |-> Missing, base |-> Seen.record[k]] \in Deletes
    BY <1>2 DEF Deletes
  <2> QED BY <2>1
<1>3. ASSUME NEW r \in Deletes
      PROVE  /\ r.key \in Keys /\ Seen.record[r.key] # Missing
             /\ r = [key |-> r.key, value |-> Missing, base |-> Seen.record[r.key]]
  BY <1>1
<1>4. ASSUME NEW r \in Deletes, NEW q \in Deletes, r.key = q.key PROVE r = q
  BY <1>3, <1>4
<1> QED BY <1>1, <1>2, <1>4

Legible(record) == record.shape # "odd"

\* What cannot be read was there before the session, and only there.
RecordInv ==
  \A k \in Keys :
    /\ \A record \in {disk.record[k], local.record[k], tab.mirror.record[k]} :
         Legible(record) \/ record.text \in 0 .. 2
    /\ Legible(tab.held[k]) /\ Legible(tab.bundle[k]) /\ Legible(backup[k])
    /\ tab.bundle[k].text \in {0, 3}
    /\ tab.plan[k] # Missing => tab.plan[k].shape = "old"
    /\ tab.at = "upgrade" /\ tab.plan[k] # Missing => Legible(Seen.record[k])

RequestInv ==
  /\ \A r \in sent \union late : Legible(r.value)
  /\ \A r \in sent :
       /\ tab.at = "adopt" => r.value = local.record[r.key] /\ r.base = Missing /\ r.value # Missing
       /\ tab.at \in {"wipe", "unwipe"} => r.value = Missing
       /\ tab.at = "put" => r.value = tab.bundle[r.key] /\ r.value # Missing
       /\ tab.at = "unput" => r.value = tab.held[r.key] /\ r.value # Missing
  /\ \A r, q \in sent : r.key = q.key => r = q
  /\ ~Remote /\ tab.at = "undo" => \A r \in late : r.value \in {Missing, tab.bundle[r.key]}

LEMMA BundlesAreLegible ==
  /\ Legible(Missing) /\ \A k \in Keys : Nothing[k] = Missing
  /\ \A library : \A k \in Keys :
       /\ Legible(ReadBundle(library)[k])
       /\ ReadBundle(library)[k] = IF Legible(library.record[k]) /\ library.record[k].shape # "missing"
                                      /\ library.record[k].shape \in Shapes
                                   THEN library.record[k] ELSE Missing
       /\ Old(library)[k] # Missing => library.record[k].shape = "old" /\ Old(library)[k] = library.record[k]
       /\ library.record[k].shape = "old" => Old(library)[k] = library.record[k]
BY DEF Legible, Missing, Nothing, ReadBundle, Readable, Old, Shapes

LEMMA SeenIs ==
  TypeOK => Seen = IF Remote THEN tab.mirror ELSE disk
BY DEF Seen, Remote

LEMMA RecordStep ==
  ASSUME TypeOK, PhaseInv, RecordInv, RequestInv, Next
  PROVE  RecordInv'
<1> USE DEF RecordInv
<1>0. TypeOK /\ tab.at \in Phases /\ Legible(Missing) /\ (\A k \in Keys : Nothing[k] = Missing)
      /\ Missing.text = 0
  BY BundlesAreLegible DEF TypeOK, Missing
<1>s. /\ Seen = IF Remote THEN tab.mirror ELSE disk
      /\ Seen' = IF Remote' THEN tab'.mirror ELSE disk'
      /\ UNCHANGED backend => Remote' = Remote
  BY DEF Seen, Remote
<1>1. ASSUME NEW r \in sent, Land(r) PROVE RecordInv'
  <2>1. Legible(r.value) /\ tab.at # "upgrade"
    BY <1>1 DEF RequestInv, PhaseInv
  <2> QED BY <1>0, <1>1, <2>1, LandFrame DEF Still, Writes, Mirrors
<1>2. ASSUME NEW r \in Requests, Fails(r), Legible(r.value), UNCHANGED <<backend, local, backup>>
      PROVE  RecordInv'
  BY <1>0, <1>2, FailsFrame DEF Resting, Undoing, Writes
<1>3. ASSUME NEW r \in late, LandLate(r) PROVE RecordInv'
  <2>1. Legible(r.value) /\ (~Remote => tab.at # "upgrade")
    BY <1>3 DEF RequestInv, PhaseInv
  <2>2. /\ Still /\ Writes(r.key, r.value) /\ Mirrors(r.key, r.value)
        /\ UNCHANGED <<backend, local, backup>>
    BY <1>0, <1>3, LandLateFrame
  <2>3. tab.at = "upgrade" => \A k \in Keys : Seen'.record[k] \in {Seen.record[k], r.value}
    BY <1>s, <2>1, <2>2 DEF Mirrors
  <2> QED BY <1>0, <1>3, <2>1, <2>2, <2>3 DEF Still, Writes, Mirrors
<1>4. ASSUME NEW r \in late, DropLate(r) PROVE RecordInv'
  BY <1>0, <1>4, <1>s, DropFrame
<1>5. CASE Open
  <2>1. \A k \in Keys : Closed.mirror.record[k] = Missing
    BY <1>0 DEF Closed
  <2> QED BY <1>0, <1>5, <2>1, OpenFrame
<1>6. CASE Adopted
  BY <1>0, <1>6, AdoptedFrame DEF Resting, SameRecords
<1>7. CASE Migrate
  BY <1>0, <1>7, MigrateFrame, BundlesAreLegible DEF Resting, SameRecords
<1>8. CASE Keep
  <2>1. tab'.at = "upgrade" => \A k \in Keys : tab'.plan[k] # Missing =>
            tab'.plan[k].shape = "old" /\ Legible(Seen'.record[k])
    BY <1>8, <1>s, <1>0, KeepFrame, BundlesAreLegible DEF Resting, Legible
  <2> QED BY <1>0, <1>8, <2>1, KeepFrame DEF Resting
<1>9. CASE Stamp
  BY <1>0, <1>9, StampFrame DEF Resting, SameRecords
<1>10. ASSUME NEW k \in Keys, Upgrade(k) PROVE RecordInv'
  <2> DEFINE r == [key |-> k, value |-> UpgradeJob(tab.plan[k]), base |-> Seen.record[k]]
  <2>1. r \in Requests /\ tab.at = "upgrade" /\ UNCHANGED <<backend, local, backup, sent, late, last>>
    BY <1>0, <1>10, UpgradeFrame
  <2>2. Legible(r.value)
    BY <2>1 DEF Legible, UpgradeJob, TypeOK, Bundles, Records
  <2>3. \/ /\ Writes(k, r.value) /\ Mirrors(k, r.value)
           /\ tab'.at = tab.at /\ tab'.work = tab.work
           /\ tab'.held = tab.held /\ tab'.bundle = tab.bundle
           /\ \A j \in Keys : tab'.plan[j] = IF j = k THEN Missing ELSE tab.plan[j]
        \/ Fails(r)
    BY <1>0, <1>10, UpgradeFrame
  <2> HIDE DEF r
  <2>4. CASE ~Fails(r)
    <3>1. \A j \in Keys : tab'.plan[j] # Missing => Seen'.record[j] = Seen.record[j]
      BY <1>s, <2>1, <2>3, <2>4 DEF Mirrors, Writes
    <3> QED BY <1>0, <2>1, <2>2, <2>3, <2>4, <3>1 DEF Mirrors, Writes
  <2> QED BY <1>2, <2>1, <2>2, <2>4
<1>11. CASE Wiped \/ PutDone \/ Undo \/ Unwiped \/ Undone
  <2>1. UNCHANGED <<backend, disk, local, backup>> /\ tab'.mirror = tab.mirror
    BY <1>0, <1>11, TurnFrame DEF Enters
  <2>2. Seen' = Seen
    BY <1>s, <2>1
  <2>3. \A k \in Keys : tab'.plan[k] # Missing => tab'.plan[k].shape = "old"
    BY <1>0, <1>11, TurnFrame, BundlesAreLegible DEF Resting
  <2>4. tab'.at = "upgrade" => \A k \in Keys : tab'.plan[k] # Missing => Legible(Seen.record[k])
    BY <1>0, <1>11, TurnFrame, BundlesAreLegible DEF Resting, Enters, Legible
  <2> QED BY <1>0, <1>11, <2>1, <2>2, <2>3, <2>4, TurnFrame DEF Enters, Resting
<1>12. ASSUME NEW work \in {"merge", "replace"}, NEW shape \in {"old", "new"}, NEW keys \in SUBSET Keys,
              Import(work, shape, keys)
       PROVE  RecordInv'
  BY <1>0, <1>12, ImportFrame, BundlesAreLegible DEF Imported, Legible
<1>13. ASSUME NEW k \in Keys, Edit(k) \/ Delete(k) PROVE RecordInv'
  <2>1. PICK value \in Records :
              /\ value = Missing \/ value.shape = "new"
              /\ Writes(k, value) /\ Mirrors(k, value)
    BY <1>0, <1>13, EditFrame
  <2>2. Legible(value) /\ tab.at = "ready"
    BY <1>0, <1>13, <2>1, EditFrame DEF Legible
  <2> QED BY <1>0, <1>13, <2>1, <2>2, EditFrame DEF Still, Writes, Mirrors
<1>14. ASSUME NEW k \in Keys, Elsewhere(k) PROVE RecordInv'
  <2>1. PICK value \in Records :
              /\ value.shape = IF disk.version = "old" THEN "old" ELSE "new"
              /\ \A j \in Keys : disk'.record[j] = IF j = k THEN value ELSE disk.record[j]
    BY <1>0, <1>14, ElsewhereFrame
  <2>2. Legible(value) /\ UNCHANGED <<backend, local, backup, tab>>
    BY <1>0, <1>14, <2>1, ElsewhereFrame DEF Legible
  <2>3. \A j \in Keys : Legible(Seen.record[j]) => Legible(Seen'.record[j])
    BY <1>s, <2>1, <2>2
  <2> QED BY <1>0, <1>14, <2>1, <2>2, <2>3
<1>15. CASE Close
  <2>1. \A k \in Keys : Closed.mirror.record[k] = Missing
    BY <1>0 DEF Closed
  <2> QED BY <1>0, <1>15, <2>1, CloseFrame DEF Resting
<1>16. ASSUME NEW r \in sent, Bounce(r) PROVE RecordInv'
  BY <1>2, <1>16, BounceFrame DEF RequestInv
<1> QED
  BY <1>1, <1>16, <1>3, <1>4, <1>5, <1>6, <1>7, <1>8, <1>9, <1>10, <1>11, <1>12, <1>13, <1>14, <1>15
     DEF Next, Work

LEMMA RequestStep ==
  ASSUME TypeOK, PhaseInv, RecordInv, RequestInv, Next
  PROVE  RequestInv'
<1> USE DEF RequestInv
<1>0. TypeOK /\ tab.at \in Phases /\ Legible(Missing)
  BY BundlesAreLegible DEF TypeOK
<1>r. UNCHANGED backend => Remote' = Remote
  BY DEF Remote
<1>1. ASSUME NEW r \in sent, Land(r) PROVE RequestInv'
  <2>1. tab.at # "undo"
    BY <1>1 DEF PhaseInv
  <2> QED BY <1>0, <1>1, <1>r, <2>1, LandFrame DEF Still
<1>2. ASSUME NEW r \in sent, Bounce(r) PROVE RequestInv'
  <2>1. /\ Fails(r) /\ r \in Requests /\ sent' = {} /\ late' = late \union (sent \ {r})
        /\ UNCHANGED <<backend, local>>
        /\ ~Remote => late = {}
    BY <1>0, <1>2, BounceFrame, ReadsInOrder
  <2>2. tab.at \in {"adopt", "wipe", "put", "unwipe", "unput"}
    BY <1>2 DEF PhaseInv
  <2>3. /\ tab.at \in {"adopt", "unwipe", "unput"} => tab'.at \in {"unready", "ready"}
        /\ tab.at \in {"wipe", "put"} => tab'.at = "undo" /\ tab'.bundle = tab.bundle
    BY <1>0, <2>1, <2>2, FailsFrame DEF Resting, Undoing
  <2> QED BY <1>r, <2>1, <2>2, <2>3
<1>3. ASSUME NEW r \in late, LandLate(r) PROVE RequestInv'
  BY <1>0, <1>3, <1>r, LandLateFrame DEF Still
<1>4. ASSUME NEW r \in late, DropLate(r) PROVE RequestInv'
  BY <1>0, <1>4, <1>r, DropFrame
<1>5. CASE Open
  <2>1. sent = {} /\ tab'.at \in {"adopt", "unready"} /\ UNCHANGED <<local, late>>
    BY <1>0, <1>5, OpenFrame DEF PhaseInv
  <2>2. \A r \in sent' : /\ r.key \in Keys /\ Readable(local.record[r.key])
                         /\ r.value = local.record[r.key] /\ r.base = Missing /\ tab'.at = "adopt"
    BY <1>0, <1>5, <2>1, OpenFrame
  <2>3. \A r, q \in sent' : r.key = q.key => r = q
    BY <1>0, <1>5, <2>1, OpenFrame
  <2>4. \A record : Readable(record) => Legible(record) /\ record # Missing
    BY DEF Readable, Legible, Missing
  <2> QED BY <2>1, <2>2, <2>3, <2>4
<1>6. CASE Adopted
  BY <1>0, <1>6, <1>r, AdoptedFrame DEF Resting
<1>7. CASE Migrate
  <2>1. sent = {}
    BY <1>0, <1>7, MigrateFrame DEF PhaseInv
  <2> QED BY <1>0, <1>7, <1>r, <2>1, MigrateFrame DEF Resting
<1>8. CASE Keep
  <2>1. sent = {}
    BY <1>0, <1>8, KeepFrame DEF PhaseInv
  <2> QED BY <1>0, <1>8, <1>r, <2>1, KeepFrame, DeletesAre DEF Resting
<1>9. CASE Stamp
  <2>1. sent = {} /\ (~Remote => late = {})
    BY <1>0, <1>9, StampFrame DEF PhaseInv
  <2> QED BY <1>0, <1>9, <1>r, <2>1, StampFrame DEF Resting
<1>10. ASSUME NEW k \in Keys, Upgrade(k) PROVE RequestInv'
  <2> DEFINE r == [key |-> k, value |-> UpgradeJob(tab.plan[k]), base |-> Seen.record[k]]
  <2>1. tab.at = "upgrade" /\ UNCHANGED <<backend, local, sent, late>>
    BY <1>0, <1>10, UpgradeFrame
  <2>2. sent = {} /\ (~Remote => late = {})
    BY <2>1 DEF PhaseInv
  <2> QED BY <1>r, <2>1, <2>2
<1>11. CASE Wiped \/ PutDone \/ Undo \/ Unwiped \/ Undone
  <2>1. UNCHANGED <<backend, local, late>>
    BY <1>0, <1>11, TurnFrame
  <2>2. /\ \A r \in sent' :
              /\ Legible(r.value)
              /\ tab'.at \in {"wipe", "unwipe"} => r.value = Missing
              /\ tab'.at = "put" => r.value = tab'.bundle[r.key] /\ r.value # Missing
              /\ tab'.at = "unput" => r.value = tab'.held[r.key] /\ r.value # Missing
        /\ \A r, q \in sent' : r.key = q.key => r = q
        /\ tab'.at \notin {"undo", "adopt"}
    <3>1. CASE tab.at = "wipe"
      <4>1. sent' = Sets(tab.bundle) /\ tab'.at = "put" /\ tab'.bundle = tab.bundle
        BY <1>0, <1>11, <3>1, TurnFrame DEF Enters
      <4> QED BY <4>1, SetsAre DEF RecordInv
    <3>2. CASE tab.at = "undo"
      <4>1. sent' = Deletes /\ tab'.at = "unwipe"
        BY <1>0, <1>11, <3>2, TurnFrame DEF Enters
      <4> QED BY <1>0, <4>1, DeletesAre
    <3>3. CASE tab.at = "unwipe"
      <4>1. sent' = Sets(tab.held) /\ tab'.at = "unput" /\ tab'.held = tab.held
        BY <1>0, <1>11, <3>3, TurnFrame DEF Enters
      <4> QED BY <4>1, SetsAre DEF RecordInv
    <3>4. CASE tab.at \in {"put", "unput"}
      <4>1. sent' = {} /\ tab'.at \in {"upgrade", "unready", "ready"}
        BY <1>0, <1>11, <3>4, TurnFrame DEF Enters, Resting
      <4> QED BY <4>1
    <3> QED BY <1>0, <1>11, <3>1, <3>2, <3>3, <3>4, TurnFrame
  <2>3. \A r \in late : Legible(r.value)
    OBVIOUS
  <2> QED BY <1>r, <2>1, <2>2, <2>3
<1>12. ASSUME NEW work \in {"merge", "replace"}, NEW shape \in {"old", "new"}, NEW keys \in SUBSET Keys,
              Import(work, shape, keys)
       PROVE  RequestInv'
  <2>1. /\ \/ sent' = {} /\ tab'.at = "keep"
           \/ sent' = Sets(tab'.bundle) /\ tab'.at = "put"
        /\ late' = late
        /\ \A k \in Keys : Legible(tab'.bundle[k])
    BY <1>0, <1>12, ImportFrame DEF Imported, Legible
  <2> QED BY <2>1, SetsAre
<1>13. ASSUME NEW k \in Keys, Edit(k) \/ Delete(k) PROVE RequestInv'
  BY <1>0, <1>13, <1>r, EditFrame DEF Still
<1>14. ASSUME NEW k \in Keys, Elsewhere(k) PROVE RequestInv'
  BY <1>0, <1>14, <1>r, ElsewhereFrame
<1>15. CASE Close
  BY <1>0, <1>15, CloseFrame
<1> QED
  BY <1>1, <1>2, <1>3, <1>4, <1>5, <1>6, <1>7, <1>8, <1>9, <1>10, <1>11, <1>12, <1>13, <1>14, <1>15
     DEF Next, Work

\* No text that is stored, held or under way is one that an edit to come will have.
Used == 0 .. made.edits + 3
UsedInv ==
  /\ \A k \in Keys :
       /\ disk.record[k].text \in Used /\ local.record[k].text \in Used /\ backup[k].text \in Used
       /\ tab.mirror.record[k].text \in Used /\ tab.held[k].text \in Used
       /\ tab.bundle[k].text \in Used /\ tab.plan[k].text \in Used
       /\ last[k] \in Used
  /\ \A r \in sent \union late : r.value.text \in Used /\ r.base.text \in Used

LEMMA UsedStep ==
  ASSUME TypeOK, PhaseInv, RequestInv, UsedInv, Next
  PROVE  UsedInv'
<1> USE DEF UsedInv
<1>0. TypeOK /\ made.edits \in Nat /\ (\A k \in Keys : Nothing[k] = Missing) /\ Missing.text = 0
  BY BundlesAreLegible, Bounds DEF TypeOK, Missing
<1>u. /\ {0, 3} \subseteq Used
      /\ made'.edits = made.edits => Used' = Used
      /\ made'.edits = made.edits + 1 => Used \subseteq Used' /\ made.edits + 4 \in Used'
  BY <1>0 DEF Used
<1>s. \A k \in Keys : Seen.record[k].text \in Used
  BY DEF Seen
<1>1. ASSUME NEW r \in sent, Land(r) PROVE UsedInv'
  BY <1>0, <1>1, <1>u, LandFrame DEF Still, Writes, Mirrors
<1>2. ASSUME NEW r \in Requests, Fails(r), r.value.text \in Used,
             UNCHANGED <<backend, local, backup, last>>,
             sent' \union late' \subseteq sent \union late
      PROVE  UsedInv'
  BY <1>0, <1>2, <1>u, FailsFrame DEF Resting, Undoing, Writes
<1>3. ASSUME NEW r \in late, LandLate(r) PROVE UsedInv'
  BY <1>0, <1>3, <1>u, LandLateFrame DEF Still, Writes, Mirrors
<1>4. ASSUME NEW r \in late, DropLate(r) PROVE UsedInv'
  BY <1>0, <1>4, <1>u, DropFrame
<1>5. CASE Open
  <2>1. \A k \in Keys : tab'.mirror.record[k].text \in Used
    BY <1>0, <1>5, <1>u, OpenFrame DEF Closed
  <2>2. \A r \in sent' \union late' : r.value.text \in Used /\ r.base.text \in Used
    BY <1>0, <1>5, <1>u, OpenFrame
  <2> QED BY <1>0, <1>5, <1>u, <2>1, <2>2, OpenFrame
<1>6. CASE Adopted
  BY <1>0, <1>6, <1>u, AdoptedFrame DEF Resting, SameRecords
<1>b. ASSUME NEW library, NEW k \in Keys, library.record[k].text \in Used
      PROVE  ReadBundle(library)[k].text \in Used /\ Old(library)[k].text \in Used
  BY <1>0, <1>b, <1>u DEF ReadBundle, Old
<1>7. CASE Migrate
  BY <1>0, <1>7, <1>u, <1>s, <1>b, MigrateFrame DEF Resting, SameRecords
<1>8. CASE Keep
  <2>1. \A r \in sent' : r \in sent \/ (r.value.text \in Used /\ r.base.text \in Used)
    BY <1>0, <1>8, <1>u, <1>s, KeepFrame, DeletesAre
  <2>2. \A k \in Keys : tab'.plan[k].text \in Used
    BY <1>0, <1>8, <1>u, <1>s, <1>b, KeepFrame DEF Resting
  <2> QED BY <1>0, <1>8, <1>u, <2>1, <2>2, KeepFrame DEF Resting
<1>9. CASE Stamp
  <2>1. \A k \in Keys : last'[k] \in Used
    BY <1>0, <1>9, StampFrame DEF Decided
  <2> QED BY <1>0, <1>9, <1>u, <2>1, StampFrame DEF Resting, SameRecords
<1>10. ASSUME NEW k \in Keys, Upgrade(k) PROVE UsedInv'
  <2> DEFINE r == [key |-> k, value |-> UpgradeJob(tab.plan[k]), base |-> Seen.record[k]]
  <2>1. r \in Requests /\ UNCHANGED <<backend, local, backup, sent, late, last>>
    BY <1>0, <1>10, UpgradeFrame
  <2>2. r.value.text \in Used
    BY DEF UpgradeJob, TypeOK, Bundles, Records
  <2>3. \/ /\ Writes(k, r.value) /\ Mirrors(k, r.value)
           /\ tab'.held = tab.held /\ tab'.bundle = tab.bundle
           /\ \A j \in Keys : tab'.plan[j] = IF j = k THEN Missing ELSE tab.plan[j]
           /\ made'.edits = made.edits
        \/ Fails(r)
    BY <1>0, <1>10, UpgradeFrame
  <2> HIDE DEF r
  <2>4. CASE ~Fails(r)
    BY <1>0, <1>u, <2>1, <2>2, <2>3, <2>4 DEF Mirrors, Writes
  <2> QED BY <1>2, <2>1, <2>2, <2>4
<1>11. CASE Wiped \/ PutDone \/ Undo \/ Unwiped \/ Undone
  <2>1. UNCHANGED <<backend, disk, local, backup, late, last>> /\ tab'.mirror = tab.mirror /\ Used' = Used
    BY <1>0, <1>11, <1>u, TurnFrame DEF Enters
  <2>2. \A r \in sent' : r.value.text \in Used /\ r.base.text \in Used
    BY <1>0, <1>11, <1>u, <1>s, TurnFrame, SetsAre, DeletesAre, SMTT(30)
  <2>3. \A k \in Keys : tab'.plan[k].text \in Used /\ tab'.held[k].text \in Used /\ tab'.bundle[k].text \in Used
    BY <1>0, <1>11, <1>u, <1>s, <1>b, TurnFrame DEF Enters, Resting
  <2> QED BY <2>1, <2>2, <2>3
<1>12. ASSUME NEW work \in {"merge", "replace"}, NEW shape \in {"old", "new"}, NEW keys \in SUBSET Keys,
              Import(work, shape, keys)
       PROVE  UsedInv'
  <2>1. /\ UNCHANGED <<backend, disk, local, backup, late, last>> /\ tab'.mirror = tab.mirror /\ Used' = Used
        /\ tab'.plan = tab.plan
    BY <1>0, <1>12, <1>u, ImportFrame
  <2>2. \A k \in Keys : tab'.held[k].text \in Used /\ tab'.bundle[k].text \in Used
    BY <1>0, <1>12, <1>u, <1>s, <1>b, ImportFrame DEF Imported
  <2>3. \A r \in sent' : r.value.text \in Used /\ r.base.text \in Used
    BY <1>0, <1>12, <1>s, <2>2, ImportFrame, SetsAre
  <2> QED BY <2>1, <2>2, <2>3
<1>13. ASSUME NEW k \in Keys, Edit(k) \/ Delete(k) PROVE UsedInv'
  <2>1. PICK value \in Records :
              /\ value = Missing \/ value.text = made.edits + 4
              /\ Writes(k, value) /\ Mirrors(k, value)
              /\ \A j \in Keys : last'[j] = IF j = k THEN value.text ELSE last[j]
    BY <1>0, <1>13, EditFrame
  <2>2. value.text \in Used' /\ Used \subseteq Used'
    BY <1>0, <1>13, <1>u, <2>1, EditFrame
  <2> QED BY <1>0, <1>13, <2>1, <2>2, EditFrame DEF Still, Writes, Mirrors
<1>14. ASSUME NEW k \in Keys, Elsewhere(k) PROVE UsedInv'
  <2>1. PICK value \in Records :
              /\ value.text = made.edits + 4
              /\ \A j \in Keys : disk'.record[j] = IF j = k THEN value ELSE disk.record[j]
    BY <1>0, <1>14, ElsewhereFrame
  <2>2. /\ UNCHANGED <<backend, local, backup, tab, sent, late>>
        /\ made.edits + 4 \in Used' /\ Used \subseteq Used'
        /\ \A j \in Keys : last'[j] \in Used \union {0, made.edits + 4}
    BY <1>0, <1>14, <1>u, ElsewhereFrame
  <2> QED BY <1>u, <2>1, <2>2
<1>15. CASE Close
  <2>1. \A k \in Keys : Closed.mirror.record[k] = Missing
    BY <1>0 DEF Closed
  <2> QED BY <1>0, <1>15, <1>u, <2>1, CloseFrame DEF Resting
<1>16. ASSUME NEW r \in sent, Bounce(r) PROVE UsedInv'
  BY <1>0, <1>2, <1>16, BounceFrame
<1> QED
  BY <1>1, <1>16, <1>3, <1>4, <1>5, <1>6, <1>7, <1>8, <1>9, <1>10, <1>11, <1>12, <1>13, <1>14, <1>15
     DEF Next, Work
-----------------------------------------------------------------------------
(* What is told of every record that is not excused.                       *)

Pending(k) == \E r \in sent : r.key = k

\* On disk is something the session did not see, or not write.
Unknown(k) ==
  IF Remote THEN tab.mirror.record[k] # disk.record[k]
  ELSE disk.record[k].text \notin {0, tab.held[k].text, tab.bundle[k].text}

\* What a user saved, and no write of the session may take away without excuse.
Shielded(k) == OnDisk(k) /\ (Unknown(k) \/ ~Legible(disk.record[k]))
Copied(k) == last[k] \in {tab.held[k].text, backup[k].text, local.record[k].text}

\* The library is where its users left it, and no work has touched a record yet.
Quiet == tab.at \in AtRest \union {"adopt", "keep"} \/ (tab.at = "upgrade" /\ tab.work = "migrate")

KeptAt(k) ==
  /\ last[k] # 0 /\ Quiet => Kept(k)
  /\ last[k] # 0 /\ Working => Copied(k) \/ Shielded(k)
  /\ last[k] # 0 /\ tab.at = "keep" /\ OnDisk(k) => tab.held[k].text = last[k] \/ Shielded(k)
  /\ last[k] # 0 /\ tab.at \in {"put", "upgrade"} /\ tab.work = "merge" /\ tab.bundle[k] = Missing => Kept(k)
  /\ tab.at \in {"put", "upgrade"} /\ tab.bundle[k] # Missing
       => Pending(k) \/ disk.record[k].text = tab.bundle[k].text \/ Newer(k)
  /\ tab.at = "unput" /\ last[k] # 0 /\ tab.held[k].text = last[k] => Pending(k) \/ OnDisk(k)
KeptInv == \A k \in Keys \ waived : KeptAt(k)

\* What is to be upgraded is what is there, unless the session has yet to see that.
PlanAt(k) ==
  tab.at = "upgrade" /\ tab.plan[k] # Missing /\ (Remote => k \notin waived)
    => tab.plan[k].text = disk.record[k].text \/ Unknown(k)
PlanInv == \A k \in Keys : PlanAt(k)

\* A request that would be taken was made of what the session still sees.
SeenInv ==
  Remote => \A r \in sent :
    r.key \notin waived /\ OnDisk(r.key) /\ r.base = disk.record[r.key]
      => tab.mirror.record[r.key] = r.base

Static == TypeOK /\ PhaseInv /\ RecordInv /\ RequestInv /\ UsedInv

LEMMA KeyTypes ==
  ASSUME TypeOK
  PROVE  /\ \A k \in Keys :
              /\ disk.record[k] \in Records /\ local.record[k] \in Records /\ backup[k] \in Records
              /\ tab.mirror.record[k] \in Records /\ tab.held[k] \in Records
              /\ tab.bundle[k] \in Records /\ tab.plan[k] \in Records
              /\ last[k] \in Nat
         /\ \A r \in sent \union late : r.key \in Keys /\ r.value \in Records /\ r.base \in Records
BY Bounds DEF TypeOK, Libraries, Bundles, Texts, Requests

LEMMA RecordIs ==
  /\ \A record \in Records :
       /\ record.text \in Nat
       /\ record.text = 0 <=> record = Missing
       /\ record.shape = "missing" <=> record = Missing
       /\ record.shape \in Shapes
  /\ Missing.text = 0 /\ Missing.shape = "missing" /\ Legible(Missing)
BY Bounds DEF Records, Missing, Texts, Shapes, Legible

LEMMA UpgradeIs ==
  \A record \in Records : UpgradeJob(record).text = record.text /\ UpgradeJob(record).shape = "new"
BY DEF UpgradeJob, Records

\* A write that needs no excuse.
LEMMA Spares ==
  ASSUME TypeOK, PhaseInv, NEW r, ~Spoils(r)
  PROVE  \/ r.value.text = last[r.key]
         \/ /\ Remote /\ r.value = Missing /\ OnDisk(r.key) => r.base = disk.record[r.key]
            /\ ~Remote => disk.record[r.key].text \in {0, tab.held[r.key].text, tab.bundle[r.key].text}
            /\ Legible(disk.record[r.key])
            /\ tab.at # "adopt"
BY DEF TypeOK, PhaseInv, Spoils, Blind, Unreadable, Revives, Remote, Legible, OnDisk

LEMMA Asks ==
  ASSUME NEW r, ~Conflicts(r), Remote, r.value # Missing
  PROVE  r.base = disk.record[r.key]
BY DEF Conflicts, Remote

\* What a user saved and the session does not know of outlasts what it sends.
LEMMA Shields ==
  ASSUME Static, PlanInv, SeenInv,
         NEW r \in Requests, r.key \notin waived, last[r.key] # 0, Shielded(r.key),
         ~Conflicts(r), ~Spoils(r),
         \/ r \in sent /\ Working
         \/ /\ tab.at = "upgrade" /\ tab.plan[r.key] # Missing
            /\ r.value = UpgradeJob(tab.plan[r.key]) /\ r.base = Seen.record[r.key]
  PROVE  \/ tab.at = "unput" /\ tab.held[r.key].text = last[r.key]
         \/ tab.at = "upgrade" /\ ~Remote /\ r.value.text = last[r.key]
<1> DEFINE k == r.key
<1>0. TypeOK /\ k \in Keys /\ OnDisk(k) /\ r.value \in Records
  BY DEF Static, Shielded, Requests
<1>k. /\ disk.record[k] \in Records /\ tab.mirror.record[k] \in Records /\ tab.held[k] \in Records
      /\ tab.bundle[k] \in Records /\ tab.plan[k] \in Records /\ last[k] \in Nat
  BY <1>0, KeyTypes
<1>s. Spoils(r) \/ r.value.text = last[k]
  <2> SUFFICES ASSUME r.value.text # last[k] PROVE Spoils(r)
    OBVIOUS
  <2>1. CASE ~Legible(disk.record[k])
    BY <2>1 DEF Spoils, Unreadable, Legible
  <2>2. CASE Unknown(k) /\ ~Remote
    BY <2>2, <1>0 DEF TypeOK, Unknown, Spoils, Blind, Remote, OnDisk
  <2>3. CASE Unknown(k) /\ Remote
    <3>1. r.base # disk.record[k]
      <4>1. CASE r \in sent
        BY <4>1, <2>3, <1>0 DEF SeenInv, Unknown
      <4>2. CASE r.base = Seen.record[r.key]
        BY <4>2, <2>3, <1>0, SeenIs DEF Unknown
      <4> QED BY <4>1, <4>2
    <3>2. r.value = Missing
      BY <3>1, <2>3, Asks
    <3> QED BY <3>1, <3>2, <2>3, <1>0 DEF Spoils, Blind, Remote
  <2> QED BY <2>1, <2>2, <2>3 DEF Shielded
<1>1. CASE r \in sent /\ Working
  <2>1. tab.at \in {"wipe", "put", "unwipe", "unput"}
    BY <1>1 DEF Static, PhaseInv, Working
  <2>2. CASE tab.at \in {"wipe", "unwipe"}
    BY <2>2, <1>1, <1>s, RecordIs DEF Static, RequestInv
  <2>3. CASE tab.at = "put"
    <3>1. r.value = tab.bundle[k] /\ r.value.text = disk.record[k].text /\ r.value # Missing
      BY <2>3, <1>1, <1>s, <1>0 DEF Static, RequestInv, OnDisk
    <3>2. r.value.text = 3
      BY <3>1, <1>0, RecordIs DEF Static, RecordInv
    <3>3. ~Unknown(k) \/ Remote
      BY <3>1 DEF Unknown
    <3>4. ~Unknown(k)
      <4>1. CASE Remote
        BY <4>1, <3>1, <1>1, <1>0, Asks DEF SeenInv, Unknown
      <4> QED BY <4>1, <3>3
    <3>5. Legible(disk.record[k])
      <4>1. Legible(disk.record[k]) \/ disk.record[k].text \in 0 .. 2
        BY <1>0 DEF Static, RecordInv
      <4> QED BY <4>1, <3>1, <3>2
    <3> QED BY <3>4, <3>5 DEF Shielded
  <2>4. CASE tab.at = "unput"
    BY <2>4, <1>1, <1>s DEF Static, RequestInv
  <2> QED BY <2>1, <2>2, <2>3, <2>4
<1>2. CASE /\ tab.at = "upgrade" /\ tab.plan[k] # Missing
           /\ r.value = UpgradeJob(tab.plan[k]) /\ r.base = Seen.record[k]
  <2>1. r.value # Missing
    BY <1>2, <1>k, UpgradeIs, RecordIs
  <2>2. CASE Remote
    <3>1. tab.mirror.record[k] = disk.record[k] /\ Legible(disk.record[k])
      BY <1>2, <2>1, <2>2, <1>0, Asks, SeenIs DEF Static, RecordInv
    <3> QED BY <3>1, <2>2 DEF Shielded, Unknown
  <2> QED BY <1>2, <1>s, <2>2
<1> QED BY <1>1, <1>2

LEMMA PlanStep ==
  ASSUME Static, PlanInv, Next
  PROVE  PlanInv'
<1>0. TypeOK /\ PhaseInv
  BY DEF Static
<1> SUFFICES ASSUME NEW k \in Keys,
                    tab'.at = "upgrade", tab'.plan[k] # Missing, Remote' => k \notin waived'
             PROVE  tab'.plan[k].text = disk'.record[k].text \/ Unknown(k)'
  BY DEF PlanInv, PlanAt
<1>p. PlanAt(k)
  BY DEF PlanInv
<1>k. \A j \in Keys : Nothing[j] = Missing
  BY BundlesAreLegible
<1>o. ASSUME tab.at # "upgrade", SameRecords, backend' = backend,
             tab'.held = tab.held, tab'.bundle = tab.bundle,
             tab'.plan = Old(Seen) \/ tab'.plan = Nothing
      PROVE  tab'.plan[k].text = disk'.record[k].text \/ Unknown(k)'
  <2>1. Seen = IF Remote THEN tab.mirror ELSE disk
    BY <1>0, SeenIs
  <2>2. tab'.plan[k] = Seen.record[k]
    BY <1>o, <1>k, BundlesAreLegible
  <2>3. CASE Remote
    BY <1>o, <2>1, <2>2, <2>3 DEF Unknown, Remote, SameRecords
  <2> QED BY <1>o, <2>1, <2>2, <2>3 DEF SameRecords
<1>1. ASSUME NEW r \in sent, Land(r) PROVE FALSE
  BY <1>0, <1>1, LandFrame DEF Still, PhaseInv
<1>2. ASSUME NEW r \in sent, Bounce(r) PROVE FALSE
  <2>1. Fails(r) /\ r \in Requests /\ tab.at \in {"adopt", "wipe", "put", "unwipe", "unput"}
    BY <1>0, <1>2, BounceFrame DEF PhaseInv
  <2> QED BY <1>0, <2>1, FailsFrame DEF Resting, Undoing
<1>3. ASSUME NEW r \in late, LandLate(r)
      PROVE  tab'.plan[k].text = disk'.record[k].text \/ Unknown(k)'
  <2>1. Remote /\ backend' = backend /\ k \notin waived' /\ waived \subseteq waived' /\ Still
    BY <1>0, <1>3, LandLateFrame DEF PhaseInv, Still, Remote
  <2>2. disk'.record[k] = disk.record[k] /\ tab'.mirror.record[k] = tab.mirror.record[k]
    BY <1>0, <1>3, <2>1, LandLateFrame
  <2> QED BY <1>p, <2>1, <2>2 DEF PlanAt, Unknown, Remote, Still
<1>4. ASSUME NEW r \in late, DropLate(r)
      PROVE  tab'.plan[k].text = disk'.record[k].text \/ Unknown(k)'
  BY <1>0, <1>4, <1>p, DropFrame DEF PlanAt, Unknown, Remote
<1>5. CASE Open
  BY <1>0, <1>5, <1>k, OpenFrame
<1>6. CASE Adopted
  BY <1>0, <1>6, AdoptedFrame DEF Resting
<1>7. CASE Migrate
  BY <1>0, <1>7, MigrateFrame DEF Resting
<1>8. CASE Keep
  BY <1>0, <1>8, <1>o, KeepFrame DEF SameRecords, Resting
<1>9. CASE Stamp
  BY <1>0, <1>9, StampFrame DEF Resting
<1>10. ASSUME NEW j \in Keys, Upgrade(j)
       PROVE  tab'.plan[k].text = disk'.record[k].text \/ Unknown(k)'
  <2> DEFINE r == [key |-> j, value |-> UpgradeJob(tab.plan[j]), base |-> Seen.record[j]]
  <2>1. \/ /\ Writes(j, r.value) /\ Mirrors(j, r.value)
           /\ tab'.held = tab.held /\ tab'.bundle = tab.bundle
           /\ \A i \in Keys : tab'.plan[i] = IF i = j THEN Missing ELSE tab.plan[i]
           /\ waived \subseteq waived'
        \/ Fails(r)
    BY <1>0, <1>10, UpgradeFrame
  <2>2. tab.at = "upgrade" /\ backend' = backend /\ r \in Requests
    BY <1>0, <1>10, UpgradeFrame
  <2> HIDE DEF r
  <2>3. ~Fails(r)
    BY <1>0, <2>2, FailsFrame DEF Undoing
  <2>4. k # j /\ tab'.plan[k] = tab.plan[k] /\ waived \subseteq waived'
    BY <2>1, <2>3
  <2>5. disk'.record[k] = disk.record[k] /\ tab'.mirror.record[k] = tab.mirror.record[k]
    BY <2>1, <2>3, <2>4 DEF Writes, Mirrors
  <2> QED BY <1>p, <2>1, <2>2, <2>3, <2>4, <2>5 DEF PlanAt, Unknown, Remote
<1>11. CASE Wiped \/ PutDone \/ Undo \/ Unwiped \/ Undone
  BY <1>0, <1>11, <1>o, TurnFrame DEF Enters, Resting, SameRecords
<1>12. ASSUME NEW work \in {"merge", "replace"}, NEW shape \in {"old", "new"}, NEW keys \in SUBSET Keys,
              Import(work, shape, keys)
       PROVE  FALSE
  BY <1>0, <1>12, ImportFrame
<1>13. ASSUME NEW j \in Keys, Edit(j) \/ Delete(j) PROVE FALSE
  BY <1>0, <1>13, EditFrame DEF Still
<1>14. ASSUME NEW j \in Keys, Elsewhere(j)
       PROVE  tab'.plan[k].text = disk'.record[k].text \/ Unknown(k)'
  <2>1. UNCHANGED <<backend, tab>> /\ waived' = waived \ {j}
    BY <1>0, <1>14, ElsewhereFrame
  <2>2. PICK value \in Records :
              /\ value.text = made.edits + 4
              /\ \A i \in Keys : disk'.record[i] = IF i = j THEN value ELSE disk.record[i]
    BY <1>0, <1>14, ElsewhereFrame
  <2>3. CASE k # j
    BY <1>p, <2>1, <2>2, <2>3 DEF PlanAt, Unknown, Remote
  <2>4. CASE k = j
    <3>1. /\ made.edits \in Nat /\ tab.mirror.record[k].text \in 0 .. made.edits + 3
          /\ tab.held[k].text \in 0 .. made.edits + 3 /\ tab.bundle[k].text \in 0 .. made.edits + 3
      BY Bounds DEF Static, UsedInv, Used, TypeOK
    <3> QED BY <2>1, <2>2, <2>4, <3>1 DEF Unknown, Remote
  <2> QED BY <2>3, <2>4
<1>15. CASE Close
  BY <1>0, <1>15, CloseFrame DEF Resting
<1> QED
  BY <1>1, <1>2, <1>3, <1>4, <1>5, <1>6, <1>7, <1>8, <1>9, <1>10, <1>11, <1>12, <1>13, <1>14, <1>15
     DEF Next, Work

LEMMA SeenStep ==
  ASSUME Static, SeenInv, Next
  PROVE  SeenInv'
<1>0. TypeOK /\ PhaseInv
  BY DEF Static
<1> SUFFICES ASSUME Remote', NEW q \in sent', q.key \notin waived', OnDisk(q.key)',
                    q.base = disk'.record[q.key]
             PROVE  tab'.mirror.record[q.key] = q.base
  BY DEF SeenInv
<1>p. Remote /\ q \in sent /\ q.key \notin waived /\ OnDisk(q.key) /\ q.base = disk.record[q.key]
        => tab.mirror.record[q.key] = q.base
  BY DEF SeenInv
<1>k. \A j \in Keys : Nothing[j] = Missing
  BY BundlesAreLegible
<1>m. Seen = IF Remote THEN tab.mirror ELSE disk
  BY <1>0, SeenIs
<1>q. q \in sent => q.key \in Keys
  BY <1>0, KeyTypes
<1>o. ASSUME backend' = backend, q.base = Seen.record[q.key], tab'.mirror = tab.mirror
      PROVE  tab'.mirror.record[q.key] = q.base
  BY <1>o, <1>m DEF Remote
<1>i. ASSUME q \in sent, backend' = backend, waived \subseteq waived', last' = last,
             disk'.record[q.key] = disk.record[q.key],
             tab'.mirror.record[q.key] = tab.mirror.record[q.key]
      PROVE  tab'.mirror.record[q.key] = q.base
  BY <1>i, <1>p DEF Remote, OnDisk
<1>1. ASSUME NEW r \in sent, Land(r) PROVE tab'.mirror.record[q.key] = q.base
  <2>1. q \in sent /\ q # r
    BY <1>0, <1>1, LandFrame
  <2>2. q.key # r.key
    BY <2>1 DEF Static, RequestInv
  <2> QED BY <1>0, <1>1, <2>1, <2>2, <1>q, <1>i, LandFrame DEF Writes, Mirrors
<1>2. ASSUME NEW r \in sent, Bounce(r) PROVE FALSE
  BY <1>0, <1>2, BounceFrame
<1>3. ASSUME NEW r \in late, LandLate(r) PROVE tab'.mirror.record[q.key] = q.base
  <2>1. Remote /\ backend' = backend /\ waived \subseteq waived' /\ sent' = sent /\ last' = last
    BY <1>0, <1>3, LandLateFrame DEF Remote
  <2> QED BY <1>0, <1>3, <1>i, <1>q, <2>1, LandLateFrame
<1>4. ASSUME NEW r \in late, DropLate(r) PROVE tab'.mirror.record[q.key] = q.base
  BY <1>0, <1>4, <1>i, DropFrame
<1>5. CASE Open
  <2>1. q.base = Missing /\ q.key \in Keys /\ disk.record = Nothing /\ Remote /\ tab'.mirror = disk
    BY <1>0, <1>5, OpenFrame DEF PhaseInv
  <2> QED BY <1>k, <2>1
<1>6. CASE Adopted
  BY <1>0, <1>6, AdoptedFrame
<1>7. CASE Migrate
  <2>1. tab.at = "unready" /\ sent' = sent
    BY <1>0, <1>7, MigrateFrame
  <2> QED BY <1>0, <2>1 DEF PhaseInv
<1>8. CASE Keep
  <2>1. tab.at = "keep"
    BY <1>0, <1>8, KeepFrame
  <2>2. sent = {}
    BY <1>0, <2>1 DEF PhaseInv
  <2> QED BY <1>0, <1>8, <1>o, <2>2, KeepFrame, DeletesAre
<1>9. CASE Stamp
  <2>1. tab.at = "upgrade" /\ sent' = sent
    BY <1>0, <1>9, StampFrame
  <2> QED BY <1>0, <2>1 DEF PhaseInv
<1>10. ASSUME NEW j \in Keys, Upgrade(j) PROVE FALSE
  <2>1. tab.at = "upgrade" /\ sent' = sent
    BY <1>0, <1>10, UpgradeFrame
  <2> QED BY <1>0, <2>1 DEF PhaseInv
<1>11. CASE Wiped \/ PutDone \/ Undo \/ Unwiped \/ Undone
  BY <1>0, <1>11, <1>o, TurnFrame, SetsAre, DeletesAre DEF Enters
<1>12. ASSUME NEW work \in {"merge", "replace"}, NEW shape \in {"old", "new"}, NEW keys \in SUBSET Keys,
              Import(work, shape, keys)
       PROVE  tab'.mirror.record[q.key] = q.base
  BY <1>0, <1>12, <1>o, ImportFrame, SetsAre
<1>13. ASSUME NEW j \in Keys, Edit(j) \/ Delete(j) PROVE FALSE
  BY <1>0, <1>13, EditFrame DEF PhaseInv
<1>14. ASSUME NEW j \in Keys, Elsewhere(j) PROVE tab'.mirror.record[q.key] = q.base
  <2>1. UNCHANGED <<backend, tab, sent>> /\ waived' = waived \ {j}
    BY <1>0, <1>14, ElsewhereFrame
  <2>2. PICK value \in Records :
              /\ value.text = made.edits + 4
              /\ \A i \in Keys : disk'.record[i] = IF i = j THEN value ELSE disk.record[i]
    BY <1>0, <1>14, ElsewhereFrame
  <2>3. tab.at # "closed" /\ q.key \in Keys
    BY <1>0, <1>q, <2>1 DEF PhaseInv
  <2>4. q.key # j
    <3>1. made.edits \in Nat /\ q.base.text \in 0 .. made.edits + 3
      BY <2>1, Bounds DEF Static, UsedInv, Used, TypeOK
    <3> QED BY <3>1, <2>2
  <2>5. last'[q.key] = last[q.key]
    BY <1>0, <1>14, <2>3, <2>4, ElsewhereFrame
  <2> QED BY <1>p, <2>1, <2>2, <2>3, <2>4, <2>5 DEF Remote, OnDisk
<1>15. CASE Close
  BY <1>0, <1>15, CloseFrame
<1> QED
  BY <1>1, <1>2, <1>3, <1>4, <1>5, <1>6, <1>7, <1>8, <1>9, <1>10, <1>11, <1>12, <1>13, <1>14, <1>15
     DEF Next, Work

\* What a request that is answered leaves of one record: the first part of KeptAt, and
\* what is true of it before and after it lands.
LEMMA KeptByLanding ==
  ASSUME Static, KeptInv, PlanInv, SeenInv,
         NEW r \in sent, NEW k \in Keys, k \notin waived,
         ~Conflicts(r), Writes(r.key, r.value), r.key = k => ~Spoils(r),
         UNCHANGED <<backend, local, backup, last>>
  PROVE  /\ last[k] # 0 /\ Quiet => Kept(k)'
         /\ last[k] # 0 /\ Working => Copied(k) \/ (Shielded(k) /\ r.key # k)
<1>0. TypeOK /\ PhaseInv /\ r \in Requests /\ r.key \in Keys
  BY DEF Static, TypeOK, Requests
<1>k. KeptAt(k)
  BY DEF KeptInv
<1>1. ASSUME last[k] # 0, Quiet PROVE Kept(k)'
  <2>1. Kept(k) /\ tab.at = "adopt"
    BY <1>0, <1>1, <1>k DEF PhaseInv, KeptAt, Quiet, AtRest
  <2>2. CASE r.key # k
    BY <1>0, <2>1, <2>2 DEF Kept, OnDisk, Writes
  <2>3. CASE r.key = k
    <3>1. r.value.text = last[k]
      BY <1>0, <2>1, <2>3, Spares
    <3> QED BY <1>0, <2>3, <3>1 DEF Kept, OnDisk, Writes
  <2> QED BY <2>2, <2>3
<1>2. ASSUME last[k] # 0, Working PROVE Copied(k) \/ (Shielded(k) /\ r.key # k)
  <2>1. Copied(k) \/ Shielded(k)
    BY <1>2, <1>k DEF KeptAt
  <2>2. tab.at # "upgrade"
    BY <1>0 DEF PhaseInv
  <2> QED BY <1>0, <1>2, <2>1, <2>2, Shields DEF Copied
<1> QED BY <1>1, <1>2

LEMMA KeptByWork ==
  ASSUME Static, KeptInv, PlanInv, SeenInv,
         \/ \E r \in sent : Land(r) \/ Bounce(r)
         \/ \E r \in late : LandLate(r) \/ DropLate(r)
  PROVE  KeptInv'
<1>0. TypeOK /\ PhaseInv
  BY DEF Static
<1>t. \A r \in sent : r \in Requests /\ r.key \in Keys /\ r.value \in Records
  BY <1>0 DEF TypeOK, Requests
<1>1. ASSUME NEW r \in sent, Land(r) PROVE KeptInv'
  <2> SUFFICES ASSUME NEW k \in Keys, k \notin waived' PROVE KeptAt(k)'
    BY DEF KeptInv
  <2>1. /\ Still /\ Writes(r.key, r.value) /\ Mirrors(r.key, r.value)
        /\ sent' = sent \ {r} /\ k \notin waived /\ ~Conflicts(r)
        /\ r.key = k => ~Spoils(r)
        /\ UNCHANGED <<backend, local, backup, last>>
    BY <1>0, <1>1, LandFrame
  <2>k. KeptAt(k)
    BY <2>1 DEF KeptInv
  <2>2. /\ last[k] # 0 /\ Quiet => Kept(k)'
        /\ last[k] # 0 /\ Working => Copied(k) \/ (Shielded(k) /\ r.key # k)
    BY <2>1, KeptByLanding
  <2>3. tab.at \in {"adopt", "wipe", "put", "unwipe", "unput"}
    BY <1>0 DEF PhaseInv
  <2>4. (Quiet' <=> Quiet) /\ (Working' <=> Working) /\ (Copied(k)' <=> Copied(k))
    BY <2>1 DEF Still, Quiet, AtRest, Working, Copied
  <2>5. r.key # k => disk'.record[k] = disk.record[k] /\ tab'.mirror.record[k] = tab.mirror.record[k]
    BY <1>t, <2>1 DEF Writes, Mirrors
  <2>6. r.key = k => disk'.record[k] = r.value
    BY <1>t, <2>1 DEF Writes
  <2>7. (r.key # k /\ Shielded(k)) => Shielded(k)'
    BY <2>1, <2>5 DEF Shielded, Unknown, OnDisk, Remote, Still
  <2>8. (r.key # k /\ Pending(k)) => Pending(k)'
    BY <2>1 DEF Pending
  <2>9. last[k] # 0 /\ tab.at = "put" /\ tab.work = "merge" /\ tab.bundle[k] = Missing => Kept(k)'
    <3>1. tab.at = "put" /\ tab.bundle[k] = Missing => r.key # k
      BY DEF Static, RequestInv
    <3> QED BY <2>1, <2>5, <2>k, <3>1 DEF KeptAt, Kept, OnDisk
  <2>10. tab.at = "put" /\ tab.bundle[k] # Missing
           => Pending(k)' \/ disk'.record[k].text = tab'.bundle[k].text \/ Newer(k)'
    <3>1. CASE r.key # k
      BY <2>1, <2>5, <2>8, <2>k, <3>1 DEF KeptAt, Newer, OnDisk, Still
    <3>2. CASE r.key = k
      BY <2>1, <2>6, <3>2 DEF Static, RequestInv, Still
    <3> QED BY <3>1, <3>2
  <2>11. tab.at = "unput" /\ last[k] # 0 /\ tab.held[k].text = last[k] => Pending(k)' \/ OnDisk(k)'
    <3>1. CASE r.key # k
      BY <2>1, <2>5, <2>8, <2>k, <3>1 DEF KeptAt, OnDisk
    <3>2. CASE r.key = k
      BY <2>1, <2>6, <3>2 DEF Static, RequestInv, OnDisk
    <3> QED BY <3>1, <3>2
  <2> QED BY <2>1, <2>2, <2>3, <2>4, <2>7, <2>9, <2>10, <2>11 DEF KeptAt, Still
<1>2. ASSUME NEW r \in sent, Bounce(r) PROVE KeptInv'
  <2> SUFFICES ASSUME NEW k \in Keys, k \notin waived' PROVE KeptAt(k)'
    BY DEF KeptInv
  <2>1. /\ r \in Requests /\ Fails(r) /\ UNCHANGED <<backend, local, backup, last>>
    BY <1>0, <1>2, BounceFrame
  <2>2. /\ tab'.mirror = tab.mirror /\ k \notin waived
        /\ tab.at = "adopt" => Resting("unready")
        /\ tab.at \in Undoing => Resting(IF tab.work = "migrate" THEN "unready" ELSE "ready")
        /\ tab.at \notin {"adopt"} \union Undoing =>
              /\ tab'.at = "undo" /\ tab'.work = tab.work
              /\ tab'.held = tab.held /\ tab'.bundle = tab.bundle /\ tab'.plan = tab.plan
        /\ \/ disk' = disk
           \/ Remote /\ ~Conflicts(r) /\ Writes(r.key, r.value) /\ (r.key = k => ~Spoils(r))
        /\ tab.at \in Undoing /\ (Remote \/ tab.work = "merge") =>
             last[k] \in {0, disk'.record[k].text, backup[k].text, local.record[k].text}
    BY <1>0, <2>1, FailsFrame
  <2>k. KeptAt(k)
    BY <2>2 DEF KeptInv
  <2>3. tab.at \in {"adopt", "wipe", "put", "unwipe", "unput"}
    BY <1>0 DEF PhaseInv
  <2>4. /\ last[k] # 0 /\ Quiet => Kept(k)'
        /\ last[k] # 0 /\ Working => Copied(k) \/ (Shielded(k) /\ (disk' = disk \/ r.key # k))
    <3>1. CASE disk' = disk
      BY <2>1, <2>k, <3>1 DEF KeptAt, Kept, OnDisk
    <3>2. CASE disk' # disk
      BY <2>1, <2>2, <3>2, KeptByLanding
    <3> QED BY <3>1, <3>2
  <2>5. (disk' = disk \/ r.key # k) => disk'.record[k] = disk.record[k]
    BY <1>t, <2>2 DEF Writes
  <2>6. CASE tab.at = "adopt"
    BY <2>1, <2>2, <2>4, <2>6 DEF KeptAt, Resting, Working, Quiet
  <2>7. CASE tab.at \in {"wipe", "put"}
    <3>1. Shielded(k) /\ (disk' = disk \/ r.key # k) => Shielded(k)'
      BY <2>1, <2>2, <2>5, <2>7 DEF Shielded, Unknown, OnDisk, Remote, Undoing
    <3>2. tab'.at = "undo" /\ tab'.work = tab.work /\ tab'.held = tab.held
      BY <2>2, <2>7 DEF Undoing
    <3>3. (Working' <=> Working) /\ (Copied(k)' <=> Copied(k))
      BY <2>1, <3>2 DEF Working, Copied
    <3> QED BY <2>1, <2>4, <3>1, <3>2, <3>3 DEF KeptAt, Quiet, AtRest
  <2>8. CASE tab.at \in Undoing
    <3>1. tab'.at \in {"ready", "unready"} /\ tab'.work = "none"
      BY <2>2, <2>8 DEF Resting
    <3>2. last[k] # 0 => Kept(k)'
      <4>1. CASE Remote \/ tab.work = "merge"
        BY <2>1, <2>2, <2>8, <4>1 DEF Kept, OnDisk
      <4>2. CASE ~Remote /\ tab.work # "merge"
        <5>1. Working /\ backup = tab.held /\ disk' = disk
          BY <1>0, <2>2, <2>8, <4>2 DEF PhaseInv, Working, Undoing, AtRest
        <5> QED BY <2>1, <2>k, <5>1 DEF KeptAt, Kept, OnDisk, Copied, Shielded
      <4> QED BY <4>1, <4>2
    <3> QED BY <2>1, <3>1, <3>2 DEF KeptAt, Working
  <2> QED BY <2>3, <2>6, <2>7, <2>8 DEF Undoing
<1>3. ASSUME NEW r \in late, LandLate(r) PROVE KeptInv'
  <2> SUFFICES ASSUME NEW k \in Keys, k \notin waived' PROVE KeptAt(k)'
    BY DEF KeptInv
  <2>1. /\ r \in Requests /\ Still /\ Writes(r.key, r.value) /\ Mirrors(r.key, r.value)
        /\ k \notin waived /\ (r.key = k => ~Spoils(r))
        /\ Remote => disk'.record[k] = disk.record[k] /\ tab'.mirror.record[k] = tab.mirror.record[k]
        /\ UNCHANGED <<backend, local, backup, sent, last>>
    BY <1>0, <1>3, LandLateFrame
  <2>k. KeptAt(k)
    BY <2>1 DEF KeptInv
  <2>2. ASSUME disk'.record[k] = disk.record[k], tab'.mirror.record[k] = tab.mirror.record[k]
        PROVE  KeptAt(k)'
    BY <2>1, <2>2, <2>k DEF KeptAt, Kept, OnDisk, Copied, Shielded, Unknown, Newer, Pending, Working,
       Quiet, Still, Remote
  <2>3. ASSUME ~Remote, r.key = k
        PROVE  KeptAt(k)'
    <3>1. tab.at \in {"undo", "ready", "unready"} /\ disk'.record[k] = r.value
      BY <1>0, <2>1, <2>3 DEF PhaseInv, Writes
    <3>2. \/ r.value.text = last[k]
          \/ disk.record[k].text \in {0, tab.held[k].text, tab.bundle[k].text} /\ Legible(disk.record[k])
      BY <1>0, <2>1, <2>3, Spares
    <3>3. CASE tab.at \in {"ready", "unready"}
      <4>1. tab.work = "none" /\ tab.held[k].text = 0 /\ tab.bundle[k].text = 0
        BY <1>0, <3>3, RecordIs, BundlesAreLegible DEF PhaseInv, AtRest
      <4>2. last[k] # 0 => Kept(k)
        BY <2>k, <3>3 DEF KeptAt, Quiet, AtRest
      <4>3. last[k] # 0 => Kept(k)'
        BY <2>1, <3>1, <3>2, <4>1, <4>2 DEF Kept, OnDisk
      <4> QED BY <2>1, <3>3, <4>1, <4>3 DEF KeptAt, Still, Working
    <3>4. CASE tab.at = "undo"
      <4>1. r.value \in {Missing, tab.bundle[k]} /\ tab.bundle[k].text \in {0, 3} /\ Missing.text = 0
        BY <2>3, <3>4, RecordIs DEF Static, RequestInv, RecordInv
      <4>2. Legible(disk.record[k]) \/ disk.record[k].text \in 0 .. 2
        BY DEF Static, RecordInv
      <4>3. last[k] # 0 => ~Shielded(k)
        BY <2>3, <3>2, <4>1, <4>2 DEF Shielded, Unknown, OnDisk
      <4>4. last[k] # 0 /\ Working => Copied(k)
        BY <2>k, <4>3 DEF KeptAt
      <4> QED BY <2>1, <3>4, <4>4 DEF KeptAt, Still, Working, Copied, Quiet, AtRest
    <3> QED BY <3>1, <3>3, <3>4
  <2>4. ~Remote /\ r.key # k => disk'.record[k] = disk.record[k] /\ tab'.mirror.record[k] = tab.mirror.record[k]
    BY <2>1 DEF Writes, Mirrors
  <2> QED BY <2>1, <2>2, <2>3, <2>4
<1>4. ASSUME NEW r \in late, DropLate(r) PROVE KeptInv'
  <2> SUFFICES ASSUME NEW k \in Keys, k \notin waived' PROVE KeptAt(k)'
    BY DEF KeptInv
  <2>1. UNCHANGED <<backend, disk, local, backup, tab, sent, last, waived>>
    BY <1>0, <1>4, DropFrame
  <2>2. KeptAt(k)
    BY <2>1 DEF KeptInv
  <2> QED BY <2>1, <2>2 DEF KeptAt, Kept, OnDisk, Copied, Shielded, Unknown, Newer, Pending, Working,
       Quiet, Remote
<1> QED BY <1>1, <1>2, <1>3, <1>4

LEMMA KeptByOpening ==
  ASSUME Static, KeptInv,
         Open \/ Adopted \/ Migrate
         \/ \E work \in {"merge", "replace"}, shape \in {"old", "new"}, keys \in (SUBSET Keys) \ {{}} :
              Import(work, shape, keys)
  PROVE  KeptInv'
<1>0. TypeOK /\ PhaseInv
  BY DEF Static
<1> SUFFICES ASSUME NEW k \in Keys, k \notin waived' PROVE KeptAt(k)'
  BY DEF KeptInv
<1>q. ASSUME UNCHANGED <<disk, local, backup, last>>, k \notin waived, Quiet,
             tab'.at \in {"adopt", "unready", "ready"}, tab'.work \notin {"migrate", "merge", "replace"}
      PROVE  KeptAt(k)'
  BY <1>q DEF KeptInv, KeptAt, Kept, OnDisk, Working
<1>h. ASSUME UNCHANGED <<backend, disk, local, backup, last>>, k \notin waived, tab.at \in {"unready", "ready"},
             tab'.mirror = tab.mirror, tab'.held = ReadBundle(Seen),
             \/ tab'.at = "keep"
             \/ (tab'.at = "put" /\ (tab'.bundle[k] # Missing => Pending(k)'))
      PROVE  KeptAt(k)'
  <2>1. last[k] # 0 => Kept(k)'
    BY <1>h DEF KeptInv, KeptAt, Kept, OnDisk, Quiet, AtRest
  <2>2. Seen = IF Remote THEN tab.mirror ELSE disk
    BY <1>0, SeenIs
  <2>3. Seen.record[k] \in Records
    BY <1>0, <2>2, KeyTypes
  <2>4. last[k] # 0 /\ OnDisk(k)' => tab'.held[k].text = last[k] \/ Shielded(k)'
    <3> SUFFICES ASSUME last[k] # 0, OnDisk(k)', ~Shielded(k)' PROVE tab'.held[k].text = last[k]
      OBVIOUS
    <3>1. Legible(disk.record[k]) /\ disk.record[k].text = last[k] /\ disk.record[k] \in Records
      BY <1>0, <1>h, KeyTypes DEF Shielded, OnDisk
    <3>2. Remote => Seen.record[k] = disk.record[k]
      BY <1>h, <2>2 DEF Shielded, Unknown, Remote
    <3>3. Seen.record[k] = disk.record[k]
      BY <2>2, <3>2
    <3>4. tab'.held[k] = disk.record[k]
      BY <1>h, <3>1, <3>3, BundlesAreLegible, RecordIs
    <3> QED BY <3>1, <3>4
  <2>5. last[k] # 0 => Copied(k)' \/ Shielded(k)'
    BY <1>h, <2>1, <2>4 DEF Copied, Kept, OnDisk
  <2> QED BY <1>h, <2>1, <2>4, <2>5 DEF KeptAt
<1>1. CASE Open
  <2>1. tab.at = "closed" /\ tab'.at \in {"adopt", "unready"} /\ tab'.work \in {"adopt", "none"}
        /\ UNCHANGED <<disk, local, backup, last, waived>>
    BY <1>0, <1>1, OpenFrame
  <2> QED BY <1>q, <2>1 DEF Quiet, AtRest
<1>2. CASE Adopted
  <2>1. tab.at = "adopt" /\ tab'.at = "unready" /\ tab'.work = "none" /\ disk'.record = disk.record
        /\ UNCHANGED <<local, backup, last, waived>>
    BY <1>0, <1>2, AdoptedFrame DEF Resting, SameRecords
  <2> QED BY <2>1 DEF KeptInv, KeptAt, Kept, OnDisk, Working, Quiet
<1>3. CASE Migrate
  <2>1. tab.at = "unready" /\ SameRecords /\ UNCHANGED <<backend, local, backup, last, waived>>
    BY <1>0, <1>3, MigrateFrame
  <2>2. CASE Resting("ready")
    BY <2>1, <2>2 DEF KeptInv, KeptAt, Kept, OnDisk, Working, Quiet, Resting, SameRecords, AtRest
  <2>3. CASE UNCHANGED <<disk, tab>>
    BY <1>0, <1>q, <2>1, <2>3 DEF Quiet, AtRest, PhaseInv
  <2>4. CASE tab'.at = "keep"
    <3>1. tab'.held = ReadBundle(Seen) /\ SameVersions /\ disk' \in Libraries /\ tab' \in Sessions
      <4>1. TypeOK'
        BY <1>0, <1>3, OpeningType
      <4> QED BY <1>0, <1>3, <2>4, <4>1, MigrateFrame DEF Resting, TypeOK, Sessions
    <3>2. disk' = disk /\ tab'.mirror = tab.mirror
      BY <1>0, <2>1, <3>1 DEF TypeOK, Libraries, Sessions, SameRecords, SameVersions
    <3> QED BY <1>h, <2>1, <2>4, <3>1, <3>2
  <2> QED BY <1>0, <1>3, <2>2, <2>3, <2>4, MigrateFrame
<1>4. ASSUME NEW work \in {"merge", "replace"}, NEW shape \in {"old", "new"}, NEW keys \in SUBSET Keys,
             Import(work, shape, keys)
      PROVE  KeptAt(k)'
  <2>1. tab.at = "ready" /\ tab'.held = ReadBundle(Seen) /\ tab'.mirror = tab.mirror
        /\ (tab'.at = "keep" \/ (tab'.at = "put" /\ sent' = Sets(tab'.bundle)))
        /\ UNCHANGED <<backend, disk, local, backup, last, waived>>
    BY <1>0, <1>4, ImportFrame
  <2>2. tab'.at = "put" /\ tab'.bundle[k] # Missing => Pending(k)'
    BY <2>1, SetsAre DEF Pending
  <2> QED BY <1>h, <2>1, <2>2
<1> QED BY <1>1, <1>2, <1>3, <1>4

\* On the storage of a browser, a work that begins finds the library where its users left it.
BeginsWhole ==
  ~broken /\ ~Remote /\ tab.at = "keep" => \A k \in Keys \ waived : OnDisk(k)

LEMMA KeptByKeep ==
  ASSUME Static, KeptInv, BeginsWhole, Keep
  PROVE  KeptInv'
<1>0. TypeOK /\ PhaseInv
  BY DEF Static
<1> SUFFICES ASSUME NEW k \in Keys, k \notin waived' PROVE KeptAt(k)'
  BY DEF KeptInv
<1>1. /\ tab.at = "keep" /\ tab'.mirror = tab.mirror
      /\ UNCHANGED <<backend, disk, local, late, last, broken>>
  BY <1>0, KeepFrame
<1>2. CASE ~Remote /\ Resting(IF tab.work = "migrate" THEN "unready" ELSE "ready")
           /\ UNCHANGED <<sent, backup, waived>>
  BY <1>1, <1>2 DEF KeptInv, KeptAt, Kept, OnDisk, Working, Quiet, Resting, AtRest
<1>3. CASE /\ tab'.work = tab.work /\ tab'.held = tab.held /\ tab'.bundle = tab.bundle
           /\ tab'.at = IF tab.work = "migrate" THEN "upgrade" ELSE "wipe"
           /\ ~Remote => backup' = tab.held /\ waived' = waived \union Overwritten
           /\ Remote => UNCHANGED <<backup, waived>>
  <2>1. k \notin waived /\ KeptAt(k) /\ Working
    BY <1>0, <1>1, <1>3 DEF KeptInv, PhaseInv, AtRest
  <2>2. Shielded(k) => Shielded(k)'
    BY <1>1, <1>3 DEF Shielded, Unknown, OnDisk, Remote
  <2>5. tab'.at \in {"upgrade", "wipe"} /\ (tab'.at = "upgrade" => tab'.work = "migrate" /\ tab'.bundle[k] = Missing)
    BY <1>0, <1>3, BundlesAreLegible DEF PhaseInv
  <2>3. CASE Remote
    <3>1. last[k] # 0 => Kept(k)' /\ (Copied(k)' \/ Shielded(k)')
      BY <1>1, <1>3, <2>1, <2>2, <2>3 DEF KeptAt, Kept, Copied, OnDisk, Quiet
    <3> QED BY <1>1, <2>5, <3>1 DEF KeptAt
  <2>4. CASE ~Remote
    <3>1. last[k] # 0 => OnDisk(k)
      BY <1>1, <1>3, <2>1, <2>4 DEF Overwritten, BeginsWhole
    <3>2. last[k] # 0 => Kept(k)' /\ (Copied(k)' \/ Shielded(k)')
      BY <1>1, <1>3, <2>1, <2>2, <3>1 DEF KeptAt, Kept, OnDisk, Copied
    <3> QED BY <1>1, <2>5, <3>2 DEF KeptAt
  <2> QED BY <2>3, <2>4
<1> QED BY <1>0, <1>2, <1>3, KeepFrame

\* A record that is upgraded is the one that is there.
LEMMA UpgradeOf ==
  ASSUME Static, PlanInv, NEW k \in Keys, k \notin waived, tab.at = "upgrade", tab.plan[k] # Missing,
         NEW r, r = [key |-> k, value |-> UpgradeJob(tab.plan[k]), base |-> Seen.record[k]],
         ~Conflicts(r), ~Spoils(r)
  PROVE  /\ r.value \in Records => r.value.shape = "new" /\ r.value # Missing
         /\ r.value.text = tab.plan[k].text
         /\ Remote => tab.mirror.record[k] = disk.record[k]
         /\ disk.record[k].text = last[k] => r.value.text = last[k]
         /\ disk.record[k].text = tab.bundle[k].text => r.value.text = tab.bundle[k].text
         /\ Legible(disk.record[k])
<1>0. TypeOK /\ PhaseInv
  BY DEF Static
<1>1. /\ tab.plan[k] \in Records /\ disk.record[k] \in Records
      /\ r.value.text = tab.plan[k].text /\ r.value.shape = "new"
  BY <1>0, KeyTypes, UpgradeIs
<1>2. r.value # Missing
  BY <1>1 DEF Missing
<1>3. Seen = IF Remote THEN tab.mirror ELSE disk
  BY <1>0, SeenIs
<1>4. Remote => tab.mirror.record[k] = disk.record[k]
  BY <1>2, <1>3, Asks
<1>5. Legible(disk.record[k])
  BY <1>3, <1>4 DEF Static, RecordInv
<1>6. r.value.text = disk.record[k].text \/ Unknown(k)
  BY <1>1 DEF PlanInv, PlanAt
<1>7. Unknown(k) => ~Remote /\ r.value.text = last[k]
  <2>1. Unknown(k) => ~Remote
    BY <1>4 DEF Unknown
  <2>2. Unknown(k) /\ ~Remote => r.value.text = last[k]
    BY <1>0, Spares DEF Unknown
  <2> QED BY <2>1, <2>2
<1>8. disk.record[k].text = tab.bundle[k].text => r.value.text = tab.bundle[k].text
  BY <1>4, <1>6 DEF Unknown
<1> QED BY <1>1, <1>2, <1>4, <1>5, <1>6, <1>7, <1>8

LEMMA KeptByUpgrade ==
  ASSUME Static, KeptInv, PlanInv, SeenInv, NEW j \in Keys, Upgrade(j)
  PROVE  KeptInv'
<1>0. TypeOK /\ PhaseInv
  BY DEF Static
<1> SUFFICES ASSUME NEW k \in Keys, k \notin waived' PROVE KeptAt(k)'
  BY DEF KeptInv
<1> DEFINE r == [key |-> j, value |-> UpgradeJob(tab.plan[j]), base |-> Seen.record[j]]
<1>1. /\ tab.at = "upgrade" /\ tab.plan[j] # Missing /\ r \in Requests
      /\ UNCHANGED <<backend, local, backup, sent, late, last>>
  BY <1>0, UpgradeFrame
<1>2. \/ /\ ~Conflicts(r)
         /\ Writes(j, r.value) /\ Mirrors(j, r.value)
         /\ tab'.at = tab.at /\ tab'.work = tab.work
         /\ tab'.held = tab.held /\ tab'.bundle = tab.bundle
         /\ waived \subseteq waived' /\ (j \notin waived' => ~Spoils(r))
      \/ Fails(r)
  BY <1>0, UpgradeFrame
<1>3. Fails(r) => /\ tab'.mirror = tab.mirror
                  /\ tab'.at = "undo" /\ tab'.work = tab.work
                  /\ tab'.held = tab.held /\ tab'.bundle = tab.bundle
                  /\ waived \subseteq waived'
                  /\ \/ disk' = disk
                     \/ Remote /\ ~Conflicts(r) /\ Writes(j, r.value) /\ (j \notin waived' => ~Spoils(r))
  BY <1>0, <1>1, FailsFrame DEF Undoing
<1>r. r.key = j /\ r.value = UpgradeJob(tab.plan[j]) /\ r.base = Seen.record[j]
  OBVIOUS
<1>a. tab'.work = tab.work /\ tab'.held = tab.held /\ tab'.bundle = tab.bundle /\ k \notin waived
      /\ tab'.at \in {"upgrade", "undo"}
  BY <1>1, <1>2, <1>3
<1>4. KeptAt(k)
  BY <1>a DEF KeptInv
<1>5. CASE disk'.record[k] = disk.record[k] /\ (~Remote \/ tab'.mirror.record[k] = tab.mirror.record[k])
  BY <1>1, <1>a, <1>4, <1>5 DEF KeptAt, Kept, OnDisk, Copied, Shielded, Unknown, Newer, Pending, Working,
       Quiet, Remote, AtRest
<1>6. CASE k = j /\ ~Conflicts(r) /\ Writes(j, r.value) /\ ~Spoils(r)
  <2>1. /\ OnDisk(k) => r.value.text = last[k]
        /\ disk.record[k].text = tab.bundle[k].text => r.value.text = tab.bundle[k].text
    BY <1>1, <1>a, <1>6, UpgradeOf DEF OnDisk
  <2>2. disk'.record[k] = r.value
    BY <1>6 DEF Writes
  <2>3. OnDisk(k) => OnDisk(k)'
    BY <1>1, <2>1, <2>2 DEF OnDisk
  <2>4. Kept(k) => Kept(k)'
    BY <1>1, <2>3 DEF Kept
  <2>5. last[k] # 0 /\ Shielded(k) => Shielded(k)'
    <3> SUFFICES ASSUME last[k] # 0, Shielded(k) PROVE Shielded(k)'
      OBVIOUS
    <3>1. ~Remote /\ r.value.text = last[k]
      BY <1>0, <1>1, <1>a, <1>6, <1>r, Shields
    <3>2. Legible(disk.record[k])
      BY <1>1, <1>a, <1>6, UpgradeOf
    <3>3. disk.record[k].text = last[k] /\ last[k] \notin {0, tab.held[k].text, tab.bundle[k].text}
      BY <3>1, <3>2 DEF Shielded, Unknown, OnDisk
    <3> QED BY <1>1, <1>a, <2>2, <3>1, <3>3 DEF Shielded, Unknown, OnDisk, Remote
  <2>6. Newer(k) => Newer(k)'
    BY <1>1, <1>a, <2>3 DEF Newer
  <2>7. tab.bundle[k] # Missing => disk'.record[k].text = tab.bundle[k].text \/ Newer(k)'
    <3>1. sent = {}
      BY <1>0, <1>1 DEF PhaseInv
    <3>2. tab.bundle[k] # Missing => disk.record[k].text = tab.bundle[k].text \/ Newer(k)
      BY <1>1, <1>4, <3>1 DEF KeptAt, Pending
    <3> QED BY <2>1, <2>2, <2>6, <3>2
  <2> QED BY <1>1, <1>a, <1>4, <2>3, <2>4, <2>5, <2>7 DEF KeptAt, Working, Copied, Quiet, AtRest
<1> HIDE DEF r
<1>7. k # j => disk'.record[k] = disk.record[k] /\ tab'.mirror.record[k] = tab.mirror.record[k]
  BY <1>2, <1>3 DEF Writes, Mirrors
<1>8. \/ disk' = disk /\ tab'.mirror = tab.mirror
      \/ ~Conflicts(r) /\ Writes(j, r.value) /\ (j \notin waived' => ~Spoils(r))
  BY <1>2, <1>3
<1> QED BY <1>5, <1>6, <1>7, <1>8

LEMMA KeptByTurns ==
  ASSUME Static, KeptInv, Stamp \/ Wiped \/ PutDone \/ Undo \/ Unwiped \/ Undone
  PROVE  KeptInv'
<1>0. TypeOK /\ PhaseInv
  BY DEF Static
<1> SUFFICES ASSUME NEW k \in Keys, k \notin waived' PROVE KeptAt(k)'
  BY DEF KeptInv
<1>1. CASE Stamp
  <2>1. /\ tab.at = "upgrade" /\ SameRecords /\ UNCHANGED <<backend, local, backup, waived, sent>>
        /\ sent = {}
    BY <1>0, <1>1, StampFrame DEF PhaseInv
  <2>k. KeptAt(k) /\ disk'.record[k] = disk.record[k] /\ tab'.mirror.record[k] = tab.mirror.record[k]
    BY <2>1 DEF KeptInv, SameRecords
  <2>2. CASE tab'.at = "undo" /\ tab'.work = tab.work /\ last' = last
             /\ tab'.held = tab.held /\ tab'.bundle = tab.bundle
    BY <2>1, <2>2, <2>k DEF KeptAt, Copied, Shielded, Unknown, OnDisk, Remote, Working, Quiet, AtRest
  <2>3. CASE Resting("ready") /\ last' = Decided
    <3>1. tab.work \in {"migrate", "merge", "replace"}
      BY <1>0, <2>1 DEF PhaseInv, Working, AtRest
    <3>2. ~Pending(k)
      BY <2>1 DEF Pending
    <3>3. tab.work = "migrate" /\ last[k] # 0 => Kept(k)
      BY <2>1, <2>k DEF KeptAt, Quiet
    <3>4. Newer(k) => Kept(k)
      BY DEF Newer, Kept
    <3>5. tab.work = "merge" /\ tab.bundle[k] = Missing /\ last[k] # 0 => Kept(k)
      BY <2>1, <2>k DEF KeptAt
    <3>6. last'[k] = IF tab.work = "migrate" \/ Newer(k) THEN last[k]
                     ELSE IF tab.work = "replace" \/ tab.bundle[k] # Missing THEN tab.bundle[k].text
                     ELSE last[k]
      BY <2>3 DEF Decided
    <3>7. last'[k] # 0 => Kept(k)'
      <4>1. CASE last'[k] = last[k] /\ (tab.work = "migrate" \/ Newer(k) \/ (tab.bundle[k] = Missing /\ tab.work = "merge"))
        BY <2>1, <2>k, <3>3, <3>4, <3>5, <4>1 DEF Kept, OnDisk
      <4>2. CASE ~Newer(k) /\ last'[k] = tab.bundle[k].text
        <5>1. last'[k] # 0 => tab.bundle[k] # Missing
          BY <4>2, RecordIs
        <5> QED BY <2>1, <2>k, <3>2, <4>2, <5>1 DEF KeptAt, Kept, OnDisk
      <4> QED BY <3>1, <3>6, <4>1, <4>2
    <3> QED BY <2>3, <3>7 DEF KeptAt, Resting, Working
  <2> QED BY <1>0, <1>1, <2>2, <2>3, StampFrame
<1>2. CASE Wiped \/ PutDone \/ Undo \/ Unwiped \/ Undone
  <2>1. /\ UNCHANGED <<backend, disk, local, backup, last, waived>> /\ tab'.mirror = tab.mirror
    BY <1>0, <1>2, TurnFrame DEF Enters
  <2>k. KeptAt(k)
    BY <2>1 DEF KeptInv
  <2>2. CASE /\ tab'.work = tab.work /\ tab'.held = tab.held /\ tab'.bundle = tab.bundle
             /\ \/ tab.at = "wipe" /\ tab'.at = "put" /\ sent' = Sets(tab.bundle)
                \/ tab.at = "put" /\ tab'.at = "upgrade" /\ sent = {} /\ sent' = sent
                \/ tab.at = "undo" /\ tab'.at = "unwipe"
                \/ tab.at = "unwipe" /\ tab'.at = "unput" /\ sent' = Sets(tab.held)
    <3>1. /\ Copied(k)' <=> Copied(k)
          /\ Shielded(k)' <=> Shielded(k)
          /\ Newer(k)' <=> Newer(k)
          /\ OnDisk(k)' <=> OnDisk(k)
          /\ Kept(k)' <=> Kept(k)
          /\ Working' <=> Working
      BY <2>1, <2>2 DEF Copied, Shielded, Unknown, OnDisk, Remote, Newer, Kept, Working
    <3>2. tab.work # "migrate" \/ tab.at \notin {"wipe", "put"}
      BY <1>0 DEF PhaseInv, Importing
    <3>3. tab.at = "wipe" => tab.work = "replace"
      BY <1>0 DEF PhaseInv
    <3>4. tab.at = "wipe" /\ tab.bundle[k] # Missing => Pending(k)'
      BY <2>2, SetsAre DEF Pending
    <3>5. tab.at = "unwipe" /\ tab.held[k] # Missing => Pending(k)'
      BY <2>2, SetsAre DEF Pending
    <3>6. Pending(k) => sent # {}
      BY DEF Pending
    <3>7. Quiet' => FALSE
      BY <2>2, <3>2 DEF Quiet, AtRest
    <3> QED BY <2>1, <2>2, <2>k, <3>1, <3>2, <3>3, <3>4, <3>5, <3>6, <3>7, RecordIs DEF KeptAt
  <2>3. CASE /\ tab.at = "unput" /\ sent = {}
             /\ Resting(IF tab.work = "migrate" THEN "unready" ELSE "ready")
    <3>1. Working /\ ~Pending(k)
      BY <1>0, <2>3 DEF PhaseInv, Pending, AtRest
    <3>2. last[k] # 0 => Kept(k)
      BY <2>3, <2>k, <3>1 DEF KeptAt, Copied, Kept, Shielded
    <3> QED BY <2>1, <2>3, <3>2 DEF KeptAt, Kept, OnDisk, Resting, Working
  <2> QED BY <1>0, <1>2, <2>2, <2>3, TurnFrame DEF Enters
<1> QED BY <1>1, <1>2

LEMMA KeptByUsers ==
  ASSUME Static, KeptInv, Close \/ \E k \in Keys : Edit(k) \/ Delete(k) \/ Elsewhere(k)
  PROVE  KeptInv'
<1>0. TypeOK /\ PhaseInv
  BY DEF Static
<1> SUFFICES ASSUME NEW k \in Keys, k \notin waived' PROVE KeptAt(k)'
  BY DEF KeptInv
<1>1. CASE Close
  <2>1. /\ tab.at # "closed" /\ Resting("closed")
        /\ waived' = IF Halfway THEN waived \union Forgotten(disk.record) ELSE waived
        /\ UNCHANGED <<backend, disk, local, backup, last>>
    BY <1>0, <1>1, CloseFrame
  <2>k. KeptAt(k)
    BY <2>1 DEF KeptInv
  <2>2. ASSUME last[k] # 0 PROVE Kept(k)
    <3>1. CASE ~Halfway
      <4>1. Quiet
        BY <1>0, <2>1, <3>1 DEF Halfway, Quiet, AtRest, TypeOK, Phases
      <4> QED BY <2>2, <2>k, <4>1 DEF KeptAt
    <3>2. CASE Halfway /\ (Remote \/ tab.work = "merge")
      BY <2>1, <2>2, <3>2 DEF Forgotten, Kept, OnDisk, Remote
    <3>3. CASE Halfway /\ ~Remote /\ tab.work # "merge"
      <4>1. Working /\ backup = tab.held
        BY <1>0, <3>3 DEF PhaseInv, Halfway, Working, AtRest
      <4> QED BY <2>2, <2>k, <4>1 DEF KeptAt, Kept, Copied, Shielded
    <3> QED BY <3>1, <3>2, <3>3
  <2> QED BY <2>1, <2>2 DEF KeptAt, Kept, OnDisk, Resting, Working
<1>2. ASSUME NEW j \in Keys, Edit(j) \/ Delete(j) PROVE KeptAt(k)'
  <2>1. PICK value \in Records :
              /\ Writes(j, value) /\ Mirrors(j, value)
              /\ \A i \in Keys : last'[i] = IF i = j THEN value.text ELSE last[i]
    BY <1>0, <1>2, EditFrame
  <2>2. /\ tab.at = "ready" /\ tab'.at = "ready" /\ tab'.work = "none" /\ waived' = waived \ {j}
        /\ UNCHANGED <<local, backup>>
    BY <1>0, <1>2, EditFrame DEF Still, PhaseInv, AtRest
  <2>3. last'[k] # 0 => Kept(k)'
    <3>1. CASE k = j
      BY <2>1, <3>1 DEF Kept, OnDisk, Writes
    <3>2. CASE k # j
      BY <2>1, <2>2, <3>2 DEF Kept, OnDisk, Writes, KeptInv, KeptAt, Quiet, AtRest
    <3> QED BY <3>1, <3>2
  <2> QED BY <2>2, <2>3 DEF KeptAt, Working
<1>3. ASSUME NEW j \in Keys, Elsewhere(j) PROVE KeptAt(k)'
  <2>1. UNCHANGED <<backend, local, backup, tab, sent>> /\ waived' = waived \ {j} /\ last'[j] = made.edits + 4
    BY <1>0, <1>3, ElsewhereFrame
  <2>2. PICK value \in Records :
              /\ value.text = made.edits + 4
              /\ \A i \in Keys : disk'.record[i] = IF i = j THEN value ELSE disk.record[i]
    BY <1>0, <1>3, ElsewhereFrame
  <2>3. CASE k = j
    <3>1. /\ made.edits \in Nat /\ tab.mirror.record[k].text \in 0 .. made.edits + 3
          /\ tab.held[k].text \in 0 .. made.edits + 3 /\ tab.bundle[k].text \in 0 .. made.edits + 3
      BY <1>0, Bounds DEF Static, UsedInv, Used, TypeOK
    <3>2. OnDisk(k)' /\ Kept(k)' /\ tab'.held[k].text # last'[k] /\ Unknown(k)'
      BY <2>1, <2>2, <2>3, <3>1 DEF OnDisk, Kept, Unknown, Remote
    <3> QED BY <3>2 DEF KeptAt, Newer, Shielded
  <2>4. CASE k # j
    <3>1. KeptAt(k) /\ disk'.record[k] = disk.record[k]
      BY <2>1, <2>2, <2>4 DEF KeptInv
    <3>2. CASE last'[k] = last[k]
      BY <2>1, <3>1, <3>2 DEF KeptAt, Kept, OnDisk, Copied, Shielded, Unknown, Newer, Pending, Working,
         Quiet, Remote
    <3>3. CASE last'[k] = 0 /\ tab.at = "closed"
      BY <2>1, <3>1, <3>3 DEF KeptAt
    <3> QED BY <1>0, <1>3, <2>4, <3>2, <3>3, ElsewhereFrame
  <2> QED BY <2>3, <2>4
<1> QED BY <1>1, <1>2, <1>3

LEMMA KeptStep ==
  ASSUME Static, KeptInv, PlanInv, SeenInv, BeginsWhole, Next
  PROVE  KeptInv'
BY KeptByWork, KeptByOpening, KeptByKeep, KeptByUpgrade, KeptByTurns, KeptByUsers DEF Next, Work
-----------------------------------------------------------------------------
(* What is told of the library while no work was cut short.                *)

\* What a user saved while the session was at work, and which it never held.
Ahead(k) ==
  /\ OnDisk(k) /\ disk.record[k].shape = "new"
  /\ last[k] > 3 /\ last[k] # tab.held[k].text
  /\ Remote => last[k] # tab.mirror.record[k].text

\* The record left behind in the browser.
Left(k) == Remote /\ local.record[k].shape = "odd" /\ last[k] = local.record[k].text
Whole(k) == OnDisk(k) \/ (Left(k) /\ disk.record[k] = Missing)
InOldShape(k) == disk.record[k].shape = "old"

\* Put in place by a request whose answer was lost.
Stray(k) ==
  Remote /\ tab.mirror.record[k] = Missing /\ OnDisk(k) /\ last[k] # 0 /\ tab.held[k].text = last[k]

VersionInv ==
  /\ local.version = "current" => \A k \in Keys : local.record[k].shape # "old"
  /\ ~broken =>
       /\ Remote /\ tab.at # "closed" => tab.mirror.version = disk.version
       /\ tab.work = "migrate" => disk.version # "current"
       /\ tab.at = "ready" \/ Importing => disk.version = "current"
       /\ ~Remote /\ tab.at \in {"ready", "unready"} => late = {}

RestAt(k) ==
  /\ tab.at = "closed" =>
       Whole(k) \/ (Remote /\ disk.record = Nothing /\ last[k] = local.record[k].text)
  /\ Quiet /\ tab.at \notin {"closed", "adopt"} => Whole(k)
  /\ tab.at = "adopt" =>
       /\ Whole(k) \/ (disk.record[k] = Missing /\ last[k] = local.record[k].text /\ Pending(k))
       /\ disk.record[k] \in {Missing, local.record[k]} \/ disk.record[k].shape = "new"
  /\ tab.at \in AtRest \union {"keep"} /\ disk.version = "current" => ~InOldShape(k)
  /\ Remote /\ tab.at \in {"unready", "ready", "adopt", "keep", "wipe", "put", "upgrade"}
       => tab.mirror.record[k] = disk.record[k] \/ Ahead(k)

MoveAt(k) ==
  /\ Working => \/ tab.held[k].text = last[k]
                \/ last[k] # 0 /\ Shielded(k)
                \/ Left(k) /\ tab.held[k] = Missing
  /\ tab.at = "upgrade" /\ InOldShape(k) => tab.plan[k] # Missing
  /\ Importing /\ tab.at \in {"keep", "wipe", "put"} /\ InOldShape(k) => tab.bundle[k].shape = "old"
  /\ tab.at \in {"put", "upgrade"} /\ tab.work = "merge" /\ tab.bundle[k] = Missing => Whole(k)
  /\ tab.at = "wipe" => disk.record[k] = Missing \/ Pending(k) \/ Newer(k)
  /\ tab.at \in {"put", "upgrade"} /\ tab.work = "replace" /\ tab.bundle[k] = Missing
       => disk.record[k] = Missing \/ Newer(k)

BackAt(k) ==
  /\ Importing /\ tab.held[k].text = last[k] => tab.held[k].shape # "old"
  /\ Remote /\ Working /\ tab.mirror.record[k] = Missing /\ disk.record[k] # Missing => OnDisk(k)
  /\ Remote /\ tab.at = "undo" /\ tab.mirror.record[k] = Missing
       => disk.record[k] = Missing \/ Ahead(k) \/ Stray(k)
  /\ tab.at = "unwipe" /\ ~Pending(k) =>
       \/ disk.record[k] = Missing /\ (Remote => tab.mirror.record[k] = Missing)
       \/ Ahead(k) \/ Stray(k)
  /\ tab.at = "unput" =>
       /\ disk.record[k] = Missing \/ OnDisk(k)
       /\ (Remote => tab.mirror.record[k] = disk.record[k]) \/ Ahead(k) \/ Stray(k)
       /\ Stray(k) => \E r \in sent : r.key = k /\ r.base # disk.record[k]
       /\ Importing /\ InOldShape(k) => Stray(k)

WholeInv == ~broken => \A k \in Keys \ waived : RestAt(k) /\ MoveAt(k) /\ BackAt(k)

LEMMA VersionStep ==
  ASSUME Static, VersionInv, Next
  PROVE  VersionInv'
<1>0. TypeOK /\ PhaseInv
  BY DEF Static
<1>s. Seen = IF Remote THEN tab.mirror ELSE disk
  BY <1>0, SeenIs
<1>l. UNCHANGED local => (local.version = "current" => \A k \in Keys : local.record[k].shape # "old")'
  BY DEF VersionInv
<1>1. ASSUME NEW r \in sent, Land(r) PROVE VersionInv'
  BY <1>0, <1>1, <1>l, LandFrame DEF VersionInv, Still, Writes, Mirrors, Remote, Importing
<1>2. ASSUME NEW r \in Requests, Fails(r), UNCHANGED <<backend, local>>, tab.at # "closed"
      PROVE  VersionInv'
  <2>1. CASE tab.at \in {"adopt"} \union Undoing
    <3>1. broken'
      BY <1>0, <1>2, <2>1, FailsFrame
    <3> QED BY <1>2, <1>l, <3>1 DEF VersionInv
  <2>2. CASE tab.at \notin {"adopt"} \union Undoing
    <3>1. tab'.at = "undo" /\ tab'.work = tab.work /\ tab'.mirror = tab.mirror
          /\ disk'.version = disk.version
      BY <1>0, <1>2, <2>2, FailsFrame DEF Writes
    <3>2. broken' => broken
      BY <1>0, <1>2, <2>2, FailsFrame
    <3>3. broken => broken'
      BY <1>0, <1>2, FailsFrame
    <3> QED BY <1>2, <1>l, <3>1, <3>2, <3>3 DEF VersionInv, Importing, Remote
  <2> QED BY <2>1, <2>2
<1>3. ASSUME NEW r \in late, LandLate(r) PROVE VersionInv'
  BY <1>0, <1>3, <1>l, LandLateFrame DEF VersionInv, Still, Writes, Mirrors, Remote, Importing
<1>4. ASSUME NEW r \in late, DropLate(r) PROVE VersionInv'
  BY <1>0, <1>4, <1>l, DropFrame DEF VersionInv, Remote, Importing
<1>5. CASE Open
  <2>1. tab'.at # "ready" /\ tab'.work \in {"adopt", "none"} /\ late' = {}
    BY <1>0, <1>5, OpenFrame DEF PhaseInv
  <2> QED BY <1>0, <1>5, <1>l, <2>1, OpenFrame DEF VersionInv, Remote, Importing
<1>6. CASE Adopted
  <2>1. /\ tab.at = "adopt" /\ Remote /\ late = {} /\ Resting("unready")
        /\ UNCHANGED <<backend, local, late>>
        /\ broken' => TRUE
        /\ \/ SameVersions /\ broken' = (broken \/ Unversioned)
           \/ Stamps(local.version) /\ broken' = broken
    BY <1>0, <1>6, AdoptedFrame DEF PhaseInv
  <2> QED BY <1>l, <2>1 DEF VersionInv, Remote, Importing, Resting, SameVersions, Stamps
<1>7. CASE Migrate
  <2>1. tab.at = "unready" /\ CanRead /\ UNCHANGED <<backend, local, late, broken>>
    BY <1>0, <1>7, MigrateFrame
  <2>2. ~Remote => late = {}
    BY <1>0, <2>1, ReadsInOrder
  <2>3. ~broken => Seen.version = disk.version
    BY <1>s, <2>1 DEF VersionInv
  <2> QED BY <1>0, <1>7, <1>l, <2>1, <2>2, <2>3, MigrateFrame
          DEF VersionInv, Remote, Importing, Resting, SameVersions, Stamps
<1>8. CASE Keep
  <2>1. ~Remote => late = {}
    <3>1. tab.at = "keep"
      BY <1>0, <1>8, KeepFrame
    <3> QED BY <1>0, <3>1 DEF PhaseInv
  <2>2. tab.at = "keep" => Working
    BY <1>0 DEF PhaseInv, AtRest
  <2> QED BY <1>0, <1>8, <1>l, <2>1, <2>2, KeepFrame DEF VersionInv, Remote, Importing, Resting, Working
<1>9. CASE Stamp
  <2>1. ~Remote => late = {}
    <3>1. tab.at = "upgrade"
      BY <1>0, <1>9, StampFrame
    <3> QED BY <1>0, <3>1 DEF PhaseInv
  <2> QED BY <1>0, <1>9, <1>l, <2>1, StampFrame DEF VersionInv, Remote, Importing, Resting, SameVersions, Stamps
<1>10. ASSUME NEW j \in Keys, Upgrade(j) PROVE VersionInv'
  <2> DEFINE r == [key |-> j, value |-> UpgradeJob(tab.plan[j]), base |-> Seen.record[j]]
  <2>1. \/ /\ Writes(j, r.value) /\ Mirrors(j, r.value)
           /\ tab'.at = tab.at /\ tab'.work = tab.work /\ broken' = broken
        \/ Fails(r)
    BY <1>0, <1>10, UpgradeFrame
  <2>2. tab.at = "upgrade" /\ r \in Requests /\ UNCHANGED <<backend, local, late>>
    BY <1>0, <1>10, UpgradeFrame
  <2> HIDE DEF r
  <2>3. CASE Fails(r)
    BY <1>2, <2>2, <2>3
  <2>4. CASE ~Fails(r)
    BY <1>l, <2>1, <2>2, <2>4 DEF VersionInv, Writes, Mirrors, Remote, Importing
  <2> QED BY <2>3, <2>4
<1>11. CASE Wiped \/ PutDone \/ Undo \/ Unwiped \/ Undone
  <2>1. /\ tab.at \notin AtRest \union {"adopt"}
        /\ UNCHANGED <<backend, disk, local, late, broken>> /\ tab'.mirror = tab.mirror
        /\ \/ tab'.work = tab.work /\ tab'.at \notin AtRest
           \/ tab.at = "unput" /\ tab'.work = "none" /\ tab'.at = IF tab.work = "migrate" THEN "unready" ELSE "ready"
    BY <1>0, <1>11, TurnFrame DEF Enters, Resting, AtRest
  <2>2. Working
    BY <1>0, <2>1 DEF PhaseInv
  <2>3. tab.at = "unput" /\ ~Remote => late = {}
    BY <1>0 DEF PhaseInv
  <2> QED BY <1>l, <2>1, <2>2, <2>3 DEF VersionInv, Remote, Importing, Working, AtRest
<1>12. ASSUME NEW work \in {"merge", "replace"}, NEW shape \in {"old", "new"}, NEW keys \in SUBSET Keys,
              Import(work, shape, keys)
       PROVE  VersionInv'
  BY <1>0, <1>12, <1>l, ImportFrame DEF VersionInv, Remote, Importing
<1>13. ASSUME NEW j \in Keys, Edit(j) \/ Delete(j) PROVE VersionInv'
  BY <1>0, <1>13, <1>l, EditFrame DEF VersionInv, Still, Writes, Mirrors, Remote, Importing
<1>14. ASSUME NEW j \in Keys, Elsewhere(j) PROVE VersionInv'
  <2>1. tab.at = "closed" => tab.work = "none"
    BY <1>0 DEF PhaseInv, AtRest
  <2> QED BY <1>0, <1>14, <1>l, <2>1, ElsewhereFrame DEF VersionInv, Remote, Importing
<1>15. CASE Close
  BY <1>0, <1>15, <1>l, CloseFrame DEF VersionInv, Remote, Importing, Resting
<1>16. ASSUME NEW r \in sent, Bounce(r) PROVE VersionInv'
  <2>1. tab.at # "closed"
    BY <1>0 DEF PhaseInv
  <2> QED BY <1>0, <1>2, <1>16, <2>1, BounceFrame
<1> QED
  BY <1>1, <1>16, <1>3, <1>4, <1>5, <1>6, <1>7, <1>8, <1>9, <1>10, <1>11, <1>12, <1>13, <1>14, <1>15
     DEF Next, Work

\* What is told of one record.
TellsAt(k) == RestAt(k) /\ MoveAt(k) /\ BackAt(k)

\* A step that neither moves the session on nor touches a record.
LEMMA Unmoved ==
  ASSUME NEW k \in Keys, TellsAt(k), Still, UNCHANGED <<backend, local>>,
         last'[k] = last[k],
         disk'.record[k] = disk.record[k], tab'.mirror.record[k] = tab.mirror.record[k],
         tab.at \in AtRest \union {"keep"} => disk'.version = disk.version \/ ~InOldShape(k),
         tab.at = "closed" => disk'.record = disk.record,
         \A r \in sent : r.key = k => r \in sent',
         \A r \in sent' : r.key = k => r \in sent
  PROVE  TellsAt(k)'
<1>1. /\ OnDisk(k)' <=> OnDisk(k)
      /\ Left(k)' <=> Left(k)
      /\ Whole(k)' <=> Whole(k)
      /\ InOldShape(k)' <=> InOldShape(k)
      /\ Ahead(k)' <=> Ahead(k)
      /\ Stray(k)' <=> Stray(k)
      /\ Shielded(k)' <=> Shielded(k)
      /\ Newer(k)' <=> Newer(k)
  BY DEF OnDisk, Left, Whole, InOldShape, Ahead, Stray, Shielded, Unknown, Newer, Remote, Still
<1>2. Pending(k)' <=> Pending(k)
  BY DEF Pending
<1>3. (Working' <=> Working) /\ (Importing' <=> Importing) /\ (Quiet' <=> Quiet) /\ (Remote' <=> Remote)
  BY DEF Working, Importing, Quiet, AtRest, Remote, Still
<1>4. RestAt(k)'
  BY <1>1, <1>2, <1>3 DEF TellsAt, RestAt, Still, AtRest
<1>5. MoveAt(k)'
  BY <1>1, <1>2, <1>3 DEF TellsAt, MoveAt, Still
<1>6. BackAt(k)'
  <2>1. (\E r \in sent : r.key = k /\ r.base # disk.record[k])
          => \E r \in sent' : r.key = k /\ r.base # disk'.record[k]
    OBVIOUS
  <2> QED BY <1>1, <1>2, <1>3, <2>1 DEF TellsAt, BackAt, Still
<1> QED BY <1>4, <1>5, <1>6 DEF TellsAt

LEMMA WholeByLanding ==
  ASSUME Static, KeptInv, PlanInv, SeenInv, VersionInv, WholeInv, NEW r \in sent, Land(r)
  PROVE  WholeInv'
<1>0. TypeOK /\ PhaseInv /\ r.key \in Keys /\ r \in Requests /\ r.value \in Records
  BY DEF Static, TypeOK, Requests
<1>1. /\ Still /\ Writes(r.key, r.value) /\ Mirrors(r.key, r.value)
      /\ sent' = sent \ {r} /\ waived \subseteq waived'
      /\ r.key \notin waived' => ~Spoils(r)
      /\ ~Conflicts(r)
      /\ UNCHANGED <<backend, local, backup, late, made, last, broken>>
  BY <1>0, LandFrame
<1>2. tab.at \in {"adopt", "wipe", "put", "unwipe", "unput"}
  BY <1>0 DEF PhaseInv
<1> SUFFICES ASSUME ~broken, NEW k \in Keys, k \notin waived', k \notin waived PROVE TellsAt(k)'
  BY <1>1 DEF WholeInv, TellsAt
<1>3. TellsAt(k)
  BY DEF WholeInv, TellsAt
<1>4. CASE r.key # k
  BY <1>0, <1>1, <1>2, <1>3, <1>4, Unmoved DEF Writes, Mirrors, AtRest
<1>5. CASE r.key = k
  <2>1. disk'.record[k] = r.value /\ (Remote => tab'.mirror.record[k] = r.value)
    BY <1>1, <1>5 DEF Writes, Mirrors
  <2>2. ~Pending(k)'
    BY <1>1, <1>5 DEF Pending, Static, RequestInv
  <2>3. (Remote' <=> Remote) /\ tab'.at = tab.at /\ tab'.work = tab.work /\ last' = last /\ local' = local
        /\ tab'.held = tab.held /\ tab'.bundle = tab.bundle
        /\ (Working' <=> Working) /\ (Importing' <=> Importing)
    BY <1>1 DEF Remote, Still, Working, Importing
  <2>4. Working /\ last[k] # 0 /\ Shielded(k) => tab.at = "unput" /\ tab.held[k].text = last[k]
    BY <1>0, <1>1, <1>2, <1>5, Shields
  <2>5. Working => tab.held[k].text = last[k] \/ (Left(k) /\ tab.held[k] = Missing)
    BY <1>3, <2>4 DEF TellsAt, MoveAt
  <2>6. /\ tab.at = "adopt" => r.value = local.record[k] /\ r.value.text = last[k]
        /\ tab.at \in {"wipe", "unwipe"} => r.value = Missing
        /\ tab.at = "put" => r.value = tab.bundle[k] /\ r.value # Missing
        /\ tab.at = "unput" => r.value = tab.held[k] /\ r.value # Missing
    BY <1>0, <1>1, <1>5, Spares DEF Static, RequestInv
  <2>7. RestAt(k)'
    <3>1. CASE tab.at = "adopt"
      <4>1. Whole(k)'
        BY <2>1, <2>3, <2>6, <3>1 DEF Whole, OnDisk
      <4> QED BY <2>1, <2>3, <2>6, <3>1, <4>1 DEF RestAt, AtRest
    <3>2. CASE tab.at # "adopt"
      BY <1>2, <2>1, <2>3, <3>2 DEF RestAt, AtRest, Quiet
    <3> QED BY <3>1, <3>2
  <2>8. MoveAt(k)'
    <3>1. Working' => tab'.held[k].text = last'[k] \/ (Left(k)' /\ tab'.held[k] = Missing)
      BY <2>3, <2>5 DEF Left
    <3>2. tab.at = "put" => disk'.record[k] = tab'.bundle[k] /\ tab'.bundle[k] # Missing
      BY <2>1, <2>3, <2>6
    <3>3. tab.at = "wipe" => disk'.record[k] = Missing
      BY <2>1, <2>6
    <3> QED BY <1>2, <2>3, <3>1, <3>2, <3>3, RecordIs DEF MoveAt, InOldShape, Missing
  <2>9. BackAt(k)'
    <3>1. Importing /\ tab.held[k].text = last[k] => tab.held[k].shape # "old"
      BY <1>3 DEF TellsAt, BackAt
    <3>2. Remote => tab'.mirror.record[k] = disk'.record[k]
      BY <2>1
    <3>3. tab.at = "unwipe" => disk'.record[k] = Missing
      BY <2>1, <2>6
    <3>4. tab.at = "unput" => disk'.record[k] = tab.held[k] /\ tab.held[k] # Missing /\ tab.held[k].text = last[k]
      <4>1. tab.at = "unput" => Working
        BY <1>0 DEF PhaseInv, AtRest
      <4> QED BY <2>1, <2>5, <2>6, <4>1
    <3>5. tab.at = "unput" => OnDisk(k)' /\ ~Stray(k)' /\ (Importing => ~InOldShape(k)')
      BY <2>1, <2>3, <3>1, <3>2, <3>4 DEF OnDisk, Stray, InOldShape
    <3> QED BY <1>2, <2>3, <3>1, <3>2, <3>3, <3>5 DEF BackAt
  <2> QED BY <2>7, <2>8, <2>9 DEF TellsAt
<1> QED BY <1>4, <1>5

\* A request that fails: the session turns back, and what it may have written is known
\* to be there or is what a user saved.
LEMMA WholeByFailing ==
  ASSUME Static, PlanInv, SeenInv, WholeInv,
         NEW r \in Requests, Fails(r), UNCHANGED <<backend, local, backup, last>>,
         \/ r \in sent
         \/ /\ tab.at = "upgrade" /\ tab.plan[r.key] # Missing
            /\ r.value = UpgradeJob(tab.plan[r.key]) /\ r.base = Seen.record[r.key]
  PROVE  WholeInv'
<1>0. TypeOK /\ PhaseInv /\ r.key \in Keys /\ r.value \in Records
  BY DEF Static, Requests
<1>1. tab.at \in {"adopt", "wipe", "put", "unwipe", "unput", "upgrade"}
  BY <1>0 DEF PhaseInv
<1>2. CASE tab.at \in {"adopt"} \union Undoing
  <2>1. broken'
    BY <1>0, <1>2, FailsFrame
  <2> QED BY <2>1 DEF WholeInv
<1>3. CASE tab.at \in {"wipe", "put", "upgrade"}
  <2>1. /\ tab'.mirror = tab.mirror /\ tab'.at = "undo" /\ tab'.work = tab.work
        /\ tab'.held = tab.held /\ tab'.bundle = tab.bundle
        /\ waived \subseteq waived' /\ (broken => broken')
        /\ \/ disk' = disk
           \/ /\ Remote /\ ~Conflicts(r) /\ Writes(r.key, r.value)
              /\ r.key \notin waived' => ~Unheard(r) /\ ~Spoils(r)
    BY <1>0, <1>3, FailsFrame DEF Undoing
  <2> SUFFICES ASSUME ~broken, NEW k \in Keys, k \notin waived', k \notin waived PROVE TellsAt(k)'
    BY <2>1 DEF WholeInv, TellsAt
  <2>2. TellsAt(k)
    BY DEF WholeInv, TellsAt
  <2>3. Working
    BY <1>0, <1>3 DEF PhaseInv, AtRest
  <2>4. (Remote' <=> Remote) /\ (Working' <=> Working) /\ (Importing' <=> Importing)
        /\ ~Quiet' /\ (Left(k)' <=> Left(k)) /\ last'[k] = last[k]
    BY <2>1 DEF Remote, Working, Importing, Quiet, AtRest, Left
  <2>5. RestAt(k)'
    BY <2>1, <2>4 DEF RestAt, AtRest
  <2>6. CASE disk'.record[k] = disk.record[k]
    <3>1. /\ OnDisk(k)' <=> OnDisk(k)
          /\ Ahead(k)' <=> Ahead(k)
          /\ Stray(k)' <=> Stray(k)
          /\ Shielded(k)' <=> Shielded(k)
      BY <2>1, <2>4, <2>6 DEF OnDisk, Ahead, Stray, Shielded, Unknown, Remote
    <3>2. MoveAt(k)'
      BY <2>1, <2>2, <2>4, <3>1 DEF TellsAt, MoveAt
    <3>3. BackAt(k)'
      BY <1>3, <2>1, <2>2, <2>4, <2>6, <3>1 DEF TellsAt, BackAt, RestAt
    <3> QED BY <2>5, <3>2, <3>3 DEF TellsAt
  <2>7. CASE r.key = k /\ Remote /\ ~Conflicts(r) /\ Writes(r.key, r.value) /\ ~Unheard(r) /\ ~Spoils(r)
    <3>1. disk'.record[k] = r.value
      BY <2>7 DEF Writes
    <3>2. ~(last[k] # 0 /\ Shielded(k))
      BY <1>3, <2>3, <2>7, Shields
    <3>3. tab.held[k].text = last[k] \/ (Left(k) /\ tab.held[k] = Missing)
      BY <2>2, <2>3, <3>2 DEF TellsAt, MoveAt
    <3>4. MoveAt(k)'
      BY <2>1, <2>4, <3>3 DEF MoveAt
    <3>5. tab.mirror.record[k] = Missing =>
             r.value = Missing \/ (r.value # Missing /\ r.value.text = last[k] /\ last[k] # 0)
      <4>1. Seen = tab.mirror
        BY <1>0, <2>7, SeenIs
      <4> QED BY <1>0, <2>7, <4>1, RecordIs DEF Unheard
    <3>6. ASSUME tab.mirror.record[k] = Missing, r.value # Missing PROVE tab.held[k].text = last[k]
      <4> SUFFICES ASSUME Left(k), r.value.text = last[k] PROVE FALSE
        BY <3>3, <3>5, <3>6
      <4>1. last[k] \in 0 .. 2
        <5>1. Legible(local.record[k]) \/ local.record[k].text \in 0 .. 2
          BY DEF Static, RecordInv
        <5> QED BY <5>1 DEF Left, Legible
      <4>2. CASE tab.at = "upgrade"
        <5>1. tab.plan[k] # Missing /\ r.value = UpgradeJob(tab.plan[k]) /\ r.base = Seen.record[k]
          BY <1>0, <2>7, <4>2 DEF PhaseInv
        <5>2. Legible(Seen.record[k]) /\ Seen.record[k] = disk.record[k] /\ Seen = tab.mirror
          BY <1>0, <2>7, <3>6, <4>2, <5>1, SeenIs, Asks DEF Static, RecordInv
        <5>3. tab.plan[k].text = disk.record[k].text
          BY <2>7, <4>2, <5>1, <5>2 DEF PlanInv, PlanAt, Unknown
        <5>4. tab.plan[k].text = 0 /\ tab.plan[k] \in Records
          BY <1>0, <3>6, <5>2, <5>3, RecordIs, KeyTypes
        <5> QED BY <5>1, <5>4, RecordIs
      <4>3. CASE tab.at = "put"
        <5>1. r.value = tab.bundle[k] /\ r.value.text \in {0, 3}
          BY <2>7, <4>3 DEF Static, RequestInv, RecordInv
        <5>2. r.value.text # 0
          BY <1>0, <3>6, RecordIs
        <5> QED BY <4>1, <5>1, <5>2
      <4>4. CASE tab.at = "wipe"
        BY <2>7, <3>6, <4>4 DEF Static, RequestInv
      <4> QED BY <1>3, <4>2, <4>3, <4>4
    <3>7. BackAt(k)'
      <4>1. Importing /\ tab.held[k].text = last[k] => tab.held[k].shape # "old"
        BY <2>2 DEF TellsAt, BackAt
      <4>2. tab.mirror.record[k] = Missing => disk'.record[k] = Missing \/ (OnDisk(k)' /\ Stray(k)')
        BY <2>1, <2>4, <2>7, <3>1, <3>5, <3>6 DEF OnDisk, Stray
      <4> QED BY <2>1, <2>4, <4>1, <4>2 DEF BackAt
    <3> QED BY <2>5, <3>4, <3>7 DEF TellsAt
  <2>8. r.key # k /\ Writes(r.key, r.value) => disk'.record[k] = disk.record[k]
    BY DEF Writes
  <2> QED BY <2>1, <2>6, <2>7, <2>8
<1> QED BY <1>1, <1>2, <1>3 DEF Undoing

LEMMA WholeByLate ==
  ASSUME Static, VersionInv, WholeInv, NEW r \in late, LandLate(r) \/ DropLate(r)
  PROVE  WholeInv'
<1>0. TypeOK /\ PhaseInv /\ r.key \in Keys /\ r \in Requests /\ r.value \in Records
  BY DEF Static, TypeOK, Requests
<1>1. /\ waived \subseteq waived' /\ UNCHANGED <<backend, local, backup, sent, last, broken>>
  BY <1>0, LandLateFrame, DropFrame
<1> SUFFICES ASSUME ~broken, NEW k \in Keys, k \notin waived', k \notin waived PROVE TellsAt(k)'
  BY <1>1 DEF WholeInv, TellsAt
<1>2. TellsAt(k) /\ tab.at # "closed"
  BY <1>0 DEF WholeInv, TellsAt, PhaseInv
<1>3. CASE DropLate(r)
  BY <1>0, <1>1, <1>2, <1>3, Unmoved, DropFrame DEF Still
<1>4. CASE LandLate(r)
  <2>1. /\ Still /\ Writes(r.key, r.value) /\ Mirrors(r.key, r.value)
        /\ r.key \notin waived' => ~Spoils(r)
        /\ Remote => disk'.record[k] = disk.record[k] /\ tab'.mirror.record[k] = tab.mirror.record[k]
    BY <1>0, <1>4, LandLateFrame
  <2>2. CASE Remote \/ r.key # k
    <3>1. disk'.record[k] = disk.record[k] /\ tab'.mirror.record[k] = tab.mirror.record[k]
      BY <2>1, <2>2 DEF Writes, Mirrors
    <3> QED BY <1>1, <1>2, <2>1, <3>1, Unmoved DEF Writes
  <2>3. CASE ~Remote /\ r.key = k
    <3>1. tab.at = "undo" /\ Working
      BY <1>0, <2>3 DEF PhaseInv, VersionInv, AtRest
    <3>2. r.value \in {Missing, tab.bundle[k]} /\ tab.bundle[k].text \in {0, 3} /\ Missing.text = 0
      BY <2>3, <3>1, RecordIs DEF Static, RequestInv, RecordInv
    <3>3. Legible(disk.record[k]) \/ disk.record[k].text \in 0 .. 2
      BY DEF Static, RecordInv
    <3>4. ~(last[k] # 0 /\ Shielded(k))
      <4>1. \/ r.value.text = last[k]
            \/ disk.record[k].text \in {0, tab.held[k].text, tab.bundle[k].text} /\ Legible(disk.record[k])
        BY <1>0, <2>1, <2>3, Spares
      <4> QED BY <2>3, <3>2, <3>3, <4>1 DEF Shielded, Unknown, OnDisk
    <3>5. tab.held[k].text = last[k]
      BY <1>2, <2>3, <3>1, <3>4 DEF TellsAt, MoveAt, Left
    <3>6. (Remote' <=> Remote) /\ tab'.at = "undo" /\ tab'.held = tab.held /\ last' = last
          /\ (Importing' <=> Importing) /\ ~Quiet'
      BY <1>1, <2>1, <3>1 DEF Remote, Importing, Still, Quiet, AtRest
    <3> QED BY <1>2, <2>3, <3>5, <3>6 DEF TellsAt, RestAt, MoveAt, BackAt, AtRest
  <2> QED BY <2>2, <2>3
<1> QED BY <1>3, <1>4

\* What a work takes in hand, when it begins with the library whole.
LEMMA TakesInHand ==
  ASSUME Static, VersionInv, NEW k \in Keys, TellsAt(k), tab.at \in {"unready", "ready"},
         UNCHANGED <<backend, local, last>>, SameRecords,
         tab'.held = ReadBundle(Seen), tab'.bundle[k].text \in {0, 3}
  PROVE  /\ tab'.held[k].text = last[k] \/ (last[k] # 0 /\ Shielded(k)') \/ (Left(k)' /\ tab'.held[k] = Missing)
         /\ Whole(k)'
         /\ ~InOldShape(k) /\ tab'.held[k].text = last[k] => tab'.held[k].shape # "old"
         /\ Remote => tab'.mirror.record[k] = disk'.record[k] \/ Ahead(k)'
<1>0. TypeOK /\ disk.record[k] \in Records /\ local.record[k] \in Records /\ tab.mirror.record[k] \in Records
      /\ last[k] \in Nat
  BY KeyTypes DEF Static
<1>1. Whole(k) /\ (Remote => tab.mirror.record[k] = disk.record[k] \/ Ahead(k))
  BY DEF TellsAt, RestAt, Quiet, AtRest
<1>2. Seen = IF Remote THEN tab.mirror ELSE disk
  BY <1>0, SeenIs
<1>3. /\ disk'.record[k] = disk.record[k] /\ tab'.mirror.record[k] = tab.mirror.record[k] /\ last'[k] = last[k]
      /\ (Remote' <=> Remote) /\ (OnDisk(k)' <=> OnDisk(k)) /\ (Left(k)' <=> Left(k)) /\ (Whole(k)' <=> Whole(k))
  BY DEF SameRecords, Remote, OnDisk, Left, Whole
<1>h. tab'.held[k] = IF Legible(Seen.record[k]) THEN Seen.record[k] ELSE Missing
  <2>1. Seen.record[k] \in Records
    BY <1>0, <1>2
  <2> QED BY <2>1, BundlesAreLegible, RecordIs
<1>4. CASE ~Remote \/ tab.mirror.record[k] = disk.record[k]
  <2>1. Seen.record[k] = disk.record[k]
    BY <1>2, <1>4
  <2>2. CASE OnDisk(k) /\ Legible(disk.record[k])
    BY <1>1, <1>3, <1>4, <1>h, <2>1, <2>2 DEF OnDisk, InOldShape
  <2>3. CASE OnDisk(k) /\ ~Legible(disk.record[k])
    <3>1. last[k] # 0
      BY <1>0, <2>3, RecordIs DEF OnDisk
    <3>2. Shielded(k)'
      BY <1>3, <2>3 DEF Shielded
    <3>3. tab'.held[k].shape # "old"
      BY <1>h, <2>1, <2>3, RecordIs
    <3> QED BY <1>1, <1>3, <1>4, <3>1, <3>2, <3>3
  <2>4. CASE Left(k) /\ disk.record[k] = Missing
    BY <1>1, <1>3, <1>4, <1>h, <2>1, <2>4, RecordIs
  <2> QED BY <1>1, <2>2, <2>3, <2>4 DEF Whole
<1>5. CASE Remote /\ Ahead(k) /\ tab.mirror.record[k] # disk.record[k]
  <2>1. OnDisk(k) /\ last[k] > 3 /\ last[k] # tab.mirror.record[k].text /\ disk.record[k].shape = "new"
    BY <1>5 DEF Ahead
  <2>2. Shielded(k)'
    BY <1>3, <1>5, <2>1 DEF Shielded, Unknown
  <2>3. tab'.held[k].text # last[k]
    BY <1>2, <1>5, <1>h, <2>1, RecordIs
  <2>4. Ahead(k)'
    BY <1>3, <2>1, <2>3 DEF Ahead
  <2> QED BY <1>0, <1>1, <1>3, <2>1, <2>2, <2>3, <2>4
<1> QED BY <1>1, <1>4, <1>5

\* What there is to tell of a session at rest.
LEMMA TellsAtRest ==
  ASSUME NEW k, tab'.at \in {"unready", "ready"}, tab'.work = "none",
         Whole(k)', disk'.version = "current" => ~InOldShape(k)',
         Remote' => tab'.mirror.record[k] = disk'.record[k] \/ Ahead(k)'
  PROVE  TellsAt(k)'
<1>1. RestAt(k)'
  BY DEF RestAt, AtRest
<1>2. MoveAt(k)'
  BY DEF MoveAt, Working, Importing
<1>3. BackAt(k)'
  BY DEF BackAt, Working, Importing
<1> QED BY <1>1, <1>2, <1>3 DEF TellsAt

LEMMA WholeByOpening ==
  ASSUME Static, VersionInv, WholeInv, Open \/ Adopted
  PROVE  WholeInv'
<1>0. TypeOK /\ PhaseInv
  BY DEF Static
<1>b. UNCHANGED <<backend, local, last, waived>> /\ (broken => broken')
  <2>1. CASE Open
    BY <1>0, <2>1, OpenFrame
  <2>2. CASE Adopted
    <3>1. UNCHANGED <<backend, local, last, waived>>
      BY <1>0, <2>2, AdoptedFrame
    <3>2. broken' = (broken \/ Unversioned) \/ broken' = broken
      BY <1>0, <2>2, AdoptedFrame
    <3>3. broken => broken'
      BY <3>2, Zenon
    <3> QED BY <3>1, <3>3
  <2> QED BY <2>1, <2>2
<1> SUFFICES ASSUME ~broken', ~broken, NEW k \in Keys, k \notin waived PROVE TellsAt(k)'
  BY <1>b DEF WholeInv, TellsAt
<1>k. /\ TellsAt(k) /\ (Remote' <=> Remote)
      /\ disk.record[k] \in Records /\ local.record[k] \in Records /\ last[k] \in Nat
  BY <1>0, <1>b, KeyTypes DEF WholeInv, TellsAt, Remote
<1>n. \A library \in Libraries : library.record = Nothing => library.record[k] = Missing
  BY BundlesAreLegible
<1>1. CASE Open
  <2>1. /\ tab.at = "closed" /\ UNCHANGED <<disk, broken>>
        /\ tab'.held = Nothing /\ tab'.bundle = Nothing
        /\ Remote => tab'.mirror = disk
        /\ \/ /\ Remote /\ disk.record = Nothing
              /\ tab'.at = "adopt" /\ tab'.work = "adopt"
              /\ sent' = {[key |-> j, value |-> local.record[j], base |-> Missing] :
                            j \in {i \in Keys : Readable(local.record[i])}}
           \/ /\ ~(Remote /\ disk.record = Nothing /\ local.record # Nothing)
              /\ tab'.at = "unready" /\ tab'.work = "none"
    BY <1>0, <1>1, OpenFrame
  <2>2. Whole(k) \/ (Remote /\ disk.record = Nothing /\ last[k] = local.record[k].text)
    BY <1>k, <2>1 DEF TellsAt, RestAt
  <2>3. Whole(k)' <=> Whole(k)
    BY <1>b, <1>k, <2>1 DEF Whole, OnDisk, Left
  <2>4. CASE tab'.at = "unready" /\ tab'.work = "none"
    <3>1. Whole(k)
      <4> SUFFICES ASSUME ~Whole(k) PROVE FALSE
        OBVIOUS
      <4>1. local.record[k] = Missing /\ disk.record[k] = Missing
        BY <2>1, <2>2, <2>4, BundlesAreLegible
      <4> QED BY <2>2, <4>1 DEF Whole, OnDisk
    <3> QED BY <1>k, <2>1, <2>3, <2>4, <3>1, TellsAtRest DEF TellsAt, RestAt, AtRest, InOldShape
  <2>5. CASE tab'.at = "adopt"
    <3>1. Remote /\ disk.record[k] = Missing /\ tab'.mirror.record[k] = Missing
      BY <2>1, <2>5, BundlesAreLegible
    <3>2. Readable(local.record[k]) => Pending(k)'
      <4> SUFFICES ASSUME Readable(local.record[k]) PROVE \E q \in sent' : q.key = k
        BY DEF Pending
      <4>1. [key |-> k, value |-> local.record[k], base |-> Missing] \in sent'
        BY <2>1, <2>5
      <4> QED BY <4>1
    <3>3. Whole(k) \/ (last[k] = local.record[k].text /\ Readable(local.record[k]))
      BY <1>k, <2>2, <3>1, RecordIs DEF Whole, OnDisk, Left, Readable, Shapes
    <3>4. RestAt(k)'
      BY <1>b, <1>k, <2>1, <2>3, <2>5, <3>1, <3>2, <3>3 DEF RestAt, AtRest
    <3>5. tab'.work = "adopt"
      BY <2>1, <2>5
    <3> QED BY <2>5, <3>4, <3>5 DEF TellsAt, MoveAt, BackAt, Working, Importing
  <2> QED BY <2>1, <2>4, <2>5
<1>2. CASE Adopted
  <2>1. /\ tab.at = "adopt" /\ sent = {} /\ Resting("unready") /\ SameRecords
        /\ \/ SameVersions /\ ~Unversioned
           \/ local.version # "none" /\ Stamps(local.version)
    BY <1>0, <1>2, AdoptedFrame
  <2>2. ~Pending(k)
    BY <2>1 DEF Pending
  <2>3. /\ Whole(k) /\ (disk.record[k] \in {Missing, local.record[k]} \/ disk.record[k].shape = "new")
        /\ Remote => tab.mirror.record[k] = disk.record[k] \/ Ahead(k)
    BY <1>k, <2>1, <2>2 DEF TellsAt, RestAt
  <2>4. Whole(k)' /\ tab'.held[k] = Missing
    BY <1>b, <1>k, <2>1, <2>3, BundlesAreLegible DEF Whole, OnDisk, Left, SameRecords, Resting
  <2>5. disk'.version = "current" => ~InOldShape(k)'
    <3>1. CASE SameVersions /\ ~Unversioned
      BY <2>1, <3>1 DEF SameVersions, SameRecords, Unversioned, InOldShape
    <3>2. CASE Stamps(local.version)
      BY <2>1, <2>3, <3>2, RecordIs DEF Stamps, SameRecords, InOldShape, VersionInv
    <3> QED BY <2>1, <3>1, <3>2
  <2>6. Ahead(k) => Ahead(k)'
    BY <1>b, <1>k, <2>1, <2>4, RecordIs DEF Ahead, OnDisk, SameRecords
  <2> QED BY <1>k, <2>1, <2>3, <2>4, <2>5, <2>6, TellsAtRest DEF SameRecords, Resting
<1> QED BY <1>1, <1>2

LEMMA WholeByBeginning ==
  ASSUME Static, VersionInv, WholeInv,
         Migrate
         \/ \E work \in {"merge", "replace"}, shape \in {"old", "new"}, keys \in (SUBSET Keys) \ {{}} :
              Import(work, shape, keys)
  PROVE  WholeInv'
<1>0. TypeOK /\ PhaseInv
  BY DEF Static
<1>b. UNCHANGED <<backend, local, last, waived, broken>>
  BY <1>0, MigrateFrame, ImportFrame
<1> SUFFICES ASSUME ~broken, NEW k \in Keys, k \notin waived PROVE TellsAt(k)'
  BY <1>b DEF WholeInv, TellsAt
<1>k. /\ TellsAt(k) /\ (Remote' <=> Remote)
      /\ disk.record[k] \in Records /\ tab.mirror.record[k] \in Records /\ last[k] \in Nat
      /\ tab.held[k] \in Records
  BY <1>0, <1>b, KeyTypes DEF WholeInv, TellsAt, Remote
<1>s. Seen = IF Remote THEN tab.mirror ELSE disk
  BY <1>0, SeenIs
<1>1. CASE Migrate
  <2>1. tab.at = "unready" /\ SameRecords
    BY <1>0, <1>1, MigrateFrame
  <2>2. /\ Whole(k) /\ (disk.version = "current" => ~InOldShape(k))
        /\ Remote => tab.mirror.record[k] = disk.record[k] \/ Ahead(k)
    BY <1>k, <2>1 DEF TellsAt, RestAt, AtRest, Quiet
  <2>v. Seen.version = disk.version
    BY <1>s, <2>1 DEF VersionInv
  <2>3. CASE Resting("ready")
    <3>1. Whole(k)' /\ tab'.held[k] = Missing /\ (InOldShape(k)' <=> InOldShape(k))
      BY <1>b, <1>k, <2>1, <2>2, <2>3, BundlesAreLegible DEF Whole, OnDisk, Left, SameRecords, Resting, InOldShape
    <3>2. Ahead(k) => Ahead(k)'
      BY <1>b, <1>k, <2>1, <3>1, RecordIs DEF Ahead, OnDisk, SameRecords
    <3>3. disk'.version = "current" => ~InOldShape(k)
      <4>1. CASE SameVersions
        BY <2>2, <4>1 DEF SameVersions
      <4>2. CASE Seen.record = Nothing
        <5>1. Seen.record[k] = Missing
          BY <4>2, BundlesAreLegible
        <5> QED BY <1>s, <2>2, <5>1, RecordIs DEF InOldShape, Ahead
      <4>3. CASE UNCHANGED <<disk, tab>>
        BY <2>2, <4>3
      <4> QED BY <1>0, <1>1, <2>3, <4>1, <4>2, <4>3, MigrateFrame
    <3> QED BY <1>k, <2>1, <2>2, <2>3, <3>1, <3>2, <3>3, TellsAtRest DEF SameRecords, Resting
  <2>4. CASE UNCHANGED <<disk, tab>>
    <3>1. tab'.at = "unready" /\ tab'.work = "none"
      BY <1>0, <2>1, <2>4 DEF PhaseInv, AtRest
    <3>2. (Whole(k)' <=> Whole(k)) /\ (InOldShape(k)' <=> InOldShape(k)) /\ (Ahead(k)' <=> Ahead(k))
      BY <1>b, <1>k, <2>4 DEF Whole, OnDisk, Left, InOldShape, Ahead
    <3> QED BY <1>k, <2>2, <2>4, <3>1, <3>2, TellsAtRest
  <2>5. CASE /\ Seen.version # "current" /\ SameVersions
             /\ tab'.at = "keep" /\ tab'.work = "migrate" /\ tab'.held = ReadBundle(Seen)
             /\ tab'.bundle = tab.bundle
    <3>1. tab'.bundle[k] = Missing
      BY <1>0, <2>1, <2>5, BundlesAreLegible DEF PhaseInv, AtRest
    <3>2. /\ tab'.held[k].text = last[k] \/ (last[k] # 0 /\ Shielded(k)') \/ (Left(k)' /\ tab'.held[k] = Missing)
          /\ Whole(k)'
          /\ Remote => tab'.mirror.record[k] = disk'.record[k] \/ Ahead(k)'
      BY <1>b, <1>k, <2>1, <2>5, <3>1, RecordIs, TakesInHand
    <3>3. disk'.version # "current"
      BY <2>5, <2>v DEF SameVersions
    <3>4. RestAt(k)'
      BY <1>k, <2>5, <3>2, <3>3 DEF RestAt
    <3>5. MoveAt(k)'
      BY <1>b, <2>5, <3>2 DEF MoveAt, Importing
    <3>6. BackAt(k)'
      BY <1>k, <2>5, <3>2 DEF BackAt, Importing, Ahead
    <3> QED BY <3>4, <3>5, <3>6 DEF TellsAt
  <2> QED BY <1>0, <1>1, <2>3, <2>4, <2>5, MigrateFrame
<1>2. ASSUME NEW work \in {"merge", "replace"}, NEW shape \in {"old", "new"}, NEW keys \in SUBSET Keys,
             Import(work, shape, keys)
      PROVE  TellsAt(k)'
  <2>1. /\ tab.at = "ready" /\ SameRecords /\ UNCHANGED disk
        /\ tab'.work = work /\ tab'.held = ReadBundle(Seen)
        /\ tab'.bundle[k].text \in {0, 3}
        /\ tab'.at = IF work = "replace" THEN "keep" ELSE "put"
    BY <1>0, <1>2, ImportFrame DEF SameRecords, Imported, Missing
  <2>2. ~InOldShape(k) /\ (InOldShape(k)' <=> InOldShape(k))
    BY <1>k, <2>1 DEF TellsAt, RestAt, AtRest, VersionInv, InOldShape
  <2>3. /\ tab'.held[k].text = last[k] \/ (last[k] # 0 /\ Shielded(k)') \/ (Left(k)' /\ tab'.held[k] = Missing)
        /\ Whole(k)'
        /\ tab'.held[k].text = last[k] => tab'.held[k].shape # "old"
        /\ Remote => tab'.mirror.record[k] = disk'.record[k] \/ Ahead(k)'
    BY <1>b, <1>k, <2>1, <2>2, TakesInHand
  <2>4. RestAt(k)'
    BY <1>k, <2>1, <2>2, <2>3 DEF RestAt
  <2>5. MoveAt(k)'
    BY <1>b, <2>1, <2>2, <2>3 DEF MoveAt, Importing
  <2>6. BackAt(k)'
    BY <1>b, <1>k, <2>1, <2>3 DEF BackAt, Importing, Ahead
  <2> QED BY <2>4, <2>5, <2>6 DEF TellsAt
<1> QED BY <1>1, <1>2

LEMMA WholeByKeep ==
  ASSUME Static, VersionInv, WholeInv, Keep
  PROVE  WholeInv'
<1>0. TypeOK /\ PhaseInv
  BY DEF Static
<1>b. tab.at = "keep" /\ tab'.mirror = tab.mirror /\ waived \subseteq waived'
      /\ UNCHANGED <<backend, disk, local, last, broken>>
  BY <1>0, KeepFrame
<1> SUFFICES ASSUME ~broken, NEW k \in Keys, k \notin waived PROVE TellsAt(k)'
  BY <1>b DEF WholeInv, TellsAt
<1>k. /\ TellsAt(k) /\ (Remote' <=> Remote)
      /\ disk.record[k] \in Records /\ tab.mirror.record[k] \in Records
  BY <1>0, <1>b, KeyTypes DEF WholeInv, TellsAt, Remote
<1>s. Seen = IF Remote THEN tab.mirror ELSE disk
  BY <1>0, SeenIs
<1>1. /\ Whole(k) /\ (disk.version = "current" => ~InOldShape(k))
      /\ Remote => tab.mirror.record[k] = disk.record[k] \/ Ahead(k)
  BY <1>b, <1>k DEF TellsAt, RestAt, Quiet, AtRest
<1>2. CASE ~Remote /\ Resting(IF tab.work = "migrate" THEN "unready" ELSE "ready")
  <2>1. (Whole(k)' <=> Whole(k)) /\ (InOldShape(k)' <=> InOldShape(k))
    BY <1>b, <1>k DEF Whole, OnDisk, Left, InOldShape
  <2> QED BY <1>b, <1>k, <1>1, <1>2, <2>1, TellsAtRest DEF Resting
<1>3. CASE /\ tab'.work = tab.work /\ tab'.held = tab.held /\ tab'.bundle = tab.bundle
           /\ \/ /\ tab.work = "migrate" /\ tab'.at = "upgrade"
                 /\ tab'.plan = Old(Seen)
              \/ /\ tab.work # "migrate" /\ tab'.at = "wipe"
                 /\ sent' = Deletes
  <2>1. /\ Whole(k)' <=> Whole(k)
        /\ InOldShape(k)' <=> InOldShape(k)
        /\ Ahead(k)' <=> Ahead(k)
        /\ Shielded(k)' <=> Shielded(k)
        /\ Left(k)' <=> Left(k)
        /\ OnDisk(k)' <=> OnDisk(k)
    BY <1>b, <1>k, <1>3 DEF Whole, OnDisk, Left, InOldShape, Ahead, Shielded, Unknown
  <2>2. Working /\ Working' /\ (Importing' <=> Importing)
    BY <1>0, <1>b, <1>3 DEF PhaseInv, Working, Importing, AtRest
  <2>3. RestAt(k)'
    BY <1>b, <1>k, <1>1, <1>3, <2>1 DEF RestAt, AtRest
  <2>4. tab'.at = "upgrade" /\ InOldShape(k) => tab'.plan[k] # Missing
    <3> SUFFICES ASSUME tab'.at = "upgrade", InOldShape(k) PROVE tab'.plan[k] # Missing
      OBVIOUS
    <3>1. Seen.record[k] = disk.record[k]
      BY <1>s, <1>1 DEF Ahead, InOldShape
    <3> QED BY <1>3, <3>1, BundlesAreLegible DEF InOldShape, Missing
  <2>5. tab'.at = "wipe" => disk'.record[k] = Missing \/ Pending(k)' \/ Newer(k)'
    <3> SUFFICES ASSUME tab'.at = "wipe", disk.record[k] # Missing, ~Newer(k)' PROVE Pending(k)'
      BY <1>b
    <3>1. Seen.record[k] = disk.record[k]
      BY <1>b, <1>s, <1>1, <1>3 DEF Ahead, Newer, OnDisk
    <3> QED BY <1>3, <3>1, DeletesAre DEF Pending
  <2>6. MoveAt(k)'
    BY <1>b, <1>k, <1>3, <2>1, <2>2, <2>4, <2>5 DEF TellsAt, MoveAt, Importing
  <2>7. BackAt(k)'
    BY <1>b, <1>k, <1>3, <2>1, <2>2 DEF TellsAt, BackAt
  <2> QED BY <2>3, <2>6, <2>7 DEF TellsAt
<1> QED BY <1>0, <1>2, <1>3, KeepFrame

LEMMA WholeByUpgrade ==
  ASSUME Static, PlanInv, SeenInv, VersionInv, WholeInv, NEW j \in Keys, Upgrade(j)
  PROVE  WholeInv'
<1>0. TypeOK /\ PhaseInv
  BY DEF Static
<1> DEFINE r == [key |-> j, value |-> UpgradeJob(tab.plan[j]), base |-> Seen.record[j]]
<1>1. /\ tab.at = "upgrade" /\ tab.plan[j] # Missing /\ r \in Requests
      /\ UNCHANGED <<backend, local, backup, sent, late, last>>
  BY <1>0, UpgradeFrame
<1>2. \/ /\ ~Conflicts(r)
         /\ Writes(j, r.value) /\ Mirrors(j, r.value)
         /\ tab'.at = tab.at /\ tab'.work = tab.work
         /\ tab'.held = tab.held /\ tab'.bundle = tab.bundle
         /\ \A i \in Keys : tab'.plan[i] = IF i = j THEN Missing ELSE tab.plan[i]
         /\ waived \subseteq waived' /\ (j \notin waived' => ~Spoils(r)) /\ broken' = broken
      \/ Fails(r)
  BY <1>0, UpgradeFrame
<1>r. r.key = j /\ r.value = UpgradeJob(tab.plan[j]) /\ r.base = Seen.record[j]
  OBVIOUS
<1>3. CASE Fails(r)
  BY <1>1, <1>3, WholeByFailing
<1>4. CASE ~Fails(r)
  <2> SUFFICES ASSUME ~broken, NEW k \in Keys, k \notin waived', k \notin waived PROVE TellsAt(k)'
    BY <1>2, <1>4 DEF WholeInv, TellsAt
  <2>k. /\ TellsAt(k) /\ (Remote' <=> Remote) /\ (Working' <=> Working) /\ (Importing' <=> Importing)
        /\ (Left(k)' <=> Left(k)) /\ (Quiet' <=> Quiet) /\ Working
    BY <1>0, <1>1, <1>2, <1>4 DEF WholeInv, TellsAt, Remote, Working, Importing, Left, Quiet, AtRest, PhaseInv
  <2>1. CASE k # j
    <3>1. disk'.record[k] = disk.record[k] /\ tab'.mirror.record[k] = tab.mirror.record[k] /\ tab'.plan[k] = tab.plan[k]
      BY <1>2, <1>4, <2>1 DEF Writes, Mirrors
    <3>2. /\ OnDisk(k)' <=> OnDisk(k)
          /\ Whole(k)' <=> Whole(k)
          /\ InOldShape(k)' <=> InOldShape(k)
          /\ Ahead(k)' <=> Ahead(k)
          /\ Shielded(k)' <=> Shielded(k)
          /\ Newer(k)' <=> Newer(k)
      BY <1>1, <1>2, <1>4, <2>k, <3>1 DEF OnDisk, Whole, InOldShape, Ahead, Shielded, Unknown, Newer
    <3>3. RestAt(k)'
      BY <1>1, <1>2, <1>4, <2>k, <3>1, <3>2 DEF TellsAt, RestAt, AtRest
    <3>4. MoveAt(k)'
      BY <1>1, <1>2, <1>4, <2>k, <3>1, <3>2 DEF TellsAt, MoveAt
    <3>5. BackAt(k)'
      BY <1>1, <1>2, <1>4, <2>k, <3>1, <3>2 DEF TellsAt, BackAt
    <3> QED BY <3>3, <3>4, <3>5 DEF TellsAt
  <2>2. CASE k = j
    <3>1. disk'.record[k] = r.value /\ (Remote => tab'.mirror.record[k] = r.value)
      BY <1>2, <1>4, <2>2 DEF Writes, Mirrors
    <3>2. /\ r.value.shape = "new" /\ r.value.text = tab.plan[k].text
          /\ Remote => tab.mirror.record[k] = disk.record[k]
          /\ OnDisk(k) => r.value.text = last[k]
          /\ Legible(disk.record[k])
      BY <1>0, <1>1, <1>2, <1>4, <2>2, KeyTypes, UpgradeIs, UpgradeOf DEF OnDisk
    <3>3. OnDisk(k) => OnDisk(k)'
      BY <1>1, <3>1, <3>2 DEF OnDisk
    <3>4. disk.record[k] # Missing
      <4>1. tab.plan[k].text # 0 /\ disk.record[k] \in Records
        BY <1>0, <1>1, <2>2, KeyTypes, RecordIs
      <4>2. tab.plan[k].text = disk.record[k].text \/ Unknown(k)
        BY <1>1, <2>2 DEF PlanInv, PlanAt
      <4>3. Unknown(k) => disk.record[k].text # 0
        BY <3>2 DEF Unknown
      <4> QED BY <4>1, <4>2, <4>3, RecordIs
    <3>5. (Whole(k) => Whole(k)') /\ (Newer(k) => Newer(k)')
      BY <1>1, <1>2, <1>4, <3>3, <3>4 DEF Whole, Newer
    <3>6. last[k] # 0 /\ Shielded(k) => Shielded(k)'
      <4> SUFFICES ASSUME last[k] # 0, Shielded(k) PROVE Shielded(k)'
        OBVIOUS
      <4>1. ~Remote /\ r.value.text = last[k]
        BY <1>1, <1>2, <1>4, <1>r, <2>2, Shields
      <4>2. disk.record[k].text = last[k] /\ last[k] \notin {0, tab.held[k].text, tab.bundle[k].text}
        BY <3>2, <4>1 DEF Shielded, Unknown, OnDisk
      <4> QED BY <1>1, <1>2, <1>4, <2>k, <3>1, <4>1, <4>2 DEF Shielded, Unknown, OnDisk
    <3>7. RestAt(k)'
      BY <1>1, <1>2, <1>4, <2>k, <3>1, <3>5 DEF TellsAt, RestAt, AtRest
    <3>8. MoveAt(k)'
      BY <1>1, <1>2, <1>4, <2>k, <3>1, <3>2, <3>4, <3>5, <3>6 DEF TellsAt, MoveAt, InOldShape
    <3>9. BackAt(k)'
      BY <1>1, <1>2, <1>4, <2>k, <3>1 DEF TellsAt, BackAt
    <3> QED BY <3>7, <3>8, <3>9 DEF TellsAt
  <2> QED BY <2>1, <2>2
<1> HIDE DEF r
<1> QED BY <1>3, <1>4

LEMMA WholeByStamp ==
  ASSUME Static, KeptInv, VersionInv, WholeInv, Stamp
  PROVE  WholeInv'
<1>0. TypeOK /\ PhaseInv
  BY DEF Static
<1>b. /\ tab.at = "upgrade" /\ tab.plan = Nothing /\ SameRecords
      /\ UNCHANGED <<backend, local, waived>> /\ sent = {} /\ Working
  BY <1>0, StampFrame DEF PhaseInv, AtRest
<1>c. broken => broken'
  <2>1. broken' = broken \/ broken'
    BY <1>0, StampFrame
  <2> QED BY <2>1, Zenon
<1> SUFFICES ASSUME ~broken', ~broken, NEW k \in Keys, k \notin waived PROVE TellsAt(k)'
  BY <1>b, <1>c DEF WholeInv, TellsAt
<1>k. /\ TellsAt(k) /\ KeptAt(k) /\ (Remote' <=> Remote) /\ ~Pending(k)
      /\ disk.record[k] \in Records /\ last[k] \in Nat /\ tab.bundle[k] \in Records
      /\ disk'.record[k] = disk.record[k] /\ tab'.mirror.record[k] = tab.mirror.record[k]
      /\ (InOldShape(k)' <=> InOldShape(k))
  BY <1>0, <1>b, KeyTypes DEF WholeInv, TellsAt, KeptInv, Remote, Pending, SameRecords, InOldShape
<1>m. Remote => tab.mirror.record[k] = disk.record[k] \/ Ahead(k)
  BY <1>b, <1>k DEF TellsAt, RestAt
<1>1. CASE /\ tab'.at = "undo" /\ tab'.work = tab.work
           /\ tab'.held = tab.held /\ tab'.bundle = tab.bundle /\ last' = last
  <2>1. /\ OnDisk(k)' <=> OnDisk(k)
        /\ Left(k)' <=> Left(k)
        /\ Ahead(k)' <=> Ahead(k)
        /\ Shielded(k)' <=> Shielded(k)
        /\ (Working' <=> Working) /\ (Importing' <=> Importing) /\ ~Quiet'
    BY <1>b, <1>k, <1>1 DEF OnDisk, Left, Ahead, Shielded, Unknown, Working, Importing, Quiet, AtRest
  <2>2. RestAt(k)'
    BY <1>1, <2>1 DEF RestAt, AtRest
  <2>3. MoveAt(k)'
    BY <1>1, <1>k, <2>1 DEF TellsAt, MoveAt
  <2>4. BackAt(k)'
    BY <1>1, <1>k, <1>m, <2>1 DEF TellsAt, BackAt
  <2> QED BY <2>2, <2>3, <2>4 DEF TellsAt
<1>2. CASE Resting("ready") /\ last' = Decided
  <2>1. last'[k] = IF tab.work = "migrate" \/ Newer(k) THEN last[k]
                   ELSE IF tab.work = "replace" \/ tab.bundle[k] # Missing THEN tab.bundle[k].text
                   ELSE last[k]
    BY <1>2 DEF Decided
  <2>2. Whole(k) /\ last'[k] = last[k] => Whole(k)'
    BY <1>b, <1>k DEF Whole, OnDisk, Left
  <2>3. Whole(k)'
    <3>1. CASE tab.work = "migrate"
      BY <1>b, <1>k, <2>1, <2>2, <3>1 DEF TellsAt, RestAt, Quiet, AtRest
    <3>2. CASE Newer(k)
      BY <2>1, <2>2, <3>2 DEF Newer, Whole
    <3>3. CASE tab.work # "migrate" /\ ~Newer(k) /\ tab.bundle[k] # Missing
      BY <1>b, <1>k, <2>1, <3>3 DEF KeptAt, Whole, OnDisk
    <3>4. CASE tab.work = "replace" /\ ~Newer(k) /\ tab.bundle[k] = Missing
      <4>1. disk.record[k] = Missing
        BY <1>b, <1>k, <3>4 DEF TellsAt, MoveAt
      <4> QED BY <1>k, <2>1, <3>4, <4>1, RecordIs DEF Whole, OnDisk
    <3>5. CASE tab.work = "merge" /\ ~Newer(k) /\ tab.bundle[k] = Missing
      BY <1>b, <1>k, <2>1, <2>2, <3>5 DEF TellsAt, MoveAt
    <3> QED BY <1>b, <3>1, <3>2, <3>3, <3>4, <3>5 DEF Working
  <2>4. ~InOldShape(k)
    BY <1>b, <1>k, BundlesAreLegible DEF TellsAt, MoveAt
  <2>5. Ahead(k) => Ahead(k)'
    <3>1. Ahead(k) => Newer(k)
      BY DEF Ahead, Newer
    <3>2. tab'.held[k] = Missing
      BY <1>2, BundlesAreLegible DEF Resting
    <3> QED BY <1>k, <2>1, <3>1, <3>2, RecordIs DEF Ahead, OnDisk
  <2> QED BY <1>2, <1>k, <1>m, <2>3, <2>4, <2>5, TellsAtRest DEF Resting
<1> QED BY <1>0, <1>1, <1>2, StampFrame

LEMMA WholeByTurns ==
  ASSUME Static, KeptInv, VersionInv, WholeInv, Wiped \/ PutDone \/ Undo \/ Unwiped \/ Undone
  PROVE  WholeInv'
<1>0. TypeOK /\ PhaseInv
  BY DEF Static
<1>b. UNCHANGED <<backend, disk, local, last, waived, broken>> /\ tab'.mirror = tab.mirror
  BY <1>0, TurnFrame DEF Enters
<1> SUFFICES ASSUME ~broken, NEW k \in Keys, k \notin waived PROVE TellsAt(k)'
  BY <1>b DEF WholeInv, TellsAt
<1>k. /\ TellsAt(k) /\ KeptAt(k) /\ (Remote' <=> Remote)
      /\ disk.record[k] \in Records /\ last[k] \in Nat /\ tab.held[k] \in Records
      /\ (InOldShape(k)' <=> InOldShape(k)) /\ (OnDisk(k)' <=> OnDisk(k))
      /\ (Left(k)' <=> Left(k)) /\ (Whole(k)' <=> Whole(k))
  BY <1>0, <1>b, KeyTypes DEF WholeInv, TellsAt, KeptInv, Remote, InOldShape, OnDisk, Left, Whole
<1>s. Seen = IF Remote THEN tab.mirror ELSE disk
  BY <1>0, SeenIs
<1>n. sent = {} => ~Pending(k)
  BY DEF Pending
<1>i. tab.at = "wipe" => tab.work = "replace"
  BY <1>0 DEF PhaseInv
<1>p. /\ tab.at \in {"wipe", "put"} => Importing
      /\ tab.at \in {"wipe", "put", "undo", "unwipe", "unput"} => Working
  BY <1>0, <1>i DEF PhaseInv, Importing, AtRest
<1>1. ASSUME tab'.work = tab.work, tab'.held = tab.held, tab'.bundle = tab.bundle
      PROVE  /\ Ahead(k)' <=> Ahead(k)
             /\ Stray(k)' <=> Stray(k)
             /\ Shielded(k)' <=> Shielded(k)
             /\ Newer(k)' <=> Newer(k)
             /\ (Working' <=> Working) /\ (Importing' <=> Importing)
  BY <1>1, <1>b, <1>k DEF Ahead, Stray, Shielded, Unknown, Newer, Working, Importing
<1>2. CASE /\ tab'.work = tab.work /\ tab'.held = tab.held /\ tab'.bundle = tab.bundle
           /\ sent = {} /\ tab.at = "wipe" /\ tab'.at = "put"
  <2>1. RestAt(k)'
    BY <1>1, <1>2, <1>b, <1>k DEF TellsAt, RestAt, AtRest, Quiet
  <2>2. MoveAt(k)'
    BY <1>1, <1>2, <1>b, <1>i, <1>k, <1>n DEF TellsAt, MoveAt
  <2>3. BackAt(k)'
    BY <1>1, <1>2, <1>b, <1>k DEF TellsAt, BackAt
  <2> QED BY <2>1, <2>2, <2>3 DEF TellsAt
<1>3. CASE /\ tab'.work = tab.work /\ tab'.held = tab.held /\ tab'.bundle = tab.bundle
           /\ tab.at = "put" /\ tab'.at = "upgrade"
           /\ tab'.plan = IF IsOld(tab.bundle) THEN Old(Seen) ELSE Nothing
  <2>0. tab.work # "migrate"
    BY <1>3, <1>p DEF Importing
  <2>1. RestAt(k)'
    BY <1>1, <1>3, <1>b, <1>k, <2>0 DEF TellsAt, RestAt, AtRest, Quiet
  <2>2. InOldShape(k) => tab'.plan[k] # Missing
    <3> SUFFICES ASSUME InOldShape(k) PROVE tab'.plan[k] # Missing
      OBVIOUS
    <3>1. Seen.record[k] = disk.record[k]
      BY <1>3, <1>k, <1>s DEF TellsAt, RestAt, Ahead, InOldShape
    <3>2. IsOld(tab.bundle)
      BY <1>3, <1>k, <1>p DEF TellsAt, MoveAt, IsOld
    <3> QED BY <1>3, <3>1, <3>2, BundlesAreLegible DEF InOldShape, Missing
  <2>3. MoveAt(k)'
    BY <1>1, <1>3, <1>b, <1>k, <2>2 DEF TellsAt, MoveAt
  <2>4. BackAt(k)'
    BY <1>1, <1>3, <1>b, <1>k DEF TellsAt, BackAt
  <2> QED BY <2>1, <2>3, <2>4 DEF TellsAt
<1>4. CASE /\ tab'.work = tab.work /\ tab'.held = tab.held /\ tab'.bundle = tab.bundle
           /\ tab.at = "undo" /\ tab'.at = "unwipe" /\ sent' = Deletes
  <2>1. RestAt(k)' /\ MoveAt(k)'
    BY <1>1, <1>4, <1>b, <1>k DEF TellsAt, RestAt, MoveAt, AtRest, Quiet
  <2>2. ~Pending(k)' => Seen.record[k] = Missing
    BY <1>4, DeletesAre DEF Pending
  <2>3. BackAt(k)'
    BY <1>1, <1>4, <1>b, <1>k, <1>s, <2>2 DEF TellsAt, BackAt
  <2> QED BY <2>1, <2>3 DEF TellsAt
<1>5. CASE /\ tab'.work = tab.work /\ tab'.held = tab.held /\ tab'.bundle = tab.bundle
           /\ sent = {} /\ tab.at = "unwipe" /\ tab'.at = "unput" /\ sent' = Sets(tab.held)
  <2>1. RestAt(k)' /\ MoveAt(k)'
    BY <1>1, <1>5, <1>b, <1>k DEF TellsAt, RestAt, MoveAt, AtRest, Quiet
  <2>2. \/ disk.record[k] = Missing /\ (Remote => tab.mirror.record[k] = Missing)
        \/ Ahead(k) \/ Stray(k)
    BY <1>5, <1>k, <1>n DEF TellsAt, BackAt
  <2>3. Stray(k) => \E r \in sent' : r.key = k /\ r.base # disk.record[k]
    <3> SUFFICES ASSUME Stray(k) PROVE \E r \in sent' : r.key = k /\ r.base # disk.record[k]
      OBVIOUS
    <3>1. tab.held[k] # Missing /\ disk.record[k] # Missing /\ Seen.record[k] = Missing
      BY <1>s, RecordIs DEF Stray, OnDisk
    <3>2. PICK r \in Sets(tab.held) : r.key = k
      BY <3>1, SetsAre
    <3>3. r.base = Seen.record[k]
      BY <3>2, SetsAre
    <3> QED BY <1>5, <3>1, <3>2, <3>3
  <2>4. disk.record[k] = Missing => ~InOldShape(k)
    BY RecordIs DEF InOldShape
  <2>5. BackAt(k)'
    BY <1>1, <1>5, <1>b, <1>k, <2>2, <2>3, <2>4 DEF TellsAt, BackAt, Ahead, Stray, InOldShape
  <2> QED BY <2>1, <2>5 DEF TellsAt
<1>6. CASE /\ tab.at = "unput" /\ sent = {}
           /\ Resting(IF tab.work = "migrate" THEN "unready" ELSE "ready")
  <2>1. ~Pending(k) /\ ~Stray(k) /\ Working
    BY <1>6, <1>k, <1>n, <1>p DEF TellsAt, BackAt
  <2>2. Whole(k)
    <3> SUFFICES ASSUME ~OnDisk(k) PROVE Left(k) /\ disk.record[k] = Missing
      BY DEF Whole
    <3>1. disk.record[k] = Missing /\ last[k] # 0
      BY <1>6, <1>k, RecordIs DEF TellsAt, BackAt, OnDisk
    <3>2. tab.held[k].text # last[k]
      BY <1>6, <1>k, <2>1, <3>1 DEF KeptAt
    <3> QED BY <1>k, <2>1, <3>1, <3>2 DEF TellsAt, MoveAt, Shielded
  <2>3. disk'.version = "current" => ~InOldShape(k)'
    BY <1>6, <1>b, <1>k, <2>1 DEF TellsAt, BackAt, VersionInv, Working, Importing
  <2>4. Remote => tab.mirror.record[k] = disk.record[k] \/ Ahead(k)
    BY <1>6, <1>k, <2>1 DEF TellsAt, BackAt
  <2>5. Ahead(k) => Ahead(k)'
    <3>1. tab'.held[k] = Missing
      BY <1>6, BundlesAreLegible DEF Resting
    <3> QED BY <1>b, <1>k, <3>1, RecordIs DEF Ahead
  <2> QED BY <1>6, <1>b, <1>k, <2>2, <2>3, <2>4, <2>5, TellsAtRest DEF Resting
<1> QED BY <1>0, <1>2, <1>3, <1>4, <1>5, <1>6, TurnFrame DEF Enters

LEMMA WholeByUsers ==
  ASSUME Static, VersionInv, WholeInv, NEW j \in Keys, Edit(j) \/ Delete(j) \/ Elsewhere(j)
  PROVE  WholeInv'
<1>0. TypeOK /\ PhaseInv
  BY DEF Static
<1>t. \A k \in Keys : disk.record[k] \in Records /\ last[k] \in Nat
  BY <1>0, KeyTypes
<1>1. CASE Edit(j) \/ Delete(j)
  <2>1. /\ tab.at = "ready" /\ Still /\ waived' = waived \ {j}
        /\ UNCHANGED <<backend, local, backup, sent, late, broken>>
    BY <1>0, <1>1, EditFrame
  <2>2. PICK value \in Records :
          /\ value = Missing \/ value.shape = "new"
          /\ Writes(j, value) /\ Mirrors(j, value)
          /\ \A i \in Keys : last'[i] = IF i = j THEN value.text ELSE last[i]
    BY <1>0, <1>1, EditFrame
  <2> SUFFICES ASSUME ~broken, NEW k \in Keys, k \notin waived' PROVE TellsAt(k)'
    BY <2>1 DEF WholeInv, TellsAt
  <2>3. CASE k = j
    <3>1. disk'.record[k] = value /\ last'[k] = value.text /\ (Remote => tab'.mirror.record[k] = value)
      BY <2>2, <2>3 DEF Writes, Mirrors
    <3>2. Whole(k)' /\ ~InOldShape(k)' /\ tab'.at = "ready" /\ tab'.work = "none" /\ (Remote' <=> Remote)
      BY <1>0, <2>1, <2>2, <3>1, RecordIs DEF Whole, OnDisk, InOldShape, Still, PhaseInv, AtRest, Remote
    <3> QED BY <3>1, <3>2, TellsAtRest
  <2>4. CASE k # j
    <3>1. TellsAt(k)
      BY <2>1, <2>4 DEF WholeInv, TellsAt
    <3> QED BY <2>1, <2>2, <2>4, <3>1, Unmoved DEF Writes, Mirrors
  <2> QED BY <2>3, <2>4
<1>2. CASE Elsewhere(j)
  <2>1. /\ UNCHANGED <<backend, local, backup, tab, sent, late>>
        /\ disk'.version = IF disk.version = "none" THEN "current" ELSE disk.version
        /\ disk.version = "none" => Remote /\ disk.record = Nothing
        /\ last'[j] = made.edits + 4
        /\ \A i \in Keys : i # j =>
              last'[i] = IF disk.record # Nothing \/ tab.at # "closed" THEN last[i] ELSE 0
        /\ waived' = waived \ {j}
    BY <1>0, <1>2, ElsewhereFrame
  <2>2. PICK value \in Records :
          /\ value.text = made.edits + 4
          /\ value.shape = IF disk.version = "old" THEN "old" ELSE "new"
          /\ \A i \in Keys : disk'.record[i] = IF i = j THEN value ELSE disk.record[i]
    BY <1>0, <1>2, ElsewhereFrame
  <2>3. broken' = (broken \/ (disk.version # "current" /\ tab.at # "closed"))
    BY <1>0, <1>2, ElsewhereFrame
  <2>4. ~broken' => ~broken /\ (disk.version = "current" \/ tab.at = "closed")
    BY <2>3, Zenon
  <2> SUFFICES ASSUME ~broken, disk.version = "current" \/ tab.at = "closed",
                      NEW k \in Keys, k \notin waived'
               PROVE  TellsAt(k)'
    BY <2>4 DEF WholeInv, TellsAt
  <2>5. CASE k = j
    <3>1. /\ made.edits \in Nat
          /\ tab.mirror.record[k].text \in 0 .. made.edits + 3
          /\ tab.held[k].text \in 0 .. made.edits + 3 /\ tab.bundle[k].text \in 0 .. made.edits + 3
          /\ local.record[k].text \in 0 .. made.edits + 3
      BY <1>0, Bounds DEF Static, UsedInv, Used, TypeOK
    <3>2. disk'.record[k] = value /\ last'[k] = value.text
      BY <2>1, <2>2, <2>5
    <3>3. /\ OnDisk(k)' /\ Whole(k)' /\ Newer(k)' /\ Shielded(k)' /\ last'[k] # 0
          /\ tab'.held[k].text # last'[k] /\ ~Stray(k)'
      BY <2>1, <2>2, <3>1, <3>2 DEF OnDisk, Whole, Newer, Shielded, Unknown, Stray, Remote
    <3>4. disk'.version = "current" => ~InOldShape(k)'
      BY <2>1, <2>2, <3>2 DEF InOldShape
    <3>5. tab.at # "closed" => Ahead(k)' /\ ~InOldShape(k)' /\ disk'.record[k].shape = "new"
      BY <2>1, <2>2, <3>1, <3>2, <3>3 DEF Ahead, InOldShape, Remote
    <3>6. RestAt(k)'
      BY <2>1, <3>3, <3>4, <3>5 DEF RestAt
    <3>7. MoveAt(k)'
      BY <2>1, <3>3, <3>5 DEF MoveAt
    <3>8. BackAt(k)'
      BY <2>1, <3>3, <3>5 DEF BackAt
    <3> QED BY <3>6, <3>7, <3>8 DEF TellsAt
  <2>6. CASE k # j
    <3>1. TellsAt(k) /\ disk'.record[k] = disk.record[k]
      BY <2>1, <2>2, <2>6 DEF WholeInv, TellsAt
    <3>2. disk.version = "none" => ~InOldShape(k)
      BY <2>1, BundlesAreLegible, RecordIs DEF InOldShape
    <3>3. disk'.version = "current" => ~InOldShape(k) \/ disk.version = "current"
      BY <2>1, <3>2
    <3>4. CASE tab.at # "closed"
      <4>1. last'[k] = last[k] /\ Still /\ tab'.mirror = tab.mirror
        BY <2>1, <2>6, <3>4 DEF Still
      <4>2. disk'.version = disk.version \/ ~InOldShape(k)
        BY <2>1, <3>2
      <4> QED BY <2>1, <3>1, <3>4, <4>1, <4>2, Unmoved
    <3>5. CASE tab.at = "closed"
      <4>1. tab.work = "none"
        BY <1>0, <3>5 DEF PhaseInv, AtRest
      <4>2. Whole(k)'
        <5>1. CASE disk.record # Nothing
          <6>1. last'[k] = last[k] /\ Whole(k)
            BY <2>1, <2>6, <3>1, <3>5, <5>1 DEF TellsAt, RestAt
          <6> QED BY <2>1, <3>1, <6>1 DEF Whole, OnDisk, Left, Remote
        <5>2. CASE disk.record = Nothing
          BY <2>1, <2>6, <3>1, <3>5, <5>2, BundlesAreLegible, RecordIs DEF Whole, OnDisk
        <5> QED BY <5>1, <5>2
      <4>3. RestAt(k)'
        BY <2>1, <3>1, <3>3, <3>5, <4>2 DEF TellsAt, RestAt, AtRest, InOldShape
      <4> QED BY <2>1, <3>5, <4>1, <4>3 DEF TellsAt, MoveAt, BackAt, Working, Importing
    <3> QED BY <3>4, <3>5
  <2> QED BY <2>5, <2>6
<1> QED BY <1>1, <1>2

LEMMA WholeByClosing ==
  ASSUME Static, VersionInv, WholeInv, Close
  PROVE  WholeInv'
<1>0. TypeOK /\ PhaseInv
  BY DEF Static
<1>1. /\ tab.at # "closed" /\ Resting("closed") /\ waived \subseteq waived'
      /\ UNCHANGED <<backend, disk, local, backup, last>>
  BY <1>0, CloseFrame
<1>2. ~broken' => ~broken /\ ~Halfway
  <2>1. broken' = (broken \/ Halfway)
    BY <1>0, CloseFrame
  <2> QED BY <2>1, Zenon
<1> SUFFICES ASSUME ~broken, ~Halfway, NEW k \in Keys, k \notin waived PROVE TellsAt(k)'
  BY <1>1, <1>2 DEF WholeInv, TellsAt
<1>3. TellsAt(k)
  BY DEF WholeInv, TellsAt
<1>4. tab.at \in {"unready", "ready", "keep"} \/ (tab.at = "upgrade" /\ tab.work = "migrate")
  BY <1>0, <1>1 DEF Halfway, TypeOK, Phases
<1>5. Whole(k) /\ (disk.version = "current" => ~InOldShape(k))
  BY <1>3, <1>4 DEF TellsAt, RestAt, Quiet, AtRest, VersionInv
<1>6. Whole(k)' /\ (InOldShape(k)' <=> InOldShape(k))
  BY <1>1, <1>5 DEF Whole, OnDisk, Left, Remote, InOldShape
<1>7. RestAt(k)'
  BY <1>1, <1>5, <1>6 DEF RestAt, Resting, AtRest
<1> QED BY <1>1, <1>7 DEF TellsAt, MoveAt, BackAt, Resting, Working, Importing

LEMMA WholeStep ==
  ASSUME Static, KeptInv, PlanInv, SeenInv, VersionInv, WholeInv, Next
  PROVE  WholeInv'
<1>0. TypeOK
  BY DEF Static
<1>1. ASSUME NEW r \in sent, Bounce(r) PROVE WholeInv'
  BY <1>0, <1>1, BounceFrame, WholeByFailing
<1> QED
  BY <1>1, WholeByLanding, WholeByLate, WholeByOpening, WholeByBeginning, WholeByKeep, WholeByUpgrade,
     WholeByStamp, WholeByTurns, WholeByUsers, WholeByClosing DEF Next, Work
-----------------------------------------------------------------------------
(* The theorems.                                                           *)

Inv ==
  /\ Static /\ KeptInv /\ PlanInv /\ SeenInv /\ VersionInv /\ WholeInv

LEMMA InvInit == Init => Inv
<1> SUFFICES ASSUME Init PROVE Inv
  OBVIOUS
<1>1. TypeOK
  BY InitType
<1>2. PICK start \in Starts :
        /\ backend = start.backend /\ disk = start.disk /\ local = start.local
        /\ last = LET library == IF backend = "workspace" /\ ~HasRecords(disk) THEN local ELSE disk
                  IN  [k \in Keys |-> library.record[k].text]
  BY DEF Init
<1>3. /\ backup = Nothing /\ tab = Closed /\ sent = {} /\ late = {} /\ waived = {} /\ broken = FALSE
      /\ made.edits = 0
  BY DEF Init
<1>4. /\ tab.at = "closed" /\ tab.work = "none" /\ tab.held = Nothing /\ tab.bundle = Nothing
      /\ tab.plan = Nothing /\ tab.mirror.record = Nothing
      /\ \A k \in Keys : Nothing[k] = Missing
  BY <1>3, BundlesAreLegible DEF Closed
<1>5. /\ Sound(disk) /\ Sound(local) /\ (~Remote => local.record = Nothing)
  BY <1>2, StartsAssumption DEF Remote
<1>6. \A k \in Keys : disk.record[k] \in Records /\ local.record[k] \in Records
  BY <1>1, KeyTypes
<1>7. \A k \in Keys : last[k] = IF Remote /\ disk.record = Nothing THEN local.record[k].text ELSE disk.record[k].text
  BY <1>2 DEF HasRecords, Remote
<1>8. PhaseInv
  BY <1>3, <1>4, <1>5 DEF PhaseInv, AtRest, Working
<1>9. RecordInv
  BY <1>3, <1>4, <1>5, RecordIs DEF RecordInv, Sound
<1>10. RequestInv
  BY <1>3 DEF RequestInv
<1>11. UsedInv
  <2>1. \A k \in Keys : disk.record[k].text \in Used /\ local.record[k].text \in Used
    BY <1>3, <1>5 DEF Sound, Used
  <2>2. 0 \in Used
    BY <1>3 DEF Used
  <2> QED BY <1>3, <1>4, <1>7, <2>1, <2>2, RecordIs DEF UsedInv
<1>12. KeptInv
  BY <1>3, <1>4, <1>7 DEF KeptInv, KeptAt, Kept, OnDisk, Working
<1>13. PlanInv /\ SeenInv
  BY <1>3, <1>4 DEF PlanInv, PlanAt, SeenInv
<1>14. VersionInv
  BY <1>3, <1>4, <1>5 DEF VersionInv, Importing, Sound
<1>15. WholeInv
  <2> SUFFICES ASSUME NEW k \in Keys PROVE TellsAt(k)
    BY DEF WholeInv, TellsAt
  <2>1. Whole(k) \/ (Remote /\ disk.record = Nothing /\ last[k] = local.record[k].text)
    BY <1>7 DEF Whole, OnDisk
  <2>2. disk.version = "current" => ~InOldShape(k)
    BY <1>5 DEF Sound, InOldShape
  <2> QED BY <1>4, <2>1, <2>2 DEF TellsAt, RestAt, MoveAt, BackAt, Working, Importing
<1> QED BY <1>1, <1>8, <1>9, <1>10, <1>11, <1>12, <1>13, <1>14, <1>15 DEF Inv, Static

LEMMA InvStep == Inv /\ [Next]_vars => Inv'
<1> SUFFICES ASSUME Inv, [Next]_vars PROVE Inv'
  OBVIOUS
<1>1. CASE Next
  <2>1. Static'
    BY <1>1, TypeStep, PhaseStep, RecordStep, RequestStep, UsedStep DEF Inv, Static
  <2>2. BeginsWhole
    <3> SUFFICES ASSUME ~broken, ~Remote, tab.at = "keep", NEW k \in Keys \ waived PROVE OnDisk(k)
      BY DEF BeginsWhole
    <3>1. RestAt(k)
      BY DEF Inv, WholeInv
    <3> QED BY <3>1 DEF RestAt, Quiet, Whole, Left
  <2> QED BY <1>1, <2>1, <2>2, KeptStep, PlanStep, SeenStep, VersionStep, WholeStep DEF Inv
<1>2. CASE UNCHANGED vars
  <2> USE <1>2 DEF vars, Inv
  <2>1. Static'
    <3>1. TypeOK'
      BY TypeStep DEF Static
    <3>2. PhaseInv'
      BY DEF Static, PhaseInv, AtRest, Working, Importing, Remote
    <3>3. RecordInv' /\ RequestInv' /\ UsedInv'
      BY DEF Static, RecordInv, RequestInv, UsedInv, Used, Remote, Seen
    <3> QED BY <3>1, <3>2, <3>3 DEF Static
  <2>2. KeptInv'
    BY DEF KeptInv, KeptAt, Kept, OnDisk, Copied, Shielded, Unknown, Newer, Pending, Working, Quiet, AtRest, Remote
  <2>3. PlanInv' /\ SeenInv'
    BY DEF PlanInv, PlanAt, SeenInv, Unknown, OnDisk, Remote
  <2>4. VersionInv'
    BY DEF VersionInv, Importing, Remote
  <2>5. WholeInv'
    BY DEF WholeInv, RestAt, MoveAt, BackAt, Whole, OnDisk, Left, InOldShape, Ahead, Stray, Shielded,
       Unknown, Newer, Pending, Working, Importing, Quiet, AtRest, Remote
  <2> QED BY <2>1, <2>2, <2>3, <2>4, <2>5
<1> QED BY <1>1, <1>2

\* migrate, importAll: no record a user saved is lost by a migration or an import,
\* however its requests fail, land late or are cut short, but for the named events.
THEOREM NothingIsLost == Spec => []RecordsAreSomewhere
<1>1. Inv => RecordsAreSomewhere
  <2> SUFFICES ASSUME Inv, NEW k \in Keys \ waived, last[k] # 0
               PROVE  Kept(k) \/ tab.held[k].text = last[k]
    BY DEF RecordsAreSomewhere, Inv, Static
  <2>1. KeptAt(k) /\ PhaseInv
    BY DEF Inv, KeptInv, Static
  <2>2. Quiet \/ Working
    BY <2>1 DEF PhaseInv, Quiet
  <2> QED BY <2>1, <2>2 DEF KeptAt, Copied, Shielded, Kept
<1> QED BY <1>1, InvInit, InvStep, PTL DEF Spec

\* importAll: "all-or-nothing". A session at rest has the library its users left, in the
\* shape it can read, whatever was adopted, migrated, imported or put back before.
THEOREM LibrariesAreWhole == Spec => []LibraryIsWhole
<1>1. Inv => LibraryIsWhole
  <2> SUFFICES ASSUME Inv, tab.at = "ready", ~broken, NEW k \in Keys \ waived
               PROVE  /\ OnDisk(k) \/ LeftBehind(k)
                      /\ disk.version = "current" => disk.record[k].shape # "old"
    BY DEF LibraryIsWhole
  <2>1. RestAt(k)
    BY DEF Inv, WholeInv
  <2> QED BY <2>1 DEF RestAt, Quiet, AtRest, Whole, Left, LeftBehind, InOldShape, Remote
<1> QED BY <1>1, InvInit, InvStep, PTL DEF Spec
=============================================================================
