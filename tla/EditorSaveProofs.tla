-------------------------- MODULE EditorSaveProofs --------------------------
(***************************************************************************)
(* Proofs about the save path of the editor, for any jobs and either kind  *)
(* of storage, any number of edits, writes by others, saves and faults,    *)
(* and a chain of writes of any length.                                    *)
(***************************************************************************)
EXTENDS EditorSave, TLAPS

EditorState ==
  [job : Jobs \union {NoJob}, rev : Nat, meta : SUBSET Edits, body : SUBSET Edits,
   dirty : BOOLEAN, timer : BOOLEAN, refused : BOOLEAN,
   conflict : [job : Jobs \union {NoJob}, copy : Copies]]
Captured == [job : Jobs, copy : Copies]

\* Nothing is open, written or asked about when the state says there is no job.
JobsAreKnown ==
  /\ ed.job = NoJob => ~ed.dirty /\ ~ed.timer
  /\ \A write \in {put, side, ask} : write.phase # "none" => write.job \in Jobs
  /\ \A write \in {put, side, ask} : write.phase = "none" => write = Idle
  /\ ed.conflict # Quiet => ed.conflict.job \in Jobs

SaveInv == TypeOK /\ JobsAreKnown
-----------------------------------------------------------------------------
LEMMA MaxOfTwo ==
  ASSUME NEW a \in Nat, NEW b \in Nat
  PROVE  Max({a, b}) \in Nat
<1>1. \E x \in {a, b} : \A y \in {a, b} : x >= y
  <2>1. CASE a >= b
    BY <2>1
  <2>2. CASE b >= a
    BY <2>2
  <2> QED
    BY <2>1, <2>2
<1>2. Max({a, b}) \in {a, b}
  BY <1>1, Zenon DEF Max
<1> QED
  BY <1>2

LEMMA NoCopies ==
  /\ Absent \in Copies /\ Seeded \in Copies /\ Idle \in Wanderers /\ Closed \in EditorState
  /\ Quiet \in [job : Jobs \union {NoJob}, copy : Copies]
<1>1. Absent \in Copies /\ Seeded \in Copies
  BY DEF Absent, Seeded, Copies
<1>2. Idle \in Wanderers
  BY <1>1 DEF Idle, Wanderers
<1>3. Quiet \in [job : Jobs \union {NoJob}, copy : Copies]
  BY <1>1 DEF Quiet
<1> QED
  BY <1>1, <1>2, <1>3 DEF Closed, EditorState

LEMMA CapturedTypes ==
  ASSUME TypeOK, NEW e \in EditorState
  PROVE  /\ Flushed(e) \in Seq(Captured)
         /\ Flushed(e) # chain => Flushed(e) = Append(chain, Capture(e)) /\ e.job \in Jobs
         /\ Capture(e).copy \in Copies
<1>1. Capture(e).copy \in Copies
  BY DEF Capture, Copies, EditorState
<1>2. e.job # NoJob => e.job \in Jobs /\ Capture(e) \in Captured
  BY <1>1 DEF Capture, Captured, EditorState
<1>3. chain \in Seq(Captured)
  BY DEF TypeOK, Captured
<1> QED
  BY <1>1, <1>2, <1>3 DEF Flushed

LEMMA LoadedTypes ==
  ASSUME NEW j \in Jobs, NEW copy \in Copies
  PROVE  /\ Loaded(j, copy) \in EditorState
         /\ Loaded(j, copy).job = j /\ ~Loaded(j, copy).dirty /\ ~Loaded(j, copy).timer
         /\ Loaded(j, copy).conflict = Quiet
         /\ Loaded(j, copy).body = copy.body /\ Loaded(j, copy).meta = copy.meta
  BY NoCopies DEF Loaded, Closed, EditorState, Copies

LEMMA RequestTypes ==
  ASSUME TypeOK, NEW j \in Jobs, NEW copy \in Copies, NEW noticed \in Copies
  PROVE  Request(j, copy, noticed) \in Wanderers
<1>1. mirror[j].hash \in Nat
  BY DEF TypeOK, Copies
<1>2. (backend = "workspace" /\ j \notin unguarded) \in BOOLEAN
  OBVIOUS
<1> HIDE DEF TypeOK
<1> QED
  BY <1>1, <1>2 DEF Request, Wanderers

LEMMA LandsTypes ==
  ASSUME TypeOK, NEW r \in Wanderers, r.job \in Jobs, Lands(r)
  PROVE  /\ disk' \in [Jobs -> Copies] /\ stamp' \in Nat /\ landed' \subseteq Edits
         /\ Answered(r) \in Wanderers
<1>1. r.copy \in Copies /\ disk[r.job] \in Copies /\ stamp \in Nat
  BY DEF TypeOK, Wanderers
<1>2. [r.copy EXCEPT !.hash = stamp + 1] \in Copies
  BY <1>1 DEF Copies
<1>3. Content(r.copy) \subseteq Edits
  BY <1>1 DEF Content, Copies
<1>4. disk' \in [Jobs -> Copies] /\ stamp' \in Nat /\ landed' \subseteq Edits
  <2>1. CASE Refuses(r)
    BY <2>1 DEF Lands, TypeOK
  <2>2. CASE ~Refuses(r)
    <3>1. /\ disk' = [disk EXCEPT ![r.job] = [r.copy EXCEPT !.hash = stamp + 1]]
          /\ stamp' = stamp + 1 /\ landed' = landed \union Content(r.copy)
      BY <2>2, Zenon DEF Lands
    <3>2. disk \in [Jobs -> Copies] /\ landed \subseteq Edits
      BY DEF TypeOK
    <3> QED
      BY <1>1, <1>2, <1>3, <3>1, <3>2
  <2> QED
    BY <2>1, <2>2
<1>5. Answered(r) \in Wanderers
  BY <1>1, <1>2 DEF Answered, Wanderers, Copies
<1> QED
  BY <1>4, <1>5

\* Everything but the history the observer keeps.
StateTypes ==
  /\ backend \in Backends /\ unguarded \subseteq Jobs
  /\ disk \in [Jobs -> Copies] /\ mirror \in [Jobs -> Copies] /\ lib \in [Jobs -> Copies]
  /\ ed \in EditorState /\ chain \in Seq(Captured)
  /\ put \in Wanderers /\ side \in Wanderers /\ ask \in Wanderers
  /\ lastWrite \in [job : Jobs \union {NoJob}, rev : Nat]
  /\ made \in [{"edits", "renames", "elsewhere", "saves", "faults"} -> Nat]
  /\ stamp \in Nat /\ typed \subseteq Edits /\ landed \subseteq Edits /\ excused \subseteq Edits

LEMMA StateIsTyped == SaveInv => StateTypes
  BY DEF SaveInv, TypeOK, StateTypes, EditorState, Captured

LEMMA CountTypes ==
  ASSUME StateTypes, NEW what \in {"edits", "renames", "elsewhere", "saves", "faults"}
  PROVE  /\ Count(what) => made' \in [{"edits", "renames", "elsewhere", "saves", "faults"} -> Nat]
         /\ NewEdit(what) => made' \in [{"edits", "renames", "elsewhere", "saves", "faults"} -> Nat]
         /\ CanEdit => made.edits + 1 \in Edits
<1> DEFINE Counters == {"edits", "renames", "elsewhere", "saves", "faults"}
<1>1. made \in [Counters -> Nat]
  BY DEF StateTypes
<1>2. \A n \in [Counters -> Nat], w \in Counters : [n EXCEPT ![w] = n[w] + 1] \in [Counters -> Nat]
  OBVIOUS
<1>3. Count(what) => made' \in [Counters -> Nat]
  BY <1>1, <1>2 DEF Count
<1>4. [made EXCEPT !.edits = made.edits + 1] \in [Counters -> Nat]
  BY <1>1, <1>2
<1>5. NewEdit(what) => made' \in [Counters -> Nat]
  <2>1. made[what] + 1 \in Nat
    BY <1>1
  <2> QED
    BY <1>4, <2>1 DEF NewEdit
<1>6. CanEdit => made.edits + 1 \in Edits
  <2>1. made.edits \in Nat /\ MaxEdits \in Nat
    BY <1>1, BoundsAssumption
  <2> QED
    BY <2>1 DEF CanEdit, Edits
<1> QED
  BY <1>3, <1>5, <1>6

LEMMA EditingTypes ==
  ASSUME SaveInv, Editing
  PROVE  StateTypes' /\ JobsAreKnown'
<1> USE StateIsTyped
<1>1. CASE Edit
  <2>1. made.edits + 1 \in Edits /\ made' \in [{"edits", "renames", "elsewhere", "saves", "faults"} -> Nat]
    BY <1>1, CountTypes DEF Edit, Count
  <2>2. ed' \in EditorState
    BY <1>1, <2>1 DEF Edit, StateTypes, EditorState
  <2>3. StateTypes'
    BY <1>1, <2>1, <2>2 DEF Edit, StateTypes
  <2> QED
    BY <1>1, <2>3 DEF Edit, JobsAreKnown, SaveInv, EditorState, StateTypes
<1>2. CASE TimerFires
  <2>1. chain' \in Seq(Captured)
    BY <1>2, CapturedTypes DEF TimerFires, StateTypes, SaveInv
  <2>2. ed' \in EditorState
    BY <1>2 DEF TimerFires, StateTypes, EditorState
  <2> QED
    BY <1>2, <2>1, <2>2 DEF TimerFires, StateTypes, JobsAreKnown, SaveInv, EditorState
<1>3. CASE SaveByHand
  <2>1. chain' \in Seq(Captured)
    BY <1>3, CapturedTypes DEF SaveByHand, StateTypes, SaveInv
  <2> QED
    BY <1>3, <2>1, CountTypes DEF SaveByHand, StateTypes, JobsAreKnown, SaveInv
<1>4. CASE Close
  <2>1. chain' \in Seq(Captured)
    BY <1>4, CapturedTypes DEF Close, StateTypes, SaveInv
  <2> QED
    BY <1>4, <2>1, NoCopies DEF Close, StateTypes, JobsAreKnown, SaveInv, Closed
<1>5. CASE \E j \in Jobs : Open(j)
  <2> PICK j \in Jobs : Open(j)
    BY <1>5
  <2>1. chain' \in Seq(Captured)
    BY CapturedTypes DEF Open, StateTypes, SaveInv
  <2>2. lib[j] \in Copies
    BY DEF StateTypes
  <2>3. ed' \in EditorState /\ ed'.job = j /\ ~ed'.dirty /\ ~ed'.timer /\ ed'.conflict = Quiet
    BY <2>2, LoadedTypes DEF Open
  <2> QED
    BY <2>1, <2>3 DEF Open, StateTypes, JobsAreKnown, SaveInv
<1> QED
  BY <1>1, <1>2, <1>3, <1>4, <1>5 DEF Editing

LEMMA MirroredTypes ==
  ASSUME StateTypes, NEW r \in Wanderers, r.job \in Jobs, Mirrored(r)
  PROVE  mirror' \in [Jobs -> Copies] /\ unguarded' \subseteq Jobs
<1>1. r.copy \in Copies
  BY DEF Wanderers
<1> QED
  BY <1>1 DEF StateTypes, Mirrored

LEMMA WritingTypes ==
  ASSUME SaveInv, Writing
  PROVE  StateTypes' /\ JobsAreKnown'
<1> USE StateIsTyped
<1>1. CASE StartWrite
  <2> DEFINE p == Head(chain)
             stored == StoredNow(p.job)
  <2>1. p \in Captured /\ chain' \in Seq(Captured)
    BY <1>1 DEF StartWrite, StateTypes
  <2>2. stored \in Copies
    BY <2>1 DEF StateTypes, Captured, StoredNow
  <2> HIDE DEF p, stored
  <2>3. Max({p.copy.rev, stored.rev}) \in Nat /\ p.copy \in Copies /\ p.job \in Jobs
    BY <2>1, <2>2, MaxOfTwo DEF Captured, Copies
  <2>4. [p.copy EXCEPT !.rev = Max({p.copy.rev, stored.rev}) + 1] \in Copies
    <3>1. \A n \in Nat : [p.copy EXCEPT !.rev = n + 1] \in Copies
      BY <2>3 DEF Copies
    <3> QED
      BY <2>3, <3>1
  <2>5. PICK noticed \in Copies :
             put' = Request(p.job, [p.copy EXCEPT !.rev = Max({p.copy.rev, stored.rev}) + 1],
                            noticed)
    <3>1. \E theirs \in BOOLEAN :
             put' = Request(p.job, [p.copy EXCEPT !.rev = Max({p.copy.rev, stored.rev}) + 1],
                            IF theirs THEN stored ELSE Absent)
      BY <1>1, Zenon DEF StartWrite, p, stored
    <3> QED
      BY <3>1, <2>2, NoCopies
  <2>6. put' \in Wanderers /\ put'.job \in Jobs /\ put'.phase = "sent"
    BY <2>3, <2>4, <2>5, RequestTypes DEF Request, SaveInv
  <2> QED
    BY <1>1, <2>1, <2>6 DEF StartWrite, StateTypes, JobsAreKnown, SaveInv
<1>2. CASE PutLands
  <2>1. put.job \in Jobs /\ put'.job = put.job /\ put'.phase # "none"
    BY <1>2 DEF PutLands, SaveInv, JobsAreKnown, Answered, StateTypes, Wanderers
  <2>2. /\ disk' \in [Jobs -> Copies] /\ stamp' \in Nat /\ landed' \subseteq Edits
        /\ put' \in Wanderers
    BY <1>2, <2>1, LandsTypes DEF PutLands, StateTypes, SaveInv
  <2> QED
    BY <1>2, <2>1, <2>2 DEF PutLands, StateTypes, JobsAreKnown, SaveInv
<1>3. CASE PutFails
  <2>1. put' \in Wanderers /\ put'.phase # "none" /\ put'.job \in Jobs
    BY <1>3 DEF PutFails, StateTypes, Wanderers, JobsAreKnown, SaveInv
  <2> QED
    BY <1>3, <2>1, CountTypes DEF PutFails, StateTypes, JobsAreKnown, SaveInv
<1>4. CASE PutSucceeds
  <2>1. put.job \in Jobs /\ put.copy \in Copies /\ put.noticed \in Copies
    BY <1>4 DEF PutSucceeds, StateTypes, Wanderers, JobsAreKnown, SaveInv
  <2>2. mirror' \in [Jobs -> Copies] /\ unguarded' \subseteq Jobs
    BY <1>4, <2>1, MirroredTypes DEF PutSucceeds, StateTypes
  <2>3. lib' \in [Jobs -> Copies] /\ lastWrite' \in [job : Jobs \union {NoJob}, rev : Nat]
    BY <1>4, <2>1 DEF PutSucceeds, StateTypes, Upserted, Copies
  <2>4. /\ ed' \in EditorState /\ ed'.job = ed.job
        /\ ed.job = put.job \/ ed' = ed
        /\ ed'.conflict \in {ed.conflict, [job |-> put.job, copy |-> put.noticed]}
    <3>1. CASE ed.job # put.job
      BY <1>4, <3>1 DEF PutSucceeds, StateTypes, EditorState
    <3>2. CASE ed.job = put.job
      <4>1. PICK conflict \in {ed.conflict, [job |-> put.job, copy |-> put.noticed]} :
              ed' = [ed EXCEPT !.rev = put.copy.rev, !.meta = put.copy.meta,
                               !.dirty = ed.dirty /\ ~Settled(put), !.conflict = conflict]
        BY <1>4, <3>2, Zenon DEF PutSucceeds
      <4>2. conflict \in [job : Jobs \union {NoJob}, copy : Copies]
        BY <2>1 DEF StateTypes, EditorState
      <4>3. (ed.dirty /\ ~Settled(put)) \in BOOLEAN
        OBVIOUS
      <4> QED
        BY <2>1, <3>2, <4>1, <4>2, <4>3 DEF StateTypes, EditorState, Copies
    <3> QED
      BY <3>1, <3>2
  <2>5. StateTypes'
    BY <1>4, <2>2, <2>3, <2>4, NoCopies DEF PutSucceeds, StateTypes
  <2>6. JobsAreKnown'
    <3>1. ed.job # NoJob \/ ed' = ed
      BY <2>1, <2>4, NoJobAssumption
    <3>2. ed'.conflict # Quiet => ed'.conflict.job \in Jobs
      BY <2>1, <2>4 DEF JobsAreKnown, SaveInv
    <3>3. ed'.job = NoJob => ~ed'.dirty /\ ~ed'.timer
      BY <2>4, <3>1 DEF JobsAreKnown, SaveInv
    <3>4. put' = Idle /\ side' = side /\ ask' = ask
      BY <1>4 DEF PutSucceeds
    <3>5. Idle.phase = "none"
      BY DEF Idle
    <3> QED
      BY <3>2, <3>3, <3>4, <3>5 DEF JobsAreKnown, SaveInv
  <2> QED
    BY <2>5, <2>6
<1>5. CASE PutIsRefused
  <2>1. put.job \in Jobs /\ put.copy \in Copies /\ put.noticed \in Copies
    BY <1>5 DEF PutIsRefused, StateTypes, Wanderers, JobsAreKnown, SaveInv
  <2>2. PICK conflict \in {ed.conflict, [job |-> put.job, copy |-> put.noticed]} :
          ed' = [ed EXCEPT !.refused = TRUE, !.conflict = conflict]
    BY <1>5, Zenon DEF PutIsRefused
  <2>3. ed' \in EditorState /\ ed'.conflict = conflict
    <3>1. conflict \in [job : Jobs \union {NoJob}, copy : Copies]
      BY <2>1 DEF StateTypes, EditorState
    <3> QED
      BY <2>2, <3>1 DEF StateTypes, EditorState
  <2>4. /\ ed'.job = ed.job /\ ed'.dirty = ed.dirty /\ ed'.timer = ed.timer
        /\ put.copy.body \subseteq Edits
    BY <2>1, <2>2 DEF StateTypes, EditorState, Copies
  <2>5. StateTypes'
    BY <1>5, <2>3, <2>4, NoCopies DEF PutIsRefused, StateTypes
  <2> QED
    BY <1>5, <2>1, <2>3, <2>4, <2>5 DEF PutIsRefused, JobsAreKnown, SaveInv, Idle
<1>6. CASE PutIsLost
  <2>1. put.copy.body \subseteq Edits
    BY DEF StateTypes, Wanderers, Copies
  <2> QED
    BY <1>6, <2>1, NoCopies DEF PutIsLost, StateTypes, JobsAreKnown, SaveInv, Idle
<1> QED
  BY <1>1, <1>2, <1>3, <1>4, <1>5, <1>6 DEF Writing

LEMMA RenamingTypes ==
  ASSUME SaveInv, Renaming
  PROVE  StateTypes' /\ JobsAreKnown'
<1> USE StateIsTyped
<1>1. CASE \E j \in Jobs : Rename(j)
  <2> PICK j \in Jobs : Rename(j)
    BY <1>1
  <2> DEFINE next == [lib[j] EXCEPT !.rev = lib[j].rev + 1,
                                    !.meta = lib[j].meta \union {made.edits + 1}]
  <2>1. made.edits + 1 \in Edits /\ made' \in [{"edits", "renames", "elsewhere", "saves", "faults"} -> Nat]
    BY CountTypes DEF Rename
  <2>2. next \in Copies
    <3>1. lib[j] \in Copies
      BY DEF StateTypes
    <3>2. lib[j].rev + 1 \in Nat /\ lib[j].meta \union {made.edits + 1} \in SUBSET Edits
      BY <2>1, <3>1 DEF Copies
    <3> QED
      BY <3>1, <3>2 DEF Copies
  <2>3. side' = Request(j, next, Absent)
    BY DEF Rename
  <2> HIDE DEF next
  <2>4. side' \in Wanderers /\ side'.job = j /\ side'.phase = "sent"
    BY <2>2, <2>3, NoCopies, RequestTypes DEF Request, SaveInv
  <2>5. /\ ed' \in EditorState /\ ed'.job = ed.job /\ ed'.dirty = ed.dirty
        /\ ed'.timer = ed.timer /\ ed'.conflict = ed.conflict
    BY <2>1 DEF Rename, NamedInEditor, StateTypes, EditorState
  <2>6. StateTypes'
    BY <2>1, <2>4, <2>5 DEF Rename, StateTypes
  <2> QED
    BY <2>4, <2>5, <2>6 DEF Rename, JobsAreKnown, SaveInv
<1>2. CASE SideLands
  <2>1. side.job \in Jobs /\ side'.job = side.job /\ side'.phase # "none"
    BY <1>2 DEF SideLands, SaveInv, JobsAreKnown, Answered, StateTypes, Wanderers
  <2>2. /\ disk' \in [Jobs -> Copies] /\ stamp' \in Nat /\ landed' \subseteq Edits
        /\ side' \in Wanderers
    BY <1>2, <2>1, LandsTypes DEF SideLands, StateTypes, SaveInv
  <2> QED
    BY <1>2, <2>1, <2>2 DEF SideLands, StateTypes, JobsAreKnown, SaveInv
<1>3. CASE SideFails
  <2>1. side' \in Wanderers /\ side'.phase # "none" /\ side'.job \in Jobs
    BY <1>3 DEF SideFails, StateTypes, Wanderers, JobsAreKnown, SaveInv
  <2> QED
    BY <1>3, <2>1, CountTypes DEF SideFails, StateTypes, JobsAreKnown, SaveInv
<1>4. CASE SideEnds
  <2>1. side.job \in Jobs /\ side.copy \in Copies
    BY <1>4 DEF SideEnds, StateTypes, Wanderers, JobsAreKnown, SaveInv
  <2>2. mirror' \in [Jobs -> Copies] /\ unguarded' \subseteq Jobs
    BY <1>4, <2>1, MirroredTypes DEF SideEnds, StateTypes
  <2>3. lib' \in [Jobs -> Copies]
    <3>1. lib' = lib \/ lib' = [lib EXCEPT ![side.job] = lib[side.job]]
                     \/ lib' = [lib EXCEPT ![side.job] = side.copy]
      BY <1>4, Zenon DEF SideEnds
    <3> QED
      BY <2>1, <3>1 DEF StateTypes
  <2> QED
    BY <1>4, <2>2, <2>3, NoCopies DEF SideEnds, StateTypes, JobsAreKnown, SaveInv, Idle
<1> QED
  BY <1>1, <1>2, <1>3, <1>4 DEF Renaming

\* What is shown when a conflict is answered with the other version of the job.
Theirs == IF ask.copy # Absent THEN [job |-> ask.job, copy |-> ask.copy] ELSE ed.conflict

LEMMA AdoptedTypes ==
  ASSUME SaveInv, AdoptEnds
  PROVE  /\ ask.job \in Jobs /\ ask.copy \in Copies
         /\ Theirs = Quiet => ed' = [ed EXCEPT !.conflict = Quiet, !.refused = FALSE]
                              /\ UNCHANGED <<lastWrite, lib, excused>>
         /\ Theirs # Quiet => /\ Theirs.job \in Jobs /\ Theirs.copy \in Copies
                              /\ lastWrite' = [job |-> NoJob, rev |-> 0]
                              /\ lib' = Upserted(Theirs.job, Theirs.copy)
                              /\ ed' = Loaded(Theirs.job, Theirs.copy)
                              /\ excused' = excused \union ed.body
<1>1. ask.job \in Jobs /\ ask.copy \in Copies
  BY StateIsTyped DEF AdoptEnds, StateTypes, Wanderers, JobsAreKnown, SaveInv
<1>2. Theirs # Quiet => Theirs.job \in Jobs /\ Theirs.copy \in Copies
  BY <1>1, StateIsTyped DEF Theirs, JobsAreKnown, SaveInv, StateTypes, EditorState
<1>3. IF Theirs = Quiet
      THEN /\ ed' = [ed EXCEPT !.conflict = Quiet, !.refused = FALSE]
           /\ UNCHANGED <<lastWrite, lib, excused>>
      ELSE /\ lastWrite' = [job |-> NoJob, rev |-> 0]
           /\ lib' = Upserted(Theirs.job, Theirs.copy)
           /\ ed' = Loaded(Theirs.job, Theirs.copy)
           /\ excused' = excused \union ed.body
  BY Zenon DEF AdoptEnds, Theirs
<1> QED
  BY <1>1, <1>2, <1>3

LEMMA OverwriteTypes ==
  ASSUME SaveInv, OverwriteConflict
  PROVE  /\ ed' \in EditorState /\ ed'.job = ed.job /\ ed'.job \in Jobs
         /\ ed'.body = ed.body /\ ed'.meta = ed.meta /\ ed'.timer = ed.timer /\ ed'.dirty
         /\ ed'.conflict = Quiet
         /\ chain' = Append(chain, Capture(ed')) /\ Capture(ed') \in Captured
<1>1. ed \in EditorState /\ ed.conflict.copy.rev \in Nat /\ ed.job \in Jobs
  BY StateIsTyped DEF SaveInv, StateTypes, EditorState, Copies, OverwriteConflict, Asked
<1>2. Max({ed.rev, ed.conflict.copy.rev}) \in Nat
  BY <1>1, MaxOfTwo DEF EditorState
<1>3. PICK n \in Nat : ed' = [ed EXCEPT !.rev = n, !.conflict = Quiet, !.refused = FALSE,
                                        !.dirty = TRUE]
  BY <1>2, Zenon DEF OverwriteConflict
<1>4. /\ ed' \in EditorState /\ ed'.job = ed.job /\ ed'.body = ed.body /\ ed'.meta = ed.meta
      /\ ed'.timer = ed.timer /\ ed'.dirty /\ ed'.conflict = Quiet
  BY <1>1, <1>3, NoCopies DEF EditorState
<1>5. chain' = Append(chain, Capture(ed'))
  BY <1>1, <1>4, NoJobAssumption DEF OverwriteConflict, Flushed
<1>6. Capture(ed') \in Captured
  BY <1>1, <1>4 DEF Capture, Captured, EditorState, Copies
<1> QED
  BY <1>1, <1>4, <1>5, <1>6

LEMMA AnsweringTypes ==
  ASSUME SaveInv, Answering
  PROVE  StateTypes' /\ JobsAreKnown'
<1> USE StateIsTyped
<1>1. CASE Dismiss
  <2>1. ed' \in EditorState
    BY <1>1, NoCopies DEF Dismiss, StateTypes, EditorState
  <2> QED
    BY <1>1, <2>1 DEF Dismiss, StateTypes, JobsAreKnown, SaveInv, EditorState
<1>2. CASE AdoptAsks
  <2>1. ask' \in Wanderers /\ ask'.job \in Jobs /\ ask'.phase # "none"
    BY <1>2, NoCopies DEF AdoptAsks, Asked, StateTypes, EditorState, Wanderers, Idle
  <2> QED
    BY <1>2, <2>1 DEF AdoptAsks, StateTypes, JobsAreKnown, SaveInv
<1>3. CASE AskLands
  <2>1. ask.job \in Jobs
    BY <1>3 DEF AskLands, JobsAreKnown, SaveInv
  <2>2. ask' \in Wanderers /\ ask'.job \in Jobs /\ ask'.phase # "none"
    BY <1>3, <2>1 DEF AskLands, StateTypes, Wanderers
  <2> QED
    BY <1>3, <2>2 DEF AskLands, StateTypes, JobsAreKnown, SaveInv
<1>4. CASE AskFails
  <2>1. ask' \in Wanderers /\ ask'.job \in Jobs /\ ask'.phase # "none"
    BY <1>4, NoCopies DEF AskFails, StateTypes, Wanderers, JobsAreKnown, SaveInv
  <2> QED
    BY <1>4, <2>1, CountTypes DEF AskFails, StateTypes, JobsAreKnown, SaveInv
<1>5. CASE AdoptEnds
  <2>1. ask' = Idle /\ mirror' \in [Jobs -> Copies]
    BY <1>5, AdoptedTypes DEF AdoptEnds, Refreshed, StateTypes
  <2>2. CASE Theirs = Quiet
    <3>1. ed' = [ed EXCEPT !.conflict = Quiet, !.refused = FALSE]
      BY <1>5, <2>2, AdoptedTypes
    <3>2. /\ ed' \in EditorState /\ ed'.conflict = Quiet /\ ed'.job = ed.job
          /\ ed'.dirty = ed.dirty /\ ed'.timer = ed.timer
      BY <3>1, NoCopies DEF StateTypes, EditorState
    <3>3. StateTypes'
      BY <1>5, <2>1, <2>2, <3>2, NoCopies, AdoptedTypes DEF AdoptEnds, StateTypes
    <3> QED
      BY <1>5, <2>1, <3>2, <3>3 DEF AdoptEnds, JobsAreKnown, SaveInv, Idle
  <2>3. CASE Theirs # Quiet
    <3>1. Theirs.job \in Jobs /\ Theirs.copy \in Copies /\ ed' = Loaded(Theirs.job, Theirs.copy)
      BY <1>5, <2>3, AdoptedTypes
    <3>2. /\ ed' \in EditorState /\ ed'.conflict = Quiet /\ ~ed'.dirty /\ ~ed'.timer
      BY <3>1, LoadedTypes
    <3>3. /\ lib' \in [Jobs -> Copies] /\ excused' \subseteq Edits
          /\ lastWrite' \in [job : Jobs \union {NoJob}, rev : Nat]
      BY <1>5, <2>3, <3>1, AdoptedTypes DEF StateTypes, Upserted, EditorState
    <3>4. StateTypes'
      BY <1>5, <2>1, <3>2, <3>3, NoCopies DEF AdoptEnds, StateTypes
    <3> QED
      BY <1>5, <2>1, <3>2, <3>4 DEF AdoptEnds, JobsAreKnown, SaveInv, Idle
  <2> QED
    BY <2>2, <2>3
<1>6. CASE OverwriteConflict
  <2>1. unguarded' \subseteq Jobs /\ chain' \in Seq(Captured)
    <3>1. ed.job \in Jobs /\ chain \in Seq(Captured) /\ unguarded \subseteq Jobs
      BY <1>6, OverwriteTypes DEF StateTypes
    <3>2. unguarded' \subseteq Jobs
      BY <1>6, <3>1 DEF OverwriteConflict, OverwriteNext
    <3> QED
      BY <1>6, <3>1, <3>2, OverwriteTypes
  <2>2. StateTypes'
    BY <1>6, <2>1, OverwriteTypes, CountTypes DEF OverwriteConflict, StateTypes
  <2> QED
    BY <1>6, <2>2, OverwriteTypes, NoJobAssumption DEF OverwriteConflict, JobsAreKnown, SaveInv
<1> QED
  BY <1>1, <1>2, <1>3, <1>4, <1>5, <1>6 DEF Answering

LEMMA OthersTypes ==
  ASSUME SaveInv, Others
  PROVE  StateTypes' /\ JobsAreKnown'
<1> USE StateIsTyped
<1> PICK j \in Jobs : SavedElsewhere(j) \/ DeletedElsewhere(j) \/ DeleteJob(j)
  BY DEF Others
<1>1. CASE SavedElsewhere(j)
  <2>1. made.edits + 1 \in Edits /\ made' \in [{"edits", "renames", "elsewhere", "saves", "faults"} -> Nat]
    BY <1>1, CountTypes DEF SavedElsewhere
  <2>2. disk[j] \in Copies /\ stamp + 1 \in Nat
    BY DEF StateTypes
  <2>3. disk' = [disk EXCEPT ![j] = [disk[j] EXCEPT !.rev = disk[j].rev + 1, !.hash = stamp + 1,
                                     !.body = disk[j].body \union {made.edits + 1}]]
    BY <1>1 DEF SavedElsewhere, StateTypes
  <2>4. [disk[j] EXCEPT !.rev = disk[j].rev + 1, !.hash = stamp + 1,
                        !.body = disk[j].body \union {made.edits + 1}] \in Copies
    <3>1. disk[j].rev + 1 \in Nat /\ disk[j].body \union {made.edits + 1} \in SUBSET Edits
      BY <2>1, <2>2 DEF Copies
    <3> QED
      BY <2>2, <3>1 DEF Copies
  <2>5. disk' \in [Jobs -> Copies]
    BY <2>3, <2>4 DEF StateTypes
  <2> QED
    BY <1>1, <2>1, <2>2, <2>5 DEF SavedElsewhere, StateTypes, JobsAreKnown, SaveInv
<1>2. CASE DeletedElsewhere(j)
  <2>1. disk' \in [Jobs -> Copies]
    BY <1>2, NoCopies DEF DeletedElsewhere, StateTypes
  <2> QED
    BY <1>2, <2>1, CountTypes DEF DeletedElsewhere, StateTypes, JobsAreKnown, SaveInv
<1>3. CASE DeleteJob(j)
  <2>1. disk' \in [Jobs -> Copies] /\ mirror' \in [Jobs -> Copies] /\ lib' \in [Jobs -> Copies]
    BY <1>3, NoCopies DEF DeleteJob, StateTypes
  <2> QED
    BY <1>3, <2>1, CountTypes DEF DeleteJob, StateTypes, JobsAreKnown, SaveInv
<1> QED
  BY <1>1, <1>2, <1>3

LEMMA SaveInit == Init => SaveInv
<1> SUFFICES ASSUME Init PROVE SaveInv
  OBVIOUS
<1>1. StateTypes /\ JobsAreKnown
  BY NoCopies DEF Init, StateTypes, JobsAreKnown, Hydrated, Listed, Captured, Closed, Idle
<1>2. shown \in [Jobs -> SUBSET Edits] /\ behind \subseteq Jobs
  BY DEF Init
<1> QED
  BY <1>1, <1>2 DEF SaveInv, TypeOK, StateTypes, EditorState, Captured

LEMMA SaveStep == SaveInv /\ [Next]_vars => SaveInv'
<1> SUFFICES ASSUME SaveInv, [Next]_vars PROVE SaveInv'
  OBVIOUS
<1>1. CASE Next
  <2>1. StateTypes' /\ JobsAreKnown'
    BY <1>1, EditingTypes, WritingTypes, RenamingTypes, AnsweringTypes, OthersTypes DEF Next
  <2>2. shown \in [Jobs -> SUBSET Edits] /\ behind \subseteq Jobs
    BY DEF SaveInv, TypeOK
  <2>3. \A j \in Jobs : OnScreen(j)' \subseteq Edits
    BY <2>1 DEF StateTypes, OnScreen, Content, EditorState, Wanderers, Copies
  <2>4. shown' = [j \in Jobs |-> shown[j] \union OnScreen(j)']
    BY <1>1 DEF Next, Observed
  <2>5. behind' \subseteq Jobs
    BY <1>1, <2>2 DEF Next, Observed
  <2> QED
    BY <2>1, <2>2, <2>3, <2>4, <2>5 DEF SaveInv, TypeOK, StateTypes, EditorState, Captured
<1>2. CASE UNCHANGED vars
  BY <1>2 DEF vars, SaveInv, TypeOK, JobsAreKnown
<1> QED
  BY <1>1, <1>2

\* The state of the save path has its types, and a write or a question that is
\* under way is about a job of the library.
THEOREM SavesAreTyped == Spec => []SaveInv
  BY SaveInit, SaveStep, PTL DEF Spec

-----------------------------------------------------------------------------
(* No edit is forgotten.                                                   *)

CarriedInv ==
  /\ Carried
  /\ put.phase = "ok" => Content(put.copy) \subseteq landed

LEMMA AppendFacts ==
  ASSUME chain \in Seq(Captured), NEW c \in Captured
  PROVE  /\ DOMAIN Append(chain, c) = DOMAIN chain \union {Len(chain) + 1}
         /\ Append(chain, c)[Len(chain) + 1] = c
         /\ \A i \in DOMAIN chain : Append(chain, c)[i] = chain[i] /\ i < Len(chain) + 1
  OBVIOUS

LEMMA TailFacts ==
  ASSUME chain \in Seq(Captured), chain # <<>>
  PROVE  /\ Head(chain) \in Captured /\ Head(chain) = chain[1] /\ 1 \in DOMAIN chain
         /\ Tail(chain) \in Seq(Captured)
         /\ \A i \in DOMAIN Tail(chain) : /\ i + 1 \in DOMAIN chain /\ i + 1 > 1
                                          /\ Tail(chain)[i] = chain[i + 1]
         /\ \A i \in DOMAIN chain : i # 1 => /\ i - 1 \in DOMAIN Tail(chain)
                                             /\ Tail(chain)[i - 1] = chain[i]
  OBVIOUS

\* The write the chain goes on to is the first of it, with the revision known now.
LEMMA StartFacts ==
  ASSUME SaveInv, StartWrite
  PROVE  /\ put'.phase = "sent" /\ put'.job = Head(chain).job
         /\ put'.copy.body = Head(chain).copy.body /\ put'.copy.meta = Head(chain).copy.meta
         /\ put'.base = mirror[Head(chain).job].hash
         /\ put'.guarded = (backend = "workspace" /\ Head(chain).job \notin unguarded)
<1>1. Head(chain) \in Captured
  BY StateIsTyped, TailFacts DEF StartWrite, StateTypes
<1>2. PICK n, theirs : put' = Request(Head(chain).job, [Head(chain).copy EXCEPT !.rev = n], theirs)
  BY Zenon DEF StartWrite
<1>3. /\ [Head(chain).copy EXCEPT !.rev = n].body = Head(chain).copy.body
      /\ [Head(chain).copy EXCEPT !.rev = n].meta = Head(chain).copy.meta
  BY <1>1 DEF Captured, Copies
<1> QED
  BY <1>2, <1>3 DEF Request

\* What a flush leaves of the chain: all that was in it, and what is dirty on the canvas.
LEMMA FlushCarries ==
  ASSUME SaveInv, NEW e, chain' = Flushed(ed)
  PROVE  /\ (\E i \in DOMAIN chain : e \in chain[i].copy.body)
              => \E i \in DOMAIN chain' : e \in chain'[i].copy.body
         /\ ed.dirty /\ e \in ed.body => \E i \in DOMAIN chain' : e \in chain'[i].copy.body
<1>1. chain \in Seq(Captured) /\ ed \in EditorState
  BY StateIsTyped DEF StateTypes
<1>2. CASE ed.job # NoJob /\ ed.dirty
  <2>1. chain' = Append(chain, Capture(ed))
    BY <1>2 DEF Flushed
  <2>2. Capture(ed) \in Captured /\ Capture(ed).copy.body = ed.body
    BY <1>1, <1>2 DEF Capture, Captured, EditorState, Copies
  <2> QED
    BY <1>1, <2>1, <2>2, AppendFacts
<1>3. CASE ~(ed.job # NoJob /\ ed.dirty)
  BY <1>3 DEF Flushed, SaveInv, JobsAreKnown
<1> QED
  BY <1>2, <1>3

LEMMA CarriedInit == Init => CarriedInv
  BY DEF Init, CarriedInv, Carried, Idle

LEMMA CarriedEditing ==
  ASSUME SaveInv, CarriedInv, Editing
  PROVE  CarriedInv'
<1>1. CASE Edit
  <2>1. ed \in EditorState
    BY StateIsTyped DEF StateTypes
  <2>2. ed'.body = ed.body \union {made.edits + 1} /\ ed'.dirty /\ ed'.timer
    BY <1>1, <2>1 DEF Edit, EditorState
  <2> QED
    BY <1>1, <2>2 DEF Edit, CarriedInv, Carried, OnItsWay
<1>2. CASE TimerFires \/ SaveByHand \/ Close \/ \E j \in Jobs : Open(j)
  <2>1. /\ chain' = Flushed(ed)
        /\ put' = put /\ landed' = landed /\ excused' = excused /\ typed' = typed
    BY <1>2 DEF TimerFires, SaveByHand, Close, Open
  <2>2. SUFFICES ASSUME NEW e \in typed, OnItsWay(e) PROVE OnItsWay(e)'
    BY <2>1 DEF CarriedInv, Carried
  <2>3. CASE e \in ed.body /\ ed.dirty
    BY <2>1, <2>3, FlushCarries DEF OnItsWay
  <2>4. CASE \E i \in DOMAIN chain : e \in chain[i].copy.body
    BY <2>1, <2>4, FlushCarries DEF OnItsWay
  <2>5. CASE put.phase # "none" /\ e \in put.copy.body
    BY <2>1, <2>5 DEF OnItsWay
  <2> QED
    BY <2>2, <2>3, <2>4, <2>5 DEF OnItsWay
<1> QED
  BY <1>1, <1>2 DEF Editing

LEMMA CarriedWriting ==
  ASSUME SaveInv, CarriedInv, Writing
  PROVE  CarriedInv'
<1> USE StateIsTyped
<1>0. put \in Wanderers /\ chain \in Seq(Captured) /\ ed \in EditorState
  BY DEF StateTypes
<1>1. CASE StartWrite
  <2>1. /\ put.phase = "none" /\ chain # <<>> /\ chain' = Tail(chain) /\ ed' = ed
        /\ landed' = landed /\ excused' = excused /\ typed' = typed
    BY <1>1 DEF StartWrite
  <2>2. put'.phase = "sent" /\ put'.copy.body = Head(chain).copy.body
    BY <1>1, StartFacts
  <2>3. SUFFICES ASSUME NEW e \in typed, OnItsWay(e) PROVE OnItsWay(e)'
    BY <2>1, <2>2 DEF CarriedInv, Carried
  <2>4. CASE \E i \in DOMAIN chain : e \in chain[i].copy.body
    <3>1. PICK i \in DOMAIN chain : e \in chain[i].copy.body
      BY <2>4
    <3>2. CASE i = 1
      BY <1>0, <2>1, <2>2, <3>1, <3>2, TailFacts DEF OnItsWay
    <3>3. CASE i # 1
      <4>1. i - 1 \in DOMAIN chain' /\ chain'[i - 1] = chain[i]
        BY <1>0, <2>1, <3>3, TailFacts
      <4> QED
        BY <3>1, <4>1 DEF OnItsWay
    <3> QED
      BY <3>2, <3>3
  <2> QED
    BY <2>1, <2>3, <2>4 DEF OnItsWay
<1>2. CASE PutLands
  <2>1. put'.phase # "none" /\ put'.copy.body = put.copy.body /\ put'.copy.meta = put.copy.meta
    BY <1>0, <1>2 DEF PutLands, Answered, Wanderers, Copies
  <2>2. landed \subseteq landed' /\ (put'.phase = "ok" => Content(put.copy) \subseteq landed')
    BY <1>0, <1>2 DEF PutLands, Answered, Lands, Wanderers
  <2>3. put'.phase = "ok" => Content(put'.copy) \subseteq landed'
    BY <2>1, <2>2 DEF Content
  <2>4. ed' = ed /\ chain' = chain /\ excused' = excused /\ typed' = typed /\ put.phase = "sent"
    BY <1>2 DEF PutLands
  <2>5. ASSUME NEW e \in typed, OnItsWay(e) PROVE OnItsWay(e)'
    BY <2>1, <2>4, <2>5 DEF OnItsWay
  <2> QED
    BY <2>2, <2>3, <2>4, <2>5 DEF CarriedInv, Carried
<1>3. CASE PutFails
  <2>1. /\ put'.phase = "failed" /\ put'.copy = put.copy /\ put.phase # "none"
        /\ ed' = ed /\ chain' = chain /\ excused' = excused /\ typed' = typed /\ landed' = landed
    BY <1>0, <1>3 DEF PutFails, Wanderers
  <2>2. ASSUME NEW e \in typed, OnItsWay(e) PROVE OnItsWay(e)'
    BY <2>1, <2>2 DEF OnItsWay
  <2> QED
    BY <2>1, <2>2 DEF CarriedInv, Carried
<1>4. CASE PutSucceeds
  <2>1. /\ put.phase = "ok" /\ put' = Idle /\ chain' = chain /\ excused' = excused
        /\ typed' = typed /\ landed' = landed
    BY <1>4 DEF PutSucceeds
  <2>2. put.copy.body \subseteq landed
    BY <2>1 DEF CarriedInv, Content
  <2>3. \/ ed' = ed
        \/ ed'.body = ed.body /\ ed'.timer = ed.timer
           /\ (ed'.dirty \/ ~ed.dirty \/ ed.body = put.copy.body)
    <3>1. CASE ed.job = put.job
      <4>1. \E rev, meta, dirty, conflict :
               /\ ed' = [ed EXCEPT !.rev = rev, !.meta = meta, !.dirty = dirty, !.conflict = conflict]
               /\ dirty \/ ~ed.dirty \/ Settled(put)
        BY <1>4, <3>1, Zenon DEF PutSucceeds
      <4> QED
        BY <1>0, <4>1 DEF Settled, EditorState
    <3>2. CASE ed.job # put.job
      BY <1>4, <3>2 DEF PutSucceeds
    <3> QED
      BY <3>1, <3>2
  <2>4. ASSUME NEW e \in typed, OnItsWay(e) PROVE OnItsWay(e)' \/ e \in landed
    BY <2>1, <2>2, <2>3, <2>4 DEF OnItsWay
  <2>5. Idle.phase = "none"
    BY DEF Idle
  <2> QED
    BY <2>1, <2>4, <2>5 DEF CarriedInv, Carried
<1>5. CASE PutIsRefused \/ PutIsLost
  <2>1. /\ put' = Idle /\ chain' = chain /\ excused' = excused \union put.copy.body
        /\ typed' = typed /\ landed' = landed /\ Idle.phase = "none"
    BY <1>5 DEF PutIsRefused, PutIsLost, Idle
  <2>2. ed'.body = ed.body /\ ed'.timer = ed.timer /\ ed'.dirty = ed.dirty
    <3>1. CASE PutIsLost
      BY <3>1 DEF PutIsLost
    <3>2. CASE PutIsRefused
      <4>1. \E conflict : ed' = [ed EXCEPT !.refused = TRUE, !.conflict = conflict]
        BY <3>2, Zenon DEF PutIsRefused
      <4> QED
        BY <1>0, <4>1 DEF EditorState
    <3> QED
      BY <1>5, <3>1, <3>2
  <2>3. ASSUME NEW e \in typed, OnItsWay(e) PROVE OnItsWay(e)' \/ e \in excused'
    BY <2>1, <2>2, <2>3 DEF OnItsWay
  <2> QED
    BY <2>1, <2>3 DEF CarriedInv, Carried
<1> QED
  BY <1>1, <1>2, <1>3, <1>4, <1>5 DEF Writing

LEMMA CarriedElse ==
  ASSUME SaveInv, CarriedInv, Renaming \/ Answering \/ Others
  PROVE  CarriedInv'
<1> USE StateIsTyped
<1>0. put \in Wanderers /\ chain \in Seq(Captured) /\ ed \in EditorState
  BY DEF StateTypes
<1>1. CASE AdoptEnds
  <2>1. put' = put /\ landed' = landed /\ typed' = typed /\ chain' = chain
    BY <1>1 DEF AdoptEnds
  <2>2. CASE Theirs = Quiet
    <3>1. /\ ed'.body = ed.body /\ ed'.timer = ed.timer /\ ed'.dirty = ed.dirty
          /\ excused' = excused
      BY <1>0, <1>1, <2>2, AdoptedTypes DEF EditorState
    <3> QED
      BY <2>1, <3>1 DEF CarriedInv, Carried, OnItsWay
  <2>3. CASE Theirs # Quiet
    <3>1. excused' = excused \union ed.body
      BY <1>1, <2>3, AdoptedTypes
    <3> QED
      BY <2>1, <3>1 DEF CarriedInv, Carried, OnItsWay
  <2> QED
    BY <2>2, <2>3
<1>2. CASE OverwriteConflict
  <2>1. /\ ed'.body = ed.body /\ ed'.timer = ed.timer /\ ed'.dirty
        /\ chain' = Append(chain, Capture(ed')) /\ Capture(ed') \in Captured
        /\ put' = put /\ landed' = landed /\ typed' = typed /\ excused' = excused
    BY <1>2, OverwriteTypes DEF OverwriteConflict
  <2>2. \A e : (\E i \in DOMAIN chain : e \in chain[i].copy.body)
                 => \E i \in DOMAIN chain' : e \in chain'[i].copy.body
    BY <1>0, <2>1, AppendFacts
  <2>3. ASSUME NEW e \in typed, OnItsWay(e) PROVE OnItsWay(e)'
    BY <2>1, <2>2, <2>3 DEF OnItsWay
  <2> QED
    BY <2>1, <2>3 DEF CarriedInv, Carried
<1>3. CASE Dismiss
  <2>1. ed'.body = ed.body /\ ed'.timer = ed.timer /\ ed'.dirty = ed.dirty
    BY <1>0, <1>3 DEF Dismiss, EditorState
  <2> QED
    BY <1>3, <2>1 DEF Dismiss, CarriedInv, Carried, OnItsWay
<1>4. CASE \E j \in Jobs : Rename(j)
  <2> PICK j \in Jobs : Rename(j)
    BY <1>4
  <2>1. ed'.body = ed.body /\ ed'.timer = ed.timer /\ ed'.dirty = ed.dirty
    BY <1>0 DEF Rename, NamedInEditor, EditorState
  <2> QED
    BY <2>1 DEF Rename, CarriedInv, Carried, OnItsWay
<1>5. CASE SideLands
  <2>1. landed \subseteq landed'
    BY <1>5 DEF SideLands, Lands
  <2> QED
    BY <1>5, <2>1 DEF SideLands, CarriedInv, Carried, OnItsWay
<1>6. CASE SideFails \/ SideEnds \/ AdoptAsks \/ AskLands \/ AskFails \/ Others
  <2>1. UNCHANGED <<ed, chain, put, typed, landed, excused>>
    BY <1>6 DEF SideFails, SideEnds, AdoptAsks, AskLands, AskFails, Others, SavedElsewhere,
                DeletedElsewhere, DeleteJob
  <2> QED
    BY <2>1 DEF CarriedInv, Carried, OnItsWay
<1> QED
  BY <1>1, <1>2, <1>3, <1>4, <1>5, <1>6 DEF Renaming, Answering

LEMMA CarriedStep == SaveInv /\ CarriedInv /\ [Next]_vars => CarriedInv'
<1>1. ASSUME SaveInv, CarriedInv, UNCHANGED vars PROVE CarriedInv'
  BY <1>1 DEF vars, CarriedInv, Carried, OnItsWay
<1> QED
  BY <1>1, CarriedEditing, CarriedWriting, CarriedElse DEF Next

\* No edit is forgotten on its way to the store, however saves, renames, conflicts,
\* closing and opening interleave: the first part of EditsAreCarried.
THEOREM NothingIsForgotten == Spec => []Carried
<1>1. CarriedInv => Carried
  BY DEF CarriedInv
<1> QED
  BY <1>1, SaveInit, SaveStep, CarriedInit, CarriedStep, PTL DEF Spec

-----------------------------------------------------------------------------
(* What a revision tells: a hash is given to one write, so a copy that     *)
(* carries the hash of the record on disk is that record.                  *)

Known(j, copy) ==
  /\ copy.hash <= stamp
  /\ copy.hash = 0 => copy = Absent
  /\ disk[j].hash = copy.hash => disk[j] = copy

HashInv ==
  /\ \A j \in Jobs : Known(j, disk[j]) /\ Known(j, mirror[j])
  /\ \A write \in {put, side} :
       /\ write.phase = "sent" => write.base <= stamp
       /\ write.phase = "ok" => Known(write.job, write.copy) /\ write.copy.hash # 0
  /\ ask.phase # "none" => Known(ask.job, ask.copy)

Moving == Editing \/ Writing \/ Renaming \/ Answering \/ Others

\* Nothing but these five writes the disk.
LEMMA DiskStays ==
  ASSUME Moving, ~PutLands, ~SideLands, ~Others
  PROVE  disk' = disk /\ stamp' = stamp
  BY DEF Moving, Editing, Writing, Renaming, Answering, Edit, TimerFires, SaveByHand, Close, Open,
         StartWrite, PutFails, PutSucceeds, PutIsRefused, PutIsLost, Rename, SideFails, SideEnds,
         Dismiss, AdoptAsks, AskLands, AskFails, AdoptEnds, OverwriteConflict

LEMMA LandingMoves ==
  ASSUME SaveInv, NEW r \in Wanderers, r.job \in Jobs, r.phase # "none", Lands(r), NEW j \in Jobs
  PROVE  /\ stamp <= stamp'
         /\ \/ disk'[j] = disk[j]
            \/ /\ ~Refuses(r) /\ r.job = j /\ stamp' = stamp + 1
               /\ disk'[j] = [r.copy EXCEPT !.hash = stamp + 1]
               /\ disk'[j].hash = stamp + 1
               /\ disk'[j].body = r.copy.body /\ disk'[j].meta = r.copy.meta
<1>1. r.copy \in Copies /\ disk \in [Jobs -> Copies] /\ stamp \in Nat
  BY StateIsTyped DEF StateTypes, Wanderers
<1>2. /\ [r.copy EXCEPT !.hash = stamp + 1].hash = stamp + 1
      /\ [r.copy EXCEPT !.hash = stamp + 1].body = r.copy.body
      /\ [r.copy EXCEPT !.hash = stamp + 1].meta = r.copy.meta
  BY <1>1 DEF Copies
<1>3. CASE Refuses(r)
  BY <1>1, <1>3 DEF Lands
<1>4. CASE ~Refuses(r)
  <2> DEFINE copy == [r.copy EXCEPT !.hash = stamp + 1]
  <2>1. disk' = [disk EXCEPT ![r.job] = copy] /\ stamp' = stamp + 1
    BY <1>4, Zenon DEF Lands
  <2>2. copy.hash = stamp + 1 /\ copy.body = r.copy.body /\ copy.meta = r.copy.meta
    BY <1>2
  <2> HIDE DEF copy
  <2>3. /\ stamp <= stamp'
        /\ disk'[j] = disk[j] \/ (r.job = j /\ disk'[j] = copy)
    BY <1>1, <2>1
  <2> QED
    BY <1>4, <2>1, <2>2, <2>3 DEF copy
<1> QED
  BY <1>3, <1>4

\* A step leaves the record of a job alone, removes it, or gives it a hash of its own.
LEMMA DiskMoves ==
  ASSUME SaveInv, Moving, NEW j \in Jobs
  PROVE  /\ stamp <= stamp'
         /\ \/ disk'[j] = disk[j]
            \/ disk'[j] = Absent
            \/ disk'[j].hash = stamp + 1 /\ stamp' = stamp + 1
<1> USE StateIsTyped
<1>1. stamp \in Nat /\ put \in Wanderers /\ side \in Wanderers /\ disk \in [Jobs -> Copies]
  BY DEF StateTypes
<1>2. CASE ~PutLands /\ ~SideLands /\ ~Others
  BY <1>1, <1>2, DiskStays
<1>3. CASE PutLands
  <2>1. put.job \in Jobs /\ put.phase # "none" /\ Lands(put)
    BY <1>3 DEF PutLands, SaveInv, JobsAreKnown
  <2> QED
    BY <1>1, <2>1, LandingMoves
<1>4. CASE SideLands
  <2>1. side.job \in Jobs /\ side.phase # "none" /\ Lands(side)
    BY <1>4 DEF SideLands, SaveInv, JobsAreKnown
  <2> QED
    BY <1>1, <2>1, LandingMoves
<1>5. CASE Others
  <2> PICK k \in Jobs : SavedElsewhere(k) \/ DeletedElsewhere(k) \/ DeleteJob(k)
    BY <1>5 DEF Others
  <2>1. CASE SavedElsewhere(k)
    <3>1. stamp' = stamp + 1 /\ disk[k] \in Copies
      BY <1>1, <2>1 DEF SavedElsewhere
    <3>2. k # j => disk'[j] = disk[j]
      BY <1>1, <2>1 DEF SavedElsewhere
    <3>3. disk'[k].hash = stamp + 1
      BY <1>1, <2>1, <3>1 DEF SavedElsewhere, Copies
    <3> QED
      BY <1>1, <3>1, <3>2, <3>3
  <2>2. CASE DeletedElsewhere(k) \/ DeleteJob(k)
    BY <1>1, <2>2 DEF DeletedElsewhere, DeleteJob
  <2> QED
    BY <2>1, <2>2
<1> QED
  BY <1>2, <1>3, <1>4, <1>5

\* A copy that is known stays so.
LEMMA KnownStays ==
  ASSUME SaveInv, HashInv, Moving, NEW j \in Jobs, NEW copy \in Copies, Known(j, copy)
  PROVE  /\ copy.hash <= stamp'
         /\ disk'[j].hash = copy.hash => disk'[j] = copy
<1>1. stamp \in Nat /\ stamp' \in Nat /\ copy.hash \in Nat
  <2>1. StateTypes /\ StateTypes'
    BY StateIsTyped, EditingTypes, WritingTypes, RenamingTypes, AnsweringTypes, OthersTypes DEF Moving
  <2> QED
    BY <2>1 DEF StateTypes, Copies
<1>2. Absent.hash = 0
  BY DEF Absent
<1> QED
  BY <1>1, <1>2, DiskMoves DEF Known

LEMMA HashInit == Init => HashInv
  BY DEF Init, HashInv, Known, Hydrated, Seeded, Absent, Idle

\* What the mirror holds after a step: what it held, what was written or read, or nothing.
LEMMA MirrorMoves ==
  ASSUME SaveInv, Moving, NEW j \in Jobs
  PROVE  \/ mirror'[j] = mirror[j]
         \/ mirror'[j] = Absent
         \/ PutSucceeds /\ put.job = j /\ put.phase = "ok" /\ mirror'[j] = put.copy
         \/ SideEnds /\ side.job = j /\ side.phase = "ok" /\ mirror'[j] = side.copy
         \/ AdoptEnds /\ ask.job = j /\ ask.phase = "ok" /\ mirror'[j] = ask.copy
<1>1. mirror \in [Jobs -> Copies]
  BY StateIsTyped DEF StateTypes
<1>2. CASE PutSucceeds
  BY <1>1, <1>2 DEF PutSucceeds, Mirrored
<1>3. CASE SideEnds
  BY <1>1, <1>3 DEF SideEnds, Mirrored
<1>4. CASE AdoptEnds
  BY <1>1, <1>4 DEF AdoptEnds, Refreshed
<1>5. CASE Others
  BY <1>1, <1>5 DEF Others, SavedElsewhere, DeletedElsewhere, DeleteJob
<1>6. CASE ~(PutSucceeds \/ SideEnds \/ AdoptEnds \/ Others)
  BY <1>6 DEF Moving, Editing, Writing, Renaming, Answering, Edit, TimerFires, SaveByHand, Close,
         Open, StartWrite, PutLands, PutFails, PutIsRefused, PutIsLost, Rename, SideLands,
         SideFails, Dismiss, AdoptAsks, AskLands, AskFails, OverwriteConflict
<1> QED
  BY <1>2, <1>3, <1>4, <1>5, <1>6

\* What a write or a question under way may become in a step.
LEMMA PutMoves ==
  ASSUME SaveInv, Moving
  PROVE  \/ put' = put
         \/ put' = Idle
         \/ StartWrite
         \/ PutLands /\ put' = Answered(put) /\ put.phase = "sent" /\ Lands(put)
         \/ PutFails /\ put'.phase = "failed" /\ put'.job = put.job /\ put'.copy = put.copy
            /\ put.phase # "none"
<1>1. put \in Wanderers
  BY StateIsTyped DEF StateTypes
<1>2. CASE PutFails
  BY <1>1, <1>2 DEF PutFails, Wanderers
<1>3. CASE ~PutFails
  BY <1>3 DEF Moving, Editing, Writing, Renaming, Answering, Others, Edit, TimerFires, SaveByHand,
         Close, Open, PutLands, PutSucceeds, PutIsRefused, PutIsLost, Rename, SideLands,
         SideFails, SideEnds, Dismiss, AdoptAsks, AskLands, AskFails, AdoptEnds, OverwriteConflict,
         SavedElsewhere, DeletedElsewhere, DeleteJob
<1> QED
  BY <1>2, <1>3

LEMMA SideMoves ==
  ASSUME SaveInv, Moving
  PROVE  \/ side' = side
         \/ side' = Idle /\ SideEnds
         \/ \E j \in Jobs : Rename(j)
         \/ SideLands /\ side' = Answered(side) /\ side.phase = "sent" /\ Lands(side)
         \/ SideFails /\ side'.phase = "failed" /\ side'.job = side.job /\ side'.copy = side.copy
            /\ side.phase # "none"
<1>1. side \in Wanderers
  BY StateIsTyped DEF StateTypes
<1>2. CASE SideFails
  BY <1>1, <1>2 DEF SideFails, Wanderers
<1>3. CASE ~SideFails
  BY <1>3 DEF Moving, Editing, Writing, Renaming, Answering, Others, Edit, TimerFires, SaveByHand,
         Close, Open, StartWrite, PutLands, PutFails, PutSucceeds, PutIsRefused, PutIsLost,
         SideLands, SideEnds, Dismiss, AdoptAsks, AskLands, AskFails, AdoptEnds,
         OverwriteConflict, SavedElsewhere, DeletedElsewhere, DeleteJob
<1> QED
  BY <1>2, <1>3

\* A request that has landed knows the copy it left; one refused is not answered "ok".
LEMMA AnsweredKnows ==
  ASSUME SaveInv, NEW r \in Wanderers, r.job \in Jobs, r.phase = "sent", Lands(r)
  PROVE  /\ Answered(r).job = r.job /\ Answered(r).phase \in {"ok", "refused"}
         /\ Answered(r).copy.body = r.copy.body /\ Answered(r).copy.meta = r.copy.meta
         /\ Answered(r).guarded = r.guarded
         /\ Answered(r).phase = "ok" =>
              /\ ~Refuses(r) /\ Answered(r).copy = disk'[r.job]
              /\ Answered(r).copy.hash = stamp + 1 /\ stamp' = stamp + 1
<1>1. r.copy \in Copies /\ disk \in [Jobs -> Copies] /\ stamp \in Nat
  BY StateIsTyped DEF StateTypes, Wanderers
<1>2. CASE Refuses(r)
  BY <1>1, <1>2 DEF Answered, Wanderers
<1>3. CASE ~Refuses(r)
  <2> DEFINE copy == [r.copy EXCEPT !.hash = stamp + 1]
  <2>1. copy.hash = stamp + 1 /\ copy.body = r.copy.body /\ copy.meta = r.copy.meta
    BY <1>1 DEF Copies
  <2>2. Answered(r) = [r EXCEPT !.phase = "ok", !.copy = copy]
    BY <1>1, <1>3 DEF Answered, Wanderers, Copies
  <2>3. disk'[r.job] = copy /\ stamp' = stamp + 1
    BY <1>1, <1>3 DEF Lands
  <2> HIDE DEF copy
  <2> QED
    BY <1>3, <2>1, <2>2, <2>3 DEF Wanderers
<1> QED
  BY <1>2, <1>3

LEMMA HashStep ==
  ASSUME SaveInv, HashInv, Moving
  PROVE  HashInv'
<1>0. /\ StateTypes /\ StateTypes' /\ Absent.hash = 0 /\ Absent \in Copies
      /\ Idle.phase = "none"
  BY StateIsTyped, EditingTypes, WritingTypes, RenamingTypes, AnsweringTypes, OthersTypes, NoCopies
  DEF Moving, Absent, Idle
<1>1. ASSUME NEW j \in Jobs PROVE Known(j, disk[j])'
  <2>1. disk[j] \in Copies /\ Known(j, disk[j]) /\ stamp \in Nat /\ stamp' \in Nat
    BY <1>0 DEF StateTypes, HashInv
  <2>2. CASE disk'[j] = disk[j]
    BY <2>1, <2>2, KnownStays DEF Known
  <2>3. CASE disk'[j] # disk[j]
    BY <1>0, <2>1, <2>3, DiskMoves DEF Known
  <2> QED
    BY <2>2, <2>3
<1>2. ASSUME NEW j \in Jobs, NEW copy \in Copies, Known(j, copy)
      PROVE  copy.hash <= stamp' /\ (copy.hash = 0 => copy = Absent)
             /\ (disk'[j].hash = copy.hash => disk'[j] = copy)
  BY <1>2, KnownStays DEF Known
<1>3. ASSUME NEW j \in Jobs PROVE Known(j, mirror[j])'
  <2>1. mirror'[j] \in Copies
    BY <1>0 DEF StateTypes
  <2>2. CASE mirror'[j] = Absent
    BY <1>0, <1>1, <2>2 DEF Known, StateTypes
  <2>3. CASE mirror'[j] # Absent
    <3>1. Known(j, mirror'[j])
      BY <2>3, MirrorMoves DEF HashInv
    <3> QED
      BY <1>2, <2>1, <3>1 DEF Known
  <2> QED
    BY <2>2, <2>3
<1>4. stamp <= stamp' /\ stamp \in Nat /\ stamp' \in Nat
  <2>1. CASE Jobs = {}
    BY <1>0, <2>1, DiskStays DEF StateTypes, Others, PutLands, SideLands, SaveInv, JobsAreKnown
  <2>2. CASE Jobs # {}
    BY <1>0, <2>2, DiskMoves DEF StateTypes
  <2> QED
    BY <2>1, <2>2
<1>5. ASSUME put'.phase = "sent" PROVE put'.base <= stamp'
  <2>1. CASE put' = put
    <3>1. put.base \in Nat /\ put.base <= stamp /\ put'.base = put.base
      BY <1>0, <1>5, <2>1 DEF HashInv, StateTypes, Wanderers
    <3> QED
      BY <1>4, <3>1
  <2>2. CASE StartWrite
    <3>1. put'.base = mirror[Head(chain).job].hash /\ Head(chain).job \in Jobs
      BY <1>0, <2>2, StartFacts, TailFacts DEF StartWrite, StateTypes, Captured
    <3> QED
      <4>1. mirror[Head(chain).job].hash \in Nat /\ mirror[Head(chain).job].hash <= stamp
        BY <1>0, <3>1 DEF HashInv, Known, StateTypes, Copies
      <4> QED
        BY <1>4, <3>1, <4>1
  <2> QED
    BY <1>0, <1>5, <2>1, <2>2, PutMoves, AnsweredKnows DEF SaveInv, JobsAreKnown, StateTypes
<1>6. ASSUME put'.phase = "ok" PROVE Known(put.job, put.copy)' /\ put'.copy.hash # 0
  <2>1. CASE put' = put
    <3>1. put.copy \in Copies /\ put.job \in Jobs /\ Known(put.job, put.copy) /\ put.copy.hash # 0
      BY <1>0, <1>6, <2>1 DEF HashInv, StateTypes, Wanderers, SaveInv, JobsAreKnown
    <3> QED
      BY <1>2, <2>1, <3>1 DEF Known
  <2>2. CASE PutLands /\ put' = Answered(put) /\ put.phase = "sent" /\ Lands(put)
    <3>1. put.job \in Jobs /\ put \in Wanderers
      BY <1>0, <2>2 DEF StateTypes, SaveInv, JobsAreKnown
    <3>2. put'.job = put.job /\ put'.copy = disk'[put.job] /\ put'.copy.hash = stamp + 1
          /\ stamp' = stamp + 1
      BY <1>6, <2>2, <3>1, AnsweredKnows
    <3> QED
      BY <1>4, <3>2 DEF Known
  <2> QED
    BY <1>0, <1>6, <2>1, <2>2, PutMoves, StartFacts
<1>7. ASSUME side'.phase = "sent" PROVE side'.base <= stamp'
  <2>1. CASE side' = side
    <3>1. side.base \in Nat /\ side.base <= stamp /\ side'.base = side.base
      BY <1>0, <1>7, <2>1 DEF HashInv, StateTypes, Wanderers
    <3> QED
      BY <1>4, <3>1
  <2>2. CASE \E j \in Jobs : Rename(j)
    <3> PICK j \in Jobs : Rename(j)
      BY <2>2
    <3>1. side'.base = mirror[j].hash
      BY DEF Rename, Request
    <3> QED
      <4>1. mirror[j].hash \in Nat /\ mirror[j].hash <= stamp
        BY <1>0 DEF HashInv, Known, StateTypes, Copies
      <4> QED
        BY <1>4, <3>1, <4>1
  <2> QED
    BY <1>0, <1>7, <2>1, <2>2, SideMoves, AnsweredKnows DEF SaveInv, JobsAreKnown, StateTypes
<1>8. ASSUME side'.phase = "ok" PROVE Known(side.job, side.copy)' /\ side'.copy.hash # 0
  <2>1. CASE side' = side
    <3>1. /\ side.copy \in Copies /\ side.job \in Jobs /\ Known(side.job, side.copy)
          /\ side.copy.hash # 0
      BY <1>0, <1>8, <2>1 DEF HashInv, StateTypes, Wanderers, SaveInv, JobsAreKnown
    <3> QED
      BY <1>2, <2>1, <3>1 DEF Known
  <2>2. CASE SideLands /\ side' = Answered(side) /\ side.phase = "sent" /\ Lands(side)
    <3>1. side.job \in Jobs /\ side \in Wanderers
      BY <1>0, <2>2 DEF StateTypes, SaveInv, JobsAreKnown
    <3>2. side'.job = side.job /\ side'.copy = disk'[side.job] /\ side'.copy.hash = stamp + 1
          /\ stamp' = stamp + 1
      BY <1>8, <2>2, <3>1, AnsweredKnows
    <3> QED
      BY <1>4, <3>2 DEF Known
  <2>3. CASE \E j \in Jobs : Rename(j)
    BY <1>8, <2>3 DEF Rename, Request
  <2> QED
    BY <1>0, <1>8, <2>1, <2>2, <2>3, SideMoves
<1>9. ASSUME ask'.phase # "none" PROVE Known(ask.job, ask.copy)'
  <2>1. ask' \in Wanderers /\ ask'.job \in Jobs
    BY <1>0, <1>9, EditingTypes, WritingTypes, RenamingTypes, AnsweringTypes, OthersTypes
    DEF StateTypes, JobsAreKnown, Moving
  <2>2. CASE ask'.copy = Absent
    BY <1>0, <1>1, <2>1, <2>2, SMTT(30) DEF Known, StateTypes
  <2>3. CASE ask'.copy # Absent
    <3>1. ask'.copy \in Copies
      BY <2>1 DEF Wanderers
    <3>2. Known(ask'.job, ask'.copy)
      <4>1. CASE ask' = ask
        BY <1>9, <4>1 DEF HashInv
      <4>2. CASE AskLands
        BY <1>0, <2>1, <4>2 DEF AskLands, HashInv, StateTypes, Wanderers
      <4>3. CASE AdoptAsks \/ AskFails
        BY <1>0, <2>3, <4>3, NoCopies DEF AdoptAsks, AskFails, StateTypes, Wanderers, Idle
      <4>4. CASE AdoptEnds
        BY <1>0, <1>9, <4>4 DEF AdoptEnds
      <4>5. CASE ~(AskLands \/ AdoptAsks \/ AskFails \/ AdoptEnds)
        BY <4>1, <4>5 DEF Moving, Editing, Writing, Renaming, Answering, Others, Edit, TimerFires,
           SaveByHand, Close, Open, StartWrite, PutLands, PutFails, PutSucceeds, PutIsRefused,
           PutIsLost, Rename, SideLands, SideFails, SideEnds, Dismiss, OverwriteConflict,
           SavedElsewhere, DeletedElsewhere, DeleteJob
      <4> QED
        BY <4>2, <4>3, <4>4, <4>5
    <3> QED
      BY <1>2, <2>1, <3>1, <3>2 DEF Known
  <2> QED
    BY <2>2, <2>3
<1> QED
  BY <1>1, <1>3, <1>5, <1>6, <1>7, <1>8, <1>9 DEF HashInv

-----------------------------------------------------------------------------
(* The promise of SharedRecord.                                            *)

\* All that this tab has or is about to write has been on screen, and so has what a
\* guarded write under way would replace.
SeenInv ==
  /\ \A j \in Jobs : OnScreen(j) \subseteq shown[j] /\ Content(mirror[j]) \subseteq shown[j]
  /\ \A i \in DOMAIN chain : Content(chain[i].copy) \subseteq shown[chain[i].job]
  /\ \A write \in {put, side} :
       write.phase # "none" =>
         /\ Content(write.copy) \subseteq shown[write.job]
         /\ write.phase = "sent" /\ write.guarded /\ disk[write.job].hash = write.base
              => Content(disk[write.job]) \subseteq shown[write.job]

\* What the chain holds after a step: what it held, or what is on the canvas.
LEMMA ChainMoves ==
  ASSUME SaveInv, Moving, NEW i \in DOMAIN chain'
  PROVE  \/ \E k \in DOMAIN chain : chain'[i] = chain[k]
         \/ ed.job \in Jobs /\ chain'[i] = Capture(ed)
         \/ ed'.job \in Jobs /\ chain'[i] = Capture(ed')
<1> USE StateIsTyped
<1>1. chain \in Seq(Captured) /\ ed \in EditorState
  BY DEF StateTypes
<1>2. CASE TimerFires \/ SaveByHand \/ Close \/ \E j \in Jobs : Open(j)
  <2>1. chain' = Flushed(ed)
    BY <1>2 DEF TimerFires, SaveByHand, Close, Open
  <2>2. CASE ed.job # NoJob /\ ed.dirty
    <3>1. ed.job \in Jobs /\ Capture(ed) \in Captured
      BY <1>1, <2>2 DEF Capture, Captured, EditorState, Copies
    <3>2. chain' = Append(chain, Capture(ed))
      BY <2>1, <2>2 DEF Flushed
    <3> QED
      BY <1>1, <3>1, <3>2, AppendFacts
  <2>3. CASE ~(ed.job # NoJob /\ ed.dirty)
    BY <2>1, <2>3 DEF Flushed
  <2> QED
    BY <2>2, <2>3
<1>3. CASE OverwriteConflict
  BY <1>1, <1>3, OverwriteTypes, AppendFacts
<1>4. CASE StartWrite
  <2>1. chain' = Tail(chain) /\ chain # <<>>
    BY <1>4 DEF StartWrite
  <2> QED
    BY <1>1, <2>1, TailFacts
<1>5. CASE ~(\/ TimerFires \/ SaveByHand \/ Close \/ OverwriteConflict \/ StartWrite
             \/ \E j \in Jobs : Open(j))
  <2>1. chain' = chain
    BY <1>5 DEF Moving, Editing, Writing, Renaming, Answering, Others, Edit, PutLands, PutFails,
       PutSucceeds, PutIsRefused, PutIsLost, Rename, SideLands, SideFails, SideEnds, Dismiss,
       AdoptAsks, AskLands, AskFails, AdoptEnds, SavedElsewhere, DeletedElsewhere, DeleteJob
  <2> QED
    BY <2>1
<1> QED
  BY <1>2, <1>3, <1>4, <1>5

LEMMA SeenInit == Init => SeenInv
<1> SUFFICES ASSUME Init PROVE SeenInv
  OBVIOUS
<1>1. Content(Seeded) = {} /\ Idle.phase = "none" /\ Idle.job = NoJob /\ Closed.job = NoJob
  BY DEF Content, Seeded, Idle, Closed
<1>2. \A j \in Jobs : OnScreen(j) = {} /\ mirror[j] = Seeded
  BY <1>1, NoJobAssumption DEF Init, OnScreen, Hydrated
<1> QED
  BY <1>1, <1>2 DEF Init, SeenInv

\* What is on screen before or after a step has been shown after it.
LEMMA ShownFacts ==
  ASSUME SaveInv, SeenInv, Observed, NEW j \in Jobs
  PROVE  /\ shown[j] \subseteq shown'[j]
         /\ OnScreen(j) \subseteq shown'[j] /\ OnScreen(j)' \subseteq shown'[j]
  BY DEF Observed, SeenInv

LEMMA SeenStep ==
  ASSUME SaveInv, HashInv, SeenInv, Moving, Observed
  PROVE  SeenInv'
<1>0. /\ StateTypes /\ StateTypes' /\ JobsAreKnown /\ JobsAreKnown'
      /\ Absent.hash = 0 /\ Content(Absent) = {} /\ Idle.phase = "none"
  BY StateIsTyped, EditingTypes, WritingTypes, RenamingTypes, AnsweringTypes, OthersTypes
  DEF Moving, Absent, Idle, Content, SaveInv
<1>1. \A j \in Jobs : OnScreen(j)' \subseteq shown'[j] /\ shown[j] \subseteq shown'[j]
  BY ShownFacts
<1>2. ASSUME NEW j \in Jobs PROVE Content(mirror[j])' \subseteq shown'[j]
  <2>1. Content(mirror[j]) \subseteq shown[j]
    BY DEF SeenInv
  <2>2. CASE mirror'[j] = mirror[j] \/ mirror'[j] = Absent
    BY <1>0, <1>1, <2>1, <2>2 DEF Content
  <2>3. CASE \/ put.job = j /\ put.phase = "ok" /\ mirror'[j] = put.copy
             \/ side.job = j /\ side.phase = "ok" /\ mirror'[j] = side.copy
    <3>1. \E write \in {put, side} : /\ write.job = j /\ write.phase # "none"
                                     /\ mirror'[j] = write.copy
      BY <2>3
    <3> QED
      BY <1>1, <3>1 DEF SeenInv, Content
  <2>4. CASE AdoptEnds /\ ask.job = j /\ mirror'[j] = ask.copy /\ ask.copy # Absent
    <3>1. Theirs = [job |-> j, copy |-> ask.copy] /\ Theirs # Quiet
      BY <2>4, NoJobAssumption DEF Theirs, Quiet
    <3>2. ed' = Loaded(j, ask.copy) /\ ask.copy \in Copies
      BY <2>4, <3>1, AdoptedTypes
    <3>3. ed'.job = j /\ ed'.meta = ask.copy.meta /\ ed'.body = ask.copy.body
      BY <3>2, LoadedTypes
    <3>4. Content(ask.copy) \subseteq OnScreen(j)'
      BY <3>3 DEF OnScreen, Content
    <3> QED
      BY <1>1, <2>4, <3>4 DEF Content
  <2> QED
    BY <1>0, <2>2, <2>3, <2>4, MirrorMoves
<1>3. ASSUME NEW i \in DOMAIN chain' PROVE Content(chain[i].copy)' \subseteq shown'[chain'[i].job]
  <2>1. CASE \E k \in DOMAIN chain : chain'[i] = chain[k]
    <3> PICK k \in DOMAIN chain : chain'[i] = chain[k]
      BY <2>1
    <3>1. chain[k] \in Captured
      BY <1>0 DEF StateTypes
    <3>2. chain[k].job \in Jobs /\ Content(chain[k].copy) \subseteq shown[chain[k].job]
      BY <3>1 DEF SeenInv, Captured
    <3> QED
      BY <1>1, <3>2 DEF Content
  <2>2. CASE ed.job \in Jobs /\ chain'[i] = Capture(ed)
    <3>1. Content(Capture(ed).copy) \subseteq OnScreen(ed.job) /\ Capture(ed).job = ed.job
      BY DEF Capture, Content, OnScreen
    <3>2. OnScreen(ed.job) \subseteq shown'[ed.job]
      BY <2>2, ShownFacts
    <3> QED
      BY <2>2, <3>1, <3>2 DEF Content
  <2>3. CASE ed'.job \in Jobs /\ chain'[i] = Capture(ed')
    <3>1. Content(Capture(ed').copy) \subseteq OnScreen(ed.job)' /\ Capture(ed').job = ed'.job
      BY DEF Capture, Content, OnScreen
    <3>2. OnScreen(ed.job)' \subseteq shown'[ed'.job]
      BY <1>1, <2>3 DEF OnScreen
    <3> QED
      BY <2>3, <3>1, <3>2 DEF Content
  <2> QED
    BY <2>1, <2>2, <2>3, ChainMoves
\* A write that goes on keeps what it says, and its guard bites on any newer record.
<1>4. ASSUME NEW write \in {put, side}, write.phase # "none"
      PROVE  /\ Content(write.copy) \subseteq shown'[write.job]
             /\ write.phase = "sent" /\ write.guarded /\ disk'[write.job].hash = write.base
                  => Content(disk'[write.job]) \subseteq shown'[write.job]
  <2>1. write.job \in Jobs /\ write.base \in Nat /\ stamp \in Nat
    BY <1>0, <1>4 DEF JobsAreKnown, StateTypes, Wanderers
  <2>2. Content(write.copy) \subseteq shown'[write.job]
    BY <1>1, <1>4, <2>1 DEF SeenInv
  <2>3. ASSUME write.phase = "sent", write.guarded, disk'[write.job].hash = write.base
        PROVE  Content(disk'[write.job]) \subseteq shown'[write.job]
    <3>1. write.base # stamp + 1
      BY <2>1, <2>3 DEF HashInv
    <3>2. CASE disk'[write.job] = disk[write.job]
      <4>1. Content(disk[write.job]) \subseteq shown[write.job]
        BY <2>3, <3>2 DEF SeenInv
      <4> QED
        BY <1>1, <2>1, <3>2, <4>1
    <3>3. CASE disk'[write.job] = Absent
      BY <1>0, <3>3
    <3> QED
      BY <2>1, <2>3, <3>1, <3>2, <3>3, DiskMoves
  <2> QED
    BY <2>2, <2>3
<1>5. ASSUME NEW r \in Wanderers, r.job \in Jobs, r.phase = "sent", Lands(r), r \in {put, side},
             NEW write, write = Answered(r)
      PROVE  Content(write.copy) \subseteq shown'[write.job] /\ write.phase # "sent"
  BY <1>4, <1>5, AnsweredKnows DEF Content
<1>6. ASSUME put'.phase # "none"
      PROVE  /\ Content(put.copy)' \subseteq shown'[put'.job]
             /\ put'.phase = "sent" /\ put'.guarded /\ disk'[put'.job].hash = put'.base
                  => Content(disk'[put'.job]) \subseteq shown'[put'.job]
  <2>1. CASE put' = put
    BY <1>4, <1>6, <2>1 DEF Content
  <2>2. CASE StartWrite
    <3> DEFINE j == Head(chain).job
    <3>1. /\ chain \in Seq(Captured) /\ chain # <<>> /\ disk' = disk
          /\ chain[1] \in Captured /\ Head(chain) = chain[1] /\ 1 \in DOMAIN chain
      BY <1>0, <2>2, TailFacts DEF StartWrite, StateTypes
    <3>2. /\ put'.job = j /\ j \in Jobs /\ put'.base = mirror[j].hash
          /\ put'.copy.body = chain[1].copy.body /\ put'.copy.meta = chain[1].copy.meta
      BY <2>2, <3>1, StartFacts DEF Captured
    <3>3. Content(chain[1].copy) \subseteq shown[j] /\ shown[j] \subseteq shown'[j]
      BY <1>1, <3>1, <3>2 DEF SeenInv
    <3>4. disk[j].hash = mirror[j].hash => Content(disk[j]) \subseteq shown[j]
      BY <3>2 DEF HashInv, Known, SeenInv
    <3> QED
      BY <3>1, <3>2, <3>3, <3>4 DEF Content
  <2>3. CASE PutLands /\ put' = Answered(put) /\ put.phase = "sent" /\ Lands(put)
    <3>1. put \in Wanderers /\ put.job \in Jobs
      BY <1>0, <2>3 DEF StateTypes, JobsAreKnown
    <3> QED
      BY <1>5, <2>3, <3>1 DEF Content
  <2>4. CASE /\ put'.phase = "failed" /\ put'.job = put.job /\ put'.copy = put.copy
             /\ put.phase # "none"
    BY <1>4, <2>4 DEF Content
  <2> QED
    BY <1>0, <1>6, <2>1, <2>2, <2>3, <2>4, PutMoves
<1>7. ASSUME side'.phase # "none"
      PROVE  /\ Content(side.copy)' \subseteq shown'[side'.job]
             /\ side'.phase = "sent" /\ side'.guarded /\ disk'[side'.job].hash = side'.base
                  => Content(disk'[side'.job]) \subseteq shown'[side'.job]
  <2>1. CASE side' = side
    BY <1>4, <1>7, <2>1 DEF Content
  <2>2. CASE \E j \in Jobs : Rename(j)
    <3> PICK j \in Jobs : Rename(j)
      BY <2>2
    <3>1. side'.job = j /\ side'.base = mirror[j].hash /\ disk' = disk
      BY DEF Rename, Request
    <3>2. Content(side.copy)' \subseteq OnScreen(j)'
      BY <3>1 DEF OnScreen
    <3>3. disk[j].hash = mirror[j].hash => Content(disk[j]) \subseteq shown[j]
      BY DEF HashInv, Known, SeenInv
    <3> QED
      BY <1>1, <3>1, <3>2, <3>3 DEF Content
  <2>3. CASE SideLands /\ side' = Answered(side) /\ side.phase = "sent" /\ Lands(side)
    <3>1. side \in Wanderers /\ side.job \in Jobs
      BY <1>0, <2>3 DEF StateTypes, JobsAreKnown
    <3> QED
      BY <1>5, <2>3, <3>1 DEF Content
  <2>4. CASE /\ side'.phase = "failed" /\ side'.job = side.job /\ side'.copy = side.copy
             /\ side.phase # "none"
    BY <1>4, <2>4 DEF Content
  <2> QED
    BY <1>0, <1>7, <2>1, <2>2, <2>3, <2>4, SideMoves
<1>8. \A j \in Jobs : OnScreen(j)' \subseteq shown'[j] /\ Content(mirror[j])' \subseteq shown'[j]
  BY <1>1, <1>2
<1> QED
  BY <1>3, <1>6, <1>7, <1>8 DEF SeenInv

\* What the abstract record of SharedRecord holds, and who may be overwritten.
Held == [j \in Jobs |-> Content(disk[j])]
Chosen == IF backend = "browser" THEN Jobs
          ELSE unguarded \union
               {r.job : r \in {x \in {put, side} : x.phase = "sent" /\ ~x.guarded}}

LEMMA ContentTypes == ASSUME NEW copy \in Copies PROVE Content(copy) \subseteq Edits
  BY DEF Content, Copies

\* A write that lands is a save that replaces what was shown, or one of a chosen record.
LEMMA LandingKeeps ==
  ASSUME SaveInv, SeenInv, Moving, Observed, NEW r \in {put, side}, r.phase = "sent", Lands(r)
  PROVE  \/ Held' = Held
         \/ \E j \in Jobs : Promised!Save(j) \/ Promised!Overwrite(j)
<1>0. /\ r \in Wanderers /\ r.job \in Jobs /\ disk \in [Jobs -> Copies] /\ r.copy \in Copies
      /\ backend \in {"workspace", "browser"}
  BY StateIsTyped, BackendsAssumption DEF StateTypes, SaveInv, JobsAreKnown, Wanderers
<1>1. CASE Refuses(r)
  BY <1>1 DEF Lands, Held
<1>2. CASE ~Refuses(r)
  <2> DEFINE j == r.job
             copy == [r.copy EXCEPT !.hash = stamp + 1]
  <2>1. disk' = [disk EXCEPT ![j] = copy]
    BY <1>2, Zenon DEF Lands
  <2>2. Content(copy) = Content(r.copy) /\ Content(r.copy) \subseteq Edits
    BY <1>0, ContentTypes DEF Copies, Content
  <2> HIDE DEF copy
  <2>3. Held' = [Held EXCEPT ![j] = Held'[j]] /\ Held'[j] \subseteq Edits
        /\ Held[j] = Content(disk[j])
    BY <1>0, <2>1, <2>2 DEF Held
  <2>4. CASE backend = "browser" \/ ~r.guarded
    <3>1. j \in Chosen
      BY <1>0, <2>4 DEF Chosen
    <3> QED
      BY <1>0, <2>3, <3>1, Zenon DEF Promised!Overwrite, Promised!Becomes, Held, Chosen
  <2>5. CASE r.guarded
    <3>1. Content(disk[j]) \subseteq shown[j]
      BY <1>2, <2>5 DEF SeenInv, Refuses
    <3>2. Held[j] \ Held'[j] \subseteq shown[j]
      BY <2>3, <3>1
    <3> QED
      BY <1>0, <2>3, <3>2, Zenon DEF Promised!Save, Promised!Becomes, Held
  <2> QED
    BY <2>4, <2>5
<1> QED
  BY <1>1, <1>2

LEMMA KeepsStep ==
  ASSUME SaveInv, SeenInv, Moving, Observed
  PROVE  Promised!Next
<1>0. StateTypes
  BY StateIsTyped
<1>1. \A j \in Jobs : shown[j] \subseteq shown'[j]
  BY ShownFacts
<1>2. \/ Held' = Held
      \/ \E j \in Jobs : Promised!Save(j) \/ Promised!Overwrite(j) \/ Promised!Elsewhere(j)
  <2>1. CASE ~PutLands /\ ~SideLands /\ ~Others
    BY <2>1, DiskStays DEF Held
  <2>2. CASE PutLands
    BY <2>2, LandingKeeps DEF PutLands
  <2>3. CASE SideLands
    BY <2>3, LandingKeeps DEF SideLands
  <2>4. CASE Others
    <3> PICK j \in Jobs : SavedElsewhere(j) \/ DeletedElsewhere(j) \/ DeleteJob(j)
      BY <2>4 DEF Others
    <3>1. disk[j] \in Copies /\ disk \in [Jobs -> Copies] /\ Content(Absent) = {}
      BY <1>0 DEF StateTypes, Content, Absent
    <3>2. \E copy \in Copies : /\ disk' = [disk EXCEPT ![j] = copy]
                               /\ copy = Absent \/ Content(disk[j]) \subseteq Content(copy)
      <4>1. CASE SavedElsewhere(j)
        <5> DEFINE copy == disk'[j]
        <5>1. disk' = [disk EXCEPT ![j] = copy]
          BY <3>1, <4>1 DEF SavedElsewhere
        <5>2. copy.meta = disk[j].meta /\ copy.body = disk[j].body \union {made.edits + 1}
          BY <3>1, <4>1 DEF SavedElsewhere, Copies
        <5>3. copy \in Copies
          BY <2>4, OthersTypes DEF StateTypes
        <5> QED
          BY <5>1, <5>2, <5>3 DEF Content
      <4>2. CASE DeletedElsewhere(j) \/ DeleteJob(j)
        BY <4>2, NoCopies DEF DeletedElsewhere, DeleteJob
      <4> QED
        BY <4>1, <4>2
    <3> PICK copy \in Copies : /\ disk' = [disk EXCEPT ![j] = copy]
                               /\ copy = Absent \/ Content(disk[j]) \subseteq Content(copy)
      BY <3>2
    <3>3. /\ Held' = [Held EXCEPT ![j] = Held'[j]] /\ Held'[j] \subseteq Edits
          /\ Held[j] \subseteq Held'[j] \/ Held'[j] = {}
      BY <3>1, ContentTypes DEF Held
    <3>4. Promised!Elsewhere(j)
      BY <3>3, Zenon DEF Promised!Elsewhere, Promised!Becomes, Held
    <3> QED
      BY <3>4
  <2> QED
    BY <2>1, <2>2, <2>3, <2>4
<1> QED
  BY <1>1, <1>2, Zenon DEF Promised!Next, Held

\* Over a workspace, whatever this tab does with its saves, its renames and the answers
\* to conflicts, what somebody else stored is only replaced by a write that drops
\* nothing this person has not seen, unless they chose to overwrite that job.
THEOREM SavesKeepThePromise == Spec => KeepsPromise
<1>1. Init => Promised!Init
  <2> SUFFICES ASSUME Init PROVE Promised!Init
    OBVIOUS
  <2>1. \A j \in Jobs : Content(disk[j]) = {}
    BY DEF Init, Seeded, Content
  <2>2. Chosen \in SUBSET Jobs
    BY BackendsAssumption DEF Init, Chosen, Idle
  <2> QED
    BY <2>1, <2>2 DEF Promised!Init, Init, Chosen
<1>2. SaveInv /\ HashInv /\ SeenInv /\ [Next]_vars
        => HashInv' /\ SeenInv' /\ [Promised!Next]_<<Held, shown, Chosen>>
  <2> SUFFICES ASSUME SaveInv, HashInv, SeenInv, [Next]_vars
               PROVE  HashInv' /\ SeenInv' /\ [Promised!Next]_<<Held, shown, Chosen>>
    OBVIOUS
  <2>1. CASE Next
    BY <2>1, HashStep, SeenStep, KeepsStep DEF Next, Moving
  <2>2. CASE UNCHANGED vars
    BY <2>2 DEF vars, HashInv, Known, SeenInv, OnScreen, Content, Held, Chosen
  <2> QED
    BY <2>1, <2>2
<1> QED
  BY <1>1, <1>2, SaveInit, SaveStep, HashInit, SeenInit, PTL
  DEF Spec, KeepsPromise, Promised!Spec, Held, Chosen

-----------------------------------------------------------------------------
(* "All changes saved". For a job whose canvas and store have not parted,  *)
(* what is in flight is ordered: what the library list holds and what a    *)
(* rename carries is older than any captured canvas, those of the chain    *)
(* grow from the write under way to the last, and the canvas holds them    *)
(* all; and a write that may replace the record holds what the record has. *)

Clean(j) == ed.job = j /\ ~ed.dirty
Has(j, body) == disk[j].hash = 0 \/ body \subseteq disk[j].body
Queued(j) == {i \in DOMAIN chain : chain[i].job = j}
Flights(j) == {chain[i].copy.body : i \in Queued(j)}
              \union (IF put.job = j THEN {put.copy.body} ELSE {})

OrderInv(j) ==
  /\ \A i, k \in Queued(j) : i < k => chain[i].copy.body \subseteq chain[k].copy.body
  /\ put.job = j => \A i \in Queued(j) : put.copy.body \subseteq chain[i].copy.body

FlightInv(j) ==
  \A body \in Flights(j) :
    /\ lib[j].body \subseteq body
    /\ side.job = j => side.copy.body \subseteq body
    /\ ed.job = j => body \subseteq ed.body
    /\ Clean(j) => ed.body \subseteq body

OldInv(j) ==
  ed.job = j => /\ lib[j].body \subseteq ed.body
                /\ side.job = j => side.copy.body \subseteq ed.body

StoreInv(j) ==
  /\ Clean(j) => Has(j, ed.body)
  /\ Has(j, lib[j].body)
  /\ put.job = j /\ put.phase = "ok" => disk[j].hash # 0 /\ put.copy.body \subseteq disk[j].body
  /\ side.job = j /\ side.phase = "ok" => Has(j, side.copy.body)
  /\ ask.job = j /\ ask.phase = "ok" => ask.copy = Absent \/ Has(j, ask.copy.body)

\* What a rename under way holds, guarded by a revision, by there being none, or not at all.
Covers(j) ==
  /\ Clean(j) => ed.body \subseteq side.copy.body
  /\ lib[j].body \subseteq side.copy.body
SideInv(j) ==
  side.job = j /\ side.phase = "sent" =>
    /\ side.guarded /\ disk[j].hash = side.base => disk[j].body \subseteq side.copy.body
    /\ side.guarded /\ disk[j].hash = 0 /\ side.base = 0
         => Covers(j) /\ ~(put.job = j /\ put.phase = "ok")
    /\ ~side.guarded => Covers(j) /\ put.job # j /\ Queued(j) = {}

LibInv(j) ==
  /\ lib[j].hash # 0 => mirror[j].body \subseteq lib[j].body
  /\ Clean(j) /\ \/ j \in unguarded
                 \/ lib[j].hash # 0 /\ mirror[j].hash = 0
                 \/ ask.job = j /\ ed.conflict = Quiet
       => ed.body \subseteq lib[j].body

StoredInv ==
  /\ ask.phase # "ok" => ask.copy = Absent
  /\ backend = "workspace" =>
       \A j \in Jobs \ behind :
         OrderInv(j) /\ FlightInv(j) /\ OldInv(j) /\ StoreInv(j) /\ SideInv(j) /\ LibInv(j)

\* A step after which the canvas of j and the store have still not parted.
Calm(j) ==
  /\ ~(UnderWay(j) /\ (Loads(j) \/ Removed(j) \/ ask.job = j))
  /\ ~Noticed(j) /\ ~Crossed(j)'

LEMMA NothingUnderWay ==
  ASSUME NEW j \in Jobs
  PROVE  /\ ~UnderWay(j) => Flights(j) = {} /\ Queued(j) = {} /\ put.job # j /\ side.job # j
         /\ Flights(j) # {} \/ Queued(j) # {} \/ put.job = j \/ side.job = j => UnderWay(j)
<1>1. Idle.job # j
  BY NoJobAssumption DEF Idle
<1>2. put.job = j \/ side.job = j => UnderWay(j)
  BY <1>1 DEF UnderWay
<1>3. Queued(j) # {} => UnderWay(j)
  BY DEF UnderWay, Queued
<1>4. Flights(j) # {} => Queued(j) # {} \/ put.job = j
  BY DEF Flights
<1> QED
  BY <1>2, <1>3, <1>4

\* What may come of the canvas of j.
LEMMA EdMoves ==
  ASSUME SaveInv, Moving, NEW j \in Jobs, ed'.job = j
  PROVE  \/ /\ ed.job = j /\ ed'.body = ed.body
            /\ ed'.dirty \/ ~ed.dirty
                 \/ (PutSucceeds /\ put.job = j /\ put.phase = "ok" /\ ed.body = put.copy.body)
         \/ ed.job = j /\ ed.body \subseteq ed'.body /\ ed'.dirty
         \/ Open(j) /\ ed.job # j /\ ed'.body = lib[j].body
         \/ AdoptEnds /\ Theirs.job = j /\ Theirs # Quiet /\ ed'.body = Theirs.copy.body
<1> USE StateIsTyped
<1>1. ed \in EditorState /\ lib \in [Jobs -> Copies] /\ j # NoJob
  BY NoJobAssumption DEF StateTypes
<1>2. CASE Edit
  <2>1. ed'.job = ed.job /\ ed'.body = ed.body \union {made.edits + 1} /\ ed'.dirty
    BY <1>1, <1>2 DEF Edit, EditorState
  <2> QED
    BY <2>1
<1>3. CASE Close
  BY <1>1, <1>3 DEF Close, Closed
<1>4. CASE \E k \in Jobs : Open(k)
  <2> PICK k \in Jobs : Open(k)
    BY <1>4
  <2>1. lib[k] \in Copies /\ ed' = Loaded(k, lib[k])
    BY <1>1 DEF Open
  <2>2. ed'.job = k /\ ed'.body = lib[k].body
    BY <2>1, LoadedTypes
  <2> QED
    BY <2>2 DEF Open
<1>5. CASE AdoptEnds
  <2>1. CASE Theirs = Quiet
    <3>1. ed'.job = ed.job /\ ed'.body = ed.body /\ ed'.dirty = ed.dirty
      BY <1>1, <1>5, <2>1, AdoptedTypes DEF EditorState
    <3> QED
      BY <3>1
  <2>2. CASE Theirs # Quiet
    <3>1. Theirs.job \in Jobs /\ Theirs.copy \in Copies /\ ed' = Loaded(Theirs.job, Theirs.copy)
      BY <1>5, <2>2, AdoptedTypes
    <3>2. ed'.job = Theirs.job /\ ed'.body = Theirs.copy.body
      BY <3>1, LoadedTypes
    <3> QED
      BY <1>5, <2>2, <3>2
  <2> QED
    BY <2>1, <2>2
<1>6. CASE PutSucceeds
  <2>1. CASE ed.job = put.job
    <3>1. PICK rev, meta, dirty, conflict :
               /\ ed' = [ed EXCEPT !.rev = rev, !.meta = meta, !.dirty = dirty, !.conflict = conflict]
               /\ dirty \/ ~ed.dirty \/ Settled(put)
      BY <1>6, <2>1, Zenon DEF PutSucceeds
    <3>2. /\ ed'.job = ed.job /\ ed'.body = ed.body
          /\ ed'.dirty \/ ~ed.dirty \/ ed.body = put.copy.body
      BY <1>1, <3>1 DEF Settled, EditorState
    <3> QED
      BY <1>6, <2>1, <3>2 DEF PutSucceeds
  <2>2. CASE ed.job # put.job
    BY <1>6, <2>2 DEF PutSucceeds
  <2> QED
    BY <2>1, <2>2
<1>7. CASE PutIsRefused
  <2>1. PICK conflict : ed' = [ed EXCEPT !.refused = TRUE, !.conflict = conflict]
    BY <1>7, Zenon DEF PutIsRefused
  <2>2. ed'.job = ed.job /\ ed'.body = ed.body /\ ed'.dirty = ed.dirty
    BY <1>1, <2>1 DEF EditorState
  <2> QED
    BY <2>2
<1>8. CASE OverwriteConflict
  BY <1>8, OverwriteTypes
<1>9. CASE TimerFires \/ Dismiss \/ \E k \in Jobs : Rename(k)
  <2>1. ed'.job = ed.job /\ ed'.body = ed.body /\ ed'.dirty = ed.dirty
    BY <1>1, <1>9 DEF TimerFires, Dismiss, Rename, NamedInEditor, EditorState
  <2> QED
    BY <2>1
<1>10. CASE ~(\/ Edit \/ Close \/ AdoptEnds \/ PutSucceeds \/ PutIsRefused \/ OverwriteConflict
              \/ TimerFires \/ Dismiss \/ \E k \in Jobs : Rename(k) \/ Open(k))
  BY <1>10 DEF Moving, Editing, Writing, Renaming, Answering, Others, SaveByHand, StartWrite,
     PutLands, PutFails, PutIsLost, SideLands, SideFails, SideEnds, AdoptAsks, AskLands, AskFails,
     SavedElsewhere, DeletedElsewhere, DeleteJob
<1> QED
  BY <1>2, <1>3, <1>4, <1>5, <1>6, <1>7, <1>8, <1>9, <1>10

\* What is shown of j after a conflict was answered: the record read, nothing being under way.
LEMMA AdoptIsCalm ==
  ASSUME SaveInv, StoredInv, AdoptEnds, NEW j \in Jobs, Calm(j), Theirs.job = j, Theirs # Quiet
  PROVE  /\ ask.job = j /\ ask.phase = "ok" /\ ask.copy # Absent /\ Theirs.copy = ask.copy
         /\ ~UnderWay(j) /\ lib'[j] = ask.copy /\ ed'.job = j /\ ed'.body = ask.copy.body
         /\ backend = "workspace" => mirror'[j] = ask.copy
         /\ disk' = disk /\ put' = put /\ side' = side /\ chain' = chain /\ ask' = Idle
<1>1. lib \in [Jobs -> Copies] /\ mirror \in [Jobs -> Copies]
  BY StateIsTyped DEF StateTypes
<1>2. ask.copy # Absent
  <2>1. ask # Idle /\ ask' = Idle
    BY DEF AdoptEnds, Idle
  <2> QED
    BY <2>1 DEF Calm, Noticed, Theirs
<1>3. ask.job = j /\ ask.phase = "ok" /\ Theirs.copy = ask.copy
  BY <1>2 DEF Theirs, StoredInv
<1>4. ~UnderWay(j)
  BY <1>3 DEF Calm
<1>5. lib'[j] = ask.copy /\ ed' = Loaded(j, ask.copy) /\ ask.copy \in Copies
  BY <1>1, <1>3, AdoptedTypes DEF Upserted
<1>6. backend = "workspace" => mirror'[j] = ask.copy
  BY <1>1, <1>3 DEF AdoptEnds, Refreshed
<1> QED
  BY <1>2, <1>3, <1>4, <1>5, <1>6, LoadedTypes DEF AdoptEnds

\* What the library list, and the mirror with it, may come to hold of j.
LEMMA LibMoves ==
  ASSUME SaveInv, HashInv, StoredInv, Moving, NEW j \in Jobs, Calm(j), backend = "workspace"
  PROVE  \/ lib'[j] = lib[j] /\ mirror'[j] = mirror[j]
         \/ /\ PutSucceeds /\ put.job = j /\ put.phase = "ok"
            /\ lib'[j] = put.copy /\ mirror'[j] = put.copy /\ j \notin unguarded'
         \/ /\ SideEnds /\ side.job = j /\ side.phase = "ok" /\ mirror'[j] = side.copy
            /\ lib'[j] = side.copy \/ (lib'[j] = lib[j] /\ lib[j].hash = 0)
            /\ j \notin unguarded'
         \/ AdoptEnds /\ Theirs.job = j /\ Theirs # Quiet
         \/ /\ AdoptEnds /\ ask.job = j /\ ask.copy = Absent /\ mirror'[j] = Absent
            /\ lib'[j] = lib[j] /\ (ed.conflict = Quiet \/ ed'.job # j)
         \/ DeleteJob(j) /\ lib'[j] = Absent /\ mirror'[j] = Absent /\ ed.job # j /\ ed' = ed
<1> USE StateIsTyped
<1>1. /\ lib \in [Jobs -> Copies] /\ mirror \in [Jobs -> Copies] /\ j # NoJob
      /\ ed \in EditorState
  BY NoJobAssumption DEF StateTypes
<1>2. CASE PutSucceeds
  BY <1>1, <1>2 DEF PutSucceeds, Mirrored, Upserted
<1>3. CASE SideEnds
  <2>1. CASE side.job = j /\ side.phase = "ok"
    <3>1. mirror'[j] = side.copy /\ j \notin unguarded'
      BY <1>1, <1>3, <2>1 DEF SideEnds, Mirrored
    <3>2. lib' = [lib EXCEPT ![j] = IF lib[j].hash = 0 THEN lib[j] ELSE side.copy]
      BY <1>3, <2>1 DEF SideEnds
    <3> QED
      BY <1>1, <1>3, <2>1, <3>1, <3>2
  <2>2. CASE ~(side.job = j /\ side.phase = "ok")
    BY <1>1, <1>3, <2>2 DEF SideEnds, Mirrored
  <2> QED
    BY <2>1, <2>2
<1>4. CASE AdoptEnds
  <2>1. CASE Theirs = Quiet
    <3>1. lib' = lib
      BY <1>4, <2>1, AdoptedTypes
    <3>2. ask.copy = Absent /\ ed.conflict = Quiet
      <4>1. ask.job # NoJob
        BY <1>4, AdoptedTypes, NoJobAssumption
      <4> QED
        BY <2>1, <4>1 DEF Theirs, Quiet
    <3>3. mirror'[j] = mirror[j] \/ (ask.job = j /\ mirror'[j] = Absent)
      BY <1>1, <1>4, <3>2 DEF AdoptEnds, Refreshed
    <3> QED
      BY <1>4, <3>1, <3>2, <3>3
  <2>2. CASE Theirs # Quiet /\ Theirs.job # j
    <3>1. /\ Theirs.job \in Jobs /\ Theirs.copy \in Copies
          /\ lib' = Upserted(Theirs.job, Theirs.copy) /\ ed' = Loaded(Theirs.job, Theirs.copy)
      BY <1>4, <2>2, AdoptedTypes
    <3>2. lib'[j] = lib[j] /\ ed'.job # j
      BY <1>1, <2>2, <3>1, LoadedTypes DEF Upserted
    <3>3. ask.job = j => ask.copy = Absent
      BY <2>2 DEF Theirs
    <3>4. mirror'[j] = mirror[j] \/ (ask.job = j /\ mirror'[j] = Absent)
      BY <1>1, <1>4, <3>3 DEF AdoptEnds, Refreshed
    <3> QED
      BY <1>4, <3>2, <3>3, <3>4
  <2> QED
    BY <1>4, <2>1, <2>2
<1>5. CASE Others
  <2> PICK k \in Jobs : SavedElsewhere(k) \/ DeletedElsewhere(k) \/ DeleteJob(k)
    BY <1>5 DEF Others
  <2>1. CASE DeleteJob(k)
    BY <1>1, <2>1 DEF DeleteJob
  <2>2. CASE SavedElsewhere(k) \/ DeletedElsewhere(k)
    BY <2>2 DEF SavedElsewhere, DeletedElsewhere
  <2> QED
    BY <2>1, <2>2
<1>6. CASE ~(PutSucceeds \/ SideEnds \/ AdoptEnds \/ Others)
  <2>1. lib' = lib /\ mirror' = mirror
    BY <1>6 DEF Moving, Editing, Writing, Renaming, Answering, Edit, TimerFires, SaveByHand, Close,
         Open, StartWrite, PutLands, PutFails, PutIsRefused, PutIsLost, Rename, SideLands,
         SideFails, Dismiss, AdoptAsks, AskLands, AskFails, OverwriteConflict
  <2> QED
    BY <2>1
<1> QED
  BY <1>2, <1>3, <1>4, <1>5, <1>6

\* The steps that write the record of j, and what they leave there.
LEMMA RecordMoves ==
  ASSUME SaveInv, HashInv, Moving, NEW j \in Jobs, Calm(j)
  PROVE  \/ disk'[j] = disk[j]
         \/ /\ disk[j].hash # 0 /\ disk'[j].hash = stamp + 1 /\ disk[j].body \subseteq disk'[j].body
            /\ UNCHANGED <<lib, ed, put, side, ask, chain, mirror, unguarded>>
         \/ disk'[j] = Absent /\ ~UnderWay(j)
         \/ /\ PutLands /\ put.job = j /\ put.phase = "sent" /\ ~Refuses(put)
            /\ disk'[j].body = put.copy.body /\ disk'[j].hash = stamp + 1
            /\ UNCHANGED <<lib, ed, side, ask, chain, mirror, unguarded>>
         \/ /\ SideLands /\ side.job = j /\ side.phase = "sent" /\ ~Refuses(side)
            /\ disk'[j].body = side.copy.body /\ disk'[j].hash = stamp + 1
            /\ UNCHANGED <<lib, ed, put, ask, chain, mirror, unguarded>>
<1> USE StateIsTyped
<1>0. disk \in [Jobs -> Copies] /\ put \in Wanderers /\ side \in Wanderers /\ Absent.hash = 0
  BY DEF StateTypes, Absent
<1>1. CASE PutLands
  <2>1. put.job \in Jobs /\ put.phase # "none" /\ Lands(put)
    BY <1>1 DEF PutLands, SaveInv, JobsAreKnown
  <2> QED
    BY <1>0, <1>1, <2>1, LandingMoves DEF PutLands
<1>2. CASE SideLands
  <2>1. side.job \in Jobs /\ side.phase # "none" /\ Lands(side)
    BY <1>2 DEF SideLands, SaveInv, JobsAreKnown
  <2> QED
    BY <1>0, <1>2, <2>1, LandingMoves DEF SideLands
<1>3. CASE Others
  <2> PICK k \in Jobs : SavedElsewhere(k) \/ DeletedElsewhere(k) \/ DeleteJob(k)
    BY <1>3 DEF Others
  <2>1. CASE SavedElsewhere(k)
    <3>1. disk[k] \in Copies /\ disk'[k] = [disk[k] EXCEPT !.rev = disk[k].rev + 1,
               !.hash = stamp + 1, !.body = disk[k].body \union {made.edits + 1}]
      BY <1>0, <2>1 DEF SavedElsewhere
    <3>2. disk'[k].hash = stamp + 1 /\ disk[k].body \subseteq disk'[k].body
      BY <3>1 DEF Copies
    <3>3. k # j => disk'[j] = disk[j]
      BY <1>0, <2>1 DEF SavedElsewhere
    <3> QED
      BY <2>1, <3>2, <3>3 DEF SavedElsewhere
  <2>2. CASE DeletedElsewhere(k) \/ DeleteJob(k)
    <3>1. disk'[j] = disk[j] \/ disk'[j] = Absent
      BY <1>0, <2>2 DEF DeletedElsewhere, DeleteJob
    <3>2. disk[j].hash = 0 => disk[j] = Absent
      BY DEF HashInv, Known
    <3>3. disk'[j] = Absent /\ disk[j].hash # 0 => Removed(j)
      BY <1>0 DEF Removed
    <3> QED
      BY <3>1, <3>2, <3>3 DEF Calm
  <2> QED
    BY <2>1, <2>2
<1>4. CASE ~PutLands /\ ~SideLands /\ ~Others
  BY <1>4, DiskStays
<1> QED
  BY <1>1, <1>2, <1>3, <1>4

\* A canvas joins what is in flight of j only by being captured as it is.
LEMMA FlightMoves ==
  ASSUME SaveInv, Moving, NEW j \in Jobs, NEW body \in Flights(j)'
  PROVE  \/ body \in Flights(j)
         \/ /\ ed.job = j /\ body = ed.body /\ UNCHANGED <<lib, side>>
            /\ ed'.job = j => ed'.body = ed.body
<1> USE StateIsTyped
<1>0. /\ chain \in Seq(Captured) /\ ed \in EditorState /\ put \in Wanderers
      /\ Idle.job # j /\ Idle.phase = "none"
  BY NoJobAssumption DEF StateTypes, Idle
<1>1. CASE put'.job = j /\ body = put'.copy.body
  <2>1. CASE StartWrite
    <3>1. chain # <<>> /\ Head(chain) = chain[1] /\ 1 \in DOMAIN chain
      BY <1>0, <2>1, TailFacts DEF StartWrite
    <3>2. chain[1].job = j /\ body = chain[1].copy.body
      BY <1>1, <2>1, <3>1, StartFacts
    <3> QED
      BY <3>1, <3>2 DEF Flights, Queued
  <2>2. CASE put' = put
    BY <1>1, <2>2 DEF Flights
  <2>3. CASE PutLands /\ put' = Answered(put) /\ put.phase = "sent" /\ Lands(put)
    <3>1. put.job \in Jobs
      BY <2>3 DEF SaveInv, JobsAreKnown
    <3>2. put'.job = put.job /\ put'.copy.body = put.copy.body
      BY <1>0, <2>3, <3>1, AnsweredKnows
    <3> QED
      BY <1>1, <3>2 DEF Flights
  <2>4. CASE put'.job = put.job /\ put'.copy = put.copy
    BY <1>1, <2>4 DEF Flights
  <2> QED
    BY <1>0, <1>1, <2>1, <2>2, <2>3, <2>4, PutMoves
<1>2. CASE \E i \in DOMAIN chain' : chain'[i].job = j /\ body = chain'[i].copy.body
  <2> PICK i \in DOMAIN chain' : chain'[i].job = j /\ body = chain'[i].copy.body
    BY <1>2
  <2>1. CASE \E k \in DOMAIN chain : chain'[i] = chain[k]
    BY <2>1 DEF Flights, Queued
  <2>2. CASE /\ ~\E k \in DOMAIN chain : chain'[i] = chain[k]
             /\ TimerFires \/ SaveByHand \/ Close \/ \E k \in Jobs : Open(k)
    <3>1. chain' = Flushed(ed) /\ UNCHANGED <<lib, side>>
      BY <2>2 DEF TimerFires, SaveByHand, Close, Open
    <3>2. CASE ed.job # NoJob /\ ed.dirty
      <4>1. Capture(ed) \in Captured /\ chain' = Append(chain, Capture(ed))
        BY <1>0, <3>1, <3>2 DEF Capture, Captured, EditorState, Copies, Flushed
      <4>2. chain'[i] = Capture(ed)
        BY <1>0, <2>2, <4>1, AppendFacts
      <4>3. ed.job = j /\ body = ed.body
        BY <4>2 DEF Capture
      <4>4. ed'.job = j => ed'.body = ed.body
        <5>1. CASE TimerFires \/ SaveByHand
          BY <1>0, <5>1 DEF TimerFires, SaveByHand, EditorState
        <5>2. CASE Close
          BY <5>2, NoJobAssumption DEF Close, Closed
        <5>3. CASE \E k \in Jobs : Open(k)
          <6> PICK k \in Jobs : Open(k)
            BY <5>3
          <6>1. lib[k] \in Copies
            BY DEF StateTypes
          <6> QED
            BY <4>3, <6>1, LoadedTypes DEF Open
        <5> QED
          BY <2>2, <5>1, <5>2, <5>3
      <4> QED
        BY <3>1, <4>3, <4>4
    <3>3. CASE ~(ed.job # NoJob /\ ed.dirty)
      BY <2>2, <3>1, <3>3 DEF Flushed
    <3> QED
      BY <3>2, <3>3
  <2>3. CASE (~\E k \in DOMAIN chain : chain'[i] = chain[k]) /\ OverwriteConflict
    <3>1. chain'[i] = Capture(ed') /\ UNCHANGED <<lib, side>>
      BY <1>0, <2>3, OverwriteTypes, AppendFacts DEF OverwriteConflict
    <3> QED
      BY <2>3, <3>1, OverwriteTypes DEF Capture
  <2>4. CASE ~(TimerFires \/ SaveByHand \/ Close \/ OverwriteConflict \/ \E k \in Jobs : Open(k))
    <3>1. \E k \in DOMAIN chain : chain'[i] = chain[k]
      <4>1. CASE StartWrite
        BY <1>0, <4>1, TailFacts DEF StartWrite
      <4>2. CASE ~StartWrite
        <5>1. chain' = chain
          BY <2>4, <4>2 DEF Moving, Editing, Writing, Renaming, Answering, Others, Edit, PutLands,
             PutFails, PutSucceeds, PutIsRefused, PutIsLost, Rename, SideLands, SideFails,
             SideEnds, Dismiss, AdoptAsks, AskLands, AskFails, AdoptEnds, SavedElsewhere,
             DeletedElsewhere, DeleteJob
        <5> QED
          BY <5>1
      <4> QED
        BY <4>1, <4>2
    <3> QED
      BY <2>1, <3>1
  <2> QED
    BY <2>1, <2>2, <2>3, <2>4
<1> QED
  BY <1>1, <1>2 DEF Flights, Queued

\* What j keeps, for a job of a workspace that is not in `behind`.
Kept(j) == OrderInv(j) /\ FlightInv(j) /\ OldInv(j) /\ StoreInv(j) /\ SideInv(j) /\ LibInv(j)

LEMMA OrderStep ==
  ASSUME SaveInv, Moving, NEW j \in Jobs, Kept(j)
  PROVE  OrderInv(j)'
<1> USE StateIsTyped
<1>0. chain \in Seq(Captured) /\ ed \in EditorState /\ put \in Wanderers /\ Idle.job # j
  BY NoJobAssumption DEF StateTypes, Idle
\* The chain takes the canvas of c.job: it holds all that is in flight of the job.
<1>1. ASSUME NEW c \in Captured, chain' = Append(chain, c), put' = put,
             c.job = j => ed.job = j /\ c.copy.body = ed.body
      PROVE  OrderInv(j)'
  <2>1. \A i \in Queued(j)' : \/ i \in Queued(j) /\ chain'[i] = chain[i] /\ i < Len(chain) + 1
                              \/ i = Len(chain) + 1 /\ chain'[i] = c /\ c.job = j
    BY <1>0, <1>1, AppendFacts DEF Queued
  <2>2. c.job = j => \A body \in Flights(j) : body \subseteq c.copy.body
    BY <1>1 DEF Kept, FlightInv
  <2>3. ASSUME NEW i \in Queued(j)', NEW k \in Queued(j)', i < k
        PROVE  chain'[i].copy.body \subseteq chain'[k].copy.body
    BY <1>0, <2>1, <2>2, <2>3 DEF Kept, OrderInv, Flights, Queued
  <2>4. ASSUME put'.job = j, NEW i \in Queued(j)'
        PROVE  put'.copy.body \subseteq chain'[i].copy.body
    BY <1>1, <2>1, <2>2, <2>4 DEF Kept, OrderInv, Flights
  <2> QED
    BY <2>3, <2>4 DEF OrderInv
<1>2. ASSUME chain' = chain, put'.job = j => put.job = j /\ put'.copy.body = put.copy.body
      PROVE  OrderInv(j)'
  BY <1>2 DEF Kept, OrderInv, Queued
<1>3. CASE TimerFires \/ SaveByHand \/ Close \/ \E k \in Jobs : Open(k)
  <2>1. chain' = Flushed(ed) /\ put' = put
    BY <1>3 DEF TimerFires, SaveByHand, Close, Open
  <2>2. CASE ed.job # NoJob /\ ed.dirty
    <3>1. Capture(ed) \in Captured /\ chain' = Append(chain, Capture(ed))
      BY <1>0, <2>1, <2>2 DEF Capture, Captured, EditorState, Copies, Flushed
    <3>2. Capture(ed).job = ed.job /\ Capture(ed).copy.body = ed.body
      BY DEF Capture
    <3> QED
      BY <1>1, <2>1, <3>1, <3>2
  <2>3. CASE ~(ed.job # NoJob /\ ed.dirty)
    BY <1>2, <2>1, <2>3 DEF Flushed
  <2> QED
    BY <2>2, <2>3
<1>4. CASE OverwriteConflict
  <2>1. Capture(ed').job = ed.job /\ Capture(ed').copy.body = ed.body /\ put' = put
    BY <1>4, OverwriteTypes DEF Capture, OverwriteConflict
  <2> QED
    BY <1>1, <1>4, <2>1, OverwriteTypes
<1>5. CASE StartWrite
  <2>1. /\ chain # <<>> /\ chain' = Tail(chain) /\ Head(chain) = chain[1] /\ 1 \in DOMAIN chain
        /\ put'.job = chain[1].job /\ put'.copy.body = chain[1].copy.body
    BY <1>0, <1>5, StartFacts, TailFacts DEF StartWrite
  <2>2. \A i \in Queued(j)' : i + 1 \in Queued(j) /\ chain'[i] = chain[i + 1] /\ i \in Int /\ 1 < i + 1
    BY <1>0, <2>1, TailFacts DEF Queued
  <2>3. ASSUME NEW i \in Queued(j)', NEW k \in Queued(j)', i < k
        PROVE  chain'[i].copy.body \subseteq chain'[k].copy.body
    BY <2>2, <2>3 DEF Kept, OrderInv
  <2>4. ASSUME put'.job = j, NEW i \in Queued(j)'
        PROVE  put'.copy.body \subseteq chain'[i].copy.body
    <3>1. 1 \in Queued(j) /\ 1 < i + 1
      BY <2>1, <2>2, <2>4 DEF Queued
    <3> QED
      BY <2>1, <2>2, <3>1 DEF Kept, OrderInv
  <2> QED
    BY <2>3, <2>4 DEF OrderInv
<1>6. CASE ~(TimerFires \/ SaveByHand \/ Close \/ OverwriteConflict \/ StartWrite
             \/ \E k \in Jobs : Open(k))
  <2>1. chain' = chain
    BY <1>6 DEF Moving, Editing, Writing, Renaming, Answering, Others, Edit, PutLands, PutFails,
       PutSucceeds, PutIsRefused, PutIsLost, Rename, SideLands, SideFails, SideEnds, Dismiss,
       AdoptAsks, AskLands, AskFails, AdoptEnds, SavedElsewhere, DeletedElsewhere, DeleteJob
  <2>2. put'.job = j => put.job = j /\ put'.copy.body = put.copy.body
    BY <1>0, <1>6, PutMoves, AnsweredKnows DEF SaveInv, JobsAreKnown
  <2> QED
    BY <1>2, <2>1, <2>2
<1> QED
  BY <1>3, <1>4, <1>5, <1>6

\* What a rename of j carries is what it carried, or what the library list holds.
LEMMA SideHolds ==
  ASSUME SaveInv, Moving, NEW j \in Jobs, side'.job = j
  PROVE  \/ side.job = j /\ side'.copy.body = side.copy.body
         \/ Rename(j) /\ side'.copy.body = lib[j].body
<1> USE StateIsTyped
<1>0. side \in Wanderers /\ Idle.job # j /\ lib \in [Jobs -> Copies]
  BY NoJobAssumption DEF StateTypes, Idle
<1>1. CASE \E k \in Jobs : Rename(k)
  <2> PICK k \in Jobs : Rename(k)
    BY <1>1
  <2> DEFINE next == [lib[k] EXCEPT !.rev = lib[k].rev + 1,
                                    !.meta = lib[k].meta \union {made.edits + 1}]
  <2>1. lib[k] \in Copies
    BY <1>0
  <2>2. next.body = lib[k].body
    BY <2>1 DEF Copies
  <2>3. side' = Request(k, next, Absent)
    BY DEF Rename
  <2> HIDE DEF next
  <2>4. side'.job = k /\ side'.copy.body = lib[k].body
    BY <2>2, <2>3 DEF Request
  <2> QED
    BY <2>4
<1>2. CASE SideLands /\ side' = Answered(side) /\ side.phase = "sent" /\ Lands(side)
  <2>1. side.job \in Jobs
    BY <1>2 DEF SaveInv, JobsAreKnown
  <2> QED
    BY <1>0, <1>2, <2>1, AnsweredKnows
<1> QED
  BY <1>0, <1>1, <1>2, SideMoves

\* Loading j, on a quiet step, finds nothing of it in flight.
LEMMA LoadIsCalm ==
  ASSUME SaveInv, NEW j \in Jobs, Calm(j), Open(j)
  PROVE  /\ ~UnderWay(j) /\ ed'.job = j /\ ed'.body = lib[j].body /\ ed'.conflict = Quiet
         /\ UNCHANGED <<disk, lib, mirror, put, side, ask, unguarded>>
<1>1. lib[j] \in Copies
  BY StateIsTyped DEF StateTypes
<1>2. ed' = Loaded(j, lib[j]) /\ ed.job # j
  BY DEF Open
<1>3. ed'.job = j /\ ed'.body = lib[j].body /\ ed'.conflict = Quiet
  BY <1>1, <1>2, LoadedTypes
<1> QED
  BY <1>2, <1>3 DEF Open, Calm, Loads

LEMMA FlightStep ==
  ASSUME SaveInv, HashInv, StoredInv, Moving, NEW j \in Jobs, Calm(j), backend = "workspace",
         Kept(j)
  PROVE  FlightInv(j)'
<1> SUFFICES ASSUME NEW body \in Flights(j)'
             PROVE  /\ lib'[j].body \subseteq body
                    /\ side'.job = j => side'.copy.body \subseteq body
                    /\ ed'.job = j => body \subseteq ed'.body
                    /\ ed'.job = j /\ ~ed'.dirty => ed'.body \subseteq body
  BY DEF FlightInv, Clean
<1>0. Absent.body = {} /\ Idle.job # j
  BY NoJobAssumption DEF Absent, Idle
<1>1. CASE body \in Flights(j)
  <2>1. UnderWay(j) /\ ask.job # j /\ ~Loads(j)
    BY <1>1, NothingUnderWay DEF Calm
  <2>2. ASSUME AdoptEnds, Theirs.job = j, Theirs # Quiet PROVE FALSE
    BY <2>1, <2>2, AdoptIsCalm
  <2>3. ~Open(j)
    BY <2>1, LoadIsCalm
  <2>4. ASSUME PutSucceeds, put.job = j PROVE put.copy.body \subseteq body
    <3>1. put' = Idle /\ chain' = chain
      BY <2>4 DEF PutSucceeds
    <3>2. \E i \in Queued(j) : body = chain[i].copy.body
      BY <1>0, <3>1 DEF Flights, Queued
    <3> QED
      BY <2>4, <3>2 DEF Kept, OrderInv
  <2>5. lib'[j].body \subseteq body
    BY <1>0, <1>1, <2>2, <2>4, LibMoves DEF Kept, FlightInv
  <2>6. side'.job = j => side'.copy.body \subseteq body
    BY <1>1, SideHolds DEF Kept, FlightInv
  <2>7. ed'.job = j => body \subseteq ed'.body
    BY <1>1, <2>2, <2>3, EdMoves DEF Kept, FlightInv
  <2>8. ed'.job = j /\ ~ed'.dirty => ed'.body \subseteq body
    BY <1>1, <2>2, <2>3, <2>4, EdMoves DEF Kept, FlightInv, Clean
  <2> QED
    BY <2>5, <2>6, <2>7, <2>8
<1>2. CASE /\ ed.job = j /\ body = ed.body /\ UNCHANGED <<lib, side>>
           /\ ed'.job = j => ed'.body = ed.body
  BY <1>2 DEF Kept, OldInv
<1> QED
  BY <1>1, <1>2, FlightMoves

LEMMA OldStep ==
  ASSUME SaveInv, HashInv, StoredInv, Moving, NEW j \in Jobs, Calm(j), backend = "workspace",
         Kept(j)
  PROVE  OldInv(j)'
<1> SUFFICES ASSUME ed'.job = j
             PROVE  /\ lib'[j].body \subseteq ed'.body
                    /\ side'.job = j => side'.copy.body \subseteq ed'.body
  BY DEF OldInv
<1>0. Absent.body = {}
  BY DEF Absent
<1>1. CASE Open(j)
  BY <1>1, LoadIsCalm, NothingUnderWay
<1>2. CASE AdoptEnds /\ Theirs.job = j /\ Theirs # Quiet
  BY <1>2, AdoptIsCalm, NothingUnderWay
<1>3. CASE ed.job = j /\ ed.body \subseteq ed'.body /\ ~(AdoptEnds /\ Theirs.job = j /\ Theirs # Quiet)
  <2>1. put.job = j => put.copy.body \subseteq ed.body
    BY <1>3 DEF Kept, FlightInv, Flights
  <2>2. lib'[j].body \subseteq ed.body
    BY <1>0, <1>3, <2>1, LibMoves DEF Kept, OldInv
  <2>3. side'.job = j => side'.copy.body \subseteq ed.body
    BY <1>3, SideHolds DEF Kept, OldInv
  <2> QED
    BY <1>3, <2>2, <2>3
<1> QED
  BY <1>1, <1>2, <1>3, EdMoves

\* What a step leaves of a body the record held: a record that lands holds it too.
LEMMA HoldsOn ==
  ASSUME SaveInv, HashInv, Moving, NEW j \in Jobs, Calm(j), Kept(j), NEW body, Has(j, body),
         PutLands /\ put.job = j => body \subseteq put.copy.body,
         Covers(j) => body \subseteq side.copy.body
  PROVE  Has(j, body)'
<1>1. Absent.hash = 0
  BY DEF Absent
<1>2. CASE SideLands /\ side.job = j /\ side.phase = "sent" /\ ~Refuses(side)
           /\ disk'[j].body = side.copy.body
  <2>1. CASE disk[j].hash # 0 /\ side.guarded
    <3>1. body \subseteq disk[j].body /\ disk[j].body \subseteq side.copy.body
      BY <1>2, <2>1 DEF Has, Refuses, Kept, SideInv
    <3> QED
      BY <1>2, <3>1 DEF Has
  <2>2. CASE disk[j].hash = 0 \/ ~side.guarded
    <3>1. Covers(j)
      BY <1>2, <2>2 DEF Refuses, Kept, SideInv
    <3> QED
      BY <1>2, <3>1 DEF Has
  <2> QED
    BY <2>1, <2>2
<1>3. CASE ~(SideLands /\ side.job = j /\ side.phase = "sent" /\ ~Refuses(side)
             /\ disk'[j].body = side.copy.body)
  BY <1>1, <1>3, RecordMoves DEF Has
<1> QED
  BY <1>2, <1>3

LEMMA StoreStep ==
  ASSUME SaveInv, HashInv, StoredInv, Moving, NEW j \in Jobs, Calm(j), backend = "workspace",
         Kept(j)
  PROVE  StoreInv(j)'
<1> USE StateIsTyped
<1>0. /\ Absent.hash = 0 /\ Absent.body = {} /\ Idle.job # j /\ Idle.phase = "none"
      /\ put \in Wanderers /\ side \in Wanderers /\ ask \in Wanderers /\ ed \in EditorState
      /\ stamp \in Nat
  BY NoJobAssumption DEF Absent, Idle, StateTypes
<1>1. put.job = j => UnderWay(j)
  BY NothingUnderWay
<1>2. side.job = j => UnderWay(j)
  BY NothingUnderWay
\* The canvas.
<1>4. ASSUME ed'.job = j, ~ed'.dirty
      PROVE  disk'[j].hash = 0 \/ ed'.body \subseteq disk'[j].body
  <2>1. CASE Open(j)
    BY <2>1, LoadIsCalm DEF Kept, StoreInv, Has
  <2>2. CASE AdoptEnds /\ Theirs.job = j /\ Theirs # Quiet
    BY <2>2, AdoptIsCalm DEF Kept, StoreInv, Has
  <2>3. CASE /\ PutSucceeds /\ put.job = j /\ put.phase = "ok" /\ ed.body = put.copy.body
             /\ ed'.body = ed.body
    BY <2>3 DEF PutSucceeds, Kept, StoreInv
  <2>4. CASE ed.job = j /\ ~ed.dirty /\ ed'.body = ed.body
    <3>1. Has(j, ed.body)
      BY <2>4 DEF Kept, StoreInv, Clean
    <3>2. PutLands /\ put.job = j => ed.body \subseteq put.copy.body
      BY <2>4 DEF Kept, FlightInv, Flights, Clean
    <3>3. Covers(j) => ed.body \subseteq side.copy.body
      BY <2>4 DEF Covers, Clean
    <3>4. \A body : body = ed.body => disk'[j].hash = 0 \/ body \subseteq disk'[j].body
      BY <3>1, <3>2, <3>3, HoldsOn DEF Has
    <3> QED
      BY <2>4, <3>4
  <2> QED
    BY <1>4, <2>1, <2>2, <2>3, <2>4, EdMoves
\* The library list.
<1>5. disk'[j].hash = 0 \/ lib'[j].body \subseteq disk'[j].body
  <2>1. CASE lib'[j] = lib[j]
    <3>1. Has(j, lib[j].body)
      BY DEF Kept, StoreInv
    <3>2. PutLands /\ put.job = j => lib[j].body \subseteq put.copy.body
      BY DEF Kept, FlightInv, Flights
    <3>3. Covers(j) => lib[j].body \subseteq side.copy.body
      BY DEF Covers
    <3>4. \A body : body = lib[j].body => disk'[j].hash = 0 \/ body \subseteq disk'[j].body
      BY <3>1, <3>2, <3>3, HoldsOn DEF Has
    <3> QED
      BY <2>1, <3>4
  <2>2. CASE PutSucceeds /\ put.job = j /\ put.phase = "ok" /\ lib'[j] = put.copy
    BY <2>2 DEF PutSucceeds, Kept, StoreInv
  <2>3. CASE SideEnds /\ side.job = j /\ side.phase = "ok" /\ lib'[j] = side.copy
    BY <2>3 DEF SideEnds, Kept, StoreInv, Has
  <2>4. CASE AdoptEnds /\ Theirs.job = j /\ Theirs # Quiet
    BY <2>4, AdoptIsCalm DEF Kept, StoreInv, Has
  <2>5. CASE lib'[j] = Absent
    BY <1>0, <2>5
  <2> QED
    BY <2>1, <2>2, <2>3, <2>4, <2>5, LibMoves
\* A write of the chain that has landed.
<1>6. ASSUME put'.job = j, put'.phase = "ok"
      PROVE  disk'[j].hash # 0 /\ put'.copy.body \subseteq disk'[j].body
  <2>1. CASE put' = put
    <3>1. disk[j].hash # 0 /\ put.copy.body \subseteq disk[j].body /\ UnderWay(j)
      BY <1>1, <1>6, <2>1 DEF Kept, StoreInv
    <3>2. CASE SideLands /\ side.job = j /\ side.phase = "sent" /\ ~Refuses(side)
               /\ disk'[j].body = side.copy.body /\ disk'[j].hash = stamp + 1
      <4>1. disk[j].body \subseteq side.copy.body
        BY <1>6, <2>1, <3>2 DEF Kept, SideInv, Refuses
      <4> QED
        BY <1>0, <2>1, <3>1, <3>2, <4>1
    <3>3. CASE /\ disk'[j].hash = stamp + 1 /\ disk[j].body \subseteq disk'[j].body
      BY <1>0, <2>1, <3>1, <3>3
    <3>4. CASE disk'[j] = disk[j]
      BY <2>1, <3>1, <3>4
    <3> QED
      BY <1>6, <2>1, <3>1, <3>2, <3>3, <3>4, RecordMoves
  <2>2. CASE PutLands /\ put' = Answered(put) /\ put.phase = "sent" /\ Lands(put)
    <3>1. put.job \in Jobs
      BY <2>2 DEF SaveInv, JobsAreKnown
    <3>2. put'.job = put.job /\ put'.copy = disk'[put.job] /\ put'.copy.hash = stamp + 1
      BY <1>0, <1>6, <2>2, <3>1, AnsweredKnows
    <3> QED
      BY <1>0, <1>6, <3>2
  <2> QED
    BY <1>0, <1>6, <2>1, <2>2, PutMoves, StartFacts
\* A rename that has landed.
<1>7. ASSUME side'.job = j, side'.phase = "ok"
      PROVE  disk'[j].hash = 0 \/ side'.copy.body \subseteq disk'[j].body
  <2>1. CASE side' = side
    <3>1. Has(j, side.copy.body)
      BY <1>7, <2>1 DEF Kept, StoreInv
    <3>2. PutLands /\ put.job = j => side.copy.body \subseteq put.copy.body
      BY <1>7, <2>1 DEF Kept, FlightInv, Flights
    <3>3. \A body : body = side.copy.body => disk'[j].hash = 0 \/ body \subseteq disk'[j].body
      BY <3>1, <3>2, HoldsOn DEF Has
    <3> QED
      BY <2>1, <3>3
  <2>2. CASE SideLands /\ side' = Answered(side) /\ side.phase = "sent" /\ Lands(side)
    <3>1. side.job \in Jobs
      BY <2>2 DEF SaveInv, JobsAreKnown
    <3>2. side'.job = side.job /\ side'.copy = disk'[side.job]
      BY <1>0, <1>7, <2>2, <3>1, AnsweredKnows
    <3> QED
      BY <1>7, <3>2
  <2>3. CASE \E k \in Jobs : Rename(k)
    BY <1>7, <2>3 DEF Rename, Request
  <2> QED
    BY <1>0, <1>7, <2>1, <2>2, <2>3, SideMoves
\* The answer to a re-read.
<1>8. ASSUME ask'.job = j, ask'.phase = "ok"
      PROVE  ask'.copy = Absent \/ disk'[j].hash = 0 \/ ask'.copy.body \subseteq disk'[j].body
  <2>1. CASE ask' = ask
    <3>1. ask.copy = Absent \/ Has(j, ask.copy.body)
      BY <1>8, <2>1 DEF Kept, StoreInv
    <3>2. put.job # j /\ side.job # j
      BY <1>1, <1>2, <1>8, <2>1 DEF Calm
    <3> QED
      BY <1>0, <2>1, <3>1, <3>2, RecordMoves DEF Has
  <2>2. CASE AskLands
    BY <1>0, <1>8, <2>2 DEF AskLands, Wanderers
  <2>3. CASE AdoptAsks \/ AskFails \/ AdoptEnds
    BY <1>0, <1>8, <2>3 DEF AdoptAsks, AskFails, AdoptEnds, Wanderers, Idle
  <2>4. CASE ~(AskLands \/ AdoptAsks \/ AskFails \/ AdoptEnds)
    BY <2>1, <2>4 DEF Moving, Editing, Writing, Renaming, Answering, Others, Edit, TimerFires,
       SaveByHand, Close, Open, StartWrite, PutLands, PutFails, PutSucceeds, PutIsRefused,
       PutIsLost, Rename, SideLands, SideFails, SideEnds, Dismiss, OverwriteConflict,
       SavedElsewhere, DeletedElsewhere, DeleteJob
  <2> QED
    BY <2>2, <2>3, <2>4
<1> QED
  BY <1>4, <1>5, <1>6, <1>7, <1>8 DEF StoreInv, Has, Clean

LEMMA SideStep ==
  ASSUME SaveInv, HashInv, StoredInv, Moving, NEW j \in Jobs, Calm(j), backend = "workspace",
         Kept(j)
  PROVE  SideInv(j)'
<1> SUFFICES ASSUME side'.job = j, side'.phase = "sent"
             PROVE  SideInv(j)'
  BY DEF SideInv
<1> USE StateIsTyped
<1>0. /\ Absent.hash = 0 /\ Absent.body = {} /\ Idle.job # j /\ Idle.phase = "none"
      /\ put \in Wanderers /\ side \in Wanderers /\ ed \in EditorState /\ stamp \in Nat
      /\ disk[j] \in Copies
  BY NoJobAssumption DEF Absent, Idle, StateTypes
<1>1. CASE side' = side
  <2>1. UnderWay(j) /\ ask.job # j /\ ~Loads(j)
    BY <1>1, NothingUnderWay DEF Calm
  <2>2. ~Open(j) /\ ~(AdoptEnds /\ Theirs.job = j /\ Theirs # Quiet)
    BY <2>1, LoadIsCalm, AdoptIsCalm
  <2>3. side.base \in Nat /\ side.base <= stamp
    BY <1>0, <1>1 DEF HashInv, Wanderers
  <2>4. ~SideEnds /\ ~SideLands
    BY <1>0, <1>1 DEF SideEnds, SideLands, Answered, Wanderers
  \* What it covers stays covered, unless a captured canvas of the job is stored meanwhile.
  <2>5. ASSUME Covers(j), ~(PutSucceeds /\ put.job = j /\ put.phase = "ok") PROVE Covers(j)'
    <3>1. ed'.job = j /\ ~ed'.dirty => ed'.body \subseteq side.copy.body
      BY <2>2, <2>5, EdMoves DEF Covers, Clean
    <3>2. lib'[j].body \subseteq side.copy.body
      BY <1>0, <2>2, <2>4, <2>5, LibMoves DEF Covers
    <3> QED
      BY <1>1, <3>1, <3>2 DEF Covers, Clean
  <2>6. ASSUME side.guarded, disk'[j].hash = side.base
        PROVE  disk'[j].body \subseteq side.copy.body
    <3>1. disk'[j] = disk[j] \/ disk'[j] = Absent
      BY <2>3, <2>6, <1>0, RecordMoves
    <3> QED
      BY <1>0, <1>1, <2>6, <3>1 DEF Kept, SideInv
  <2>7. ASSUME side.guarded, disk'[j].hash = 0, side.base = 0
        PROVE  Covers(j)' /\ ~(put'.job = j /\ put'.phase = "ok")
    <3>1. disk'[j] = disk[j]
      BY <1>0, <2>1, <2>7, RecordMoves
    <3>2. Covers(j) /\ ~(put.job = j /\ put.phase = "ok")
      BY <1>1, <2>7, <3>1 DEF Kept, SideInv
    <3>3. ASSUME put'.job = j, put'.phase = "ok" PROVE FALSE
      <4>1. PutLands /\ put' = Answered(put) /\ put.phase = "sent" /\ Lands(put)
        BY <1>0, <3>2, <3>3, PutMoves, StartFacts
      <4>2. put.job \in Jobs
        BY <4>1 DEF SaveInv, JobsAreKnown
      <4>3. put'.job = put.job /\ put'.copy = disk'[put.job] /\ put'.copy.hash = stamp + 1
        BY <1>0, <3>3, <4>1, <4>2, AnsweredKnows
      <4> QED
        BY <1>0, <2>7, <3>3, <4>3
    <3> QED
      BY <2>5, <3>2, <3>3
  <2>8. ASSUME ~side.guarded
        PROVE  Covers(j)' /\ put'.job # j /\ Queued(j)' = {}
    <3>1. Covers(j) /\ put.job # j
      BY <1>1, <2>8 DEF Kept, SideInv
    <3>2. put'.job # j /\ Queued(j)' = {}
      BY <1>1, <2>8 DEF Calm, Crossed, Queued
    <3> QED
      BY <2>5, <3>1, <3>2
  <2> QED
    BY <1>1, <2>6, <2>7, <2>8 DEF SideInv
<1>2. CASE Rename(j) /\ side'.copy.body = lib[j].body
  <2>1. /\ side'.base = mirror[j].hash /\ lib[j].hash # 0
        /\ side'.guarded = (backend = "workspace" /\ j \notin unguarded)
        /\ UNCHANGED <<disk, lib, mirror, put, chain, unguarded, ask>>
    BY <1>2 DEF Rename, Request, Found
  <2>2. ed'.job = ed.job /\ ed'.body = ed.body /\ ed'.dirty = ed.dirty
    BY <1>0, <1>2 DEF Rename, NamedInEditor, EditorState
  <2>3. disk[j].hash = mirror[j].hash => disk[j].body \subseteq lib[j].body
    BY <2>1 DEF HashInv, Known, Kept, LibInv
  <2>4. j \in unguarded \/ mirror[j].hash = 0 => Covers(j)'
    BY <1>2, <2>1, <2>2 DEF Kept, LibInv, Covers, Clean
  <2>5. disk[j].hash = 0 => ~(put.job = j /\ put.phase = "ok")
    BY DEF Kept, StoreInv
  <2>6. ~side'.guarded => put'.job # j /\ Queued(j)' = {}
    BY DEF Calm, Crossed, Queued
  <2> QED
    BY <1>2, <2>1, <2>3, <2>4, <2>5, <2>6 DEF SideInv
<1>3. CASE side' # side /\ ~Rename(j)
  <2>1. side.job = j /\ side.job \in Jobs
    BY <1>3, SideHolds
  <2>2. ASSUME NEW k \in Jobs, Rename(k) PROVE FALSE
    <3>1. side'.job = k
      BY <2>2 DEF Rename, Request
    <3> QED
      BY <1>3, <2>2, <3>1
  <2>3. ~(SideLands /\ side' = Answered(side) /\ side.phase = "sent" /\ Lands(side))
    BY <1>0, <2>1, AnsweredKnows
  <2> QED
    BY <1>0, <1>3, <2>2, <2>3, SideMoves
<1>4. Rename(j) => side.job # j
  BY <1>0 DEF Rename
<1> QED
  BY <1>1, <1>2, <1>3, <1>4, SideHolds

\* A conflict that is not on screen while the job is re-read was not there before either.
LEMMA QuietMoves ==
  ASSUME SaveInv, Moving, NEW j \in Jobs, ask'.job = j, ed'.job = j, ed'.conflict = Quiet, ~Open(j)
  PROVE  ask.job = j /\ (ed.job = j => ed.conflict = Quiet)
<1> USE StateIsTyped
<1>0. ed \in EditorState /\ ask \in Wanderers /\ Idle.job # j /\ j # NoJob
  BY NoJobAssumption DEF StateTypes, Idle
<1>1. CASE AdoptAsks
  BY <1>1 DEF AdoptAsks, Asked
<1>2. CASE AdoptEnds
  BY <1>0, <1>2 DEF AdoptEnds
<1>3. CASE Dismiss \/ OverwriteConflict
  BY <1>0, <1>3 DEF Dismiss, OverwriteConflict, Asked
<1>4. CASE PutSucceeds \/ PutIsRefused
  <2>1. put.job # NoJob /\ ask' = ask
    BY <1>4, NoJobAssumption DEF PutSucceeds, PutIsRefused, SaveInv, JobsAreKnown
  <2>2. ed' = ed \/ ed'.conflict \in {ed.conflict, [job |-> put.job, copy |-> put.noticed]}
    <3>1. CASE PutSucceeds /\ ed.job # put.job
      BY <3>1 DEF PutSucceeds
    <3>2. CASE PutSucceeds /\ ed.job = put.job
      <4>1. PICK conflict \in {ed.conflict, [job |-> put.job, copy |-> put.noticed]} :
              ed' = [ed EXCEPT !.rev = put.copy.rev, !.meta = put.copy.meta,
                               !.dirty = ed.dirty /\ ~Settled(put), !.conflict = conflict]
        BY <3>2, Zenon DEF PutSucceeds
      <4> QED
        BY <1>0, <4>1 DEF EditorState
    <3>3. CASE PutIsRefused
      <4>1. PICK conflict \in {ed.conflict, [job |-> put.job, copy |-> put.noticed]} :
              ed' = [ed EXCEPT !.refused = TRUE, !.conflict = conflict]
        BY <3>3, Zenon DEF PutIsRefused
      <4> QED
        BY <1>0, <4>1 DEF EditorState
    <3> QED
      BY <1>4, <3>1, <3>2, <3>3
  <2> QED
    BY <2>1, <2>2 DEF Quiet
<1>5. CASE AskLands \/ AskFails
  BY <1>0, <1>5 DEF AskLands, AskFails, Wanderers
<1>6. CASE Close
  BY <1>0, <1>6 DEF Close, Closed
<1>7. CASE \E k \in Jobs : Open(k)
  <2> PICK k \in Jobs : Open(k)
    BY <1>7
  <2>1. ed'.job = k
    <3>1. lib[k] \in Copies
      BY DEF StateTypes
    <3> QED
      BY <3>1, LoadedTypes DEF Open
  <2> QED
    BY <2>1
<1>8. CASE Edit \/ TimerFires \/ \E k \in Jobs : Rename(k)
  <2>1. ed'.conflict = ed.conflict /\ ask' = ask
    BY <1>0, <1>8 DEF Edit, TimerFires, Rename, NamedInEditor, EditorState
  <2> QED
    BY <2>1
<1>9. CASE ~(\/ Edit \/ TimerFires \/ Close \/ AdoptAsks \/ AdoptEnds \/ AskLands \/ AskFails
             \/ PutSucceeds \/ PutIsRefused \/ OverwriteConflict \/ Dismiss
             \/ \E k \in Jobs : Rename(k) \/ Open(k))
  <2>1. ed' = ed /\ ask' = ask
    BY <1>9 DEF Moving, Editing, Writing, Renaming, Answering, Others, SaveByHand, StartWrite,
       PutLands, PutFails, PutIsLost, SideLands, SideFails, SideEnds, SavedElsewhere,
       DeletedElsewhere, DeleteJob
  <2> QED
    BY <2>1
<1> QED
  BY <1>1, <1>2, <1>3, <1>4, <1>5, <1>6, <1>7, <1>8, <1>9

LEMMA LibStep ==
  ASSUME SaveInv, HashInv, StoredInv, Moving, NEW j \in Jobs, Calm(j), backend = "workspace",
         Kept(j)
  PROVE  LibInv(j)'
<1> USE StateIsTyped
<1>0. /\ Absent.hash = 0 /\ Absent.body = {} /\ Idle.job # j /\ ed \in EditorState
      /\ unguarded \subseteq Jobs
  BY NoJobAssumption DEF Absent, Idle, StateTypes
<1>1. lib'[j].hash # 0 => mirror'[j].body \subseteq lib'[j].body
  <2>1. CASE AdoptEnds /\ Theirs.job = j /\ Theirs # Quiet
    BY <2>1, AdoptIsCalm
  <2>2. CASE ~(AdoptEnds /\ Theirs.job = j /\ Theirs # Quiet)
    BY <1>0, <2>2, LibMoves DEF Kept, LibInv
  <2> QED
    BY <2>1, <2>2
<1>2. ASSUME ed'.job = j, ~ed'.dirty,
             \/ j \in unguarded'
             \/ lib'[j].hash # 0 /\ mirror'[j].hash = 0
             \/ ask'.job = j /\ ed'.conflict = Quiet
      PROVE  ed'.body \subseteq lib'[j].body
  <2>1. CASE Open(j)
    BY <2>1, LoadIsCalm
  <2>2. CASE AdoptEnds /\ Theirs.job = j /\ Theirs # Quiet
    BY <2>2, AdoptIsCalm
  <2>3. CASE /\ ed.job = j /\ ed'.body = ed.body /\ ~Open(j)
             /\ ~(AdoptEnds /\ Theirs.job = j /\ Theirs # Quiet)
    <3>1. CASE PutSucceeds /\ put.job = j /\ put.phase = "ok" /\ lib'[j] = put.copy
      <4>1. ~ed.dirty \/ ed.body = put.copy.body
        BY <1>2, <2>3, EdMoves
      <4>2. ~ed.dirty => ed.body \subseteq put.copy.body
        BY <2>3, <3>1 DEF Kept, FlightInv, Flights, Clean
      <4> QED
        BY <2>3, <3>1, <4>1, <4>2
    <3>2. CASE ~ed.dirty /\ ~(PutSucceeds /\ put.job = j /\ put.phase = "ok" /\ lib'[j] = put.copy)
      <4>1. j \in unguarded' => j \in unguarded
        <5>1. ~OverwriteConflict
          BY <1>2, OverwriteTypes
        <5> QED
          BY <5>1 DEF Moving, Editing, Writing, Renaming, Answering, Others, Edit, TimerFires,
             SaveByHand, Close, Open, StartWrite, PutLands, PutFails, PutSucceeds, PutIsRefused,
             PutIsLost, Mirrored, Rename, SideLands, SideFails, SideEnds, Dismiss, AdoptAsks,
             AskLands, AskFails, AdoptEnds, SavedElsewhere, DeletedElsewhere, DeleteJob
      <4>2. ask'.job = j /\ ed'.conflict = Quiet => ask.job = j /\ ed.conflict = Quiet
        BY <1>2, <2>3, QuietMoves
      <4>3. CASE lib'[j] = lib[j] /\ mirror'[j] = mirror[j]
        BY <1>2, <2>3, <3>2, <4>1, <4>2, <4>3 DEF Kept, LibInv, Clean
      <4>4. CASE SideEnds /\ side.job = j /\ side.phase = "ok" /\ mirror'[j] = side.copy
                 /\ j \notin unguarded'
        <5>1. side.copy.hash # 0
          BY <4>4 DEF HashInv
        <5>2. UnderWay(j) /\ ask' = ask
          BY <4>4, NothingUnderWay DEF SideEnds
        <5>3. ask'.job # j
          BY <5>2 DEF Calm
        <5> QED
          BY <1>2, <4>4, <5>1, <5>3
      <4>5. CASE /\ AdoptEnds /\ ask.job = j /\ lib'[j] = lib[j]
                 /\ ed.conflict = Quiet \/ ed'.job # j
        BY <1>2, <2>3, <3>2, <4>5 DEF Kept, LibInv, Clean
      <4> QED
        BY <1>0, <2>3, <3>2, <4>3, <4>4, <4>5, LibMoves
    <3>3. PutSucceeds /\ put.job = j => lib'[j] = put.copy
      BY DEF PutSucceeds, Upserted, StateTypes
    <3> QED
      BY <1>2, <2>3, <3>1, <3>2, <3>3, EdMoves
  <2>4. CASE ed.job = j /\ ed'.dirty
    BY <1>2, <2>4
  <2> QED
    BY <1>2, <2>1, <2>2, <2>3, EdMoves
<1> QED
  BY <1>1, <1>2 DEF LibInv, Clean

LEMMA StoredInit == Init => StoredInv
<1> SUFFICES ASSUME Init, NEW j \in Jobs PROVE Kept(j) /\ Idle.phase # "ok" /\ Idle.copy = Absent
  BY DEF Init, StoredInv, Kept, Idle
<1>1. /\ Idle.job # j /\ Closed.job # j /\ Idle.phase = "none" /\ Idle.copy = Absent
      /\ Seeded.body = {} /\ disk[j] = Seeded /\ lib[j] = Seeded /\ mirror[j] = Seeded
  BY NoJobAssumption DEF Init, Idle, Closed, Seeded, Hydrated, Listed
<1>2. Queued(j) = {} /\ Flights(j) = {}
  BY <1>1 DEF Init, Queued, Flights
<1> QED
  BY <1>1, <1>2 DEF Init, Kept, OrderInv, FlightInv, OldInv, StoreInv, Has, SideInv, LibInv, Clean

LEMMA StoredStep ==
  ASSUME SaveInv, HashInv, StoredInv, Moving, Observed
  PROVE  StoredInv'
<1>1. backend' = backend
  BY DEF Moving, Editing, Writing, Renaming, Answering, Others, Edit, TimerFires, SaveByHand, Close,
     Open, StartWrite, PutLands, PutFails, PutSucceeds, PutIsRefused, PutIsLost, Rename, SideLands,
     SideFails, SideEnds, Dismiss, AdoptAsks, AskLands, AskFails, AdoptEnds, OverwriteConflict,
     SavedElsewhere, DeletedElsewhere, DeleteJob
<1>2. ask'.phase # "ok" => ask'.copy = Absent
  <2>1. ask \in Wanderers
    BY StateIsTyped DEF StateTypes
  <2>2. CASE AdoptAsks \/ AskLands \/ AskFails \/ AdoptEnds
    <3>1. CASE AdoptAsks \/ AdoptEnds
      <4>1. Idle \in Wanderers /\ Idle.copy = Absent
        BY NoCopies DEF Idle
      <4>2. ask' = [Idle EXCEPT !.job = ed.job, !.phase = "sent"] \/ ask' = Idle
        BY <3>1 DEF AdoptAsks, AdoptEnds
      <4> QED
        BY <4>1, <4>2 DEF Wanderers
    <3>2. CASE AskLands
      BY <2>1, <3>2 DEF AskLands, Wanderers
    <3>3. CASE AskFails
      BY <2>1, <3>3 DEF AskFails, Wanderers
    <3> QED
      BY <2>2, <3>1, <3>2, <3>3
  <2>3. CASE ~(AdoptAsks \/ AskLands \/ AskFails \/ AdoptEnds)
    <3>1. ask' = ask
      BY <2>3 DEF Moving, Editing, Writing, Renaming, Answering, Others, Edit, TimerFires,
         SaveByHand, Close, Open, StartWrite, PutLands, PutFails, PutSucceeds, PutIsRefused,
         PutIsLost, Rename, SideLands, SideFails, SideEnds, Dismiss, OverwriteConflict,
         SavedElsewhere, DeletedElsewhere, DeleteJob
    <3> QED
      BY <3>1 DEF StoredInv
  <2> QED
    BY <2>2, <2>3
<1>3. ASSUME backend = "workspace", NEW j \in Jobs \ behind'
      PROVE  /\ OrderInv(j)' /\ FlightInv(j)' /\ OldInv(j)'
             /\ StoreInv(j)' /\ SideInv(j)' /\ LibInv(j)'
  <2>1. j \notin behind /\ Calm(j)
    BY DEF Observed, Calm
  <2>2. Kept(j)
    BY <1>3, <2>1 DEF StoredInv, Kept
  <2> QED
    BY <1>3, <2>1, <2>2, OrderStep, FlightStep, OldStep, StoreStep, SideStep, LibStep
<1> QED
  BY <1>1, <1>2, <1>3 DEF StoredInv

\* However saves, renames, conflicts, removals and the edits of others interleave, the
\* save path has its types, forgets no edit, and "all changes saved" means what it says.
THEOREM EditsAreNotLost == Spec => []EditsAreCarried
<1>1. SaveInv /\ CarriedInv /\ StoredInv => EditsAreCarried
  <2> SUFFICES ASSUME SaveInv, StoredInv PROVE SavedMeansStored
    BY DEF EditsAreCarried, SaveInv, CarriedInv
  <2> SUFFICES ASSUME backend = "workspace", ed.job \in Jobs \ behind, ~ed.dirty
               PROVE  ed.body \subseteq disk[ed.job].body \/ disk[ed.job].hash = 0
    BY DEF SavedMeansStored
  <2>1. StoreInv(ed.job)
    BY DEF StoredInv
  <2> QED
    BY <2>1 DEF StoreInv, Clean, Has
<1>2. SaveInv /\ HashInv /\ StoredInv /\ [Next]_vars => HashInv' /\ StoredInv'
  <2> SUFFICES ASSUME SaveInv, HashInv, StoredInv, [Next]_vars PROVE HashInv' /\ StoredInv'
    OBVIOUS
  <2>1. CASE Next
    BY <2>1, HashStep, StoredStep DEF Next, Moving
  <2>2. CASE UNCHANGED vars
    <3>1. HashInv'
      BY <2>2 DEF vars, HashInv, Known
    <3>2. StoredInv'
      BY <2>2 DEF vars, StoredInv, OrderInv, FlightInv, Flights, Queued, OldInv, StoreInv, Has,
         SideInv, Covers, LibInv, Clean
    <3> QED
      BY <3>1, <3>2
  <2> QED
    BY <2>1, <2>2
<1> QED
  BY <1>1, <1>2, SaveInit, SaveStep, CarriedInit, CarriedStep, HashInit, StoredInit, PTL DEF Spec
=============================================================================
