----------------------------- MODULE EditorSave -----------------------------
(***************************************************************************)
(* One Studio tab that edits the jobs of a library other people write too: *)
(* the save path of store/editor.ts, the library list of store/library.ts, *)
(* lib/storage/db.ts and, under it, the mirror of the runner's workspace   *)
(* (lib/storage/remote.ts) or the storage of the browser, which a second   *)
(* tab shares. The graph of a job is the set of edits made to it, its name *)
(* and schedule another set (meta). A copy whose hash is 0 is no record;   *)
(* the number of saved bytes stands for the hash the workspace computes.   *)
(*                                                                         *)
(* A write is three steps: it starts (what is stored is read, the next     *)
(* record made and sent), it lands on disk, and its answer reaches the tab.*)
(* Everything else, typing included, happens between them.                 *)
(***************************************************************************)
EXTENDS Integers, Sequences, FiniteSets, FiniteSetsExt

CONSTANTS
  Jobs,
  NoJob,
  Backends,      \* "workspace", or "browser" when no runner answers
  MaxEdits,      \* edits, renames and edits made elsewhere, all told
  MaxRenames,
  MaxElsewhere,  \* writes and deletions by others
  MaxSaves,      \* saves asked for by hand
  MaxFaults,     \* requests that fail
  MaxQueue       \* captured edits waiting in the chain of writes

ASSUME NoJobAssumption == NoJob \notin Jobs
ASSUME BackendsAssumption == Backends \subseteq {"workspace", "browser"}
ASSUME BoundsAssumption ==
  {MaxEdits, MaxRenames, MaxElsewhere, MaxSaves, MaxFaults, MaxQueue} \subseteq Nat

VARIABLES
  backend,
  disk,       \* what is stored, job by job
  mirror,     \* cache and revisions of the workspace backend
  unguarded,  \* jobs whose next write states no revision
  lib,        \* jobs of the library store
  ed,         \* the editor store
  chain,      \* writeChain: captured edits not yet being written
  put,        \* the write the chain is at
  side,       \* a write of updateJobMeta, which is not in the chain
  ask,        \* the re-read of adoptConflict
  lastWrite,
  made,       \* edits, saves asked for, faults and so on so far (bounds)
  stamp,      \* hashes given out
  shown,      \* edits of each job the person has had on screen
  typed,      \* edits made on the canvas
  landed,     \* edits this tab has stored
  behind,     \* jobs whose canvas may not be what is stored (see Crossed)
  excused     \* edits whose write was refused or failed, or that were given up

vars == <<backend, disk, mirror, unguarded, lib, ed, chain, put, side, ask,
          lastWrite, made, stamp, shown, typed, landed, behind, excused>>

Edits  == 1 .. MaxEdits
Absent == [rev |-> 0, meta |-> {}, body |-> {}, hash |-> 0]
Seeded == [rev |-> 1, meta |-> {}, body |-> {}, hash |-> 1]
Quiet  == [job |-> NoJob, copy |-> Absent]
Idle   == [job |-> NoJob, copy |-> Absent, base |-> 0, guarded |-> FALSE,
           noticed |-> Absent, phase |-> "none"]
Closed == [job |-> NoJob, rev |-> 0, meta |-> {}, body |-> {}, dirty |-> FALSE,
           timer |-> FALSE, conflict |-> Quiet, refused |-> FALSE]

Content(copy) == copy.meta \union copy.body
OnScreen(j) ==
  (IF ed.job = j THEN ed.meta \union ed.body ELSE {})
  \union (IF ed.job # NoJob /\ ed.conflict.job = j THEN Content(ed.conflict.copy) ELSE {})
  \union (IF side.job = j THEN Content(side.copy) ELSE {})

\* The snapshot of the workspace fills mirror and revisions, load() the list.
Hydrated == mirror = disk
Listed == lib = disk

Init ==
  /\ backend \in Backends
  /\ disk = [j \in Jobs |-> Seeded] /\ Hydrated /\ Listed
  /\ unguarded = {} /\ ed = Closed /\ chain = <<>>
  /\ put = Idle /\ side = Idle /\ ask = Idle /\ lastWrite = [job |-> NoJob, rev |-> 0]
  /\ made = [edits |-> 0, renames |-> 0, elsewhere |-> 0, saves |-> 0, faults |-> 0]
  /\ stamp = 1 /\ shown = [j \in Jobs |-> {}] /\ typed = {} /\ landed = {} /\ excused = {}
  /\ behind = {}

Count(what) == made' = [made EXCEPT ![what] = @ + 1]
NewEdit(what) == made' = [made EXCEPT !.edits = @ + 1, ![what] = @ + 1]
CanEdit == made.edits < MaxEdits
-----------------------------------------------------------------------------
(* The editor: commits, the autosave timer, flush.                         *)

\* commit: the change is on the canvas, dirty, and the timer starts anew.
Edit ==
  /\ ed.job # NoJob /\ CanEdit
  /\ ed' = [ed EXCEPT !.body = @ \union {made.edits + 1}, !.dirty = TRUE, !.timer = TRUE]
  /\ made' = [made EXCEPT !.edits = @ + 1] /\ typed' = typed \union {made.edits + 1}
  /\ UNCHANGED <<backend, disk, mirror, unguarded, lib, chain, put, side, ask, lastWrite,
                 stamp, landed, excused>>

\* capture and flush: the chain takes what is on the canvas, if it is dirty.
Capture(e) == [job |-> e.job, copy |-> [rev |-> e.rev, meta |-> e.meta, body |-> e.body,
                                        hash |-> 0]]
Flushed(e) == IF e.job # NoJob /\ e.dirty THEN Append(chain, Capture(e)) ELSE chain
CanQueue == Len(chain) < MaxQueue

TimerFires ==
  /\ ed.timer /\ CanQueue
  /\ ed' = [ed EXCEPT !.timer = FALSE]
  /\ chain' = Flushed(ed)
  /\ UNCHANGED <<backend, disk, mirror, unguarded, lib, put, side, ask, lastWrite, made,
                 stamp, typed, landed, excused>>

SaveByHand ==
  /\ ed.dirty /\ CanQueue /\ made.saves < MaxSaves
  /\ chain' = Flushed(ed) /\ Count("saves")
  /\ UNCHANGED <<backend, disk, mirror, unguarded, lib, ed, put, side, ask, lastWrite,
                 stamp, typed, landed, excused>>

Loaded(j, copy) ==
  [Closed EXCEPT !.job = j, !.rev = copy.rev, !.meta = copy.meta, !.body = copy.body]

\* The screen opens the library's copy of the job, or says there is none.
Found(j) == lib[j].hash # 0

\* open: what the job open so far still owed is flushed.
Open(j) ==
  /\ ed.job # j /\ Found(j) /\ CanQueue
  /\ chain' = Flushed(ed)
  /\ ed' = Loaded(j, lib[j])
  /\ UNCHANGED <<backend, disk, mirror, unguarded, lib, put, side, ask, lastWrite, made,
                 stamp, typed, landed, excused>>

Close ==
  /\ ed.job # NoJob /\ CanQueue
  /\ chain' = Flushed(ed)
  /\ ed' = Closed
  /\ UNCHANGED <<backend, disk, mirror, unguarded, lib, put, side, ask, lastWrite, made,
                 stamp, typed, landed, excused>>
-----------------------------------------------------------------------------
(* A write of the chain: write() over saveJob() over set().                *)

StoredNow(j) == IF backend = "browser" THEN disk[j] ELSE mirror[j]

\* A PUT states the revision last seen, or none at all; a browser asks nothing.
Request(j, copy, noticed) ==
  [job |-> j, copy |-> copy, base |-> mirror[j].hash,
   guarded |-> backend = "workspace" /\ j \notin unguarded,
   noticed |-> noticed, phase |-> "sent"]

StartWrite ==
  /\ put.phase = "none" /\ chain # <<>>
  /\ LET p      == Head(chain)
         stored == StoredNow(p.job)
         ours   == lastWrite = [job |-> p.job, rev |-> stored.rev]
         theirs == stored.hash # 0 /\ stored.rev # p.copy.rev /\ ~ours
     IN  put' = Request(p.job, [p.copy EXCEPT !.rev = Max({@, stored.rev}) + 1],
                        IF theirs THEN stored ELSE Absent)
  /\ chain' = Tail(chain)
  /\ UNCHANGED <<backend, disk, mirror, unguarded, lib, ed, side, ask, lastWrite, made,
                 stamp, typed, landed, excused>>

\* Mutant of Refuses: the runner takes a write whatever its revision says.
RefusesNothing(r) == FALSE

\* The request reaches the store: kept, or refused with what is there instead.
Refuses(r) == r.guarded /\ disk[r.job].hash # r.base

Answered(r) ==
  IF Refuses(r) THEN [r EXCEPT !.phase = "refused", !.noticed = disk[r.job]]
  ELSE [r EXCEPT !.phase = "ok", !.copy.hash = stamp + 1]

Lands(r) ==
  IF Refuses(r) THEN UNCHANGED <<disk, stamp, landed>>
  ELSE /\ disk' = [disk EXCEPT ![r.job] = [r.copy EXCEPT !.hash = stamp + 1]]
       /\ stamp' = stamp + 1
       /\ landed' = landed \union Content(r.copy)

PutLands ==
  /\ put.phase = "sent" /\ Lands(put) /\ put' = Answered(put)
  /\ UNCHANGED <<backend, mirror, unguarded, lib, ed, chain, side, ask, lastWrite, made,
                 excused, typed>>

\* The runner is unreachable, before the write landed or before it answered.
PutFails ==
  /\ put.phase \in {"sent", "ok"} /\ made.faults < MaxFaults
  /\ put' = [put EXCEPT !.phase = "failed"] /\ Count("faults")
  /\ UNCHANGED <<backend, disk, mirror, unguarded, lib, ed, chain, side, ask, lastWrite,
                 stamp, typed, landed, excused>>

\* set() after the answer: the write's own bytes are what was last seen.
Mirrored(r) ==
  IF backend = "workspace"
  THEN mirror' = [mirror EXCEPT ![r.job] = r.copy] /\ unguarded' = unguarded \ {r.job}
  ELSE UNCHANGED <<mirror, unguarded>>

Upserted(j, copy) == [lib EXCEPT ![j] = copy]

\* Mutant of Settled: what was typed during the write is not looked for.
SettledAlways(r) == TRUE

\* The canvas is still the one the write stored: the same nodes, the same edges.
Settled(r) == ed.body = r.copy.body

PutSucceeds ==
  /\ put.phase = "ok" /\ Mirrored(put)
  /\ lastWrite' = [job |-> put.job, rev |-> put.copy.rev]
  /\ lib' = Upserted(put.job, put.copy)
  /\ ed' = IF ed.job # put.job THEN ed
           ELSE [ed EXCEPT
                  !.rev = put.copy.rev, !.meta = put.copy.meta,
                  !.dirty = @ /\ ~Settled(put),
                  !.conflict = IF put.noticed = Absent THEN @
                               ELSE [job |-> put.job, copy |-> put.noticed]]
  /\ put' = Idle
  /\ UNCHANGED <<backend, disk, chain, side, ask, made, stamp, typed, landed, excused>>

\* The 409: whatever job is open by now gets the notice, and stays as it is.
PutIsRefused ==
  /\ put.phase = "refused"
  /\ ed' = [ed EXCEPT !.refused = TRUE,
              !.conflict = IF put.noticed = Absent THEN @
                           ELSE [job |-> put.job, copy |-> put.noticed]]
  /\ put' = Idle /\ excused' = excused \union put.copy.body
  /\ UNCHANGED <<backend, disk, mirror, unguarded, lib, chain, side, ask, lastWrite, made,
                 stamp, typed, landed>>

PutIsLost ==
  /\ put.phase = "failed" /\ put' = Idle /\ excused' = excused \union put.copy.body
  /\ UNCHANGED <<backend, disk, mirror, unguarded, lib, ed, chain, side, ask, lastWrite,
                 made, stamp, typed, landed>>
-----------------------------------------------------------------------------
(* Renaming, tagging, scheduling: updateJobMeta saves the library's copy.  *)

\* The editor's own job takes the new name too, and nothing else of the save.
NamedInEditor(j) ==
  ed' = IF ed.job = j THEN [ed EXCEPT !.meta = @ \union {made.edits + 1}] ELSE ed

Rename(j) ==
  /\ CanEdit /\ made.renames < MaxRenames /\ side = Idle /\ Found(j)
  /\ LET next == [lib[j] EXCEPT !.rev = @ + 1, !.meta = @ \union {made.edits + 1}]
     IN  side' = Request(j, next, Absent)
  /\ NamedInEditor(j)
  /\ NewEdit("renames")
  /\ UNCHANGED <<backend, disk, mirror, unguarded, lib, chain, put, ask, lastWrite, stamp,
                 typed, landed, excused>>

SideLands ==
  /\ side.phase = "sent" /\ Lands(side) /\ side' = Answered(side)
  /\ UNCHANGED <<backend, mirror, unguarded, lib, ed, chain, put, ask, lastWrite, made,
                 excused, typed>>

SideFails ==
  /\ side.phase \in {"sent", "ok"} /\ made.faults < MaxFaults
  /\ side' = [side EXCEPT !.phase = "failed"] /\ Count("faults")
  /\ UNCHANGED <<backend, disk, mirror, unguarded, lib, ed, chain, put, ask, lastWrite,
                 stamp, typed, landed, excused>>

SideEnds ==
  /\ side.phase \in {"ok", "refused", "failed"} /\ side' = Idle
  /\ IF side.phase = "ok"
     THEN /\ Mirrored(side)
          /\ lib' = [lib EXCEPT ![side.job] = IF @.hash = 0 THEN @ ELSE side.copy]
     ELSE UNCHANGED <<mirror, unguarded, lib>>
  /\ UNCHANGED <<backend, disk, ed, chain, put, ask, lastWrite, made, stamp, typed, landed, excused>>
-----------------------------------------------------------------------------
(* The answers to a conflict: dismiss it, take theirs, overwrite it.       *)

\* The banner: up while the open editor has a conflict, busy while one is answered.
Asked == ed.conflict # Quiet /\ ed.job # NoJob /\ ask = Idle

Dismiss ==
  /\ Asked /\ ~ed.refused
  /\ ed' = [ed EXCEPT !.conflict = Quiet]
  /\ UNCHANGED <<backend, disk, mirror, unguarded, lib, chain, put, side, ask, lastWrite,
                 made, stamp, typed, landed, excused>>

AdoptAsks ==
  /\ Asked
  /\ ask' = [Idle EXCEPT !.job = ed.job, !.phase = "sent"]
  /\ UNCHANGED <<backend, disk, mirror, unguarded, lib, ed, chain, put, side, lastWrite,
                 made, stamp, typed, landed, excused>>

AskLands ==
  /\ ask.phase = "sent"
  /\ ask' = [ask EXCEPT !.phase = "ok", !.copy = disk[ask.job]]
  /\ UNCHANGED <<backend, disk, mirror, unguarded, lib, ed, chain, put, side, lastWrite,
                 made, stamp, typed, landed, excused>>

AskFails ==
  /\ ask.phase \in {"sent", "ok"} /\ made.faults < MaxFaults
  /\ ask' = [ask EXCEPT !.phase = "failed", !.copy = Absent] /\ Count("faults")
  /\ UNCHANGED <<backend, disk, mirror, unguarded, lib, ed, chain, put, side, lastWrite,
                 stamp, typed, landed, excused>>

\* refresh pairs the record with its revision; no record is an answer too.
Refreshed ==
  mirror' = IF ask.phase = "ok" /\ backend = "workspace"
            THEN [mirror EXCEPT ![ask.job] = ask.copy] ELSE mirror

\* What was read is shown, whatever is open by now; failing that, the conflict.
AdoptEnds ==
  /\ ask.phase \in {"ok", "failed"} /\ ask' = Idle /\ Refreshed
  /\ LET theirs == IF ask.copy # Absent THEN [job |-> ask.job, copy |-> ask.copy]
                   ELSE ed.conflict
     IN  IF theirs = Quiet
         THEN /\ ed' = [ed EXCEPT !.conflict = Quiet, !.refused = FALSE]
              /\ UNCHANGED <<lastWrite, lib, excused>>
         ELSE /\ lastWrite' = [job |-> NoJob, rev |-> 0]
              /\ lib' = Upserted(theirs.job, theirs.copy)
              /\ ed' = Loaded(theirs.job, theirs.copy)
              /\ excused' = excused \union ed.body
  /\ UNCHANGED <<backend, disk, unguarded, chain, put, side, made, stamp, typed, landed>>

OverwriteNext(j) ==
  unguarded' = IF backend = "workspace" THEN unguarded \union {j} ELSE unguarded

OverwriteConflict ==
  /\ Asked /\ CanQueue
  /\ made.saves < MaxSaves /\ Count("saves")
  /\ OverwriteNext(ed.job)
  /\ ed' = [ed EXCEPT !.rev = Max({@, ed.conflict.copy.rev}), !.conflict = Quiet,
                      !.refused = FALSE, !.dirty = TRUE]
  /\ chain' = Flushed(ed')
  /\ UNCHANGED <<backend, disk, mirror, lib, put, side, ask, lastWrite, stamp, typed, landed,
                 excused>>
-----------------------------------------------------------------------------
(* The others: another machine, a git pull, a second tab of this browser;  *)
(* and this tab deleting a job from a list.                                *)

SavedElsewhere(j) ==
  /\ disk[j].hash # 0 /\ CanEdit /\ made.elsewhere < MaxElsewhere
  /\ disk' = [disk EXCEPT ![j].rev = @ + 1, ![j].hash = stamp + 1,
                          ![j].body = @ \union {made.edits + 1}]
  /\ stamp' = stamp + 1 /\ NewEdit("elsewhere")
  /\ UNCHANGED <<backend, mirror, unguarded, lib, ed, chain, put, side, ask, lastWrite,
                 typed, landed, excused>>

DeletedElsewhere(j) ==
  /\ disk[j].hash # 0 /\ made.elsewhere < MaxElsewhere
  /\ disk' = [disk EXCEPT ![j] = Absent] /\ Count("elsewhere")
  /\ UNCHANGED <<backend, mirror, unguarded, lib, ed, chain, put, side, ask, lastWrite,
                 stamp, typed, landed, excused>>

DeleteJob(j) ==
  /\ ed.job # j /\ lib[j].hash # 0 /\ made.elsewhere < MaxElsewhere /\ Count("elsewhere")
  /\ disk' = [disk EXCEPT ![j] = Absent]
  /\ mirror' = [mirror EXCEPT ![j] = Absent]
  /\ lib' = [lib EXCEPT ![j] = Absent]
  /\ UNCHANGED <<backend, unguarded, ed, chain, put, side, ask, lastWrite, stamp, typed, landed,
                 excused>>
-----------------------------------------------------------------------------
Writing   == StartWrite \/ PutLands \/ PutFails \/ PutSucceeds \/ PutIsRefused \/ PutIsLost
Renaming  == (\E j \in Jobs : Rename(j)) \/ SideLands \/ SideFails \/ SideEnds
Answering == Dismiss \/ AdoptAsks \/ AskLands \/ AskFails \/ AdoptEnds \/ OverwriteConflict
Editing   == Edit \/ TimerFires \/ SaveByHand \/ Close \/ (\E j \in Jobs : Open(j))
Others    == \E j \in Jobs : SavedElsewhere(j) \/ DeletedElsewhere(j) \/ DeleteJob(j)

UnderWay(j) ==
  \/ \E i \in DOMAIN chain : chain[i].job = j
  \/ \E write \in {put, side} : write # Idle /\ write.job = j

\* The canvas of a job and the store may part when the job is loaded, re-read or
\* removed with a write of it under way, when the re-read finds nothing and an old
\* notice is shown instead, and when one choice to overwrite frees two writes, a save
\* of the canvas and one that renames: the runner checks neither, the older may win.
Loads(j)   == ed'.job = j /\ ed.job # j
Removed(j) == disk[j].hash # 0 /\ disk'[j].hash = 0
Noticed(j) == ask # Idle /\ ask' = Idle /\ ask.copy = Absent /\ ed.conflict.job = j
Crossed(j) ==
  /\ side.job = j /\ ~side.guarded
  /\ put.job = j \/ \E i \in DOMAIN chain : chain[i].job = j

Observed ==
  /\ shown' = [j \in Jobs |-> shown[j] \union OnScreen(j)']
  /\ behind' = behind \union
       {j \in Jobs : \/ UnderWay(j) /\ (Loads(j) \/ Removed(j) \/ ask.job = j)
                     \/ Noticed(j) \/ Crossed(j)'}

Next ==
  /\ Editing \/ Writing \/ Renaming \/ Answering \/ Others
  /\ Observed

\* Timers fire, requests are answered and the answers handled; nobody has to type.
Progress(A) == WF_vars(A /\ Observed)
Fairness ==
  /\ Progress(TimerFires) /\ Progress(StartWrite) /\ Progress(PutLands)
  /\ Progress(PutSucceeds \/ PutIsRefused \/ PutIsLost)

Spec == Init /\ [][Next]_vars /\ Fairness
-----------------------------------------------------------------------------
Copies == [rev : Nat, meta : SUBSET Edits, body : SUBSET Edits, hash : Nat]
Wanderers == [job : Jobs \union {NoJob}, copy : Copies, base : Nat,
              guarded : BOOLEAN, noticed : Copies,
              phase : {"none", "sent", "ok", "refused", "failed"}]

TypeOK ==
  /\ backend \in Backends /\ unguarded \subseteq Jobs
  /\ disk \in [Jobs -> Copies] /\ mirror \in [Jobs -> Copies] /\ lib \in [Jobs -> Copies]
  /\ ed \in [job : Jobs \union {NoJob}, rev : Nat, meta : SUBSET Edits, body : SUBSET Edits,
             dirty : BOOLEAN, timer : BOOLEAN, refused : BOOLEAN,
             conflict : [job : Jobs \union {NoJob}, copy : Copies]]
  /\ chain \in Seq([job : Jobs, copy : Copies])
  /\ put \in Wanderers /\ side \in Wanderers /\ ask \in Wanderers
  /\ lastWrite \in [job : Jobs \union {NoJob}, rev : Nat]
  /\ made \in [{"edits", "renames", "elsewhere", "saves", "faults"} -> Nat]
  /\ stamp \in Nat /\ typed \subseteq Edits /\ landed \subseteq Edits /\ excused \subseteq Edits
  /\ shown \in [Jobs -> SUBSET Edits] /\ behind \subseteq Jobs

\* Saves of this tab, from wherever in its code they come, keep the promise of
\* SharedRecord: over a workspace, nothing somebody else saved is replaced that
\* the person has not had on screen, unless they chose to overwrite that job.
\* In a browser's own storage the last tab to write wins, and nothing is promised.
Promised == INSTANCE SharedRecord WITH
  held   <- [j \in Jobs |-> Content(disk[j])],
  chosen <- IF backend = "browser" THEN Jobs
            ELSE unguarded \union
                 {r.job : r \in {x \in {put, side} : x.phase = "sent" /\ ~x.guarded}}
KeepsPromise == Promised!Spec

\* No edit is forgotten on its way to the store, whatever is clicked, closed or
\* opened meanwhile: until it lands it is dirty with the autosave timer running,
\* captured in the chain, or in the write under way, unless its write was refused
\* or failed or the person took the other version over it.
OnItsWay(e) ==
  \/ e \in ed.body /\ ed.dirty /\ ed.timer
  \/ \E i \in DOMAIN chain : e \in chain[i].copy.body
  \/ put.phase # "none" /\ e \in put.copy.body
Carried == \A e \in typed : e \in landed \/ e \in excused \/ OnItsWay(e)

\* "All changes saved", the title of the save button, over a workspace: the store
\* holds what is on the canvas, unless somebody removed the job or one of the things
\* that put it in `behind` happened to it.
SavedMeansStored ==
  backend = "workspace" /\ ed.job \in Jobs \ behind /\ ~ed.dirty /\ chain = <<>>
  /\ Idle = put /\ Idle = side /\ Idle = ask
    => ed.body \subseteq disk[ed.job].body \/ disk[ed.job].hash = 0

EditsAreCarried == TypeOK /\ Carried /\ SavedMeansStored
=============================================================================
