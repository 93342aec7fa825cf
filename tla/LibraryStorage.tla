--------------------------- MODULE LibraryStorage ---------------------------
(***************************************************************************)
(* The library of Studio when it is moved as a whole (lib/storage/db.ts):  *)
(* the adoption of the browser's library by an empty workspace, migration  *)
(* of what is stored, and the import of a bundle, each with its way back.  *)
(*                                                                         *)
(* A session works on the workspace of the runner, which it sees through a *)
(* mirror (remote.ts), or on the storage of the browser. Writes that are   *)
(* sent together land one by one, in any order; when one of them fails the *)
(* work goes on at once, and the others are still under way.               *)
(*                                                                         *)
(* A record is a text and the shape it is stored in: one no type check     *)
(* accepts is odd, one that is not there is missing. The revision of a     *)
(* record is a hash of it, so the model compares records. The versions     *)
(* before the current one are one version, their hops one hop.             *)
(***************************************************************************)
EXTENDS Naturals, FiniteSets

CONSTANTS
  Keys,
  Starts,      \* where a session works, and what it finds there and in the browser
  MaxEdits,    \* records saved or deleted, in this session or elsewhere
  MaxImports,
  MaxFaults,   \* requests that fail
  MaxCloses    \* sessions that end

Shapes == {"missing", "odd", "old", "new"}
Texts == 0 .. MaxEdits + 3
Records == {r \in [text : Texts, shape : Shapes] : r.text = 0 <=> r.shape = "missing"}
Missing == [text |-> 0, shape |-> "missing"]
Odd == [text |-> 1, shape |-> "odd"]
Stored(shape) == [text |-> 1, shape |-> shape]
InBrowser(shape) == [text |-> 2, shape |-> shape]
Imported(shape) == [text |-> 3, shape |-> shape]
Bundles == [Keys -> Records]
Nothing == [k \in Keys |-> Missing]
Versions == {"none", "old", "current"}
Libraries == [record : Bundles, version : Versions]

\* The Studio that stamps a version has upgraded the records, and texts above 2 come later.
Sound(library) ==
  \A k \in Keys : /\ library.record[k].text \in 0 .. 2
                  /\ library.version = "current" => library.record[k].shape # "old"

ASSUME StartsAssumption ==
  /\ Starts \subseteq [backend : {"workspace", "browser"}, disk : Libraries, local : Libraries]
  /\ \A start \in Starts :
       /\ Sound(start.disk) /\ Sound(start.local)
       /\ start.backend = "browser" => start.local.record = Nothing
ASSUME BoundsAssumption == {MaxEdits, MaxImports, MaxFaults, MaxCloses} \subseteq Nat

VARIABLES
  backend,  \* where the session works
  disk,     \* what is stored there
  local,    \* what the browser stores beside a workspace: read, never written
  backup,   \* the bundle under KEY.backup, in the storage of the browser
  tab,      \* the session: where it is in which work, and what it holds in memory
  sent,     \* requests whose answers the session awaits together
  late,     \* requests still under way after one sent with them failed
  made,     \* edits, imports, faults and closings so far (bounds)
  last,     \* the text each record has by the last decision of a user
  waived,   \* records the storage has let go of, by one of the events named below
  broken    \* a work was cut short, and nothing completes it

vars == <<backend, disk, local, backup, tab, sent, late, made, last, waived, broken>>
ghosts == <<last, waived, broken>>

Phases == {"closed", "unready", "keep", "wipe", "put", "upgrade", "undo", "unwipe", "unput",
           "adopt", "ready"}
Works == {"none", "adopt", "migrate", "merge", "replace"}
Requests == [key : Keys, value : Records, base : Records]
Closed == [at |-> "closed", work |-> "none", mirror |-> [record |-> Nothing, version |-> "none"],
           held |-> Nothing, bundle |-> Nothing, plan |-> Nothing]

Readable(record) == record.shape \in {"old", "new"}
HasRecords(library) == library.record # Nothing
ReadBundle(library) ==
  [k \in Keys |-> IF Readable(library.record[k]) THEN library.record[k] ELSE Missing]
Old(library) == [k \in Keys |-> IF library.record[k].shape = "old" THEN library.record[k] ELSE Missing]
UpgradeJob(record) == [record EXCEPT !.shape = "new"]

Init ==
  /\ \E start \in Starts :
       /\ backend = start.backend /\ disk = start.disk /\ local = start.local
       /\ last = LET library == IF backend = "workspace" /\ ~HasRecords(disk) THEN local ELSE disk
                 IN  [k \in Keys |-> library.record[k].text]
  /\ backup = Nothing
  /\ tab = Closed
  /\ sent = {} /\ late = {}
  /\ made = [edits |-> 0, imports |-> 0, faults |-> 0, closes |-> 0]
  /\ waived = {} /\ broken = FALSE

Count(what) == made' = [made EXCEPT ![what] = @ + 1]
Fault == made.faults < MaxFaults /\ Count("faults")
-----------------------------------------------------------------------------
(* Reading and writing.                                                    *)

Seen == IF backend = "workspace" THEN tab.mirror ELSE disk

\* The transactions of a browser's storage are worked off in the order they were
\* asked for, so what is read sees what was sent before.
CanRead == backend = "workspace" \/ late = {}

Sets(bundle) ==
  {[key |-> k, value |-> bundle[k], base |-> Seen.record[k]] :
     k \in {j \in Keys : bundle[j] # Missing}}
Deletes ==
  {[key |-> k, value |-> Missing, base |-> Seen.record[k]] :
     k \in {j \in Keys : Seen.record[j] # Missing}}

\* Mutant of Conflicts: the runner takes every write.
NeverConflicts(r) == FALSE

\* Answered with a 409: the record moved since the mirror saw it. A delete asks nothing.
Conflicts(r) ==
  backend = "workspace" /\ r.value # Missing /\ r.base # disk.record[r.key]

Write(r) == disk' = [disk EXCEPT !.record[r.key] = r.value]
Mirrored(session, r) ==
  IF backend = "workspace" THEN [session EXCEPT !.mirror.record[r.key] = r.value] ELSE session
MirroredVersion(session, version) ==
  IF backend = "workspace" THEN [session EXCEPT !.mirror.version = version] ELSE session

Enter(phase) == [tab EXCEPT !.at = phase]
Rest(phase) ==
  [Enter(phase) EXCEPT !.work = "none", !.held = Nothing, !.bundle = Nothing, !.plan = Nothing]

\* Mutant of Rested: ready() goes on awaiting the migration that failed.
RestedForGood == IF tab.work = "migrate" THEN Enter("unput") ELSE Rest("ready")

\* A migration that failed may be tried again, an import is over.
Rested == Rest(IF tab.work = "migrate" THEN "unready" ELSE "ready")
-----------------------------------------------------------------------------
(* What the storage lets go of.                                            *)

OnDisk(k) == disk.record[k].text = last[k]
Kept(k) == OnDisk(k) \/ backup[k].text = last[k] \/ local.record[k].text = last[k]

\* A write that asks for no revision, over what somebody else saved meanwhile.
Blind(r) ==
  \/ /\ backend = "workspace" /\ r.value = Missing
     /\ r.base # disk.record[r.key] /\ OnDisk(r.key)
  \/ backend = "browser" /\ disk.record[r.key].text \notin
                              {0, tab.held[r.key].text, tab.bundle[r.key].text}

\* A record no bundle carries, because nothing could read it.
Unreadable(r) == disk.record[r.key].shape = "odd"

\* What a user deleted from the workspace, adopted once more.
Revives(r) == tab.work = "adopt" /\ last[r.key] # r.value.text

Spoils(r) == r.value.text # last[r.key] /\ (Blind(r) \/ Unreadable(r) \/ Revives(r))

\* A request that lands when the work it belonged to is given up or undone, and writes
\* something, or tells the session of a record its bundle does not carry.
LandsOver(r) ==
  /\ backend = "workspace"
  /\ r.value # disk.record[r.key] \/ r.value # tab.mirror.record[r.key]

\* Written without the session hearing of it: it does not know what to take back.
Unheard(r) ==
  r.value # Missing /\ r.value.text # last[r.key] /\ Seen.record[r.key] = Missing

\* What only the memory of the session held when it let go of it: a workspace has no
\* backup on disk, and a merge writes none.
Forgotten(record) ==
  {k \in Keys :
     /\ backend = "workspace" \/ tab.work = "merge"
     /\ last[k] \notin {0, record[k].text, backup[k].text, local.record[k].text}}

\* What only the backup held when the next work writes its own over it.
Overwritten == {k \in Keys : broken /\ last[k] # 0 /\ ~OnDisk(k)}
-----------------------------------------------------------------------------
(* Requests sent together (Promise.all).                                   *)

\* What the session does once a request it awaits has failed.
PartFails(record, lost) ==
  /\ tab' = CASE tab.at = "adopt" -> Rest("unready")
              [] tab.at \in {"unwipe", "unput"} -> Rested
              [] OTHER -> Enter("undo")
  /\ broken' = (broken \/ tab.at \in {"adopt", "unwipe", "unput"})
  /\ waived' = waived \union lost
                \union IF tab.at \in {"unwipe", "unput"} THEN Forgotten(record) ELSE {}

Land(r) ==
  /\ CanRead
  /\ ~Conflicts(r)
  /\ Write(r) /\ tab' = Mirrored(tab, r)
  /\ sent' = sent \ {r}
  /\ waived' = IF Spoils(r) THEN waived \union {r.key} ELSE waived
  /\ UNCHANGED <<backend, local, backup, late, made, last, broken>>

\* Refused, failed on the way there, or on the way back.
Fails(r) ==
  \/ Conflicts(r) /\ PartFails(disk.record, {}) /\ UNCHANGED <<disk, made>>
  \/ ~Conflicts(r) /\ Fault /\ PartFails(disk.record, {}) /\ UNCHANGED disk
  \/ /\ backend = "workspace" /\ ~Conflicts(r) /\ Fault
     /\ Write(r)
     /\ PartFails(disk'.record, IF Unheard(r) \/ Spoils(r) THEN {r.key} ELSE {})

Bounce(r) ==
  /\ CanRead
  /\ Fails(r)
  /\ sent' = {} /\ late' = late \union (sent \ {r})
  /\ UNCHANGED <<backend, local, backup, last>>

LandLate(r) ==
  /\ ~Conflicts(r)
  /\ Write(r) /\ tab' = Mirrored(tab, r)
  /\ late' = late \ {r}
  /\ waived' = IF LandsOver(r) \/ Spoils(r) THEN waived \union {r.key} ELSE waived
  /\ UNCHANGED <<backend, local, backup, sent, made, last, broken>>

DropLate(r) ==
  /\ \/ Conflicts(r) /\ UNCHANGED made
     \/ ~Conflicts(r) /\ Fault
  /\ late' = late \ {r}
  /\ UNCHANGED <<backend, disk, local, backup, tab, sent, last, waived, broken>>
-----------------------------------------------------------------------------
(* Opening the storage: adoption and migration.                            *)

Open ==
  /\ tab.at = "closed"
  /\ LET session == [Closed EXCEPT !.mirror = IF backend = "workspace" THEN disk ELSE @]
     IN  IF backend = "workspace" /\ ~HasRecords(disk) /\ HasRecords(local)
         THEN /\ tab' = [session EXCEPT !.at = "adopt", !.work = "adopt"]
              /\ sent' = {[key |-> k, value |-> ReadBundle(local)[k], base |-> Missing] :
                            k \in {j \in Keys : Readable(local.record[j])}}
         ELSE tab' = [session EXCEPT !.at = "unready"] /\ UNCHANGED sent
  /\ UNCHANGED <<backend, disk, local, backup, late, made, ghosts>>

\* Records of an older version in a workspace that has the stamp of the current one.
Unversioned == disk.version = "current" /\ \E k \in Keys : disk.record[k].shape = "old"

\* The version follows the records, when the browser had one.
Adopted ==
  /\ tab.at = "adopt" /\ sent = {}
  /\ \/ /\ local.version = "none"
        /\ tab' = Rest("unready")
        /\ broken' = (broken \/ Unversioned)
        /\ UNCHANGED <<disk, made>>
     \/ /\ local.version # "none"
        /\ disk' = [disk EXCEPT !.version = local.version]
        /\ tab' = MirroredVersion(Rest("unready"), local.version)
        /\ UNCHANGED <<made, broken>>
     \/ /\ local.version # "none"
        /\ Fault
        /\ tab' = Rest("unready")
        /\ broken' = (broken \/ Unversioned)
        /\ UNCHANGED disk
  /\ UNCHANGED <<backend, local, backup, sent, late, last, waived>>

\* ready(), asked by whatever screen reads next: the way in, until one migration
\* has succeeded.
Migrate ==
  /\ tab.at = "unready"
  /\ CanRead
  /\ \/ /\ Seen.version = "current"
        /\ tab' = Rest("ready")
        /\ UNCHANGED <<disk, made>>
     \/ /\ Seen.version = "none" /\ ~HasRecords(Seen)
        /\ disk' = [disk EXCEPT !.version = "current"]
        /\ tab' = MirroredVersion(Rest("ready"), "current")
        /\ UNCHANGED made
     \/ /\ Seen.version = "none" /\ ~HasRecords(Seen)
        /\ Fault
        /\ UNCHANGED <<disk, tab>>
     \/ /\ Seen.version = "old" \/ (Seen.version = "none" /\ HasRecords(Seen))
        /\ tab' = [Enter("keep") EXCEPT !.work = "migrate", !.held = ReadBundle(Seen)]
        /\ UNCHANGED <<disk, made>>
  /\ UNCHANGED <<backend, local, backup, sent, late, ghosts>>

\* Mutant of Keep: what is there is only held in memory.
KeepInMemory ==
  /\ tab.at = "keep"
  /\ IF tab.work = "migrate"
     THEN tab' = [Enter("upgrade") EXCEPT !.plan = Old(Seen)] /\ UNCHANGED sent
     ELSE tab' = Enter("wipe") /\ sent' = Deletes
  /\ UNCHANGED <<backend, disk, local, backup, late, made, ghosts>>

\* KEY.backup: a key of the browser's storage, and scratch space of the session on
\* a workspace.
Keep ==
  /\ tab.at = "keep"
  /\ \/ /\ IF tab.work = "migrate"
           THEN tab' = [Enter("upgrade") EXCEPT !.plan = Old(Seen)] /\ UNCHANGED sent
           ELSE tab' = Enter("wipe") /\ sent' = Deletes
        /\ IF backend = "browser"
           THEN backup' = tab.held /\ waived' = waived \union Overwritten
           ELSE UNCHANGED <<backup, waived>>
        /\ UNCHANGED made
     \/ /\ backend = "browser" /\ Fault
        /\ tab' = Rested
        /\ UNCHANGED <<sent, backup, waived>>
  /\ UNCHANGED <<backend, disk, local, late, last, broken>>

\* upgradeStoredJobs: one record after the other, from what was read before the first.
Upgrade(k) ==
  /\ tab.at = "upgrade" /\ tab.plan[k] # Missing
  /\ LET r == [key |-> k, value |-> UpgradeJob(tab.plan[k]), base |-> Seen.record[k]]
     IN  \/ /\ ~Conflicts(r)
            /\ Write(r)
            /\ tab' = [Mirrored(tab, r) EXCEPT !.plan[k] = Missing]
            /\ waived' = IF Spoils(r) THEN waived \union {k} ELSE waived
            /\ UNCHANGED <<made, broken>>
         \/ Fails(r)
  /\ UNCHANGED <<backend, local, backup, sent, late, last>>

\* What somebody saved after the import wrote its own.
Newer(k) == OnDisk(k) /\ tab.held[k].text # last[k]

Decided ==
  [k \in Keys |->
     IF tab.work = "migrate" \/ Newer(k) THEN last[k]
     ELSE IF tab.work = "replace" \/ tab.bundle[k] # Missing THEN tab.bundle[k].text
     ELSE last[k]]

\* The version is written last. On a workspace it may be written and the answer lost.
Stamp ==
  /\ tab.at = "upgrade" /\ tab.plan = Nothing
  /\ \/ /\ disk' = [disk EXCEPT !.version = "current"]
        /\ tab' = MirroredVersion(Rest("ready"), "current")
        /\ last' = Decided
        /\ UNCHANGED <<made, waived, broken>>
     \/ /\ Fault
        /\ tab' = Enter("undo")
        /\ UNCHANGED <<disk, last, waived, broken>>
     \/ /\ backend = "workspace" /\ Fault
        /\ disk' = [disk EXCEPT !.version = "current"]
        /\ tab' = Enter("undo")
        /\ broken' = TRUE
        /\ UNCHANGED <<last, waived>>
  /\ UNCHANGED <<backend, local, backup, sent, late>>
-----------------------------------------------------------------------------
(* Writing a bundle, and writing back what was there.                      *)

Import(work, shape, keys) ==
  /\ tab.at = "ready"
  /\ CanRead
  /\ made.imports < MaxImports /\ Count("imports")
  /\ LET bundle == [k \in Keys |-> IF k \in keys THEN Imported(shape) ELSE Missing]
     IN  /\ tab' = [Enter(IF work = "replace" THEN "keep" ELSE "put") EXCEPT
                      !.work = work, !.bundle = bundle, !.held = ReadBundle(Seen)]
         /\ sent' = IF work = "replace" THEN {} ELSE Sets(bundle)
  /\ UNCHANGED <<backend, disk, local, backup, late, ghosts>>

Wiped ==
  /\ tab.at = "wipe" /\ sent = {}
  /\ tab' = Enter("put")
  /\ sent' = Sets(tab.bundle)
  /\ UNCHANGED <<backend, disk, local, backup, late, made, ghosts>>

IsOld(bundle) == \E k \in Keys : bundle[k].shape = "old"

PutDone ==
  /\ tab.at = "put" /\ sent = {}
  /\ tab' = [Enter("upgrade") EXCEPT !.plan = IF IsOld(tab.bundle) THEN Old(Seen) ELSE Nothing]
  /\ UNCHANGED <<backend, disk, local, backup, sent, late, made, ghosts>>

\* Mutant of Undo: the old records are put back over what the import left.
UndoWithoutWiping ==
  /\ tab.at = "undo"
  /\ CanRead
  /\ tab' = Enter("unput")
  /\ sent' = Sets(tab.held)
  /\ UNCHANGED <<backend, disk, local, backup, late, made, ghosts>>

Undo ==
  /\ tab.at = "undo"
  /\ CanRead
  /\ tab' = Enter("unwipe")
  /\ sent' = Deletes
  /\ UNCHANGED <<backend, disk, local, backup, late, made, ghosts>>

Unwiped ==
  /\ tab.at = "unwipe" /\ sent = {}
  /\ tab' = Enter("unput")
  /\ sent' = Sets(tab.held)
  /\ UNCHANGED <<backend, disk, local, backup, late, made, ghosts>>

Undone ==
  /\ tab.at = "unput" /\ sent = {}
  /\ tab' = Rested
  /\ UNCHANGED <<backend, disk, local, backup, sent, late, made, ghosts>>
-----------------------------------------------------------------------------
(* Users, here and elsewhere.                                              *)

Fresh(shape) == [text |-> made.edits + 4, shape |-> shape]

Edit(k) ==
  /\ tab.at = "ready" /\ CanRead
  /\ made.edits < MaxEdits /\ Count("edits")
  /\ LET r == [key |-> k, value |-> Fresh("new"), base |-> Seen.record[k]]
     IN  ~Conflicts(r) /\ Write(r) /\ tab' = Mirrored(tab, r)
  /\ last' = [last EXCEPT ![k] = Fresh("new").text]
  /\ waived' = waived \ {k}
  /\ UNCHANGED <<backend, local, backup, sent, late, broken>>

Delete(k) ==
  /\ tab.at = "ready" /\ CanRead
  /\ Seen.record[k] # Missing
  /\ made.edits < MaxEdits /\ Count("edits")
  /\ LET r == [key |-> k, value |-> Missing, base |-> Seen.record[k]]
     IN  Write(r) /\ tab' = Mirrored(tab, r)
  /\ last' = [last EXCEPT ![k] = 0]
  /\ waived' = waived \ {k}
  /\ UNCHANGED <<backend, local, backup, sent, late, broken>>

\* Another machine on the workspace, another tab of the browser, with the Studio
\* that goes with the version stored: on an empty workspace it stamps its own, and
\* the workspace is "the source of truth" from then on. What an older Studio saves
\* while this session migrates is upgraded by nobody.
Elsewhere(k) ==
  /\ disk.version = "none" => backend = "workspace" /\ ~HasRecords(disk)
  /\ made.edits < MaxEdits /\ Count("edits")
  /\ LET value == Fresh(IF disk.version = "old" THEN "old" ELSE "new")
     IN  /\ disk' = [disk EXCEPT !.record[k] = value,
                                 !.version = IF @ = "none" THEN "current" ELSE @]
         /\ last' = [j \in Keys |-> IF j = k THEN value.text
                                   ELSE IF HasRecords(disk) \/ tab.at # "closed" THEN last[j]
                                   ELSE 0]
  /\ waived' = waived \ {k}
  /\ broken' = (broken \/ (disk.version # "current" /\ tab.at # "closed"))
  /\ UNCHANGED <<backend, local, backup, tab, sent, late>>

\* Halfway through an upgrade, the records are whole and the next session goes on
\* from there. Halfway through a bundle, they are not.
Halfway == tab.at \in {"adopt", "wipe", "put", "undo", "unwipe", "unput"}
           \/ (tab.at = "upgrade" /\ tab.work # "migrate")

Close ==
  /\ tab.at # "closed"
  /\ made.closes < MaxCloses /\ Count("closes")
  /\ tab' = Closed
  /\ sent' = {} /\ late' = {}
  /\ broken' = (broken \/ Halfway)
  /\ waived' = IF Halfway THEN waived \union Forgotten(disk.record) ELSE waived
  /\ UNCHANGED <<backend, disk, local, backup, last>>

Work ==
  \/ \E r \in sent : Land(r) \/ Bounce(r)
  \/ \E r \in late : LandLate(r) \/ DropLate(r)
  \/ Adopted \/ Migrate \/ Keep \/ Stamp
  \/ \E k \in Keys : Upgrade(k)
  \/ Wiped \/ PutDone \/ Undo \/ Unwiped \/ Undone

Next ==
  \/ Open \/ Work \/ Close
  \/ \E work \in {"merge", "replace"}, shape \in {"old", "new"}, keys \in (SUBSET Keys) \ {{}} :
       Import(work, shape, keys)
  \/ \E k \in Keys : Edit(k) \/ Delete(k) \/ Elsewhere(k)

\* Requests are answered, and screens go on asking for the library.
Spec == Init /\ [][Next]_vars /\ WF_vars(Work)
-----------------------------------------------------------------------------
TypeOK ==
  /\ backend \in {"workspace", "browser"}
  /\ {disk, local} \subseteq Libraries
  /\ backup \in Bundles
  /\ tab \in [at : Phases, work : Works, mirror : Libraries,
              held : Bundles, bundle : Bundles, plan : Bundles]
  /\ sent \union late \subseteq Requests
  /\ made \in [edits : 0 .. MaxEdits, imports : 0 .. MaxImports,
               faults : 0 .. MaxFaults, closes : 0 .. MaxCloses]
  /\ last \in [Keys -> Texts]
  /\ waived \subseteq Keys
  /\ broken \in BOOLEAN

\* A record a user saved is on disk, in the backup there, or in the hands of a
\* session at work on it, unless one of the events named above let go of it.
RecordsAreSomewhere ==
  /\ TypeOK
  /\ \A k \in Keys \ waived : last[k] # 0 => Kept(k) \/ tab.held[k].text = last[k]

\* No bundle carries what cannot be read, into a workspace either: it stays behind.
LeftBehind(k) ==
  /\ backend = "workspace" /\ disk.record[k] = Missing
  /\ local.record[k].shape = "odd" /\ last[k] = local.record[k].text

\* importAll: "all-or-nothing". Whatever was adopted, migrated, imported or put back,
\* a session at rest has the library its users left, in the shape it can read.
LibraryIsWhole ==
  tab.at = "ready" /\ late = {} /\ ~broken =>
    \A k \in Keys \ waived :
      /\ OnDisk(k) \/ LeftBehind(k)
      /\ disk.version = "current" => disk.record[k].shape # "old"

\* ready: "a transient failure must not brick the session".
SessionIsNotBricked == tab.at = "unready" ~> tab.at \in {"ready", "closed"}

\* migrate: "copied to a backup key before anything is rewritten, and restored if a
\* step throws, so a failed migration cannot lose data".
MigrationKeepsData == \A k \in Keys : last[k] # 0 => Kept(k) \/ tab.held[k].text = last[k]
=============================================================================
