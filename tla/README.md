# Sparquet: a verification of its runner and its Studio

Sparquet executes data pipelines written as JSON on Apache Spark. Sparquet Studio is the
editor for them (`sparquet-studio/src`, in the browser), and its *runner*
(`sparquet-studio/server`) is the process that executes them: a FastAPI application with one
Spark session, one run at a time, a SQLite history, a credit account per team, schedules,
monitors and a library of JSON files. These TLA+ modules model both: on the runner the run
slot, the routes that run Jobs and Pipelines, credit, the session and the schedules; in the
Studio the path of an edit to the disk, the library when it moves as a whole, the two canvases
with what is computed from them, and a run as the panel and the boxes tell it. TLC checks the
modules on small instances; TLAPS proves the main invariants of the runner and its schedules,
of the two canvases, of saves, of the run views and of the library for instances of any size.

This file gives the inventory of the system, the plan, then each module with what its runs and
its theorems show. `PROJECT.json` maps every definition to the lines it translates and lists
the hazards the properties are for.

## Inventory

Paths are relative to `sparquet-studio/server`, those that begin with `../src` to the Studio.

| Component | State it keeps | Operations | What makes it hard | Correct when |
|---|---|---|---|---|
| Run slot (`main.py`) | `_RUN_LOCK`, `_ACTIVE_RUN` (run id and cancel flag) | acquire, begin, request, end, release, `cancelAllJobs` | request threads, worker threads, generators closed by the browser | one execution at a time; a cancellation reaches its run and only that |
| Job run routes (`main.py`) | pipeline and job row, reservation, outcome | `POST /run`, `POST /run/stream` | `finally` blocks, stores that raise, responses never read | rows closed once with one verdict; lock and hold given back |
| Flow route (`main.py`) | one job row and one hold per stage | `POST /flows/run/stream` | worker outlives its generator; stages that never run need rows | stages in order, every stage recorded, verdict adds up |
| Credit store (`credits.py`) | account, reservations, ledger, job budgets | account, grant, reserve, release, charge, settle, record_assist, release_stale | several transactions per run, a month that turns, enforcement switched | ledger explains the balance; a hold is worth what it promised |
| Spark session (`main.py`) | `_framework`, `_QUERY_COUNT`, temporary views | `_ensure_framework`, `_run_query`, dataset schema, warm start | session rebuilt while others are about to use it; shared names | no session is rebuilt under work; a query reads its own sources |
| Schedules (`scheduling.py`, `main.py`) | `_SCHEDULE_ANCHORS`, `_SCHEDULER_STARTED_AT`, library | `next_fire`, `due_at`, sweep, fire | two sweeps at once, stale time, daylight saving, grace | each occurrence fires once or is dropped, never twice |
| Stage order (`scheduling.py`, `../src/lib/pipeline`) | none | `order_stages`, `topologicalOrder`, `planPipelineRun` | cycles, disabled stages, two programs for one order | the canvas, the run and the schedule agree |
| Editor stores (`../src/store`) | graph or drawing, undo history, pending write, conflict | edit, undo, redo, save, adopt, overwrite | edits during a write, others who save, two tabs | no edit is marked saved that is not; undo walks one line |
| Storage (`../src/lib/storage`) | mirror of the workspace, revisions; version, backup | get, set, refresh, adopt, migrate, import, roll back | conditional writes over HTTP, many requests at once, a tab that closes | nothing a user saved is nowhere |
| Compiler, import, lint (`../src/lib/compiler`, `validation`) | none | `compileGraph`, `toGraph`, `lintJob` | fan-out, joins with chains of their own, quarantine scopes | what is drawn is what runs; the three agree |
| Runner client, run views (`../src/lib/runner`, run panels) | running, run shown, boxes painted, Stop | run, stop, paint the past, match rows with boxes | panels that unmount, documents left, late and lost answers | the boxes tell one run, truthfully |
| History (`history.py`) | SQLite: pipeline_run, job_run, step_run, run_log | create, finish, skip, purge, health | retention against executions in progress | a closed row is final; what is kept is consistent |
| Log recorder and step tracker (`main.py`, `history.py`) | buffer, stored, dropped; open steps | add, flush, switch; started, finished, close | late lines of the JVM, ceilings, failed flushes | a line belongs to the stage that printed it |
| Monitors (`monitoring.py`) | SQLite: monitor, monitor_state, monitor_event | create, update, delete, evaluate, record, forget, sweep | rules edited during a sweep | events alternate; a verdict answers the rule as it stands |
| Workspace (`workspace.py`) | records, readable files, `index.json`, `meta.json` | write, delete, snapshot, relocate | conditional writes, crash between files | a lost update is refused; index and files agree |
| Access (`auth.py`) | users, roles, teams, sessions, recovery codes | login, resolve, recover, set roles, disable | orders of administration; throttle window | never without an administrator; a revoked session is dead |
| Grants (`grants.py`) | none (statements in `meta.json`) | evaluate, allows | inheritance, deny over allow | the nearest statement decides |
| Vault (`vault.py`) | secret store in `meta.json` | put, remove, resolve | read-modify-write | no rotation is lost |
| Audit, assistant, providers | append-only table; none; none | record, purge; complete | HTTP to a model | - |
| Framework (`sparquet/`) | runtime variables, deferred warnings | read, transform, validate, write | evaluation order, rule dispositions | a failing rule stops what it must |
| Screens, panels, catalog data | presentation | - | - | - |

How they interact: the person edits a canvas; a commit sets a timer, the timer hands the record
to a chain of writes, which goes through the mirror of the workspace to a conditional PUT on the
runner. Run compiles the canvas and sends JSON. The run route takes the run slot, reserves
credit, opens its rows, executes the pipeline on the Spark session (in the request thread for
`/run`, in a worker thread for the streaming routes), closes the rows, settles the account and
gives the slot back. Its events come back over the stream and are painted on the boxes by their
position in the JSON; the history paints them once more when the run is over. A cancellation
comes on another thread and talks to the run slot only. Schedules read the records of the
workspace and fire the same routes as the browser. Queries share the Spark session but not the
run slot.

## Plan

In this order, the most important behaviour first. The first ten exist.

1. `RunSlot`, `SerialRuns`, `RunSlotProofs`: lock, active run, cancellation and both
   Job routes; refinement of serial execution.
2. `Credits`, `CreditsProofs`: the credit store.
3. `CreditedRuns`: composes `Credits` with the order in which each route uses it.
4. `FlowRun`, `PipelineProofs`: composed Pipelines.
5. `Session`, `SessionProofs`: session restarts against runs and queries.
6. `CronTimes`, `Schedules`: `next_fire` and `due_at` over a clock that skips or repeats; sweeps,
   anchors and firing. The theorems about them are the second part of `PipelineProofs`.
7. `EditorSave`, `SharedRecord`, `EditorSaveProofs`: one editor against a library others write;
   abstract specification: a record nobody overwrites unseen.
8. `CanvasGraph`, `EditorGraph`, `Timeline`, `Compiler`, `Decompiler`, `CanvasSteps`,
   `EditorCompiles`, `EditorImports`, `EditorGraphProofs`: the canvas of a Job and the three
   programs that read it.
9. `StudioRuns`, `StudioRunsProofs`: a run as the Studio follows it.
10. `StagePlan`, `StageCanvas`: the canvas of a Pipeline, its order here and on the runner, and
    its runs; the theorems about it are the third part of `PipelineProofs`. `LibraryStorage`,
    `LibraryProofs`: adoption, migration, import.
11. Left: the files of one `Workspace` write and a crash between them; `Access`, `Vault`,
    `Grants`; `Monitors`; retention. "Not modelled" says what was seen of each and why the
    present modules do without them.

Every safety property of a run is proved but `RoundTrip`, whose import is a recursive operator
(`Decompiler`). Worth doing next: the part of an import that does not recurse, over the lemmas
about chains that `CompilesAsDrawn` rests on.

The properties of a component are stated together when one run asks them together: a property
below that is given with names behind a colon is the conjunction of those. Where the code does
not do what a sentence of the repository says, and the disagreement is an exception among states
that are otherwise as promised, the property names the exception instead of looking away; the
section of the component says what it is.

## The run slot: `RunSlot`

State. `locked` is `_RUN_LOCK`; `active` is `_ACTIVE_RUN`; `pc` is where each request's
route stands, including the generator that a streaming route returns; `worker` and
`outcome` are the thread that executes the pipeline and what it came to; `seen` is the
local `cancelled`; `hold`, `charged` stand for the credit reservation; `jobRow` and
`runRow` are the history rows; `accepted`, `aborting` and `abortedBy` follow a
cancellation from its answer to the Spark jobs it aborted; `left` and `kills` remember
hang-ups and process deaths.

Actions follow the routes statement by statement wherever another thread can get in
between: `Acquire`/`RefuseBusy`, `Admit`/`RefuseUnpaid`, `OpenRun`, `OpenJob` (each of the
three may raise: `OpenFails`), `Begin`, then for `/run` execution in the same thread, for
`/run/stream` a response whose generator starts (`StartWorker`) or never does (`Desert`).
`After` is the order of the blocks on the way out, which the two routes do not share:
`/run` reads the flag, ends, unlocks, gives the hold back and then closes its rows and
charges; `/run/stream` closes and charges first. `CloseFails` is a store that raises there.
`HangUp` closes a suspended generator: only its `finally` runs. `CancelRequest` and
`CancelSparkJobs` are the two halves of `cancel_run`. `Kill` is a death and a restart.

| Run | Property | Shows |
|---|---|---|
| `RunSlotSafety` | `SlotIsExclusive`: `OneHolder`, `ActiveNamesTheHolder`, `OverlapNeedsAHangUp` | the lock is one request's, the active run is that request, and what executes beside it was left behind by its browser |
| | `CancellationIsHeard` | a cancellation accepted before the flag is read is read; a row says "cancelled" only of a run somebody cancelled; which other run an abort can hit |
| | `HistoryIsKept`: `RowsAgree`, `ClosedForGood` | the two rows of an execution tell one verdict, nothing is charged before the row says it, and no closed row is rewritten |
| `RunSlotLiveness` | `RunsLetGo`: `SlotComesBack`, `HoldsComeBack`, `RunsAreClosed` | the slot, the holds and the open executions come to an end, in every case but those named |
| | `RunsAreSerial` | refinement: among the runs whose clients stay, the slot implements `SerialRuns` |

Bounds. Two runs: every property relates at most two requests, and a request is asked
once because a second attempt of the same person is a second request. Two cancellations
let both runs be cancelled; one kill lets a restart meet every phase. The liveness run
leaves out cancellations, which no liveness property mentions.

Fairness. `Route(r)` is weakly fair because a request thread or a generator that has
something to do is scheduled; `Executed(r)` is weakly fair because Spark work is assumed
to end. Nobody is obliged to ask, to cancel, to leave or to kill. A generator whose
worker is still busy waits, as in the code.

Exceptions the properties name. `/run/stream` gives the lock back when the browser leaves
although its worker goes on, so the next run overlaps with it, whereas the Studio README
(line 401) says that the job "holds the lock until it returns" (`left` in
`OverlapNeedsAHangUp`, and in the state function of the refinement). A cancellation between the
raising of the flag and `cancelAllJobs` can abort the next run, and so can one of a run whose
browser left (`abortedBy`). A cancellation accepted after the flag was read is answered
`cancelled: true` and recorded as success. An admission that raises anything but a refusal
(`main.py:3469-3474` gives the lock back on an `HTTPException` only) leaves the lock taken; a
history write that raises before the `try`, and a response nobody reads, leave lock and hold
taken (`Stuck`).

## Credits: `Credits` and `CreditedRuns`

`Credits` models the store transaction by transaction: each public method takes the
store's lock, so these are the steps other threads interleave with. `Ensured` is
`_ensure` (opening balance, month refill), `Billed` the three-way split of a cost between
allowance, balance and shortfall, `Reserve`/`Release`/`Charge` the life of a hold,
`RecordAssist` what a turn of the assistant costs, `Restart` is `release_stale` at
start-up with enforcement possibly switched. `CreditedRuns` conjoins the run lock and the
order in which each route calls the store.

| Run | Property | Shows |
|---|---|---|
| `CreditsShared` | `LedgerIsHonest` | the ledger explains the balance, and nothing is forgiven while there is money |
| | `HeldIsPromised` | what an account holds is what its open reservations promise |
| | `AllowanceIsHonest`: `FreeFirst`, `FreeAllowanceAudited` | the allowance of a month is spent before the balance and never twice |
| | `HoldCoversRun` | a run that wrote no more than it declared is paid in full out of what it reserved |

Bounds: amounts up to two writes of one credit, an allowance of two and an opening balance
of one let a cost be covered by the allowance, by both, or by neither. `MaxEntries` stops
grants and assistant turns, not charges. Accounts do not interact, so one is enough.

Exceptions. `record_assist` and downward corrections do not look at what runs hold and can spend
what a run was promised, so `HoldCoversRun` speaks of accounts that only runs took from
(`OnlyRunsSpend`). On `/run` the lock and the hold are given back before the charge, so that the
next run can be admitted on money the first one still owes; the run checks `/run/stream`, which
charges first. `RouteOf` in the `.cfg` is where the other route is chosen.

## Composed Pipelines: `FlowRun`

The worker's loop and the generator are separate threads with a program counter each
(`work`, `gen`), sharing the rows, the holds and the active run. All other requests are one
*rival* that may take the slot whenever it is free and may be cancelled. `CheckFlag` to
`NextStage` are one iteration of the loop; `StopFlow` and `RefuseStage` record the stages that
never run; `WorkFails` is a store that raises in the worker; `HangUp` the browser leaving.

| Run | Property | Shows |
|---|---|---|
| `FlowRuns` | `HistoryTellsTheFlow`: `StagesInOrder`, `OneHoldAtATime`, `FlowAddsUp`, `RowsKeepTheirJob` | what the history and the ledger keep is what became of the flow |
| | `RowsAreFinal` | a closed row is not rewritten, by a late worker or by the generator's `finally` |
| | `CancelReachesItsFlow`: `CancelStopsTheFlow`, `CancelTouchesOnlyItsRun` | a cancellation stops the flow it names at the next boundary, and no other |
| | `FlowLetsGo`: `FlowEnds`, `HoldsComeBack` | both threads end and the credit comes back |

Exceptions the formulas name. When the client of a flow leaves, the `finally` clears the flag of
a cancellation already accepted, and the worker asks the flag of whoever runs next (`left`). A
hold opened after the generator gave everything back, by a stage that then raises, stays open
(`HoldsComeBack`). A file that no Job owns, skipped after a failure, is recorded as nobody's
(`RowsKeepTheirJob`; `main.py:4151`).

Three stages give a first, a middle and a last one, one of each kind of owner. Fairness is
weak fairness of each thread.

## The Spark session: `Session`

One session serves every request of the process, and the connectors a session can open
are fixed when it is built. `Ensure`, `FindGap`, `Decide`, `Stop`, `ReleaseJvm`, `Rebuild`
are `_ensure_framework`: the session lock is held from the discovery of a gap to the end of
the restart, and `Decide` looks at the query count and tries the run lock. `Obtain` is every
use of `framework.spark`, which builds a session when there is none and takes no lock. A
query obtains before it counts itself in (`Enter`), a schema read the other way round, a
syntax check (`AskParse`) does neither, a run holds the run lock of `RunSlot` and asks again
at each stage (`Execute`), unless its browser has left (`Abandon`). `RebuildFails` and
`ObtainFails` are sessions that cannot be built.

`session` is "dead" when the JVM behind it was shut down but the class attribute still
holds it; `spark[p]` is what has become of the session request p obtained. `meddled` and
`late` remember two facts the properties need: that a bystander built a session in the
middle of a restart or from settings older than the framework, and who counted itself in
between the decision and the stop.

| Run | Property | Shows |
|---|---|---|
| `SessionShared` | `RestartSparesTheWorking` | a restart spares what was visible when it was decided |
| | `SessionServesRequest` | a live session can open what its user asked for |
| | `EveryRequestEnds` | the two locks, taken in both orders, never deadlock |

Bounds: one request of each kind, needing two different connectors between them and none,
make the session be rebuilt up to three times, with the others at every point of their way.
Fairness is weak fairness of each request that has begun.

Exceptions: a query counted in after the decision is interrupted by the restart (`late`); a run
whose browser left no longer holds the run lock, so its session is stopped under it
(`Abandoned`), and because the restart inside such a run takes the lock for granted, it stops
the session under the run that has the lock now; a session built by a bystander during a restart
(`GetOrCreate` in `validate_query`, in a query, in a run) either dies with the JVM and stays the
session of the process, so that no gap is ever read from it again, or lives on without the
connectors the restart was for (`meddled`). Two queries that give a source the same name read
each other's, because temporary views belong to the session and not to the request
(`main.py:3140`): no property of them holds, and the views are not in the model.

## Schedules: `CronTimes` and `Schedules`

`CronTimes` is the arithmetic: a zone changes its offset once, so its wall clock skips some
minutes or shows them twice; a cron expression is the set of wall minutes it matches;
`next_fire` searches those after the wall minute of an instant and converts back, `due_at`
collapses what fell into the grace window. In `Schedules` a sweep takes the time once
(`Begin`), and for each schedule reads the anchor and decides (`Look`), moves the anchor
(`Claim`) and calls the run route in its own thread (`Fire` to `Finish`, or `Refused`). The
timer and `POST /schedules/evaluate` are two threads that do this at the same time; a person
may hold the run slot; `Down` and `Up` are a restart, which forgets the anchors.

| Run | Property | Shows |
|---|---|---|
| `SchedulesSweeps` | `FiresMoveForward` | the occurrences a schedule runs for only move forward, across concurrent sweeps, long runs and a restart |
| | `OccurrencesAreAnswered` | every occurrence while the process is up is answered, whoever holds the slot |

Bounds: five minutes with a sweep possible in each, a grace of two, one zone that skips two
minutes and one that repeats two, with an occurrence inside the skipped or repeated part and one
after it. One tick per minute is the resolution of cron; sweeps within one minute see the
same occurrences. Fairness: the timer sweeps again and again, a sweep that began goes on,
what it runs ends, a process that is down comes up. The clock, persons and crashes owe nothing.

Exceptions. `datetime + timedelta` drops the fold, so in the second showing of a repeated hour
`next_fire` can answer an instant before the one it was asked about, and each sweep runs the last
occurrence of the first showing again: a person in New York with a Job at 01:30 has it run once
per sweep for a quarter of an hour on the first Sunday of November, with the default grace
(`Repeated`). Two sweeps that look at one anchor before either claims it both run the occurrence
(`read`). An occurrence that falls into a restart is never run although it is younger than the
grace, because the anchor of every schedule starts as the time the process did
(`OccurrencesAreAnswered` asks `started < o`); `server/README.md` lines 706 to 710 promise it runs.

## From the edit to the disk: `EditorSave` and `SharedRecord`

One tab edits the jobs of a library other people write too. The graph of a job is the set of
edits made to it; its name and schedule are another set. `ed` is the editor store, `chain` its
`writeChain`, `put` the write the chain is at, `side` a write of `updateJobMeta`, which is not in
the chain, `ask` the re-read of `adoptConflict`; `lib` is the library list, `mirror` the cache
and revisions of the workspace backend, `disk` what is stored, on the runner or, when none
answers, in the storage two tabs of a browser share.

A write is three steps, with everything else between them: `StartWrite` reads what is stored and
sends, `PutLands` is the conditional PUT on the runner (or `PutFails`), and `PutSucceeds`,
`PutIsRefused`, `PutIsLost` are its answer in the tab. `Edit`, `TimerFires`, `SaveByHand`,
`Open`, `Close` are the person and the autosave timer; `Dismiss`, `AdoptAsks` to `AdoptEnds` and
`OverwriteConflict` the answers to a conflict; `SavedElsewhere`, `DeletedElsewhere` the others.
The ghosts `typed`, `shown`, `landed`, `excused` and `behind` follow an edit from the keyboard
to the disk; `Observed` updates them after every step.

| Run | Property | Shows |
|---|---|---|
| `EditorSaves` | `EditsAreCarried`: `Carried`, `SavedMeansStored` | no edit is forgotten on its way to the store, whatever is clicked, closed or opened meanwhile; "All changes saved" means what is on the canvas is stored |
| | `KeepsPromise` | refinement: over a workspace, nothing somebody else saved is replaced that the person has not had on screen, unless they chose to overwrite (`SharedRecord`) |

Bounds: two jobs, which are symmetric; two edits in all, one rename, one write elsewhere, one
save by hand, one failed request, one captured edit waiting. Each of the races below needs one
edit before and one after a write, and one event of another actor. Fairness says that timers fire
and requests are answered; only safety is asked under it.

Exceptions. A job opened while a write of it is in the chain is loaded from the library list,
which does not have the write yet (`JobEditor.tsx:105`); and `adoptConflict` re-reads while
writes of the job are queued (`editor.ts:435`, `:597`). Either way the canvas shows less than was
saved, under the title "All changes saved" (`JobEditor.tsx:426`), and the next save takes the
rest away (`behind`). Proving `SavedMeansStored` showed three more ways there, which the bounds
of the run do not reach: a job removed elsewhere with a write of it under way (`Removed`); a
re-read that fails or finds nothing, after which `adoptConflict` shows the record of an earlier
refusal (`editor.ts:632`, `Noticed`); and one choice to overwrite that frees two writes, because
the key is taken out of `unguarded` by the answer to a write and not when it is sent
(`remote.ts:238`, where `:197-199` say "Cleared by that write, so the one after it is guarded
again"): a save and a rename then reach the runner without a revision, and the older may win
(`Crossed`). An edit whose write was refused or failed, and one given up for the other
version, is `excused`. A browser's own storage has no revisions: the last tab wins, and
`KeepsPromise` asks nothing of it, whereas the banner says of every save that was not refused
that "the other version is still on disk" (`ConflictBanner.tsx:84`).

Seen, and left as they are: a refused write of job A raises its banner on whichever job is open
(`editor.ts:413`); `updateJobMeta` (`library.ts:164`) writes outside the chain although the
comment at `editor.ts:308` says writes are serialised. Left out: selection (one made during a
save leaves "Unsaved" with no timer behind it), `saving` and `lastSavedAt`, the `getJob` that
opening falls back on when the list does not hold the job (`JobEditor.tsx:105-106`), and the
editor of Pipelines, whose save path is a copy of this one. A DELETE is one step
(`remote.ts:266-275`): sent, landed and answered at once.

## The canvas of a Job: `CanvasGraph`, `EditorGraph`, `Compiler`, `Decompiler`, `CanvasSteps`

`CanvasGraph` is the graph: boxes with a kind and one value for what they are about, links to one
of three handles. `EditorGraph` is the editor store on it: one action per gesture, each through
`Commit` or `CommitField` (`past`, `future`, the key of the field typed into), `Undo`, `Redo`,
`Open`. `DeleteLinks` and `DeleteNodes` are the two calls React Flow makes for one Delete.
`Timeline` says what a history promises: versions in the order they were made, one of them on
screen, a gesture adds one and drops what was undone; both editors implement it.

`Compiler` is `toJson.ts`: chains walked back from each destination (`ChainToSink`), joins with a
chain of their own (`CompileSide`), the part all destinations share (`SharedPrefix`), the rules
and the datasets of the validations block, the tail of each output, and the issues that refuse a
graph. `Decompiler` is `toGraph.ts`. `CanvasSteps` is what the editor and the linter work out of
the graph on their own: the lanes that map a step of a run to its box, the ordinals, the checks
of structure. `EditorCompiles` puts canvas, compiler, editor and linter together, `EditorImports`
the import (`RoundTrip`): it alone needs a recursive operator. `Given` in `Compiler` and `Fold`
in `Decompiler` only make TLC work out a value once. Two simplifications: when no destination
has a good chain `Compile` reports "no-destination" for the issues of all of them
(`toJson.ts:587-589`), and `Trunk` takes the source of every chain where `lint.ts:278` takes that
of the first, which differ only in a graph the compiler refuses.

| Run | Property | Shows |
|---|---|---|
| `EditorGraphs` | `VersionsAreSound` | no gesture, undone and redone in any order, leaves a version with a loop, a link to nothing, a link that may not be drawn, or two into one input |
| | `KeepsTimeline` | refinement of `Timeline`: one gesture, however many calls it makes, is one version, and no change but more of what is typed is made without one |
| | `RunsAsDrawn` | every destination gets what is drawn on its way, in that order, and none is dropped |
| | `StepsFindTheirBoxes` | a step reported by its position is painted on the box it was compiled from, and the numbers on the boxes count the steps as they run |
| | `RoundTrip` | the JSON drawn again is a sound graph that compiles to that JSON |
| | `LintAgrees` | the linter finds nothing in a graph that compiles with every box used, and finds fault with every graph the compiler refuses, but for the exceptions below |

Bounds: nine jobs to start from, chosen to have a join and a union with a chain, rules with one
and two targets, a quarantine with a scope, two outputs with shared and separate parts, a box not
yet linked, a union fed through a join, a join fed with one rule on both inputs; up to eight
boxes, two changes, a history of one entry so that versions do go. Two changes around undo and
redo are what a history of one entry can tell apart (`PipelineStages` has a longer one); the
graphs they reach from the nine are in the thousands.

Exceptions and what was seen. A muted rule keeps a job from running (`lint.ts:403`), although the
panel says that it runs what compiles (`RunPanel.tsx:468`; `MutedRules`). A union fed through a
muted join is refused for transformations that reach the other input of that join, which the
linter follows (`lint.ts:963-973`, `1018-1033`) and the compiler does not: what it would run is the
union of two sources (`FedThroughMuted`). The other way round (`Overlooked`), three refusals come
without an error on any box. A chain that begins at a muted transformation, in a second input or on
the way to a destination, reaches no source (`toJson.ts:377-385`, `587-589`), and the linter asks
only boxes that are not muted for an input (`lint.ts:371-373`, `MutedHeads`); a muted rule there is
reported as off the trunk. A second input taken from below a rule of the trunk contains that rule,
which the compiler refuses (`toJson.ts:395-400`) and the linter finds in its place (`lint.ts:403`,
`FedThroughTrunkRule`). Destinations that read different sources are refused
(`toJson.ts:581-585`), and no check of the linter compares them. While no destination reaches a
source the linter takes what the first source feeds for the trunk (`lint.ts:281-293`, `FlowOf`),
and a job without an output or an input gets an error on no box (`Lacking`). Muting or deleting the only rule in the scope of a quarantine widens it to all rules without a word
(`toJson.ts:314-329`). `onConnect` keeps one link per handle for the scope too
(`editor.ts:717-724`), where `types/studio.ts:147-148` speaks of "the rules linked here". An edit
after a run shifts positions, so that `runViewStatuses` paints a neighbour where its comment
speaks of "unmatched" (`stepNodes.ts:126-129`). A rule with a blank type shifts the lane of
validations. Undo does not clear `selectedNodeId`, and undo of a drag changes nothing, in both
editors, because the positions were written before the snapshot (`editor.ts:659-672`,
`pipelineEditor.ts:395-409`).

## A run as the Studio follows it: `StudioRuns`

The editor of a Job (`RunPanel.tsx`) or its twin for Pipelines, chosen in the initial state.
`open`, `running`, `shown`, `painted`, `view` are the store (`by` remembers which run painted a
box), `refs` what the panel on screen keeps in refs, `stops` the Stops awaiting an answer, `load`
the loader of past runs, `runs` each run as its stream and the runner have it. `Execute`,
`Accept`/`Refuse`, `HearStart`, `HearStep`, `HearResult`, `StreamCloses`, `StreamBreaks` are one
execution; `Stop`, `StopIsAccepted`, `StopIsRefused` a Stop; `Remount` is a panel hidden and shown
again, `Reopen` and `Switch` a document closed, or another opened; `PaintHistory`, `PickRun`,
`ClearRunView` the past. A panel that is gone still hears its stream and writes to the store.

| Run | Property | Shows |
|---|---|---|
| `StudioRuns` | `BoxesTellOneRun` | the boxes tell one run of the document that is open, the one the banner names, and nothing the runner did not say |
| | `PanelTellsTheTruth` | what the panel says of a run became of it, and Run is disabled exactly while one is under way |
| | `StopIsUnderWay` | a Stop pressed on a panel's own run is under way until the run is over |

Bounds: two documents with one box each, two runs, both twins: a stray is a run of one document
heard by the editor of the other, or a second run of the same. A second box would show the order
of steps, which is the runner's.

Exceptions. The first two properties speak of an editor nothing strayed onto (`Calm`): the stream
of job A goes on writing into the editor of B, opening B while A runs paints B's last run over it,
and `liveRunId.current = null` in the `finally` of an execution is unconditional, so the end of
one run forgets another; a run sent between the result of a Pipeline's run and the end of its
stream is ended by the `finally` of the first. `StopIsUnderWay` speaks of panels that were not put
away: a panel that was hidden and shown has a Stop that does nothing of the kind, and one that
still follows A's run sends B's Stop there. A 409 answered late aborts the next run of the same
panel; a Stop right after the result shows a finished run as "Cancelled before it finished".

Left out: `validate`, log lines, durations, edits of the graph during a run, a job opened with a
run to show, the `error` event of a stage (the code does not handle it either). A history row is
read and painted in one step; a run picked by hand comes at once. What the panel itself calls
"cancelled" and "error" is told apart from the runner's verdicts as "dropped" and "lost"; the
`error` event that ends the run of a Pipeline before its stream closes
(`PipelineRunPanel.tsx:177-186`) is one step with that close.

## The canvas of a Pipeline: `StagePlan` and `StageCanvas`

`StagePlan` holds the functions: `WouldCreateCycle` and `LinkAllowed`, `TopologicalOrder`
(`Kahn`), `PlanPipelineRun` with what blocks it, `OrderStages` of the runner, and
`MatchStageRuns`, which finds the box of a recorded stage by its Job and its turn. `StageCanvas`
is the editor of one Pipeline: the gestures, undo and redo, the library its stages point into
(`DeleteJob`, `SpoilJob`, `RenameJob`), runs sent from the canvas (`Execute`) and fired by a
schedule (`FirePipeline`), their stages as the stream tells them (`StageStarts`, `StageEnds`,
`StageRefused`, `CancelledBetween`), and the past painted (`LoaderAnswers`, `ShowPipelineRun`).
Its specification is `CanvasSpec`. Assumed of its constants: a record that is opened is a drawing
with finitely many links (`OpenedAreDrawings`; `stages` and `links` are arrays), a library names
what it holds (`LibrariesAreNamed`), and a Job that is gone is ordered by some name
(`NamesAreRanked`). Such a record may hold loops, links to nothing and a box twice: `open` checks
none of them.

| Run | Property | Shows |
|---|---|---|
| `PipelineStages` | `DrawingsStaySound` | no sequence of gestures gives a drawing a loop, a link to nothing or a box twice that it was not opened with |
| | `PipelineTimeline` | refinement of one document's `Timeline`: every edit is one version more after the one on screen, undo and redo move along them and change none |
| | `RunsAreTheDrawing` | a run from the canvas is the whole drawing in the order of its links, or nothing; a box dropped on it renumbers no other; a schedule runs every stage in the order the canvas numbers them |
| | `BoxesTellTheRun` | the boxes tell the run that is heard, or the one the caption names, also on a canvas edited since |

Bounds: up to three boxes over two Jobs and a file, three drawings to start from (Jobs linked
against their order on the canvas, two boxes of one Job beside a file, an imported record with a
loop, a link to itself and a dangling link), three moves, each an edit of the drawing or of the
library or a run, one run at most, and a history of two entries: three edits fill it and push its
oldest version out, two of them undone leave two versions to redo in their order, and an edit
then drops both. Undo, redo and what a run says are not counted.

A schedule runs drawings the editor does not send. `server/README.md:727-728` says of stages in a
cycle that they are "left out, exactly as the interface reports them"; the code appends them
(`scheduling.py:354-356`, `:394-396`) and `_fire_pipeline` runs what it is given
(`main.py:4990-4995`), last, where the canvas numbers them too (`describe.ts:354-357`). So
`RunsAreTheDrawing` compares the schedule with the numbers on the canvas (`StagesShown`), loops
included, and not with what the editor would send. A Job that does not compile keeps its last file
(`workspace.py:539-541`): the schedule runs that stage in its turn and it fails there; only a Job
that is gone refuses the whole run (`FirePipeline`).

Exceptions. A stage nothing links to runs last from the canvas (`pipeline.ts:280-290`) and as a
root from a schedule (`scheduling.py:340`), whereas the docstring of `order_stages` says a
different order "would be a different Pipeline" and `test_scheduling.py:281-282` that the two
"cannot disagree" (`Loose`). A box that runs a file is never matched with its execution, which is
recorded under `file:<path>` (`main.py:3818-3842`): it goes blank, and the caption says that the
pipeline was edited (`LeftOut`). Boxes of one Job drawn in another order than they ran show each
other's executions, which `stageRuns.ts:36-40` grants. A stage refused for lack of credit is
recorded without an event (`silent`). A link from a box to itself, which only an imported record
has, orders nothing (`describe.ts` drops it), and a box that only dangling links touch is loose:
the first statements of `WholeAndInOrder` and `Loose` overlooked both, which the proof of
`RunsAreTheDrawing` brought to light and the third drawing of the run now covers.

Seen: deleting a linked stage is two entries of the history, where the header of
`pipelineEditor.ts` (8-10) says the rhythm is that of the job editor; the loader paints the last
run whoever started it, although "an automatic load must not replace it" (`pipelineEditor.ts:64`).
Abstractions: the record a schedule reads is the drawing on screen (saving is `EditorSave`);
names have one order, where the runner keeps ".json" and compares code points and the Studio asks
the locale; positions, labels, `stop_if_empty` and previews are left out.

## The library when it moves: `LibraryStorage`

A session works on the workspace of the runner through its mirror, or on the storage of the
browser. `disk` is what is stored where it works, `local` what the browser stores beside a
workspace, `backup` the bundle under `KEY.backup`, `tab` the session (`tab.at` is where it stands
in which work, `tab.held` what it keeps in memory), `sent` the requests it awaits together and
`late` those still under way after one of them failed.

`Open` loads and decides, `Adopted` ends the adoption of the browser's library by an empty
workspace, `Migrate`, `Keep`, `Upgrade`, `Stamp` are a migration, `Import` to `PutDone` an import
(`merge` or `replace`), `Undo` to `Undone` the rollback of either. `Land`, `Bounce`, `LandLate`
and `DropLate` are one request: stored, refused or failed on the way there or back. `Edit`,
`Delete`, `Elsewhere` are users, `Close` is the tab closed at any point.

| Run | Property | Shows |
|---|---|---|
| `LibraryMoves` | `RecordsAreSomewhere` | what a user saved is on disk, in the backup, in the browser, or in the hands of a session at work on it |
| | `LibraryIsWhole` | a session at rest has the library its users left, in a shape it can read |
| | `SessionIsNotBricked` | a session whose migration failed gets out of that when it is asked again |
| `LibraryMigrated` | `MigrationKeepsData` (violated) | a migration can lose a record |

Bounds: two records, ten kinds of start (workspace or browser; old, current or unstamped; a
record nothing can read), one edit, one import, two failed requests, one closing. Two faults are
what a failed work and a failed rollback take. `LibraryMigrated` has one start and no edits.
Fairness: requests are answered, and screens go on asking for the library.

Finding. `db.ts:251-252` says the bundle is copied to a backup key and restored, "so a failed
migration cannot lose data". A retry writes its own backup over that one (`db.ts:272-273`), the
restore deletes every record before it writes the old ones back, and nothing reads `KEY.backup`:
a migration that fails, whose restore fails half way, and which `ready()` then tries again, has
replaced the only copy of a record. The exceptions of the passing properties are named events:

* `Overwritten`, the finding. `Forgotten`: on a workspace the backup is in the memory of the tab
  only, and a merge keeps none on disk.
* `LandsOver`: requests still under way when one of them failed land during or after the
  rollback, against "all-or-nothing" (`db.ts` near 525), and write something or tell the session
  of a record its bundle does not carry; a revision is a hash of the content, so one that comes
  back to an earlier content lets them through.
* `Blind`: a rollback deletes without a revision and puts back a mirror that is stale, so a work
  refused because another machine saved takes that machine's save away. `Unheard`: a PUT whose
  answer was lost is not taken back.
* `Unreadable`: a restore deletes the records nothing could read, which no bundle carries. For
  the same reason an adoption leaves one behind in the browser (`LeftBehind`).
* `Revives`: adoption "runs once" but asks only whether the workspace is empty, so a library
  emptied on purpose is adopted again. `broken`: a work cut short is not completed by the next
  session (an adoption by a workspace that is no longer empty, an import between its records and
  their upgrade, a version stamped and then undone). Also `broken` is an `Unversioned` adoption:
  a workspace that was emptied keeps its stamp of the current version, so when the browser's
  library has no version of its own, or writing it fails, `adoptBrowserLibrary` (`db.ts:193-200`)
  leaves records of an older version under that stamp, and nobody upgrades them.

Assumed of a start: a stamp of the current version means records in the current shape, and a
session on the browser's storage has nothing beside it. Left out: other sessions delete nothing;
a single awaited write is one step; the versions before
the current one are one, since `upgradeStoredJobs` applies all hops at each; versions newer than
the build, queries, meta keys, `clearAll`, the in-memory backend, requests that land after the
tab was closed.

## Proofs

`RunSlotProofs`, `CreditsProofs`, `PipelineProofs`, `SessionProofs`, `EditorSaveProofs`,
`EditorGraphProofs`, `StudioRunsProofs` and `LibraryProofs` hold for any set of runs, jobs or
records, any number of stages, teams, edits, imports, cancellations, faults and kills, from the
named assumptions of the modules only.

* `RunSlot`: type correctness; `OneHolder` and `ActiveNamesTheHolder` are inductive together
  with the types, because every step that takes the lock is guarded by it and every step
  that gives it back is a step of its holder. `OverlapNeedsAHangUp` needs in addition that a
  worker which works belongs to a run that either still holds the lock or has left; the three
  together are `SlotIsExclusive` (`SlotExcludes`). The refinement of `SerialRuns` needs that the
  phase of a route whose client stayed says what its worker has done, and that a route whose
  client left is on its way out for good. `HistoryKeeps` proves `HistoryIsKept` from what each
  phase says of the two rows and the charge, and `CancelsAreHeard` proves
  `CancellationIsHeard` from where the flag, the local that read it and the row can disagree.
* `Credits`: type correctness, which includes that no balance, allowance or hold goes below
  zero; `LedgerExplainsBalance` and `ShortfallOnlyAtZero`, which make `LedgerIsHonest`
  (`LedgerCanBeAudited`), by cases on which entry a step appends, with lemmas about the split of a
  cost. `HeldIsPromised` (`HoldsAddUp`) and `FreeAllowanceAudited` (`AllowanceIsAudited`) are
  sums over sets that change by one element (`HoldsInv`, `AuditInv`). That a sum exists, and may
  take any element first, is an induction over finite sets, done as in `LeastNatural` below by
  the least part that breaks it (`SumExists`, `TotalWithout`). The allowance needs that no entry
  is of a later month than its account, so a month that turns finds nothing waived. With
  `FreeFirst` (`AllowanceComesFirst`) it makes `AllowanceIsHonest` (`AllowanceKeepsItsMonth`).
  Every behaviour of `CreditedRuns` is one of `Credits` (`RoutesUseTheStore`), so all of it
  holds of the routes as well; `HoldsCoverRuns` proves `HoldCoversRun` of the streaming routes
  (every run of the theorem streams; the other route gives its hold back before it charges),
  because from its hold to its charge nothing but a run's own hold spends what it counts on
  (`CoverInv`).
* `FlowRun`: the invariant relates where the worker stands to which stages are closed,
  executed and charged (`WorkInv`), who has the slot (`SlotInv`), and what the flag the worker
  read has to do with the one the generator reads (`VerdictInv`): nobody else can have the slot
  while the generator waits for its worker, so the generator sees at least what the worker
  saw. From it follow `StagesInOrder`, `OneHoldAtATime`, `FlowAddsUp` and `RowsAreFinal`; with
  whose row each stage is (`RowsHaveOwners`) they make `HistoryTellsTheFlow` (`HistoryIsTrue`).
  `CancelReachesItsFlow` (`CancelIsHeard`) adds which cancellations came before the last look
  at the flag (`HeardInv`).
* `Session`: the query count equals the number of requests between `_query_enter` and
  `_query_exit` (a cardinality that each step changes by one element), so a restart that
  read zero knows that nobody is counted, and whoever is counted when it stops the session
  came later (`RestartInv`); whoever restarts has the session lock, and the run lock unless it
  is a run. From it `RestartSparesTheWorking` follows step by step, and `SessionServesRequest`
  (`SessionsServe`) from what each request has obtained while nobody meddled (`ServeInv`).
* `CronTimes`: `next_fire` answers the first showing of a minute, strictly later than the instant
  it is asked about unless that instant shows a minute a second time (`NextFireIsLater`), and with
  a fixed offset it passes over no occurrence (`NextFireSkipsNothing`). The least matching minute
  exists because the intervals below the elements of a set of naturals are finite sets, on which
  inclusion is well-founded (`LeastNatural`). `due_at` (`DueIsLater`) follows a chain of answers
  of `next_fire` by a recursive function, and that such a function exists has to be shown: from
  each instant the chain is the least set that holds what comes next, and the answer is an element
  of it past the window (`LatestExists`). That it answers nothing in the future and nothing the
  schedule has fired for is by the chain's least element that breaks it (`LatestIsLater`).
* `Schedules`: `FiresMoveForward`, the types in it included (`ScheduleMovesForward`), from
  `SweepInv`: what a schedule was last claimed for is not past its anchor, by which the start of
  the process stands in for an anchor it forgot; and what a sweep is about to claim is later than
  the anchor it read, or a minute shown twice lies between. The assumptions are that the library
  is not empty (nothing sweeps an empty one), that a clock is two offsets and an instant, and that
  the minutes it shows twice were first shown at instant 0 or later: time begins there.
* `EditorSave`: types and the shape of the chain (`SavesAreTyped`); `Carried`
  (`NothingIsForgotten`), because whatever empties a place an edit waits in puts it in the next
  one; the refinement of `SharedRecord` (`SavesKeepThePromise`), whose core is that a copy which
  carries the revision of the record on disk is that record (`HashInv`), and that whoever may
  replace the record under a revision has had that content on screen (`SeenInv`);
  and `EditsAreCarried` (`EditsAreNotLost`). `SavedMeansStored` is the long one: the canvas, the
  list, the writes in the chain, the one under way, the rename beside it and the disk form an
  order, each holding what the ones before it hold, until one of the events of `behind`
  (`StoredInv`); finding where that order breaks gave the three exceptions above.
* `EditorGraph`: `VersionsAreSound` (`VersionsStaySound`), by what each gesture does to one graph:
  a link is drawn only where a set of boxes closed downward shuts out the loop, and between the
  two callbacks of a canvas delete no link touches the boxes about to go (`CanvasInv`). The
  refinement of `Timeline` (`HistoryIsATimeline`) needs that a commit which joins the one before
  finds nothing to redo, and that a second call of a gesture follows a first; the rest is
  arithmetic on one line of versions with a mark (`Line`).
* `StageCanvas`: the invariant is `PipelineInv`. `DrawingsStaySound`
  (`PipelineDrawingsStaySound`), because every snapshot of the history descends from the drawing
  that was opened (`Descends`, `HistoryOK`): its loops and its links to nothing were there, no new
  box takes the place a missing one left, and a link is drawn only where what its end leads to, a
  least closed set (`ReachedIsLeast`), does not hold its start (`AllowedLinkClosesNothing`). Undo
  and redo move along one line of versions (`PipelineHistoryIsALine`), whose length `HistoryOK`
  bounds. `RunsAreTheDrawing` (`PipelineRunsAreTheDrawing`) rests on what `TopologicalOrder`
  computes: each round takes the first of what is ready (`KahnIsInTurn`), at most one sequence
  does that to the end (`InTurnIsOne`), so the order depends on the links and names of its
  stages only, and canvas and runner agree (`OrderIsThePlan`, `NumbersStay`). `BoxesTellTheRun`
  (`PipelineBoxesTellTheRun`): the boxes follow the rows of the run that is heard, a silent
  refusal only at its end (`RunsOK`, `HearingOK`), and what was painted is the match of the run
  shown (`ViewOK`); in that match the turn of a box among those of its Job is a rank
  (`TurnIsARank`), so no execution has two boxes and none with a box of its turn is left out
  (`MatchIs`, `AllArePaired`). The last two assume that no record is opened with a box twice:
  a plan of such a record has no order of boxes to speak of; nothing in the editor makes one.
* `StudioRuns`: types (`StudioIsTyped`); `StopIsUnderWay`, from what the runner, the stream and
  the history can each say of one run (`KnownInv`) and what the refs of the panel point at
  (`StopInv`); `PanelTellsTheTruth` and `BoxesTellOneRun` from what
  the panel and the boxes may hold at each point between the start of a run and its last row
  (`PanelInv`, `BoxesInv`).
* `LibraryStorage`: types (`LibraryIsTyped`); `RecordsAreSomewhere` (`NothingIsLost`) and
  `LibraryIsWhole` (`LibrariesAreWhole`) from one invariant. A record that is not stored is in
  the hands of the session or in the backup (`KeptInv`). A record the session does not know of is
  safe from it: every write over it is refused for its revision, or is one of the named events
  (`Shields`, `SeenInv`). What a migration is going to upgrade is what is there, up to the
  shape (`PlanInv`); a new text was never seen before (`UsedInv`), which is why an equal
  revision means nothing happened in between. `WholeInv` says of each record what is true of it
  at rest, at work (in hand, shielded or left behind) and on the way back (gone or put back).

* `EditorCompiles`: `RunsAsDrawn` (`CompilesAsDrawn`) holds of every graph that may be drawn
  (`Drawn`, part of `CanvasInv`), so it is a lemma about one graph (`RunsAre`). The walk back
  from a destination is a line of boxes without repeats, because in a sound graph it cannot
  meet itself (`LineTo`, `ChainIs`); the functions it and the filters recurse on exist, which
  is shown by iterating a step (`IterationExists`), and facts about all their values are shown by
  the least one that breaks them (`Least`). When nothing is wedged between the rules, what all
  destinations share is transformations and then rules (`MainIs`), and after it no rule is left
  (`WayIs`). `StepsFindTheirBoxes` (`StepsArePainted`) compares the lanes of the editor with
  the lists of the compiler (`LanesAre`, `LanesPaint`): a rule stands once for each target,
  sequences of sequences put one after the other (`FlattenConcat`, `FlattenWhats`). The numbers
  rise along the order of the boxes and along every cut of it (`PartsRise`, `LanesCount`), which
  needs that a rule has at least one target (`RuleCodesAssumption`, `targets.ts:58-70`).
  `LintAgrees` (`LinterAgrees`) takes each check of the linter to what the compiler does. The
  linter follows the chains the compiler does (`SinkChainsAre`), so its trunk is a source or
  shared (`TrunkIs`). In a drawn graph a walk back always ends (`WalkEnds`) and no box is above
  itself (`NotAboveItself`), so the refusals for loops and for several parents never arise; where
  it ends at no source, its first box is reported or is a muted transformation (`NoSourceIsSeen`,
  `NoneIsSeen`). A walk that starts on a line from a source goes back along the same line
  (`WalkDown`), so what the linter finds between two rules is what the compiler finds wedged
  there: the two sets are equal (`SplitIsWedged`). A second input is compiled under a stack of the
  boxes it is part of, which grows until it holds every box; so what the recursive `Seconds`
  answers exists (`SecondsExist`) and obeys its equation (`SecondsAre`), and it is shown of the
  box with the fewest left that nothing is refused behind the linter's back (`SideHolds`,
  `SecondsHold`). A line from a source that has no second
  input on it is all there is above its last box (`NothingBeside`), which is why
  `FedThroughMuted` is the only exception of that check; a rule in a second input is off the trunk
  and reported, or puts its join in `FedThroughTrunkRule` (`SideHolds`).

Only model-checked:

* liveness (`RunsLetGo`, `FlowLetsGo`, `EveryRequestEnds`, `OccurrencesAreAnswered`,
  `SessionIsNotBricked`) and `ENABLED`, which the prover does not cover;
* `RoundTrip`, over `Decompiler`, a recursive operator whose chains nest.

## Not modelled

What a pipeline computes: an execution is one step with an outcome. The HTTP layer, and what
Spark or SQLite do inside a call. Presentation: screens, catalogs, formats and the fields of
their forms, which are most of the lines of `../src` and have no state of their own that a
property could be about; so the map covers a small part of that tree. Of the rest, what was read
and why the modules do without it:

* Log recorder (`main.py:692`, `:732`). A reader of the JVM's output that is still draining when
  its stage is over puts its late lines under the next one, and the ceiling counts what is
  buffered. Which stage a line ends up with depends on how long a pipe takes to drain, which no
  state of the runner records.
* Monitors (`monitoring.py:578`, `main.py:4660`). `update` reads a rule before the lock and
  writes all of it back; a sweep evaluates rules it listed earlier. Each is one lost update in
  sight of its line. Nothing in the repository says what an edit during a sweep should do.
* Vault (`main.py:6652`), grants (`main.py:2321-2405`, `remote.ts:251-258`). The secret store and
  the lists of owners and rules are read, changed and written whole, with no lock and no revision
  across; `_claim_new_resources` writes owners and then grants, so two records saved at once can
  lose one claim. One read-modify-write each; `EditorSave` has the pattern with its revision.
* Workspace (`workspace.py:766`). A write replaces the record, the readable file and the index
  one after the other, and a revision is a hash of the first two. After a crash in between, the
  tab that wrote finds its next save refused, as after a lost answer in `LibraryStorage`, and what
  runs the readable file (a schedule, `main.py:4953`; a stage that names a file) runs the one
  before until the record is saved again.
* Access (`auth.py:1266`, `main.py:6380`). Roles can be taken away until nobody administers, and
  the login throttle is told of a failure after the password was checked. Identity is a given of
  every route modelled here.
* History (`history.py:1980`, `:1338`). Retention by age beside executions that began long ago;
  rows left "running" by a killed process stay so, which `RunsAreClosed` excepts.
* The order of lock, name and flag in `begin` (`main.py:3667`) and the holds of a flow
  (`main.py:4239`) are in `RunSlot` and `FlowRun`.
* Validate mode, assistant, audit, version compatibility, observability: no state that two
  actors share.
