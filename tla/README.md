# MomentFerry in TLA+

MomentFerry moves photos and videos from folders that a sync client fills (source
shares) to folders of a NAS (destination shares), by rules called events.  Its
promise is that no file is lost: a source is deleted only when a verified copy is
at the destination.  The modules here state that promise, model the code that
keeps it and the code that decides what is moved, shown and saved, check the
models with TLC on small instances, and prove their core with TLAPS for every
instance.

## 1. The system

One .NET process: an ASP.NET server with hosted background services, a SQLite
database, and the mounted shares.  Everything shared is in the database, on the
shares, or in a few singletons.

| Component (code) | State it keeps | Operations | Talks to | What is hard | What makes it correct |
|---|---|---|---|---|---|
| Safe transfer engine (`SafeTransferService`) | locals of a call; rows of `operations`; staging files | `ExecuteAsync`: hash, duplicate check, copy to staging, verify, resolve again, move, verify, commit, delete the source | file gateway, all repositories | concurrent calls, failures, cancellation, crash, a source that changes | copies are verified, never overwritten; sources go last; rows say what is on disk |
| Transfer coordinator (`TransferCoordinator`) | dictionary of semaphores | `ExecuteOnceAsync` | engine | a gate dropped while fetched, cancelled waits | one transfer per media file, everyone served |
| Retry, route again, quarantine (`OperationRetryService`, `QuarantineService`, `TransferEndpoints`) | none | supersede a row and call the engine directly; dismiss | engine, repository | stale rows, no gate | as the engine |
| Recovery (`OperationRecoveryService`) | snapshot of incomplete rows | `RecoverAsync`, at startup and from `POST /recovery` | repository, shares | crash in recovery, running beside transfers | everything in flight is settled, nothing is deleted without proof |
| Operation repository (`SqliteMediaOperationRepository`) | table `operations` | upsert, queries, supersede by event, retention | – | foreign keys, whole-row writes | the queries mean what their callers think |
| File gateway (`LocalFileSystemGateway`) | the shares | copy, move, delete, stamp, list | – | torn copies | a move never overwrites |
| Wake signal (`AutomationWakeSignal`) | pending work under a lock, a channel of one | `Wake`, `WakeForBackfill`, `WakeForPath`, `WaitAsync` | watcher, endpoints, worker | lock and channel are not one step | no wake-up and no path is lost |
| Routing worker (`MediaRoutingWorker`, `AutomationStatus`) | settings snapshot, schedule, status | cycle, backfill, retention | preview, coordinator, wake signal | stale Dry Run, status read by endpoints | a cycle follows the settings; status is true |
| Watcher (`SourceShareWatcherWorker`) | watchers, stability timers | reconcile watchers, file changed | wake signal | a change while a timer retires | every changed path is looked at again |
| Discovery and media index (`ShareDiscoveryService`, `SqliteMediaFileRepository`) | observation windows, `media_files` | observe, upsert, requeue, purge | metadata | files still being written | only stable files are indexed |
| Routing preview (`RoutingPreviewService`, `RoutingPreviewJobs`) | cached metadata, jobs | evaluate, preview job | repositories | cursor and cap | the preview is what the worker does |
| Routed rename (`RoutedFileRenameService`) | rows and stored files | rename stored copies | repository, shares | crash between move and row | rows keep naming the copies |
| Event control (`EventControlService`, `EventEndpoints`, `MqttIntegrationWorker`) | table `events` | start, stop, quick start and stop, delete | wake signal | REST against MQTT | one quick event at a time |
| Runtime settings (`JsonRuntimeSettingsStore`, `SettingsEndpoints`) | a JSON file | get, update with confirmation | all | check then write | Dry Run is left only on confirmation |
| Database initializer | schema version | migrate, refuse newer schemas | – | crash between migrations | each migration once |
| Image update (`Updates/*`) | status file, wake signal | check, request update | registry | unsynchronised status | status is true |
| Console (`wwwroot/app.js`, `settings.js`, `common.js`) | copies of every list in globals, panels drawn from them, open forms, one preview per page | load, reload, edit and submit, poll a preview, watch a cycle, explain a match | all endpoints | handlers overlap, answers cross, panels redraw open forms | panels follow what the page holds; a save changes what its user meant; the dialog says what the worker does |
| Password protection, metadata, templates, maintenance, logs | sessions, caches | – | – | – | – |

The hazards, each at the line where it bites, are listed in `PROJECT.json`.

## 2. The modules

| Module | Models | Code |
|---|---|---|
| `MediaOperation` | the operation record, its states, the repository's queries | `MediaOperation.cs`, `SqliteMediaOperationRepository.cs` |
| `SafeTransfer` | engine, retry, quarantine, recovery, process and outside world over one disk and one table | `SafeTransferService.cs`, `OperationRetryService.cs`, `QuarantineService.cs`, `OperationRecoveryService.cs`, `LocalFileSystemGateway.cs` |
| `VerifiedMove` | the abstract promise: bytes appear under free names, sources go while a copy is there | – |
| `TransferCoordinator` | gates, their queues and their removal | `TransferCoordinator.cs` |
| `AutomationWakeSignal` | pending work, the channel, writers and reader | `AutomationWakeSignal.cs` |
| `RoutingAutomation` | the worker's loop on one share, the files as discovery knows them, backfills, cycles, the browser that waits for one | `MediaRoutingWorker.cs`, `ShareDiscoveryService.cs`, `RoutingPreviewService.cs`, `EventEndpoints.cs`, `app.js` |
| `RoutingPreview` | preview jobs, matching, the tab's preview, its poller, the details dialog | `RoutingPreviewJobs.cs`, `RoutingPreviewService.cs`, `MediaRoutingWorker.cs`, `app.js` |
| `RoutedRename` | calls that rename what an event has stored, beside transfers | `RoutedFileRenameService.cs`, `DestinationPathResolver.cs` |
| `RuntimeSettings` | the settings file, its endpoints, the forms and the confirmation of several tabs | `SettingsEndpoints.cs`, `JsonRuntimeSettingsStore.cs`, `settings.js` |
| `Console` | what a page holds, which panel shows which datum, every handler's requests | `app.js`, `settings.js` |
| `EditForms` | the share, group and event forms, the date picker, reloads beneath an open form | `app.js`, the endpoints it sends to |
| `*Proofs` | the theorems about the module of that name; `CoordinationProofs` is about both `TransferCoordinator` and `AutomationWakeSignal` | |
| `MC*` | instances for TLC | |

Operators marked "Faulty variant" or "Mistake" are never part of a specification.
Each is one plausible slip in the definition below it, and is there to show that a
property notices it.

### SafeTransfer

A worker is one call of `ExecuteAsync`.  Its `pc` names what it does next and
`call` holds its local variables, above all the immutable snapshot of the row
that the code passes around.  One step is one effect on the disk or one write of
the row, together with the reads the code makes just before it; between any two
steps another call, recovery, a user, a crash or the sync client may act.  (The
deletion of a staging file is part of the step that writes the row after it.)

    idle -> admitted -> hash -> resolve -> copying -> copied -> verify -> commit
         -> move -> moved -> committed -> finalize -> released -> idle

`Resolve` and `Commit` may instead adopt an identical file (`Adopt`), verification
may quarantine, and from each pc the call may fail (`Fail`, `FinalizeFails`,
`AdoptionForgotten`), be cancelled (`Cancel`) or find its event deleted
(`EventGone`: the foreign key refuses the row).  `Retry` and `RouteAgain` read a
row, `Supersede` writes it back as Failed, `ExecuteDirect` enters the engine
without the coordinator.  Recovery is `rpc`, its snapshot `todo`, and the row it is
finishing, `item`.

Data is abstracted to what the decisions compare.  A hash is the content itself, so
a collision is impossible; a file is a content or `None`; the name an event's
template renders is any of `Desired[m]`, because presets change; the conflict names
tried after it are the sequence `Candidates`; lengths are a function of the
contents.  A copy arrives as the source's content or as a member of `Garbage`,
which stands for torn copies and for mixtures of two versions.

`origin`, `exposed`, `forgotten` and `abandoned` are history variables: the bytes a
source came with, the media released while their copy was itself a source, the media
released under an adoption whose call then forgot it (`AdoptionForgotten`), and the
operations whose call ended without a last write.  `crashes`, `requests` and `syncs`
count against the bounds `MaxCrashes`, `MaxRequests`, `MaxSyncs`.

Four specifications: `Spec` is all the process and its users do;
`UnattendedSpec` leaves out recoveries requested while the services run;
`SyncSpec` adds the client that rewrites sources; `FairSpec` adds fairness.

### TransferCoordinator

`SafeTransfer` takes no lock for granted, because the lock is not airtight: this
module shows why.  A caller fetches the gate, waits on it, holds it, releases it,
reads `CurrentCount` and removes the gate, each a step.  The semaphore is a permit
and a queue.  Gates nobody refers to may be used again, which stands for a new
object.

### AutomationWakeSignal

A writer updates the pending work under the lock (one step) and writes the channel
(another).  The reader reads the channel or times out, drains it, and takes the
work under the lock.  The history `owed` collects what was asked and is not yet
answered.  `MaxPendingPathsPerShare` is a constant, 1000 in the code.  Its
specification is called `WakeSpec`, so that one module can extend it together with
`TransferCoordinator`.

### RoutingAutomation

The loop of `ExecuteAsync` on one source share, with the wake signal reduced to the
work it holds (`pending`), which `AutomationWakeSignal` justifies.  `worker.at` is
where the loop is: it takes what is pending (`Take`), reads the settings, runs the
backfills asked for (`BeginBackfill`, two looks at the files with the settle window
between, batches until nothing is left), then a cycle (`BeginCycle`, `ListCycle`,
`EvaluateBatch`, one `RouteItem` after the other), and stamps the schedule.  Any
step may throw (`Fail`), which ends the backfill or the cycle, not the loop.

A file is `absent`, `new`, `observed` (one look, its window running), `stable` or
`gone`; `seen` is the order of `LastSeenAt` (a strict total order, as a relation) by
which a walk picks its `Limit` files, and evaluating puts files last (`Rotate`).  `tab` is the browser: the
endpoint checks `CycleRunning` (`Check`) and acts on it later (`Accept`), and the
page polls the status until it has seen a cycle end (`Poll`).  Users, previews,
rewritten files, failures and restarts count against `MaxActs`; the watcher
(`WakeForPath`) is free to report or not, as often as it likes.

### RoutingPreview

A job reads the files of its share, then groups and shares, then the events anew for
each file (`ListFiles`, `ReadGroupsAndShares`, `EvaluateNext`), while `Change` edits
any of them.  `Start` returns the running job of the share or begins one; the
`byShare` entry of a finished one is replaced, so an older poller finds nothing.  In
the tab, `task` is the preview task of a share and the job it polls, `preview` the
answer on display.

`Routes` is what the worker does with a file and a chosen event:
`ListMatchableAsync`, `EvaluateCoreAsync` and `ValidateRoute` together.  `Takes` is
what the dialog says, from `eventChecks` on the tab's own copies `known`.  They are
translated separately, each from its own side.

### RoutedRename

A call of `RenameAsync` lists the completed rows once (`Begin`), then for each row
renders a name (`Examine`), compares the bytes (`Hash`), moves the file (`Move`) and
writes the row (`Upsert`), each a step.  Beside it other calls run, transfers store
or adopt files, rows are superseded, files are damaged, and the client goes away
(`Cancel`).  Histories record what the code leaves behind: `stranded` for rows whose
file moved without them, `disputed` for rows whose file two calls had in hand at
once or whose file another row's call moved (`Sharing`), `damaged` for contents
nobody can expect to find, and `meddled` for calls whose file something else changed
after they compared its bytes: damage, or another call that moved it away.

### RuntimeSettings

The store is one value, `stored`.  A PUT is `PutCheck` and `PutWrite`, because the
endpoint reads the settings, decides on the token, and writes under a lock it takes
anew.  A tab has a form, the mode it believes in (`current`) and perhaps the
confirmation dialog; the buttons that save build the body each in its own way, the
retention card reads before it writes.  Answers are lost (`Lose`) and arrive in any
order.  A setting is `dryRun`, `retention` (which the form does not show), or
`plain`, which stands for all the others.

### Console

A renderer is the set of pairs of a panel and a global it brings up to date, a
handler the sequence of its requests with what is drawn on each answer.  `schedule` is what
the page holds of the settings that the watch of a cycle copies from the status
(app.js:749-750), `info` the rest of them.  Any two
handlers overlap, any answer is late or fails.  `stale` holds the pairs that show an
older value than the page has, `behind` the globals the server has changed since.  A
change is the set of globals whose answers it alters, also those that no code reads
again: the storage card lists destination shares, with a share go its operations,
every request writes the log.  Left out of these sets: the size of the database file
and the indexed files that a rename preview takes as its examples.
The renderers and handlers have the names of the functions of `app.js`; those that
read and draw alike share a definition, as the aliases say.

### EditForms

Three forms (share, group, event) filled from the lists of the page, edited by their
user, redrawn by reloads of other handlers, and sent as a whole.  `form[k].free`
names the fields the user set, `redrawn` the group and destination that a reload put
in; `origin` is the record as the page had read it, fields included that the request
does not carry (`types`, which stands for the file extensions and subfolders).
Instants go through `toLocalInput` and `fromLocalInput`, which cut off
seconds and read an hour that comes twice as its first.  `ClockAssumption` says what
time zones are like: offsets are whole minutes and the clock changes on the minute.

## 3. The runs

| Run | Instance | Shows |
|---|---|---|
| `SafeTransfer_concurrent` | Unattended, 2 calls, 1 crash, Safe Move or Copy | every transition is persisted, no claimed copy is lost, a row before its commit has its source or its copy can be told, sources go under a row that announced it, and the engine implements `VerifiedMove` |
| `SafeTransfer_crash` | Unattended, 1 call, 1 crash, four policies, a folder of role Both | no bytes are lost, but of files released while their copy was itself a source; nothing in flight without an owner, startup settles everything |
| `SafeTransfer_attended` | Sync, 1 requested recovery, 1 rewrite | with recovery beside running transfers and sources rewritten under them, a row still never claims a copy that is not there |
| `SafeTransfer_liveness` | Fair, 1 crash | operations settle, startup ends |
| `TransferCoordinator_gates` | Fair, 3 callers, 2 media, 3 gates | permits are never lost or doubled, every caller is served |
| `AutomationWakeSignal_coalescing` | Fair, 2 writers, 2 shares | no wake-up lost, no request dropped, every request answered without the timeout |
| `RoutingAutomation_automation` | Fair, 2 files, 2 events, cap 1, 3 acts | no file starved by the cap, backfills complete and never forgotten, Dry Run binds from the next pass, who waits for a cycle sees one end |
| `RoutingPreview_preview` | Fair, 2 shares, 2 files, 2 events, 3 clicks, 2 changes | a running job is always found, the dialog says what the worker does, every preview asked for ends |
| `RoutedRename_rename` | 2 calls, 4 operations, 4 names, 4 acts | no bytes lost, rows follow their files, what a call carries over is the bytes on record unless something meddled after they were compared, names settle |
| `RuntimeSettings_settings` | 2 tabs, 2 requests | Live only on the token, one way out of Dry Run besides, saves change what their sender set |
| `Console_console` | 2 handlers at once, 2 inputs | panels follow the page, the page follows its own changes |
| `EditForms_forms` | 3 shares, 3 groups, 2 events, 2 requests, 5 inputs | a save changes what its user set and else only what `MayBecome` names, windows do not drift, new groups and events show the defaults |

Instances and bounds.

- `SafeTransfer`: media m1 and m2 with a source folder each, three destination
  names, one event, two contents and a torn one, two operation identifiers.  Both
  want the same name (in `crash` m1 may also want another, as presets change), so names
  collide; they may start with equal bytes, so duplicates occur.  Two operations and two calls are
  enough for every pair of steps to meet.  A second crash only repeats the state
  after the first, because startup recovery begins from the table alone; a crash in
  recovery is included.  One rewrite is enough to make source and copy differ at any
  step.  A failing last write of an adoption is one of the failures of every run.
  `concurrent` and `attended` keep source and destination folders apart, as the
  properties on copies and releases need.  `crash` has a folder of role Both that
  holds a source file from the start (m2), is a destination of m1's event, and gains
  a third source (m3) when something is stored there, and a plain destination; one
  call is enough for a file that is adopted as the copy of another to be routed on
  itself.  Its four policies have every mode but Archive, which the engine refuses, and
  every strategy for conflicts and duplicates; a torn copy is shorter there and as long
  as the source elsewhere, so that both comparisons matter.
- `TransferCoordinator`: the third caller waits behind a gate the others removed.
- `RoutingAutomation`: one file more than the cap, one that the watcher reports and
  one that it never does, one that arrives late; an event each.  Three acts are a
  backfill asked for, a change of settings and a fault in any order.
- `RoutingPreview`: a source and a share that is both; windows that overlap at one
  instant; an event whose destination may not be written; a file with a guessed
  time.  Two changes let an event be edited and the server restart under one poll.
- `RoutedRename`: two stored files, one of which wants the name of the other, which
  steps aside for it; a transfer of new bytes and one of bytes stored already.
- `RuntimeSettings`, `Console`, `EditForms`: two of what may overlap.  A third
  request or handler meets the other two one at a time, for each reads and writes the
  same few values in one step.  The five inputs of `forms` reach an edit, a pick, a
  reload beneath it, a foreign change and a submit; its three shares and groups let a
  member be on offer, off it and added, and the first group on offer be another than
  the event's.  Every disjunct of `MayBecome` is needed there.

Identifiers, callers and contents are interchangeable and are reduced by symmetry,
except under the runs that check liveness.  Deadlock is checked unless users or
identifiers run out: then the model may stop for good.

The type invariants of `SafeTransfer`, `TransferCoordinator`, `RoutedRename`,
`RuntimeSettings`, `RoutingPreview` and `AutomationWakeSignal` are theorems (section
4), and so is that nobody waits at a free gate; the runs do not repeat them.

Fairness.  The thread pool resumes an awaiting call, so every call, job, recovery and
the worker's loop has weak fairness as a whole: a step that fails is a step.  A
browser that polls keeps polling (`Post`, `Poll`); time passes (`Interval`,
`Settle`).  Users, crashes, the sync client, the watcher and requests owe nothing.
Two assumptions are stronger.  The wake signal assumes that writers do not refill
the channel between all TryReads of one drain for ever (strong fairness of
`DrainEnd`); they are file events and users.  `RoutingAutomation` assumes that a page
which polls every 250 ms finds the worker at rest at some time if it rests again and
again (strong fairness of `Poll`): the rest between two walks is seconds at least.
`MonitorAnswered` and `FilesNotStarved` say in their formulas that automation stays
on, as no one is served when it is off.

What the properties leave out, they name.  `LeavesDryRunConfirmed` allows the one
window between the check and the write of a PUT; `RowsFollow` leaves out the rows in
`stranded` and `disputed`; `NameEarned` leaves out the calls in `meddled`, whose file
was changed between their comparison and their write, and excuses nothing that
happened before it; `NoContentLost` leaves out the media in `exposed`;
`UncommittedKeepsSource` those in `forgotten`, of which it says that a destination
holds the bytes; `OthersKept` leaves out
saves that another write came between; `WindowHolds` allows the seconds of a minute
and the hour that comes twice; `SavesWhatWasMeant` names what a save does beyond what
its user set (`MayBecome`: windows by a minute and the doubled hour, a preset that is
gone, the file types of a share, members that were not on offer, a group or
destination put in by a reload); `NewFromDefaults` is about groups and events, of
which the form alone may begin a record (new shares are not modelled); `PanelsFollow`
names the pairs that some reader of a global leaves undrawn, though another may draw
them (`NotFollowed`), and is about who draws what: a read assigns and draws in one
step; `OwnChangesShown` names what commands change and do not read (`LeftBehind`): the
operations, the quarantine, the figures of the maintenance page, the retention, the
log, which every change writes, and the storage card, which the status poll reads
every five seconds; `VerdictIsWorkers` is about
current copies and a file of the share shown; `DryRunBinds` begins with the next pass, while
docs/IMPLEMENTATION.md:581-588 asks for no copy, move or delete once Dry Run is on;
`BackfillComplete` and
`FilesNotStarved` are about files whose capture time is not guessed.  Each exception
is a behaviour of the code described below.

### What the documents say and the code does not do

No run of the project is expected to fail: its properties name, by their cause, the
cases in which the code does otherwise.  Those with a recipe show as a counterexample
under it.

Transfers

- A folder of role Both that is the destination of one event and a source of another:
  the stored copy, adopted as the copy of a second source, is taken for its own
  duplicate when it is routed itself, and is deleted (`SafeTransferService.cs:95`,
  against docs/IMPLEMENTATION.md:933).  The only loss of bytes found without a writer
  outside the program.  (`SafeTransfer_crash` with `Present` for `Present \ exposed`
  in `NoContentLost`.)
- `POST /recovery` beside a transfer deletes on its snapshot while the row says
  something else, and writes "source preserved" (`OperationRecoveryService.cs:30`)
  even if the source has just been released.  (`SafeTransfer_concurrent` with `Spec`
  and `MaxRequests = 1`; `ReleaseIsBacked`, `TransitionsPersisted`.)
- The catch block forgets an adoption whose last write failed
  (`SafeTransferService.cs:333`): the source is gone, the row says RetryPending and
  names nothing.  (`SafeTransfer_concurrent` without the last disjunct of
  `UncommittedKeepsSource`.)
- Retry and route again call the engine without the coordinator, and a gate removed
  under a caller lets two transfers of one file run, while README.md:66 promises one
  at a time.
- Dismissing a quarantine leaves a hash that no destination received.
- A source rewritten between its last comparison and the delete
  (`SafeTransferService.cs:226`) is deleted with its new bytes; hence `Sync` is not
  part of `UnattendedSpec` and `NoContentLost` is stated without rewrites.
- Staging files outlive crashed copies; `docs/IMPLEMENTATION.md:311` wants leftovers
  found.  A completed media file is transferred again when it is routed again, while
  a comment (`EventEndpoints.cs:86-88`) speaks of a terminal-state check.

Routing

- Backfills answered with 202 are lost on a restart, and one dropped because
  automation is off is waited for by the page until another cycle ends.  The page may
  also report the result of another cycle as its own (`app.js:763`).
- An event whose template leaves the share makes the evaluation of the whole batch
  throw.
- Repeated previews and backfills reorder `LastSeenAt` and can keep files from a
  capped walk for as long as users repeat them.
- A change that arrives while the stability timer of its path is retired is dropped
  (`SourceShareWatcherWorker.cs:160-166`, against the comment at 157-158), and a
  timer may remove the entry of a newer one.  A later walk finds the file.
- A preview that finishes while the details dialog of another share is open makes its
  group check wrong, and a preview that fails makes drawing the dialog throw, against
  the comment at `app.js:1373-1375`.
- Updating a group does not check its events (`EventEndpoints.cs:241-242`), so a
  destination may become a source of its own event.

Renaming

- Two overlapping calls, or a departing client between the move and the write
  (`RoutedFileRenameService.cs:188`), leave a row that names other bytes or none, and
  other rows of the same file stay behind, against the comment at 125-127.  A row
  superseded or pruned meanwhile is written back from the snapshot.

Settings and forms

- A PUT that passed its check may write Live over a Dry Run that was switched on
  meanwhile, without the token (`SettingsEndpoints.cs:43`, README.md:72).
- The share form does not send extensions and subfolders, so every save resets them
  (`app.js:2018-2032`, against README.md:86 and CHANGELOG.md:259).
  (`EditForms_forms` without the disjunct of `types` in `MayBecome`.)
- A share saved from a form that was opened before its preset was removed keeps the
  id of a preset that is gone, against the comment at `SqliteRenameRepositories.cs:58`.
- Editing a group drops members that are disabled; a reload while the event form is
  open re-targets it; a late answer closes or resets a form opened for another
  record; a double submit creates two records.
- Routing an event again, pruning, deleting an event or a share do not read the
  operations again, executing a transfer does not read the quarantine, saving or
  deleting a share does not read the storage card, resetting the settings does not
  read the retention, saving them does not redraw Events, Operations and Quarantine.

## 4. What is proved

The assumptions are those on the constants, which TLC evaluates in every run, and
for four theorems of `SafeTransfer` that no folder is both source and destination
(`DisjointShares`).
All theorems hold for any finite or infinite sets and any bounds (events are finite
in `RoutingPreview`).

`SafeTransferProofs`:

- `Typing`: `SyncSpec => []TypeOK`.
- `CommittedCopyStaysStored`: under `DisjointShares`,
  `SyncSpec => []CommittedCopyStored`.
- `NoContentIsLost`: `Spec => []NoContentLost`, whatever folders have role Both.

None of the three is inductive.  A row may claim a copy only because the call that
wrote it verified the bytes some steps before, so the invariant has to say what every
local snapshot knows.  It comes in two layers.  `Placed` is about places: rows,
snapshots of calls and of recovery are well-typed, carry their own identifier and
name paths below destinations; a call about to move has a target.  `Claimed` is about
claims.  Some destinations are sources too; the others are `Lasting`, and of them
wherever a row, a call, or recovery says that its destination is committed, the bytes
are there.  A call past `hash` holds the hash its source had, and until somebody
rewrites a source, that is the content the file came with.  Of a source that appears in
a folder of role Both this is only said as long as its own bytes are not on record as
safe already (`Genuine`): they are when they lie at a lasting destination or the
medium is in `exposed` (`Kept`).  And every source that was there is as it came, or
safe.  The bridge is `NextKeeps`: only four kinds of step write to the shares at all
(`DiskSteps`), and none changes or removes a file at a lasting destination.  Every
claim made earlier therefore stays true (`RowsKept`, `CallsKept`, `RecoveryKept`), and
each action has to justify only the claim it adds.  A source is deleted only under a
claim, hence its bytes remain at a lasting destination, or the step puts the medium
into `exposed` (`DeleteKeepsContent`).  With disjoint folders every destination is
lasting.

On top of these:

- `InFlightIsOwned` and `StartupSettlesRows`: `SyncSpec => []InFlightOwned` and
  `SyncSpec => StartupReconciles`.
- `TransitionsArePersisted`: `UnattendedSpec => []TransitionsPersisted`.
- `ReleasesAreBacked`: under `DisjointShares`, `UnattendedSpec => ReleaseIsBacked`.
- `EngineImplementsVerifiedMove`: under the same assumption,
  `UnattendedSpec => ImplementsVerifiedMove`.
- `UncommittedHasSource`: under the same assumption,
  `UnattendedSpec => []UncommittedKeepsSource`.

Four more layers carry them.  `Owned` follows a row in flight to who settles it: the
call that runs, the list of recovery, or the record of who abandoned it; no two calls
run on one row.  `Mirrored` says that the row and the local variable of a running call
agree, and that recovery, which under `UnattendedSpec` runs alone, finds its rows as it
listed them; hence the database says SourceFinalizePending
whenever a source goes.  `Staged` says that the staging file of a verified call holds
what its source had.  `Known` joins these with `Placed`, `Claimed` and the fact that
nobody rewrites a source (`Calm`).  The refinement then has three visible steps
(`NextVerified`): `Move` stores the staged bytes under a free name (`MoveStores`),
`Release` and `RecoverDelete` release a source whose destination is claimed
(`DeleteReleases`).  For the last theorem `Traceable` adds that every row and call is
of a media file that was there, and that each source that is gone has a row, archived
for good, whose file holds its bytes: a row that once committed never goes back
(`RowStep`).  Where an adoption is forgotten no row is left to say so, and `Traceable`
says of these media that the file of their copy is there still.  `UnattendedSpec` is needed: a recovery that is requested beside
running transfers breaks `TransitionsPersisted` and `ReleaseIsBacked`, as told above.

`CoordinationProofs`.  Of `TransferCoordinator`: `Typing`, `PermitIsOne` and
`QueueIsOfWaiters` from one invariant, `PermitInv`.  Its parts need each other: a
permit stays in 0..1 because it is with at most one call, and the head of a queue may
be given it because whoever is queued waits at that gate.  `WithoutQueue` says what
the removal of a cancelled waiter leaves of a queue.  Of `AutomationWakeSignal`:
`WakeTyping`, `NoLostWakeup`, `NoRequestDiscarded`; the invariants are inductive once
the types are known.

`RoutingAutomationProofs`: `Typing`, `NoBackfillForgotten`, `DryRunIsBinding` and the
action property `BackfillIsComplete`.  The last needs `Covered`: from the first look
on, each file of the event that nobody wrote again is tried, among the files still
left, among the items of the batch, or settling (`OnItsWay`), whatever the batch size.
`Typing` needs that the status the endpoints answer says where the loop is (`Counted`)
and that putting the evaluated files last leaves a strict total order (`RotateOrders`):
no file falls out of the walk and none is named twice.

`RoutedRenameProofs`: `Typing`, `NoBytesLost`, `NamesAreEarned`, `RowsFollowFiles`,
`NamesStepForward`.  Bytes are kept because a move never overwrites and a call only
writes rows that exist (`Listed`).  That a name is earned needs that a file keeps
its bytes from its hash to its move, unless that is on record (`StillEarned`), and
that what can be on record is damage or another call that has the file in hand
(`Undisturbed`, `Disputes`).  That rows follow their files needs `Carried` besides: what a call has
moved is where it put it until the row says so.  An earlier form of the property was
not an invariant: a call may move a file that another has moved and not yet recorded,
which no exception named; `Sharing` now says whose file a move takes away.  That names
settle needs `Aimed`: the name chosen comes before the one listed, from the choice to
the write.

`RuntimeSettingsProofs`: `Typing`, `NeverLiveUnconfirmed`, and for the action
properties `OneWayOut` and `SavesKeepOthers`.  The invariant adds `CheckedSound`: a PUT
past its check carries the token, keeps Dry Run, or comes after somebody confirmed.
For `OneWayOut`, whatever changed the settings since the check of a PUT has marked it
as overtaken.  For `SavesKeepOthers`, `Based` says what every call carries of the
settings it has read: unless another write came since, they are the current ones, and
what it does not carry is left to the server.

`RoutingPreviewProofs`: `Typing`, `OneJobPerShare`, `DialogIsRight`.  A start never
replaces a running job.  The dialog and the worker agree because "this event matches
and no other does" is the same as "there is one match and it is this one"
(`OnlyMatchRoutes`), check by check (`ChecksAgree`), on equal copies.

`EditFormsProofs`: `Typing`, `NewRecordsAreFresh`, `WindowsDoNotDrift`, and the action
property `SavesAreMeant`.  `Sound` is inductive: besides types it says, of every form
and of every request under way, that a field its user left alone is as the record it was
filled in from, as a reload has put it in, or as a new record has it.  A save then
changes what was set and what `MayBecome` names.  `WindowHolds` needs more, for trips
repeat: one trip loses at most `Loss` (`RoundTripNear`), and a second one nothing
(`RoundTripSettles`), so the server keeps the window chosen or that window after one
trip (`WindowRests`).  That the clock changes on the minute is needed: a clock put
forward at thirty seconds past a minute makes a window lose more, as TLC shows.

`ConsoleProofs`: `Typing`, `PanelsAreFollowed`, `OwnChangesAreShown`, for any number of
handlers under way.  Most of the work is static.  `Followers` says, from the
definitions of the renderers, which of them follow a global; `ReadShapes` says of each
read of the page that it draws all of these; `ThenShape` carries over to `a \o b` what
holds of `a` and `b`, so that every handler turns out `Whole`: whatever a stage changes,
a later stage reads, but for `LeftBehind`.  What is left of a whole handler still
reads what its stages change (`TailIsOK`).  The inductive invariant `Sound` adds `Owed`:
whatever the page is behind of is read by a stage that is left or by the preview that
the timer starts, or is excused.  When nothing is under way, nothing is owed.

Every invariant and every action property that a run checks is a theorem.  Only
model-checked is liveness, which is out of the prover's reach: `InFlightSettles`,
`StartupEnds`, `EveryCallServed`, `EveryAskAnswered`, `FilesNotStarved`,
`MonitorAnswered` and `PreviewEnds`.

## 5. Not modelled, and the plan

Not modelled for good: markup, wording, translation tables and number formats of the
web interface, logs, reports and backups (no state of their own), the parsing of
metadata and the rendering of names (formatting; names enter as constants), free
space (a refusal is the failure of a copy), hash collisions.  Removing a share and
with it the rows of its media is left out, as is retention: it removes only finished
rows, which weakens the duplicate search and touches no file.  Several shares in one
cycle are left out of `RoutingAutomation`, because the worker takes them one after the
other and they share nothing but the pass.

Left for later, in this order:

1. `EventControl`: start, stop, quick start and stop over REST and MQTT, where check
   and insert are two steps (`EventControlService.cs:43`).
2. `StabilityDebounce`: the watcher's timers per path over the wake signal, and the
   reconciliation of watchers with the shares.
3. `ImageUpdate` (an unsynchronised status), `PasswordSessions`, `SchemaMigrations`,
   retention.
4. What the new modules need of the earlier ones, proved as theirs was.

## 6. Running it

    tlc -workers 2 -config SafeTransfer_concurrent.cfg MCSafeTransfer
    tlapm SafeTransferProofs.tla

The configuration of a run is `<Module>_<run>.cfg`, its root module `MC<Module>`.
`preview`, `crash` and `attended` take minutes, the others less.
