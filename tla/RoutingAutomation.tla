------------------------ MODULE RoutingAutomation ------------------------
(***************************************************************************)
(* The routing worker on one source share: it takes what woke it, reads    *)
(* the settings, runs the backfills users asked for and then a cycle over  *)
(* the changed paths or over the whole share.  A cycle over the share      *)
(* evaluates the least recently seen stable files, at most Limit of them.  *)
(* Around it: files that arrive and change, users who change settings, ask *)
(* for scans and backfills, run previews, and the browser that waits for   *)
(* the cycle it asked for.                                                 *)
(***************************************************************************)
EXTENDS Integers, FiniteSets

CONSTANTS File,     \* media files of the share
          Event,    \* events the share belongs to
          EventOf,  \* [File -> Event], the one event a file's capture time matches
          Guessed,  \* files whose capture time is the file system's
          Walk,     \* the order of the files by their paths, as pairs
          Watched,  \* files whose changes the watcher reports; other events are lost
          Late,     \* files that are not there at the start
          Limit,    \* MaxFilesPerSharePerCycle
          None,     \* no event: a cycle, or a scan
          MaxActs   \* bound on what users, clients and faults do

ASSUME LimitAssumption == Limit \in Nat \ {0}
ASSUME FileAssumption == Guessed \cup Watched \cup Late \subseteq File /\ EventOf \in [File -> Event]
ASSUME NoneAssumption == None \notin Event
ASSUME MaxActsAssumption == MaxActs \in Nat

\* A strict total order of the files.
Order(r) ==
  /\ r \subseteq File \X File
  /\ \A f \in File : <<f, f>> \notin r
  /\ \A f, g \in File : f # g => <<f, g>> \in r \/ <<g, f>> \in r
  /\ \A f, g, h \in File : <<f, g>> \in r /\ <<g, h>> \in r => <<f, h>> \in r

ASSUME WalkAssumption == Order(Walk)

VARIABLES
  automation, dryRun, \* the stored settings
  pending,        \* what AutomationWakeSignal holds
  due,            \* the interval has passed since the last full walk
  worker,         \* where the loop is, with its locals
  cycleRunning,   \* AutomationStatus
  file,           \* what ShareDiscoveryService knows of a file
  seen,           \* the order of the files by LastSeenAt, unseen ones by path
  unchanged,      \* files not written since the last backfill looked first
  tab,            \* the browser that asked: triggerScanNow, backfillEvent
  acts,           \* acts of users, clients and faults so far
  untried,        \* history: files not handed to the coordinator since they came
  accepted,       \* history: backfills answered with 202 and not begun
  restrained      \* history: a pass began since Dry Run was switched on

settings == <<automation, dryRun>>
history == <<untried, accepted, restrained>>
vars == <<settings, pending, due, worker, cycleRunning, file, seen, unchanged, tab, acts, history>>

Present == {"new", "observed", "stable"}
Nothing == [full |-> FALSE, paths |-> {}, backfills |-> {}]
Running == {"list", "settle", "batch", "route"}

TypeOK ==
  /\ automation \in BOOLEAN /\ dryRun \in BOOLEAN
  /\ pending \in [full : BOOLEAN, paths : SUBSET File, backfills : SUBSET Event]
  /\ due \in BOOLEAN
  /\ worker \in [at : {"wait", "read", "next", "done"} \cup Running,
                 full : BOOLEAN, paths : SUBSET File, todo : SUBSET Event,
                 on : BOOLEAN, dry : BOOLEAN, event : Event \cup {None},
                 left : SUBSET File, items : SUBSET File, tried : SUBSET File]
  /\ cycleRunning = (worker.at \in Running)
  /\ file \in [File -> Present \cup {"absent", "gone"}]
  /\ Order(seen)
  /\ unchanged \subseteq File
  /\ tab \in [at : {"idle", "checked", "waiting"}, ask : Event \cup {None}, ended : BOOLEAN]
  /\ acts \in 0..MaxActs
  /\ untried \subseteq File /\ accepted \subseteq Event /\ restrained \in BOOLEAN

\* The loop before its first pass: a full walk is pending.
Idle == [at |-> "read", full |-> TRUE, paths |-> {}, todo |-> {}, on |-> FALSE,
         dry |-> TRUE, event |-> None, left |-> {}, items |-> {}, tried |-> {}]
Closed == [at |-> "idle", ask |-> None, ended |-> FALSE]

\* The stored settings are those of an earlier run that went live.
Init ==
  /\ automation = TRUE /\ dryRun = FALSE
  /\ pending = Nothing
  /\ due = TRUE
  /\ worker = Idle
  /\ cycleRunning = FALSE
  /\ file = [f \in File |-> IF f \in Late THEN "absent" ELSE "new"]
  /\ seen = Walk
  /\ unchanged = {}
  /\ tab = Closed
  /\ acts = 0
  /\ untried = File \ Late /\ accepted = {} /\ restrained = FALSE

-----------------------------------------------------------------------------
(* Discovery and the index.                                                *)

\* ObserveCore: the first look at a size and a time begins the window.
Observed(files) ==
  [f \in File |-> IF f \in files /\ file[f] = "new" THEN "observed" ELSE file[f]]

\* The files an enumeration reports as stable.
Stable(known) == {f \in File : known[f] = "stable"}

\* Faulty variant: evaluated files leave the order.
RotateForgetting(files) == {pair \in seen : pair[1] \notin files /\ pair[2] \notin files}

\* Evaluation stamps LastSeenAt of the files it was given: they come last.
Rotate(files) ==
  {pair \in File \X File :
     IF pair[1] \in files <=> pair[2] \in files THEN pair \in seen ELSE pair[2] \in files}

\* The first Limit files of a set in an order.
FirstIn(order, files) ==
  {f \in files : Cardinality({g \in files : <<g, f>> \in order}) < Limit}

\* Faulty variant: the walk takes the first files of the directory.
SliceOfWalk(files) == FirstIn(Walk, files)

\* PreviewAsync: of the stable files, the least recently seen.
Slice(files) == FirstIn(seen, files)

-----------------------------------------------------------------------------
(* The worker: ExecuteAsync, ProcessBackfillAsync, ProcessCycleAsync,      *)
(* RouteAsync.                                                             *)

\* WaitAsync returns: something is pending, or the interval has passed.
Take ==
  /\ worker.at = "wait"
  /\ pending # Nothing \/ due
  /\ worker' = [worker EXCEPT !.at = "read", !.full = pending.full,
                  !.paths = pending.paths, !.todo = pending.backfills]
  /\ pending' = Nothing
  /\ UNCHANGED <<settings, due, cycleRunning, file, seen, unchanged, tab, acts, history>>

\* Faulty variant: only what woke the worker counts, not the interval.
ReadSettingsUntimed ==
  /\ worker.at = "read"
  /\ worker' = [worker EXCEPT !.at = "next", !.on = automation, !.dry = dryRun]
  /\ restrained' = (restrained \/ dryRun)
  /\ UNCHANGED <<settings, pending, due, cycleRunning, file, seen, unchanged, tab,
                 acts, untried, accepted>>

\* Faulty variant: once a pass was live, the mode it read is kept.
ReadSettingsSticky ==
  /\ worker.at = "read"
  /\ worker' = [worker EXCEPT !.at = "next", !.on = automation, !.dry = @ /\ dryRun,
                  !.full = @ \/ due]
  /\ restrained' = (restrained \/ dryRun)
  /\ UNCHANGED <<settings, pending, due, cycleRunning, file, seen, unchanged, tab,
                 acts, untried, accepted>>

\* The settings of the whole pass are read once, at its start.
ReadSettings ==
  /\ worker.at = "read"
  /\ worker' = [worker EXCEPT !.at = "next", !.on = automation, !.dry = dryRun,
                  !.full = @ \/ due]
  /\ restrained' = (restrained \/ dryRun)
  /\ UNCHANGED <<settings, pending, due, cycleRunning, file, seen, unchanged, tab,
                 acts, untried, accepted>>

\* Requests for these events are no longer owed, but for those asked again since.
Settled(events) == accepted \ (events \ pending.backfills)

BeginBackfill(e) ==
  /\ worker.at = "next" /\ worker.on /\ e \in worker.todo
  /\ worker' = [worker EXCEPT !.at = "list", !.todo = @ \ {e}, !.event = e, !.tried = {}]
  /\ cycleRunning' = TRUE
  /\ accepted' = Settled({e})
  /\ UNCHANGED <<settings, pending, due, file, seen, unchanged, tab, acts, untried, restrained>>

\* break: with automation off, the backfills taken are dropped.
DropBackfills ==
  /\ worker.at = "next" /\ ~worker.on /\ worker.todo # {}
  /\ worker' = [worker EXCEPT !.todo = {}]
  /\ accepted' = Settled(worker.todo)
  /\ UNCHANGED <<settings, pending, due, cycleRunning, file, seen, unchanged, tab,
                 acts, untried, restrained>>

Wanted == worker.on /\ (worker.full \/ worker.paths # {})

BeginCycle ==
  /\ worker.at = "next" /\ worker.todo = {} /\ Wanted
  /\ worker' = [worker EXCEPT !.at = "list", !.event = None, !.tried = {}]
  /\ cycleRunning' = TRUE
  /\ UNCHANGED <<settings, pending, due, file, seen, unchanged, tab, acts, history>>

SkipCycle ==
  /\ worker.at = "next" /\ worker.todo = {} /\ ~Wanted
  /\ worker' = [worker EXCEPT !.at = "done"]
  /\ UNCHANGED <<settings, pending, due, cycleRunning, file, seen, unchanged, tab, acts, history>>

\* One evaluation for a cycle: a slice of the whole share, or the paths that are
\* stable.  What is not stable yet only has its window begun.
ListCycle ==
  /\ worker.at = "list" /\ worker.event = None
  /\ LET looked == IF worker.full THEN File ELSE worker.paths
         batch == IF worker.full THEN Slice(Stable(file)) ELSE Stable(file) \cap worker.paths
     IN /\ file' = Observed(looked)
        /\ seen' = Rotate(batch)
        /\ worker' = [worker EXCEPT !.at = "route", !.items = batch]
  /\ UNCHANGED <<settings, pending, due, cycleRunning, unchanged, tab, acts, history>>

\* Faulty variant: a backfill takes what is stable at its first look.
FirstLookOnly ==
  /\ worker.at = "list" /\ worker.event # None
  /\ file' = Observed(File)
  /\ unchanged' = {f \in File : file[f] \in Present}
  /\ worker' = [worker EXCEPT !.at = "batch", !.left = Stable(file)]
  /\ UNCHANGED <<settings, pending, due, cycleRunning, seen, tab, acts, history>>

\* A backfill has nothing to come back for: it waits out the window of the files
\* that are not stable.
FirstLook ==
  /\ worker.at = "list" /\ worker.event # None
  /\ file' = Observed(File)
  /\ unchanged' = {f \in File : file[f] \in Present}
  /\ worker' = [worker EXCEPT !.left = Stable(file),
       !.at = IF \E f \in File : file[f] \in {"new", "observed"} THEN "settle" ELSE "batch"]
  /\ UNCHANGED <<settings, pending, due, cycleRunning, seen, tab, acts, history>>

SecondLook ==
  /\ worker.at = "settle"
  /\ file' = [f \in File |-> IF f \in unchanged /\ file[f] = "observed" THEN "stable"
                             ELSE Observed(File)[f]]
  /\ worker' = [worker EXCEPT !.at = "batch", !.left = Stable(file')]
  /\ UNCHANGED <<settings, pending, due, cycleRunning, seen, unchanged, tab, acts, history>>

\* Chunk after chunk of the stable files; of each, the items of the event.
EvaluateBatch ==
  /\ worker.at = "batch" /\ worker.left # {}
  /\ \E batch \in SUBSET worker.left :
       /\ Cardinality(batch) = IF Limit < Cardinality(worker.left) THEN Limit
                               ELSE Cardinality(worker.left)
       /\ seen' = Rotate(batch)
       /\ worker' = [worker EXCEPT !.at = "route", !.left = @ \ batch,
                       !.items = {f \in batch : EventOf[f] = worker.event}]
  /\ UNCHANGED <<settings, pending, due, cycleRunning, file, unchanged, tab, acts, history>>

\* One item: skipped, or handed to the coordinator, which refuses a file that is
\* gone or has changed; a transfer may release the source, or keep it.
RouteItem(f) ==
  /\ worker.at = "route" /\ f \in worker.items
  /\ \/ /\ f \in Guessed \/ worker.dry \/ file[f] # "stable"
        /\ worker' = [worker EXCEPT !.items = @ \ {f}]
        /\ UNCHANGED <<file, untried>>
     \/ /\ f \notin Guessed /\ ~worker.dry /\ file[f] = "stable"
        /\ worker' = [worker EXCEPT !.items = @ \ {f}, !.tried = @ \cup {f}]
        /\ untried' = untried \ {f}
        /\ file' \in {file, [file EXCEPT ![f] = "gone"]}
  /\ UNCHANGED <<settings, pending, due, cycleRunning, seen, unchanged, tab, acts,
                 accepted, restrained>>

RouteEnd ==
  /\ worker.at = "route" /\ worker.items = {} /\ worker.event # None
  /\ worker' = [worker EXCEPT !.at = "batch"]
  /\ UNCHANGED <<settings, pending, due, cycleRunning, file, seen, unchanged, tab, acts, history>>

\* CycleCompleted and CycleFailed: not running, and the time of an end for those
\* who asked before it.
Ended ==
  /\ cycleRunning' = FALSE
  /\ unchanged' = {}
  /\ tab' = [tab EXCEPT !.ended = (tab.at = "waiting")]

End ==
  /\ \/ worker.at = "batch" /\ worker.left = {}
     \/ worker.at = "route" /\ worker.items = {} /\ worker.event = None
  /\ worker' = [worker EXCEPT !.at = IF worker.event = None THEN "done" ELSE "next"]
  /\ Ended
  /\ UNCHANGED <<settings, pending, due, file, seen, acts, history>>

\* Faulty variant: a failed backfill ends the pass.
FailEndingPass ==
  /\ worker.at \in Running /\ acts < MaxActs
  /\ worker' = [worker EXCEPT !.at = "done", !.todo = {}, !.left = {}, !.items = {}]
  /\ Ended
  /\ acts' = acts + 1
  /\ UNCHANGED <<settings, pending, due, file, seen, history>>

\* An exception no share is left with: the cycle or the one backfill is over.
Fail ==
  /\ worker.at \in Running /\ acts < MaxActs
  /\ worker' = [worker EXCEPT !.left = {}, !.items = {},
                  !.at = IF worker.event = None THEN "done" ELSE "next"]
  /\ Ended
  /\ acts' = acts + 1
  /\ UNCHANGED <<settings, pending, due, file, seen, history>>

\* The full walk is stamped after it, whether or not automation let it run.
Stamp ==
  /\ worker.at = "done"
  /\ worker' = [worker EXCEPT !.at = "wait", !.full = FALSE, !.on = FALSE,
                  !.paths = {}, !.event = None, !.tried = {}]
  /\ due' = (due /\ ~worker.full)
  /\ UNCHANGED <<settings, pending, cycleRunning, file, seen, unchanged, tab, acts, history>>

Worker ==
  \/ Take \/ ReadSettings \/ DropBackfills \/ BeginCycle \/ SkipCycle \/ ListCycle
  \/ FirstLook \/ SecondLook \/ EvaluateBatch \/ RouteEnd \/ End \/ Stamp
  \/ \E e \in Event : BeginBackfill(e)
  \/ \E f \in File : RouteItem(f)

-----------------------------------------------------------------------------
(* The endpoints and the browser.                                          *)

\* The checks of /automation/run (a = None) and of /events/{id}/backfill; what
\* they saw may be over when the request is accepted.
Check(a) ==
  /\ tab.at = "idle" /\ acts < MaxActs
  /\ automation /\ ~cycleRunning
  /\ tab' = [at |-> "checked", ask |-> a, ended |-> FALSE]
  /\ acts' = acts + 1
  /\ UNCHANGED <<settings, pending, due, worker, cycleRunning, file, seen, unchanged, history>>

\* requestedAt is taken, the worker woken, and the browser begins to poll.
Accept ==
  /\ tab.at = "checked"
  /\ tab' = [tab EXCEPT !.at = "waiting"]
  /\ \/ /\ tab.ask = None
        /\ pending' = [pending EXCEPT !.full = TRUE]
        /\ UNCHANGED accepted
     \/ /\ tab.ask # None
        /\ pending' = [pending EXCEPT !.backfills = @ \cup {tab.ask}]
        /\ accepted' = accepted \cup {tab.ask}
  /\ UNCHANGED <<settings, due, worker, cycleRunning, file, seen, unchanged, acts,
                 untried, restrained>>

\* monitorAutomationCycle: nothing runs, and some cycle ended since the request.
Poll ==
  /\ tab.at = "waiting" /\ tab.ended /\ ~cycleRunning
  /\ tab' = Closed
  /\ UNCHANGED <<settings, pending, due, worker, cycleRunning, file, seen, unchanged, acts, history>>

-----------------------------------------------------------------------------
(* Time, users, clients, faults.                                           *)

Interval ==
  /\ ~due
  /\ due' = TRUE
  /\ UNCHANGED <<settings, pending, worker, cycleRunning, file, seen, unchanged, tab, acts, history>>

\* The window of an observed file passes.
Settle(f) ==
  /\ file[f] = "observed"
  /\ file' = [file EXCEPT ![f] = "stable"]
  /\ UNCHANGED <<settings, pending, due, worker, cycleRunning, seen, unchanged, tab, acts, history>>

\* The watcher reports a path: a change, the end of its window, or no reason.
\* The paths it reports under a pending full walk are covered by that.
WakeForPath(f) ==
  /\ f \in Watched /\ ~pending.full
  /\ pending' = [pending EXCEPT !.paths = @ \cup {f}]
  /\ UNCHANGED <<settings, due, worker, cycleRunning, file, seen, unchanged, tab, acts, history>>

\* A file arrives or is written again.
Write(f) ==
  /\ acts < MaxActs
  /\ file[f] # "gone"
  /\ file' = [file EXCEPT ![f] = "new"]
  /\ unchanged' = unchanged \ {f}
  /\ untried' = untried \cup {f}
  /\ acts' = acts + 1
  /\ UNCHANGED <<settings, pending, due, worker, cycleRunning, seen, tab, accepted, restrained>>

ChangeSettings ==
  /\ acts < MaxActs
  /\ automation' \in BOOLEAN /\ dryRun' \in BOOLEAN
  /\ <<automation, dryRun>>' # <<automation, dryRun>>
  /\ restrained' = (restrained /\ dryRun')
  /\ acts' = acts + 1
  /\ UNCHANGED <<pending, due, worker, cycleRunning, file, seen, unchanged, tab, untried, accepted>>

\* A preview of the share stamps what it evaluates and routes nothing.
Preview ==
  /\ acts < MaxActs
  /\ file' = Observed(File)
  /\ seen' = Rotate(Stable(file))
  /\ acts' = acts + 1
  /\ UNCHANGED <<settings, pending, due, worker, cycleRunning, unchanged, tab, history>>

\* The process starts anew: what was pending or observed is forgotten, the index
\* is not, and a browser's poll failed.
Restart ==
  /\ acts < MaxActs
  /\ worker' = Idle
  /\ pending' = Nothing
  /\ due' = TRUE
  /\ cycleRunning' = FALSE
  /\ file' = [f \in File |-> IF file[f] \in Present THEN "new" ELSE file[f]]
  /\ tab' = Closed
  /\ unchanged' = {}
  /\ accepted' = {}
  /\ acts' = acts + 1
  /\ UNCHANGED <<settings, seen, untried, restrained>>

Environment ==
  \/ Fail \/ ChangeSettings \/ Preview \/ Restart
  \/ \E f \in File : WakeForPath(f) \/ Write(f)
  \/ \E a \in Event \cup {None} : Check(a)

Next ==
  \/ Worker \/ Accept \/ Poll \/ Interval \/ Environment
  \/ \E f \in File : Settle(f)

Spec == Init /\ [][Next]_vars

\* The worker runs, time passes, the endpoint answers and the browser polls.
\* Strong fairness of Poll: the interval is a rest between walks, and a browser
\* that polls every 250 ms finds the worker at rest at some time.  Nothing is owed
\* by the watcher, and no user comes back.
FairSpec ==
  /\ Spec
  /\ WF_vars(Worker) /\ WF_vars(Interval) /\ WF_vars(Accept) /\ SF_vars(Poll)
  /\ \A f \in File : WF_vars(Settle(f))

-----------------------------------------------------------------------------
(* Properties.                                                             *)

\* "Unlike a normal cycle this is not capped at MaxFilesPerSharePerCycle: it runs
\* to completion": when a live backfill is over, every file of its event that
\* was there at its first look, settled or not, and was not written since has
\* been handed to the coordinator.
BackfillComplete ==
  [][worker.event # None /\ worker.at = "batch" /\ worker'.at = "next"
       /\ worker.left = {} /\ ~worker.dry
     => \A f \in unchanged \ Guessed : EventOf[f] = worker.event => f \in worker.tried]_vars

\* Dry Run binds from the next pass on: a file handed over while Dry Run is
\* stored belongs to the pass that was under way when it was switched on.
DryRunBinds ==
  [][worker'.tried \ worker.tried # {} /\ dryRun => ~restrained]_vars

\* A backfill answered with 202 is still waiting or has begun, whatever the ones
\* before it ended with; only automation switched off drops it, and a restart.
BackfillsOwed == accepted \subseteq pending.backfills \cup worker.todo

\* No file is starved by the cap, by files that stay behind for ever, by watcher
\* traffic or by a slice evaluated for nothing: while automation stays on and
\* live, every file is handed to the coordinator.
FilesNotStarved ==
  <>[](automation /\ ~dryRun) => \A f \in File \ Guessed : f \in untried ~> f \notin untried

\* The browser that asked for a cycle sees one end, even when its own request
\* was dropped: the interval is not put off by what wakes the worker in between.
MonitorAnswered ==
  <>[]automation => (tab.at = "waiting" ~> tab.at # "waiting")
=============================================================================
