--------------------------- MODULE RoutingPreview ---------------------------
(***************************************************************************)
(* The routing preview.  A job on the server evaluates the files of one     *)
(* share; a browser tab starts it, polls it, draws its items and explains,  *)
(* in the details dialog, which event takes a file and why.  The dialog     *)
(* computes that from the tab's own copies, with rules written a second     *)
(* time.  Meanwhile users change events, groups, shares and settings, other *)
(* clients start previews, and the server restarts.                        *)
(*                                                                         *)
(* The evaluation is the one the routing worker routes by.  Wording,        *)
(* progress, and filters that only hide rows are left out; a file's capture *)
(* time is the one its metadata or the index gives.                        *)
(***************************************************************************)
EXTENDS Naturals, FiniteSets

CONSTANTS Share, File, Event, Group,
          ShareOf,    \* [File -> Share]
          CapturedAt, \* [File -> Nat]
          Guessed,    \* files whose capture time is the file system's
          Plan,       \* what an event may be saved as
          FirstConfig,\* what the server stores at the start
          None,       \* no event, no end, no preview, no dialog
          MaxJobs,    \* bound: jobs started; a start takes a click or a change
          MaxClicks,  \* bound: what the user of the tab does
          MaxChanges  \* bound: what everybody else does, and faults

Status == {"Planned", "Active", "Closed"}
Config == [event : [Event -> Plan], member : [Group -> SUBSET Share],
           walked : SUBSET Share, writable : SUBSET Share,
           fallback : BOOLEAN, dry : BOOLEAN]

ASSUME FileAssumption ==
  /\ ShareOf \in [File -> Share] /\ CapturedAt \in [File -> Nat] /\ Guessed \subseteq File
  /\ Plan \subseteq [status : Status, start : Nat, end : Nat \cup {None},
                     group : Group, destination : Share]
  /\ FirstConfig \in Config
ASSUME ShareAssumption == Share # {}
ASSUME EventAssumption == IsFiniteSet(Event)
ASSUME BoundAssumption ==
  /\ MaxClicks \in Nat /\ MaxChanges \in Nat
  /\ MaxJobs \in Nat /\ MaxJobs >= MaxClicks + MaxChanges

VARIABLES
  config,   \* events, groups, shares and settings as stored
  stored,   \* files still on their source shares
  jobs,     \* the jobs, by number
  started,  \* the number of the last job
  byShare,  \* RoutingPreviewJobs: the job of a share, 0 for none
  known,    \* the tab's copy of config
  task,     \* the preview task of a share: where it is, and the job it polls
  preview,  \* the tab's routingPreview
  list,     \* what the list shows
  analysis, \* the details dialog, as last drawn
  transfer, \* the item the user asked to execute
  clicks, changes

server == <<config, stored, jobs, started, byShare>>
page == <<known, task, preview, list, analysis, transfer>>
vars == <<server, page, clicks, changes>>

-----------------------------------------------------------------------------
(* The evaluation: ListMatchableAsync, EvaluateCoreAsync, RouteAsync.      *)

InWindow(plan, time) == plan.start <= time /\ (plan.end = None \/ time <= plan.end)

\* ListMatchableAsync: the bounds are inclusive.
Matchable(c, time) ==
  {e \in Event : c.event[e].status \in {"Active", "Closed"} /\ InWindow(c.event[e], time)}

\* EvaluateCoreAsync for one file: events as stored now, groups and shares as read before.
Evaluate(c, member, writable, f) ==
  LET matches == {e \in Matchable(c, CapturedAt[f]) : ShareOf[f] \in member[c.event[e].group]}
      only == CHOOSE e \in matches : TRUE
      item(state, event) == [file |-> f, state |-> state, event |-> event]
  IN  CASE matches = {}              -> item("Unmatched", None)
        [] Cardinality(matches) > 1  -> item("Ambiguous", None)
        [] OTHER -> item(IF c.event[only].destination \in writable
                         THEN "Matched" ELSE "InvalidDestination", only)

\* RouteAsync takes matched items, guessed capture times only where that is allowed.
Routes(c, e, f) ==
  LET item == Evaluate(c, c.member, c.writable, f)
  IN  item.state = "Matched" /\ item.event = e /\ (f \in Guessed => c.fallback)

\* ValidateRoute, before a transfer the user asked for.
ValidateRoute(c, e, f) ==
  /\ ShareOf[f] \in c.walked /\ c.event[e].destination \in c.writable
  /\ ShareOf[f] \in c.member[c.event[e].group]
  /\ e \in Matchable(c, CapturedAt[f])

-----------------------------------------------------------------------------
(* The same rules in the tab: eventChecks, eventMatches,                   *)
(* renderEventAnalysis.                                                    *)

eventChecks(e, f, share) ==
  LET plan == known.event[e]
  IN  <<plan.status \in {"Active", "Closed"},
        InWindow(plan, CapturedAt[f]),
        share \in known.member[plan.group],
        plan.destination \in known.writable>>

\* Faulty variant: an event that cannot store the file does not compete for it.
eventMatchesStorable(e, f, share) == \A i \in 1..4 : eventChecks(e, f, share)[i]

\* Ambiguity is decided before the destination is looked at.
eventMatches(e, f, share) == \A i \in 1..3 : eventChecks(e, f, share)[i]

Takes(e, f, share) ==
  /\ \A i \in 1..4 : eventChecks(e, f, share)[i]
  /\ ~ \E other \in Event \ {e} : eventMatches(other, f, share)
  /\ f \in Guessed => known.fallback

\* The dialog as drawn for a file and a chosen event; no event, no checks.
renderEventAnalysis(f, e) ==
  [file |-> f, event |-> e, takes |-> e # None /\ Takes(e, f, preview.share)]

-----------------------------------------------------------------------------
(* The jobs.                                                               *)

Item == [file : File, state : {"Matched", "Unmatched", "Ambiguous", "InvalidDestination"},
         event : Event \cup {None}]
JobId == 1..MaxJobs
Stages == {"files", "groups", "events"}
Fresh(s) == [share |-> s, at |-> "files", left |-> {}, member |-> [g \in Group |-> {}],
             writable |-> {}, items |-> {}]
Unused == [Fresh(CHOOSE s \in Share : TRUE) EXCEPT !.at = "none"]
Job == [share : Share, at : Stages \cup {"none", "done", "error"}, left : SUBSET File,
        member : [Group -> SUBSET Share], writable : SUBSET Share, items : SUBSET Item]

Running(j) == jobs[j].at \in Stages
RunningOf(s) == {j \in JobId : byShare[s] = j /\ Running(j)}

\* A new job, with its number; a finished one of the share is let go.
NewJob(s) ==
  /\ started < MaxJobs
  /\ started' = started + 1
  /\ jobs' = [j \in JobId |-> IF j = started + 1 THEN Fresh(s)
                              ELSE IF j = byShare[s] /\ ~Running(j) THEN Unused
                              ELSE jobs[j]]
  /\ byShare' = [byShare EXCEPT ![s] = started + 1]

\* Faulty variant: a start replaces whatever job the share has.
StartAlways(s) == NewJob(s)

\* Start: the running job of the share, or a new one.
Start(s) ==
  \/ RunningOf(s) # {} /\ UNCHANGED <<jobs, started, byShare>>
  \/ RunningOf(s) = {} /\ NewJob(s)

\* PreviewAsync enumerates the share; metadata reads follow.
ListFiles(j) ==
  /\ jobs[j].at = "files"
  /\ jobs' = [jobs EXCEPT ![j].at = "groups",
                          ![j].left = {f \in stored : ShareOf[f] = jobs[j].share}]
  /\ UNCHANGED <<config, stored, started, byShare, page, clicks, changes>>

\* Groups and shares are read before the first file is matched.
ReadGroupsAndShares(j) ==
  /\ jobs[j].at = "groups"
  /\ jobs' = [jobs EXCEPT ![j].at = "events", ![j].member = config.member,
                          ![j].writable = config.writable]
  /\ UNCHANGED <<config, stored, started, byShare, page, clicks, changes>>

EvaluateNext(j) ==
  /\ jobs[j].at = "events"
  /\ \E f \in jobs[j].left :
       jobs' = [jobs EXCEPT ![j].left = @ \ {f},
                  ![j].items = @ \cup {Evaluate(config, jobs[j].member, jobs[j].writable, f)}]
  /\ UNCHANGED <<config, stored, started, byShare, page, clicks, changes>>

Complete(j) ==
  /\ jobs[j].at = "events" /\ jobs[j].left = {}
  /\ jobs' = [jobs EXCEPT ![j] = [Fresh(@.share) EXCEPT !.at = "done", !.items = jobs[j].items]]
  /\ UNCHANGED <<config, stored, started, byShare, page, clicks, changes>>

RunAsync(j) ==
  ListFiles(j) \/ ReadGroupsAndShares(j) \/ EvaluateNext(j) \/ Complete(j)

\* An exception ends the job with its message.
FailJob(j) ==
  /\ Running(j) /\ changes < MaxChanges
  /\ jobs' = [jobs EXCEPT ![j] = [Fresh(@.share) EXCEPT !.at = "error"]]
  /\ changes' = changes + 1
  /\ UNCHANGED <<config, stored, started, byShare, page, clicks>>

-----------------------------------------------------------------------------
(* Everybody else.                                                         *)

Toggle(set, x) == IF x \in set THEN set \ {x} ELSE set \cup {x}

\* Events, groups, shares and settings are saved by other tabs and clients.
Change ==
  /\ changes < MaxChanges
  /\ changes' = changes + 1
  /\ \/ \E e \in Event, p \in Plan : config' = [config EXCEPT !.event[e] = p]
     \/ \E g \in Group, s \in Share : config' = [config EXCEPT !.member[g] = Toggle(@, s)]
     \/ \E s \in Share : config' = [config EXCEPT !.walked = Toggle(@, s)]
     \/ \E s \in Share : config' = [config EXCEPT !.writable = Toggle(@, s)]
     \/ config' = [config EXCEPT !.fallback = ~@]
     \/ config' = [config EXCEPT !.dry = ~@]
  /\ UNCHANGED <<stored, jobs, started, byShare, page, clicks>>

\* Another client asks for a preview of a share.
OtherStart(s) ==
  /\ changes < MaxChanges /\ s \in config.walked
  /\ changes' = changes + 1
  /\ Start(s)
  /\ UNCHANGED <<config, stored, page, clicks>>

\* Jobs are kept in memory only.
Restart ==
  /\ changes < MaxChanges
  /\ changes' = changes + 1
  /\ jobs' = [j \in JobId |-> Unused]
  /\ byShare' = [s \in Share |-> 0]
  /\ UNCHANGED <<config, stored, started, page, clicks>>

-----------------------------------------------------------------------------
(* The tab: previewRouting, waitForRoutingPreview, renderRoutingPreview.    *)

Idle == [at |-> "idle", job |-> 0]
Click == clicks < MaxClicks /\ clicks' = clicks + 1

\* previewRouting of the share selected.  A task under way for the share is joined.
Ask(s) ==
  /\ s \in known.walked
  /\ list' = "scanning"
  /\ task' = [task EXCEPT ![s].at = IF @ = "idle" THEN "asking" ELSE @]

previewRouting(s) ==
  /\ Click /\ Ask(s)
  /\ UNCHANGED <<server, known, preview, analysis, transfer, changes>>

\* The task of a share fails.
Failed(s) ==
  /\ task' = [task EXCEPT ![s] = Idle]
  /\ preview' = None
  /\ list' = "failed"

\* The POST: refused unless the share is an enabled source.
Post(s) ==
  /\ task[s].at = "asking"
  /\ \/ s \notin config.walked /\ Failed(s) /\ UNCHANGED <<jobs, started, byShare>>
     \/ /\ s \in config.walked
        /\ Start(s)
        /\ task' = [task EXCEPT ![s] = [at |-> "polling", job |-> byShare'[s]]]
        /\ UNCHANGED <<preview, list>>
  /\ UNCHANGED <<config, stored, known, analysis, transfer, clicks, changes>>

\* The task of a share has its result: routingPreview, drawn.
Answered(s) ==
  /\ task' = [task EXCEPT ![s] = Idle]
  /\ preview' = [share |-> s, items |-> jobs[task[s].job].items]
  /\ list' = "rows"

\* Faulty variant: a job that is not found is taken for one under way.
PollForgiving(s) ==
  /\ task[s].at = "polling" /\ byShare[s] = task[s].job
  /\ \/ jobs[task[s].job].at = "error" /\ Failed(s)
     \/ jobs[task[s].job].at = "done" /\ Answered(s)
  /\ UNCHANGED <<server, known, analysis, transfer, clicks, changes>>

\* A poll that ends the task; one that finds the job running changes nothing.
Poll(s) ==
  /\ task[s].at = "polling"
  /\ \/ byShare[s] # task[s].job /\ Failed(s)
     \/ /\ byShare[s] = task[s].job
        /\ \/ jobs[task[s].job].at = "error" /\ Failed(s)
           \/ jobs[task[s].job].at = "done" /\ Answered(s)
  /\ UNCHANGED <<server, known, analysis, transfer, clicks, changes>>

\* A request of the task is lost.
LoseRequest(s) ==
  /\ changes < MaxChanges /\ task[s].at # "idle"
  /\ changes' = changes + 1
  /\ Failed(s)
  /\ UNCHANGED <<server, known, analysis, transfer, clicks>>

\* A filter is typed: the rows come back, under a preview being made as well.
FilterRows ==
  /\ Click /\ preview # None /\ list # "rows"
  /\ list' = "rows"
  /\ UNCHANGED <<server, known, task, preview, analysis, transfer, changes>>

\* load: the tab reads everything again; the dialog is not drawn again.
Reload ==
  /\ Click /\ known # config
  /\ known' = config
  /\ UNCHANGED <<server, task, preview, list, analysis, transfer, changes>>

\* A row's Details, with the event of its item chosen.
openFileAnalysis ==
  /\ Click /\ list = "rows" /\ analysis = None
  /\ \E item \in preview.items : analysis' = renderEventAnalysis(item.file, item.event)
  /\ UNCHANGED <<server, known, task, preview, list, transfer, changes>>

\* Another event is chosen; with no preview left, drawing throws.
chooseEvent ==
  /\ Click /\ analysis # None /\ preview # None
  /\ \E e \in Event \cup {None} : analysis' = renderEventAnalysis(analysis.file, e)
  /\ UNCHANGED <<server, known, task, preview, list, transfer, changes>>

closeFileAnalysis ==
  /\ Click /\ analysis # None
  /\ analysis' = None
  /\ UNCHANGED <<server, known, task, preview, list, transfer, changes>>

\* Execute is offered on matched rows, unless the tab knows of Dry Run.
executeTransfer ==
  /\ Click /\ list = "rows" /\ analysis = None /\ transfer = None /\ ~known.dry
  /\ \E item \in preview.items :
       item.state = "Matched" /\ transfer' = [file |-> item.file, event |-> item.event]
  /\ UNCHANGED <<server, known, task, preview, list, analysis, changes>>

\* The transfer is over; if it was carried out the selected share is previewed again.
\* A copy and a refused move leave the source where it is.
TransferAnswered ==
  /\ transfer # None
  /\ transfer' = None
  /\ \/ /\ ~config.dry /\ transfer.file \in stored
        /\ ValidateRoute(config, transfer.event, transfer.file)
        /\ stored' \in {stored, stored \ {transfer.file}}
        /\ \E s \in Share : Ask(s)
     \/ UNCHANGED <<stored, task, list>>
  /\ UNCHANGED <<config, jobs, started, byShare, known, preview, analysis, clicks, changes>>

-----------------------------------------------------------------------------

Init ==
  /\ config = FirstConfig /\ stored = File
  /\ jobs = [j \in JobId |-> Unused] /\ started = 0 /\ byShare = [s \in Share |-> 0]
  /\ known = FirstConfig /\ task = [s \in Share |-> Idle]
  /\ preview = None /\ list = "empty" /\ analysis = None /\ transfer = None
  /\ clicks = 0 /\ changes = 0

Next ==
  \/ \E j \in JobId : RunAsync(j) \/ FailJob(j)
  \/ Change \/ Restart
  \/ \E s \in Share : OtherStart(s) \/ previewRouting(s) \/ Post(s) \/ Poll(s) \/ LoseRequest(s)
  \/ FilterRows \/ Reload \/ openFileAnalysis \/ chooseEvent \/ closeFileAnalysis
  \/ executeTransfer \/ TransferAnswered

\* Task.Run runs a job to its end; a request is answered; the tab keeps polling.
Fairness ==
  /\ \A j \in JobId : WF_vars(RunAsync(j))
  /\ \A s \in Share : WF_vars(Post(s)) /\ WF_vars(Poll(s))

Spec == Init /\ [][Next]_vars /\ Fairness

-----------------------------------------------------------------------------
(* Properties                                                              *)

Preview == [share : Share, items : SUBSET Item]

\* Types of the variables; polled jobs are jobs that were started.
TypeOK ==
  /\ config \in Config /\ known \in Config /\ stored \subseteq File
  /\ jobs \in [JobId -> Job] /\ started \in 0..MaxJobs /\ byShare \in [Share -> 0..started]
  /\ task \in [Share -> [at : {"idle", "asking", "polling"}, job : 0..started]]
  /\ \A s \in Share : task[s].at = "polling" => task[s].job # 0
  /\ preview \in Preview \cup {None}
  /\ list \in {"empty", "scanning", "rows", "failed"}
  /\ analysis \in [file : File, event : Event \cup {None}, takes : BOOLEAN] \cup {None}
  /\ transfer \in [file : File, event : Event \cup {None}] \cup {None}
  /\ clicks \in 0..MaxClicks /\ changes \in 0..MaxChanges

\* A running job is the one its share has: it is found by whoever polls it,
\* and no two jobs read the same files at once.
\* (RoutingPreviewJobs.cs: "One job per share".)
RunningJobsFindable ==
  \A j \in JobId : Running(j) => byShare[jobs[j].share] = j

\* Drawn from copies that are current, for a file of the share shown, the
\* dialog says what the worker would do.  (app.js: "the answer to 'why not
\* this event?' is the one the worker would give".)
VerdictIsWorkers ==
  [][ ( /\ analysis' # analysis /\ analysis' # None /\ analysis'.event # None
        /\ known = config
        /\ preview.share = ShareOf[analysis'.file] /\ preview.share \in config.walked )
      => (analysis'.takes <=> Routes(config, analysis'.event, analysis'.file)) ]_vars

\* A preview asked for comes to an end, with rows or with a message, however
\* the server restarts and whoever starts a newer one.
PreviewEnds == \A s \in Share : task[s].at # "idle" ~> task[s].at = "idle"

=============================================================================
