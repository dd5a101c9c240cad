------------------------ MODULE RoutingPreviewProofs ------------------------
(***************************************************************************)
(* For any shares, files, events and number of jobs: the variables of       *)
(* RoutingPreview keep their types, a running preview job is the one its    *)
(* share has, and the rules of the details dialog are those of the worker.  *)
(* Types need that rows are only on display with a preview behind them; the *)
(* second only that a start never replaces a running job; the third that    *)
(* "matches, and no other event matches" says "the one event that matches". *)
(***************************************************************************)
EXTENDS RoutingPreview, FiniteSetTheorems, TLAPS

\* Rows are on display only with the preview they are of.
RowsHavePreview == list = "rows" => preview \in Preview

Inv == TypeOK /\ RunningJobsFindable /\ RowsHavePreview

\* A job as it begins, and the place of one that has not.
LEMMA FreshTyped ==
  /\ \A s \in Share : Fresh(s) \in Job /\ Fresh(s).share = s /\ Fresh(s).at = "files"
  /\ Unused \in Job /\ Unused.at = "none"
<1>1. \A s \in Share : Fresh(s) \in Job /\ Fresh(s).share = s /\ Fresh(s).at = "files"
  BY DEF Fresh, Job, Stages
<1>2. (CHOOSE s \in Share : TRUE) \in Share
  BY ShareAssumption
<1>3. Unused \in Job /\ Unused.at = "none"
  BY <1>1, <1>2 DEF Unused, Job
<1> QED
  BY <1>1, <1>3

\* The evaluation of a file is an item.
LEMMA EvaluateTyped ==
  ASSUME NEW c, NEW member, NEW writable, NEW f \in File
  PROVE  Evaluate(c, member, writable, f) \in Item
<1> DEFINE matches == {e \in Matchable(c, CapturedAt[f]) : ShareOf[f] \in member[c.event[e].group]}
           only == CHOOSE e \in matches : TRUE
<1>1. matches \subseteq Event
  BY DEF Matchable
<1>2. matches # {} => only \in Event
  BY <1>1
<1> QED
  BY <1>2 DEF Evaluate, Item

\* A step of one job that keeps its share and never makes it run again.
LEMMA JobStep ==
  ASSUME Inv, NEW j \in JobId, NEW r \in Job,
         r.share = jobs[j].share, r.at \in Stages => jobs[j].at \in Stages,
         jobs' = [jobs EXCEPT ![j] = r], changes' \in 0..MaxChanges,
         UNCHANGED <<config, stored, started, byShare, page, clicks>>
  PROVE  Inv'
<1>1. TypeOK'
  BY DEF Inv, TypeOK, page
<1>2. RunningJobsFindable'
  BY DEF Inv, TypeOK, RunningJobsFindable, Running
<1>3. RowsHavePreview'
  BY DEF Inv, RowsHavePreview, page
<1> QED
  BY <1>1, <1>2, <1>3 DEF Inv

LEMMA RunStep ==
  ASSUME Inv, NEW j \in JobId, RunAsync(j) \/ FailJob(j)
  PROVE  Inv'
<1>0. jobs[j] \in Job /\ jobs[j].share \in Share /\ changes \in 0..MaxChanges /\ config \in Config
  BY DEF Inv, TypeOK, Job
<1>1. CASE ListFiles(j)
  <2> DEFINE r == [jobs[j] EXCEPT !.at = "groups", !.left = {f \in stored : ShareOf[f] = jobs[j].share}]
  <2>1. jobs' = [jobs EXCEPT ![j] = r]
    BY <1>0, <1>1 DEF ListFiles, Inv, TypeOK, Job
  <2>2. stored \subseteq File
    BY DEF Inv, TypeOK
  <2>3. r \in Job /\ r.share = jobs[j].share
    BY <1>0, <2>2 DEF Job, Stages
  <2>4. changes' \in 0..MaxChanges /\ jobs[j].at \in Stages
    BY <1>0, <1>1 DEF ListFiles, Stages
  <2>5. UNCHANGED <<config, stored, started, byShare, page, clicks>>
    BY <1>1 DEF ListFiles
  <2> HIDE DEF r
  <2> QED
    BY <2>1, <2>3, <2>4, <2>5, JobStep
<1>2. CASE ReadGroupsAndShares(j)
  <2> DEFINE r == [jobs[j] EXCEPT !.at = "events", !.member = config.member, !.writable = config.writable]
  <2>1. jobs' = [jobs EXCEPT ![j] = r]
    BY <1>0, <1>2 DEF ReadGroupsAndShares, Inv, TypeOK, Job
  <2>2. config.member \in [Group -> SUBSET Share] /\ config.writable \subseteq Share
    BY <1>0 DEF Config
  <2>3. r \in Job /\ r.share = jobs[j].share
    BY <1>0, <2>2 DEF Job, Stages
  <2>4. changes' \in 0..MaxChanges /\ jobs[j].at \in Stages
    BY <1>0, <1>2 DEF ReadGroupsAndShares, Stages
  <2>5. UNCHANGED <<config, stored, started, byShare, page, clicks>>
    BY <1>2 DEF ReadGroupsAndShares
  <2> HIDE DEF r
  <2> QED
    BY <2>1, <2>3, <2>4, <2>5, JobStep
<1>3. CASE EvaluateNext(j)
  <2>1. PICK f \in jobs[j].left :
          jobs' = [jobs EXCEPT ![j].left = @ \ {f},
                     ![j].items = @ \cup {Evaluate(config, jobs[j].member, jobs[j].writable, f)}]
    BY <1>3 DEF EvaluateNext
  <2> DEFINE item == Evaluate(config, jobs[j].member, jobs[j].writable, f)
             r == [jobs[j] EXCEPT !.left = @ \ {f}, !.items = @ \cup {item}]
  <2>2. f \in File
    BY <1>0, <2>1 DEF Job
  <2>3. item \in Item
    BY <2>2, EvaluateTyped
  <2> HIDE DEF item
  <2>4. jobs' = [jobs EXCEPT ![j] = r]
    BY <1>0, <2>1 DEF Inv, TypeOK, Job, item
  <2>5. r \in Job /\ r.share = jobs[j].share /\ r.at = jobs[j].at
    BY <1>0, <2>3 DEF Job
  <2>6. changes' \in 0..MaxChanges
    BY <1>0, <1>3 DEF EvaluateNext
  <2>7. UNCHANGED <<config, stored, started, byShare, page, clicks>>
    BY <1>3 DEF EvaluateNext
  <2> HIDE DEF r
  <2> QED
    BY <2>4, <2>5, <2>6, <2>7, JobStep
<1>4. CASE Complete(j)
  <2> DEFINE r == [Fresh(jobs[j].share) EXCEPT !.at = "done", !.items = jobs[j].items]
  <2>1. jobs' = [jobs EXCEPT ![j] = r]
    BY <1>0, <1>4 DEF Complete, Inv, TypeOK
  <2>2. r \in Job /\ r.share = jobs[j].share /\ r.at \notin Stages
    BY <1>0, FreshTyped DEF Job, Stages
  <2>3. changes' \in 0..MaxChanges
    BY <1>0, <1>4 DEF Complete
  <2>4. UNCHANGED <<config, stored, started, byShare, page, clicks>>
    BY <1>4 DEF Complete
  <2> HIDE DEF r
  <2> QED
    BY <2>1, <2>2, <2>3, <2>4, JobStep
<1>5. CASE FailJob(j)
  <2> DEFINE r == [Fresh(jobs[j].share) EXCEPT !.at = "error"]
  <2>1. jobs' = [jobs EXCEPT ![j] = r]
    BY <1>0, <1>5 DEF FailJob, Inv, TypeOK
  <2>2. r \in Job /\ r.share = jobs[j].share /\ r.at \notin Stages
    BY <1>0, FreshTyped DEF Job, Stages
  <2>3. changes' \in 0..MaxChanges
    BY <1>0, <1>5, BoundAssumption DEF FailJob
  <2>4. UNCHANGED <<config, stored, started, byShare, page, clicks>>
    BY <1>5 DEF FailJob
  <2> HIDE DEF r
  <2> QED
    BY <2>1, <2>2, <2>3, <2>4, JobStep
<1> QED
  BY <1>1, <1>2, <1>3, <1>4, <1>5 DEF RunAsync

\* Start leaves the share with a running job, its own or a new one.
StartKeeps(s) ==
  /\ jobs' \in [JobId -> Job] /\ started' \in started..MaxJobs
  /\ byShare' \in [Share -> 0..started']
  /\ byShare'[s] # 0
  /\ RunningJobsFindable'

LEMMA StartStep ==
  ASSUME Inv, NEW s \in Share, Start(s)
  PROVE  StartKeeps(s)
<1>0. /\ jobs \in [JobId -> Job] /\ started \in 0..MaxJobs /\ byShare \in [Share -> 0..started]
      /\ MaxJobs \in Nat
  BY BoundAssumption DEF Inv, TypeOK
<1>1. CASE RunningOf(s) # {} /\ UNCHANGED <<jobs, started, byShare>>
  <2>1. byShare[s] # 0
    BY <1>1 DEF RunningOf, JobId
  <2> QED
    BY <1>0, <1>1, <2>1 DEF StartKeeps, Inv, RunningJobsFindable, Running
<1>2. CASE RunningOf(s) = {} /\ NewJob(s)
  <2> DEFINE n == started + 1
  <2>1. n \in JobId /\ started' = n /\ n # 0
    BY <1>0, <1>2 DEF NewJob, JobId
  <2>2. byShare' = [byShare EXCEPT ![s] = n]
    BY <1>2 DEF NewJob
  <2>3. jobs' = [j \in JobId |-> IF j = n THEN Fresh(s)
                                 ELSE IF j = byShare[s] /\ ~Running(j) THEN Unused ELSE jobs[j]]
    BY <1>2 DEF NewJob
  <2>4. jobs' \in [JobId -> Job]
    BY <1>0, <2>3, FreshTyped
  <2>5. byShare' \in [Share -> 0..started'] /\ byShare'[s] = n
    BY <1>0, <2>1, <2>2
  <2>6. RunningJobsFindable'
    <3> SUFFICES ASSUME NEW j \in JobId, jobs'[j].at \in Stages
                 PROVE  byShare'[jobs'[j].share] = j
      BY DEF RunningJobsFindable, Running
    <3>1. CASE j = n
      <4>1. jobs'[j] = Fresh(s)
        BY <2>3, <3>1
      <4> QED
        BY <2>5, <3>1, <4>1, FreshTyped
    <3>2. CASE j # n
      <4>1. jobs'[j] = jobs[j]
        BY <2>3, <3>2, FreshTyped DEF Stages
      <4>2. byShare[jobs[j].share] = j /\ Running(j) /\ jobs[j].share \in Share
        BY <1>0, <4>1 DEF Inv, RunningJobsFindable, Running, Job
      <4>3. jobs[j].share # s
        BY <1>2, <4>2 DEF RunningOf
      <4> QED
        BY <1>0, <2>2, <4>1, <4>2, <4>3
    <3> QED
      BY <3>1, <3>2
  <2> QED
    <3>1. started' \in started..MaxJobs /\ byShare'[s] # 0
      BY <1>0, <2>1, <2>5 DEF JobId
    <3> QED
      BY <2>4, <2>5, <2>6, <3>1 DEF StartKeeps
<1> QED
  BY <1>1, <1>2 DEF Start

\* The others: a change of what is stored, a start, a restart.
LEMMA OthersStep ==
  ASSUME Inv, Change \/ Restart \/ \E s \in Share : OtherStart(s)
  PROVE  Inv'
<1>0. /\ changes \in 0..MaxChanges /\ config \in Config /\ MaxChanges \in Nat /\ MaxJobs \in Nat
      /\ started \in 0..MaxJobs
  BY BoundAssumption DEF Inv, TypeOK
<1>1. CASE Change
  <2>1. config' \in Config
    <3>1. ASSUME NEW e \in Event, NEW p \in Plan PROVE [config EXCEPT !.event[e] = p] \in Config
      BY <1>0 DEF Config
    <3>2. ASSUME NEW g \in Group, NEW s \in Share
          PROVE  [config EXCEPT !.member[g] = Toggle(@, s)] \in Config
      BY <1>0 DEF Config, Toggle
    <3>3. ASSUME NEW s \in Share
          PROVE  /\ [config EXCEPT !.walked = Toggle(@, s)] \in Config
                 /\ [config EXCEPT !.writable = Toggle(@, s)] \in Config
      BY <1>0 DEF Config, Toggle
    <3>4. [config EXCEPT !.fallback = ~@] \in Config /\ [config EXCEPT !.dry = ~@] \in Config
      BY <1>0 DEF Config
    <3>5. CASE \E e \in Event, p \in Plan : config' = [config EXCEPT !.event[e] = p]
      BY <3>1, <3>5
    <3>6. CASE \E g \in Group, s \in Share : config' = [config EXCEPT !.member[g] = Toggle(@, s)]
      BY <3>2, <3>6
    <3>7. CASE \/ \E s \in Share : config' = [config EXCEPT !.walked = Toggle(@, s)]
               \/ \E s \in Share : config' = [config EXCEPT !.writable = Toggle(@, s)]
      BY <3>3, <3>7
    <3>8. CASE config' = [config EXCEPT !.fallback = ~@] \/ config' = [config EXCEPT !.dry = ~@]
      BY <3>4, <3>8
    <3> QED
      BY <1>1, <3>5, <3>6, <3>7, <3>8, Zenon DEF Change
  <2>2. changes' \in 0..MaxChanges /\ UNCHANGED <<stored, jobs, started, byShare, page, clicks>>
    BY <1>0, <1>1 DEF Change
  <2> QED
    BY <2>1, <2>2 DEF Inv, TypeOK, RunningJobsFindable, Running, RowsHavePreview, page
<1>2. CASE Restart
  <2>1. changes' \in 0..MaxChanges /\ UNCHANGED <<config, stored, started, page, clicks>>
    BY <1>0, <1>2 DEF Restart
  <2>2. jobs' \in [JobId -> Job] /\ byShare' \in [Share -> 0..started]
    BY <1>0, <1>2, FreshTyped DEF Restart
  <2>3. \A j \in JobId : jobs'[j].at \notin Stages
    BY <1>2, FreshTyped DEF Restart, Stages
  <2>4. RunningJobsFindable'
    BY <2>3 DEF RunningJobsFindable, Running
  <2>5. TypeOK'
    BY <2>1, <2>2 DEF Inv, TypeOK, page
  <2> QED
    BY <2>1, <2>4, <2>5 DEF Inv, RowsHavePreview, page
<1>3. ASSUME NEW s \in Share, OtherStart(s) PROVE Inv'
  <2>1. StartKeeps(s)
    BY <1>3, StartStep DEF OtherStart
  <2>2. changes' \in 0..MaxChanges /\ UNCHANGED <<config, stored, page, clicks>>
    BY <1>0, <1>3 DEF OtherStart
  <2>3. task \in [Share -> [at : {"idle", "asking", "polling"}, job : 0..started']]
    BY <1>0, <2>1 DEF StartKeeps, Inv, TypeOK
  <2>4. started' \in 0..MaxJobs
    BY <1>0, <2>1 DEF StartKeeps
  <2>5. TypeOK'
    BY <2>1, <2>2, <2>3, <2>4 DEF StartKeeps, Inv, TypeOK, page
  <2> QED
    BY <2>1, <2>2, <2>5 DEF StartKeeps, Inv, RowsHavePreview, page
<1> QED
  BY <1>1, <1>2, <1>3

\* The tab: what is drawn, asked for and answered.
LEMMA AskKeeps ==
  ASSUME Inv, NEW s \in Share, Ask(s)
  PROVE  /\ task' \in [Share -> [at : {"idle", "asking", "polling"}, job : 0..started]]
         /\ \A t \in Share : task'[t].at = "polling" => task'[t].job # 0
         /\ list' = "scanning"
  BY DEF Ask, Inv, TypeOK

LEMMA FailedKeeps ==
  ASSUME Inv, NEW s \in Share, Failed(s)
  PROVE  /\ task' \in [Share -> [at : {"idle", "asking", "polling"}, job : 0..started]]
         /\ \A t \in Share : task'[t].at = "polling" => task'[t].job # 0
         /\ preview' = None /\ list' = "failed"
<1>1. started \in Nat /\ Idle \in [at : {"idle", "asking", "polling"}, job : 0..started]
  BY BoundAssumption DEF Inv, TypeOK, Idle
<1> QED
  BY <1>1 DEF Failed, Inv, TypeOK, Idle

LEMMA AnsweredKeeps ==
  ASSUME Inv, NEW s \in Share, task[s].at = "polling", Answered(s)
  PROVE  /\ task' \in [Share -> [at : {"idle", "asking", "polling"}, job : 0..started]]
         /\ \A t \in Share : task'[t].at = "polling" => task'[t].job # 0
         /\ preview' \in Preview /\ list' = "rows"
<1>1. started \in 0..MaxJobs /\ MaxJobs \in Nat
      /\ Idle \in [at : {"idle", "asking", "polling"}, job : 0..started] /\ Idle.at = "idle"
  BY BoundAssumption DEF Inv, TypeOK, Idle
<1>2. task[s].job \in JobId
  BY <1>1 DEF Inv, TypeOK, JobId
<1>3. jobs[task[s].job].items \subseteq Item
  BY <1>2 DEF Inv, TypeOK, Job
<1> QED
  BY <1>1, <1>3 DEF Answered, Inv, TypeOK, Preview

LEMMA DrawnTyped ==
  ASSUME NEW f \in File, NEW e \in Event \cup {None}
  PROVE  renderEventAnalysis(f, e) \in [file : File, event : Event \cup {None}, takes : BOOLEAN]
<1>1. (e # None /\ Takes(e, f, preview.share)) \in BOOLEAN
  OBVIOUS
<1> QED
  BY <1>1 DEF renderEventAnalysis

\* A step of the tab that leaves the server alone and what it writes typed.
LEMMA TabStep ==
  ASSUME Inv, UNCHANGED server,
         known' \in Config,
         task' \in [Share -> [at : {"idle", "asking", "polling"}, job : 0..started]],
         \A t \in Share : task'[t].at = "polling" => task'[t].job # 0,
         preview' \in Preview \cup {None},
         list' \in {"empty", "scanning", "rows", "failed"},
         list' = "rows" => preview' \in Preview,
         analysis' \in [file : File, event : Event \cup {None}, takes : BOOLEAN] \cup {None},
         transfer' \in [file : File, event : Event \cup {None}] \cup {None},
         clicks' \in 0..MaxClicks, changes' \in 0..MaxChanges
  PROVE  Inv'
<1>1. TypeOK'
  BY DEF Inv, TypeOK, server
<1>2. RunningJobsFindable'
  BY DEF Inv, RunningJobsFindable, Running, server
<1> QED
  BY <1>1, <1>2 DEF Inv, RowsHavePreview

LEMMA ClickCounted ==
  ASSUME Inv
  PROVE  /\ clicks \in 0..MaxClicks /\ changes \in 0..MaxChanges
         /\ Click => clicks' \in 0..MaxClicks
         /\ changes < MaxChanges /\ changes' = changes + 1 => changes' \in 0..MaxChanges
  BY BoundAssumption DEF Inv, TypeOK, Click

LEMMA PreviewStep ==
  ASSUME Inv, NEW s \in Share, previewRouting(s) \/ Poll(s) \/ LoseRequest(s)
  PROVE  Inv'
<1>1. CASE previewRouting(s)
  BY <1>1, AskKeeps, ClickCounted, TabStep DEF previewRouting, Inv, TypeOK
<1>2. CASE Poll(s)
  <2>1. CASE Failed(s)
    BY <1>2, <2>1, FailedKeeps, ClickCounted, TabStep DEF Poll, Inv, TypeOK
  <2>2. CASE Answered(s)
    BY <1>2, <2>2, AnsweredKeeps, ClickCounted, TabStep DEF Poll, Inv, TypeOK
  <2> QED
    BY <1>2, <2>1, <2>2 DEF Poll
<1>3. CASE LoseRequest(s)
  BY <1>3, FailedKeeps, ClickCounted, TabStep DEF LoseRequest, Inv, TypeOK
<1> QED
  BY <1>1, <1>2, <1>3

LEMMA PostStep ==
  ASSUME Inv, NEW s \in Share, Post(s)
  PROVE  Inv'
<1>1. CASE s \notin config.walked /\ Failed(s) /\ UNCHANGED <<jobs, started, byShare>>
  <2>1. UNCHANGED server /\ UNCHANGED <<known, analysis, transfer, clicks, changes>>
    BY <1>1 DEF Post, server
  <2> QED
    BY <1>1, <2>1, FailedKeeps, ClickCounted, TabStep DEF Inv, TypeOK
<1>2. CASE /\ Start(s)
           /\ task' = [task EXCEPT ![s] = [at |-> "polling", job |-> byShare'[s]]]
           /\ UNCHANGED <<preview, list>>
  <2>1. StartKeeps(s)
    BY <1>2, StartStep
  <2>2. started \in 0..MaxJobs /\ MaxJobs \in Nat /\ started' \in 0..MaxJobs
    BY <2>1, BoundAssumption DEF StartKeeps, Inv, TypeOK
  <2>3. [at |-> "polling", job |-> byShare'[s]]
          \in [at : {"idle", "asking", "polling"}, job : 0..started']
    BY <2>1 DEF StartKeeps
  <2>4. task \in [Share -> [at : {"idle", "asking", "polling"}, job : 0..started']]
    BY <2>1, <2>2 DEF StartKeeps, Inv, TypeOK
  <2>5. task' \in [Share -> [at : {"idle", "asking", "polling"}, job : 0..started']]
    BY <1>2, <2>3, <2>4
  <2>6. \A t \in Share : task'[t].at = "polling" => task'[t].job # 0
    BY <1>2, <2>1, <2>4 DEF StartKeeps, Inv, TypeOK
  <2>7. UNCHANGED <<config, stored, known, preview, list, analysis, transfer, clicks, changes>>
    BY <1>2 DEF Post
  <2>8. TypeOK'
    BY <2>1, <2>2, <2>5, <2>6, <2>7 DEF StartKeeps, Inv, TypeOK
  <2> QED
    BY <2>1, <2>7, <2>8 DEF StartKeeps, Inv, RowsHavePreview
<1> QED
  BY <1>1, <1>2 DEF Post

LEMMA DialogStep ==
  ASSUME Inv, openFileAnalysis \/ chooseEvent \/ closeFileAnalysis
  PROVE  Inv'
<1>1. CASE openFileAnalysis
  <2>1. preview \in Preview
    BY <1>1 DEF openFileAnalysis, Inv, RowsHavePreview
  <2>2. PICK item \in preview.items : analysis' = renderEventAnalysis(item.file, item.event)
    BY <1>1 DEF openFileAnalysis
  <2>3. item.file \in File /\ item.event \in Event \cup {None}
    BY <2>1, <2>2 DEF Preview, Item
  <2>4. analysis' \in [file : File, event : Event \cup {None}, takes : BOOLEAN]
    BY <2>2, <2>3, DrawnTyped
  <2> QED
    BY <1>1, <2>1, <2>4, ClickCounted, TabStep DEF openFileAnalysis, Inv, TypeOK
<1>2. CASE chooseEvent
  <2>1. preview \in Preview /\ analysis.file \in File
    BY <1>2 DEF chooseEvent, Inv, TypeOK
  <2>2. analysis' \in [file : File, event : Event \cup {None}, takes : BOOLEAN]
    BY <1>2, <2>1, DrawnTyped DEF chooseEvent
  <2> QED
    BY <1>2, <2>1, <2>2, ClickCounted, TabStep DEF chooseEvent, Inv, TypeOK
<1>3. CASE closeFileAnalysis
  BY <1>3, ClickCounted, TabStep DEF closeFileAnalysis, Inv, TypeOK, RowsHavePreview
<1> QED
  BY <1>1, <1>2, <1>3

LEMMA PageStep ==
  ASSUME Inv, FilterRows \/ Reload \/ executeTransfer
  PROVE  Inv'
<1>1. CASE FilterRows
  BY <1>1, ClickCounted, TabStep DEF FilterRows, Inv, TypeOK
<1>2. CASE Reload
  BY <1>2, ClickCounted, TabStep DEF Reload, Inv, TypeOK, RowsHavePreview
<1>3. CASE executeTransfer
  <2>1. preview \in Preview
    BY <1>3 DEF executeTransfer, Inv, RowsHavePreview
  <2>2. PICK item \in preview.items : transfer' = [file |-> item.file, event |-> item.event]
    BY <1>3 DEF executeTransfer
  <2>3. item.file \in File /\ item.event \in Event \cup {None}
    BY <2>1, <2>2 DEF Preview, Item
  <2>4. transfer' \in [file : File, event : Event \cup {None}]
    BY <2>2, <2>3
  <2> QED
    BY <1>3, <2>1, <2>4, ClickCounted, TabStep DEF executeTransfer, Inv, TypeOK
<1> QED
  BY <1>1, <1>2, <1>3

LEMMA TransferStep ==
  ASSUME Inv, TransferAnswered
  PROVE  Inv'
<1>1. UNCHANGED <<config, jobs, started, byShare, known, preview, analysis, clicks, changes>>
      /\ transfer' = None
  BY DEF TransferAnswered
<1>2. CASE UNCHANGED <<stored, task, list>>
  BY <1>1, <1>2 DEF Inv, TypeOK, RunningJobsFindable, Running, RowsHavePreview
<1>3. ASSUME NEW s \in Share, Ask(s), stored' \in {stored, stored \ {transfer.file}}
      PROVE  Inv'
  BY <1>1, <1>3, AskKeeps DEF Inv, TypeOK, RunningJobsFindable, Running, RowsHavePreview
<1> QED
  BY <1>2, <1>3 DEF TransferAnswered

-----------------------------------------------------------------------------

LEMMA InitInv == Init => Inv
<1> SUFFICES ASSUME Init PROVE Inv
  OBVIOUS
<1>1. FirstConfig \in Config /\ MaxJobs \in Nat /\ MaxClicks \in Nat /\ MaxChanges \in Nat
  BY FileAssumption, BoundAssumption
<1>2. jobs \in [JobId -> Job] /\ \A j \in JobId : jobs[j].at \notin Stages
  BY FreshTyped DEF Init, Stages
<1>3. task \in [Share -> [at : {"idle", "asking", "polling"}, job : 0..started]]
      /\ \A s \in Share : task[s].at # "polling"
  BY <1>1 DEF Init, Idle
<1>4. TypeOK
  BY <1>1, <1>2, <1>3 DEF Init, TypeOK
<1>5. RunningJobsFindable
  BY <1>2 DEF RunningJobsFindable, Running
<1> QED
  BY <1>4, <1>5 DEF Init, Inv, RowsHavePreview

LEMMA StepInv == Inv /\ [Next]_vars => Inv'
<1> SUFFICES ASSUME Inv, [Next]_vars PROVE Inv'
  OBVIOUS
<1>1. ASSUME NEW j \in JobId, RunAsync(j) \/ FailJob(j) PROVE Inv'
  BY <1>1, RunStep
<1>2. CASE Change \/ Restart \/ \E s \in Share : OtherStart(s)
  BY <1>2, OthersStep
<1>3. ASSUME NEW s \in Share, previewRouting(s) \/ Poll(s) \/ LoseRequest(s) PROVE Inv'
  BY <1>3, PreviewStep
<1>4. ASSUME NEW s \in Share, Post(s) PROVE Inv'
  BY <1>4, PostStep
<1>5. CASE openFileAnalysis \/ chooseEvent \/ closeFileAnalysis
  BY <1>5, DialogStep
<1>6. CASE FilterRows \/ Reload \/ executeTransfer
  BY <1>6, PageStep
<1>7. CASE TransferAnswered
  BY <1>7, TransferStep
<1>8. CASE UNCHANGED vars
  BY <1>8 DEF vars, server, page, Inv, TypeOK, RunningJobsFindable, Running, RowsHavePreview
<1> QED
  BY <1>1, <1>2, <1>3, <1>4, <1>5, <1>6, <1>7, <1>8 DEF Next

LEMMA Invariant == Spec => []Inv
  BY InitInv, StepInv, PTL DEF Spec

\* The variables keep their types.
THEOREM Typing == Spec => []TypeOK
<1>1. Inv => TypeOK
  BY DEF Inv
<1> QED
  BY <1>1, Invariant, PTL

\* A running preview job is the one its share has: whoever polls it finds it,
\* and no second one reads the files of its share.
THEOREM OneJobPerShare == Spec => []RunningJobsFindable
<1>1. Inv => RunningJobsFindable
  BY DEF Inv
<1> QED
  BY <1>1, Invariant, PTL

-----------------------------------------------------------------------------
(* The dialog's rules and the worker's.                                    *)

Matching(f) ==
  {e \in Matchable(config, CapturedAt[f]) : ShareOf[f] \in config.member[config.event[e].group]}

\* The first three checks say that the event matches, all four that it can
\* store the file as well.
LEMMA ChecksAgree ==
  ASSUME known = config, NEW f \in File, NEW e \in Event
  PROVE  /\ eventMatches(e, f, ShareOf[f]) <=> e \in Matching(f)
         /\ (\A i \in 1..4 : eventChecks(e, f, ShareOf[f])[i])
              <=> e \in Matching(f) /\ config.event[e].destination \in config.writable
<1> DEFINE checks == eventChecks(e, f, ShareOf[f])
<1>1. /\ checks[1] = (config.event[e].status \in {"Active", "Closed"})
      /\ checks[2] = InWindow(config.event[e], CapturedAt[f])
      /\ checks[3] = (ShareOf[f] \in config.member[config.event[e].group])
      /\ checks[4] = (config.event[e].destination \in config.writable)
  BY DEF eventChecks
<1>2. e \in Matching(f) <=> checks[1] /\ checks[2] /\ checks[3]
  BY <1>1 DEF Matching, Matchable
<1> HIDE DEF checks
<1>3. (\A i \in 1..3 : checks[i]) <=> checks[1] /\ checks[2] /\ checks[3]
  OBVIOUS
<1>4. (\A i \in 1..4 : checks[i]) <=> checks[1] /\ checks[2] /\ checks[3] /\ checks[4]
  OBVIOUS
<1> QED
  BY <1>1, <1>2, <1>3, <1>4 DEF checks, eventMatches

\* What the worker makes of a file: matched is the only event that matches.
LEMMA OnlyMatchRoutes ==
  ASSUME NEW f \in File, NEW e \in Event
  PROVE  Routes(config, e, f) <=>
           /\ Matching(f) = {e} /\ config.event[e].destination \in config.writable
           /\ f \in Guessed => config.fallback
<1> DEFINE M == Matching(f)
           only == CHOOSE x \in M : TRUE
           item == Evaluate(config, config.member, config.writable, f)
<1>1. item = CASE M = {}             -> [file |-> f, state |-> "Unmatched", event |-> None]
               [] Cardinality(M) > 1 -> [file |-> f, state |-> "Ambiguous", event |-> None]
               [] OTHER -> [file |-> f, state |-> IF config.event[only].destination \in config.writable
                                                  THEN "Matched" ELSE "InvalidDestination",
                            event |-> only]
  BY DEF Evaluate, Matching
<1>2. Routes(config, e, f) <=>
        item.state = "Matched" /\ item.event = e /\ (f \in Guessed => config.fallback)
  BY DEF Routes
<1>3. IsFiniteSet(M) /\ Cardinality(M) \in Nat
  <2>1. M \subseteq Event
    BY DEF Matching, Matchable
  <2> QED
    BY <2>1, EventAssumption, FS_Subset, FS_CardinalityType
<1> HIDE DEF item, M, only
<1>4. CASE M = {e}
  <2>1. Cardinality(M) = 1 /\ only = e /\ M # {}
    BY <1>4, FS_Singleton DEF only
  <2>2. ~(Cardinality(M) > 1)
    BY <2>1
  <2>3. item = [file |-> f, state |-> IF config.event[e].destination \in config.writable
                                      THEN "Matched" ELSE "InvalidDestination", event |-> e]
    BY <1>1, <2>1, <2>2, Zenon
  <2> QED
    BY <1>2, <1>4, <2>3 DEF M
<1>5. CASE M # {e}
  <2>1. ~ (item.state = "Matched" /\ item.event = e)
    <3>1. CASE M = {}
      BY <1>1, <3>1
    <3>2. CASE M # {} /\ Cardinality(M) > 1
      BY <1>1, <3>2
    <3>3. CASE M # {} /\ ~(Cardinality(M) > 1)
      <4>1. Cardinality(M) = 1
        BY <1>3, <3>3, FS_EmptySet
      <4>2. PICK x : M = {x}
        BY <1>3, <4>1, FS_Singleton
      <4>3. only = x /\ x # e
        BY <1>5, <4>2 DEF only
      <4>4. item.event = only
        BY <1>1, <3>3
      <4> QED
        BY <4>3, <4>4
    <3> QED
      BY <3>1, <3>2, <3>3
  <2> QED
    BY <1>2, <1>5, <2>1 DEF M
<1> QED
  BY <1>4, <1>5

LEMMA RulesAgree ==
  ASSUME known = config, NEW f \in File, NEW e \in Event
  PROVE  Takes(e, f, ShareOf[f]) <=> Routes(config, e, f)
<1>1. Matching(f) \subseteq Event
  BY DEF Matching, Matchable
<1>2. Takes(e, f, ShareOf[f]) <=>
        /\ e \in Matching(f) /\ config.event[e].destination \in config.writable
        /\ ~ \E other \in Event \ {e} : other \in Matching(f)
        /\ f \in Guessed => config.fallback
  BY ChecksAgree DEF Takes
<1>3. e \in Matching(f) /\ (~ \E other \in Event \ {e} : other \in Matching(f))
        <=> Matching(f) = {e}
  BY <1>1
<1> QED
  BY <1>2, <1>3, OnlyMatchRoutes

\* Only the dialog's own handlers draw it.
LEMMA DialogDrawn ==
  ASSUME Inv, [Next]_vars, analysis' # analysis, analysis' # None
  PROVE  \E f \in File, e \in Event \cup {None} : analysis' = renderEventAnalysis(f, e)
<1>1. openFileAnalysis \/ chooseEvent
  BY DEF Next, vars, page, RunAsync, ListFiles, ReadGroupsAndShares, EvaluateNext, Complete,
         FailJob, Change, Restart, OtherStart, previewRouting, Post, Poll, LoseRequest,
         FilterRows, Reload, closeFileAnalysis, executeTransfer, TransferAnswered
<1>2. CASE openFileAnalysis
  <2>1. PICK item \in preview.items : analysis' = renderEventAnalysis(item.file, item.event)
    BY <1>2 DEF openFileAnalysis
  <2>2. item.file \in File /\ item.event \in Event \cup {None}
    BY <1>2, <2>1 DEF openFileAnalysis, Inv, RowsHavePreview, Preview, Item
  <2> QED
    BY <2>1, <2>2
<1>3. CASE chooseEvent
  <2>1. analysis.file \in File
    BY <1>3 DEF chooseEvent, Inv, TypeOK
  <2> QED
    BY <1>3, <2>1 DEF chooseEvent
<1> QED
  BY <1>1, <1>2, <1>3

\* Drawn from current copies, for a file of the share shown, the dialog gives
\* the worker's answer, whatever the events, groups and shares are.
THEOREM DialogIsRight == Spec => VerdictIsWorkers
<1>1. ASSUME Inv, [Next]_vars, analysis' # analysis, analysis' # None, analysis'.event # None,
             known = config, preview.share = ShareOf[analysis'.file]
      PROVE  analysis'.takes <=> Routes(config, analysis'.event, analysis'.file)
  <2>1. PICK f \in File, e \in Event \cup {None} : analysis' = renderEventAnalysis(f, e)
    BY <1>1, DialogDrawn
  <2>2. /\ analysis'.file = f /\ analysis'.event = e
        /\ analysis'.takes = (e # None /\ Takes(e, f, preview.share))
    BY <2>1 DEF renderEventAnalysis
  <2>3. e \in Event /\ preview.share = ShareOf[f]
    BY <1>1, <2>2
  <2> QED
    BY <1>1, <2>2, <2>3, RulesAgree
<1>2. Inv /\ [Next]_vars =>
        [ ( /\ analysis' # analysis /\ analysis' # None /\ analysis'.event # None
            /\ known = config
            /\ preview.share = ShareOf[analysis'.file] /\ preview.share \in config.walked )
          => (analysis'.takes <=> Routes(config, analysis'.event, analysis'.file)) ]_vars
  BY <1>1
<1> QED
  BY <1>2, Invariant, PTL DEF Spec, VerdictIsWorkers

=============================================================================
