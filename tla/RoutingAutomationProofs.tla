--------------------- MODULE RoutingAutomationProofs ---------------------
(***************************************************************************)
(* For any number of files and events: the variables keep their types, the *)
(* order of the files stays one of all of them, no accepted backfill is    *)
(* forgotten, a live backfill that ends has handed over every file it was  *)
(* to take, and Dry Run binds from the next pass on.                       *)
(***************************************************************************)
EXTENDS RoutingAutomation, TLAPS

\* The part of the types the arguments about requests and files use.
Typed ==
  /\ automation \in BOOLEAN /\ dryRun \in BOOLEAN /\ restrained \in BOOLEAN
  /\ tab \in [at : {"idle", "checked", "waiting"}, ask : Event \cup {None}, ended : BOOLEAN]
  /\ pending \in [full : BOOLEAN, paths : SUBSET File, backfills : SUBSET Event]
  /\ worker \in [at : {"wait", "read", "next", "done"} \cup Running,
                 full : BOOLEAN, paths : SUBSET File, todo : SUBSET Event,
                 on : BOOLEAN, dry : BOOLEAN, event : Event \cup {None},
                 left : SUBSET File, items : SUBSET File, tried : SUBSET File]
  /\ file \in [File -> Present \cup {"absent", "gone"}]

\* Between passes, and from the cycle on, no backfill is left to run.
TodoDone ==
  worker.at \in {"wait", "done"} \/ (worker.at \in Running /\ worker.event = None)
    => worker.todo = {}

\* A file a live backfill has to take is tried, or still on its way.
OnItsWay(f) ==
  \/ f \in worker.tried
  \/ worker.at = "settle" /\ file[f] \in {"observed", "stable"}
  \/ worker.at \in {"batch", "route"} /\ file[f] = "stable" /\ f \in worker.left
  \/ worker.at = "route" /\ file[f] = "stable" /\ f \in worker.items

Covered ==
  /\ unchanged \subseteq File
  /\ worker.event # None /\ ~worker.dry /\ worker.at \in {"settle", "batch", "route"}
       => \A f \in unchanged \ Guessed : EventOf[f] = worker.event => OnItsWay(f)

\* Once a pass has read Dry Run, it stands stored and in the pass.
Restrained == restrained => dryRun /\ worker.dry

Owed == Typed /\ TodoDone /\ BackfillsOwed

LEMMA InitTyped == Init => Typed /\ TodoDone /\ BackfillsOwed /\ Covered /\ Restrained
<1> SUFFICES ASSUME Init PROVE Typed /\ TodoDone /\ BackfillsOwed /\ Covered /\ Restrained
  OBVIOUS
<1>1. worker.at = "read" /\ worker.todo = {} /\ worker.event = None
  BY DEF Init, Idle
<1>2. Typed
  <2>1. Idle \in [at : {"wait", "read", "next", "done"} \cup Running,
                 full : BOOLEAN, paths : SUBSET File, todo : SUBSET Event,
                 on : BOOLEAN, dry : BOOLEAN, event : Event \cup {None},
                 left : SUBSET File, items : SUBSET File, tried : SUBSET File]
    BY DEF Idle
  <2>2. file \in [File -> Present \cup {"absent", "gone"}]
    BY DEF Init, Present
  <2>3. pending \in [full : BOOLEAN, paths : SUBSET File, backfills : SUBSET Event]
    BY DEF Init, Nothing
  <2> QED
    BY <2>1, <2>2, <2>3 DEF Init, Typed, Closed
<1>3. TodoDone /\ Covered
  BY <1>1 DEF Init, TodoDone, Covered
<1>4. BackfillsOwed /\ Restrained
  BY DEF Init, BackfillsOwed, Restrained
<1> QED
  BY <1>2, <1>3, <1>4

LEMMA ObservedTyped ==
  ASSUME Typed, NEW files
  PROVE  /\ Observed(files) \in [File -> Present \cup {"absent", "gone"}]
         /\ \A f \in File : file[f] \in {"observed", "stable"} => Observed(files)[f] = file[f]
         /\ \A f \in File : f \in files /\ file[f] \in Present
                              => Observed(files)[f] \in {"observed", "stable"}
  BY DEF Typed, Observed, Present

\* One step of the worker keeps the types, and runs out of backfills before it
\* goes on.
LEMMA WorkerOwed == ASSUME Owed, Worker PROVE Owed'
<1>1. CASE Take
  <2>1. worker.todo = {}
    BY <1>1 DEF Owed, Take, TodoDone
  <2>2. /\ worker'.at = "read" /\ worker'.todo = pending.backfills
        /\ pending'.backfills = {} /\ accepted' = accepted
    BY <1>1 DEF Owed, Take, Typed, Nothing, history
  <2>3. Typed'
    BY <1>1 DEF Owed, Take, Typed, Nothing, history, settings
  <2>4. TodoDone'
    BY <2>2 DEF TodoDone, Running
  <2>5. BackfillsOwed'
    BY <2>1, <2>2 DEF Owed, BackfillsOwed
  <2> QED
    BY <2>3, <2>4, <2>5 DEF Owed
<1>2. CASE ReadSettings
  BY <1>2 DEF Owed, ReadSettings, Typed, TodoDone, BackfillsOwed, Running, history, settings
<1>3. CASE DropBackfills
  BY <1>3 DEF Owed, DropBackfills, Typed, TodoDone, BackfillsOwed, Settled, Running, history, settings
<1>4. CASE BeginCycle
  BY <1>4 DEF Owed, BeginCycle, Typed, TodoDone, BackfillsOwed, Running, history, settings
<1>5. CASE SkipCycle
  BY <1>5 DEF Owed, SkipCycle, Typed, TodoDone, BackfillsOwed, Running, history, settings
<1>6. CASE ListCycle
  <2>1. Slice(Stable(file)) \subseteq File /\ Stable(file) \subseteq File
    BY DEF Slice, FirstIn, Stable
  <2>2. PICK batch \in SUBSET File : worker' = [worker EXCEPT !.at = "route", !.items = batch]
    BY <1>6, <2>1 DEF ListCycle
  <2>3. file' \in [File -> Present \cup {"absent", "gone"}]
    BY <1>6, ObservedTyped DEF ListCycle, Owed
  <2>4. Typed'
    BY <1>6, <2>2, <2>3 DEF Owed, ListCycle, Typed, Running, history, settings
  <2> QED
    BY <1>6, <2>2, <2>4 DEF Owed, ListCycle, Typed, TodoDone, BackfillsOwed, Running, history
<1>7. CASE FirstLook
  <2>1. file' \in [File -> Present \cup {"absent", "gone"}] /\ Stable(file) \subseteq File
    BY <1>7, ObservedTyped DEF FirstLook, Owed, Stable
  <2>2. PICK at \in {"settle", "batch"} :
          worker' = [worker EXCEPT !.left = Stable(file), !.at = at]
    BY <1>7 DEF FirstLook
  <2>3. Typed'
    BY <1>7, <2>1, <2>2 DEF Owed, FirstLook, Typed, Running, history, settings
  <2> QED
    BY <1>7, <2>2, <2>3 DEF Owed, FirstLook, Typed, TodoDone, BackfillsOwed, Running, history
<1>8. CASE SecondLook
  <2>1. file' \in [File -> Present \cup {"absent", "gone"}]
    BY <1>8, ObservedTyped DEF SecondLook, Owed, Present
  <2>2. worker' = [worker EXCEPT !.at = "batch", !.left = Stable(file')] /\ Stable(file') \subseteq File
    BY <1>8 DEF SecondLook, Stable
  <2>3. Typed'
    <3>1. UNCHANGED <<automation, dryRun, restrained, pending, tab>>
      BY <1>8 DEF SecondLook, history, settings
    <3> QED
      BY <2>1, <2>2, <3>1 DEF Owed, Typed, Running
  <2> QED
    BY <1>8, <2>2, <2>3 DEF Owed, SecondLook, Typed, TodoDone, BackfillsOwed, Running, history
<1>9. CASE EvaluateBatch
  <2>1. PICK batch \in SUBSET worker.left :
          worker' = [worker EXCEPT !.at = "route", !.left = @ \ batch,
                       !.items = {f \in batch : EventOf[f] = worker.event}]
    BY <1>9 DEF EvaluateBatch
  <2>2. Typed'
    BY <1>9, <2>1 DEF Owed, EvaluateBatch, Typed, Running, history, settings
  <2> QED
    BY <1>9, <2>1, <2>2 DEF Owed, EvaluateBatch, Typed, TodoDone, BackfillsOwed, Running, history
<1>10. CASE RouteEnd
  BY <1>10 DEF Owed, RouteEnd, Typed, TodoDone, BackfillsOwed, Running, history, settings
<1>11. CASE End
  BY <1>11 DEF Owed, End, Ended, Typed, TodoDone, BackfillsOwed, Running, history, settings
<1>12. CASE Stamp
  BY <1>12, NoneAssumption DEF Owed, Stamp, Typed, TodoDone, BackfillsOwed, Running, history, settings
<1>13. ASSUME NEW e \in Event, BeginBackfill(e) PROVE Owed'
  BY <1>13, NoneAssumption DEF Owed, BeginBackfill, Typed, TodoDone, BackfillsOwed, Settled, Running, history, settings
<1>14. ASSUME NEW f \in File, RouteItem(f) PROVE Owed'
  <2>1. file' \in [File -> Present \cup {"absent", "gone"}]
    BY <1>14 DEF RouteItem, Owed, Typed
  <2>2. \E tried \in SUBSET File :
          worker' = [worker EXCEPT !.items = @ \ {f}, !.tried = tried]
    <3>1. CASE worker' = [worker EXCEPT !.items = @ \ {f}]
      BY <3>1 DEF Owed, Typed
    <3>2. CASE worker' = [worker EXCEPT !.items = @ \ {f}, !.tried = @ \cup {f}]
      BY <3>2 DEF Owed, Typed
    <3> QED
      BY <1>14, <3>1, <3>2 DEF RouteItem
  <2>3. Typed'
    <3>1. UNCHANGED <<automation, dryRun, restrained, pending, tab>>
      BY <1>14 DEF RouteItem, settings
    <3>2. PICK tried \in SUBSET File :
            worker' = [worker EXCEPT !.items = @ \ {f}, !.tried = tried]
      BY <2>2
    <3> QED
      BY <2>1, <3>1, <3>2 DEF Owed, Typed
  <2> QED
    BY <1>14, <2>2, <2>3 DEF Owed, RouteItem, Typed, TodoDone, BackfillsOwed
<1> QED
  BY <1>1, <1>2, <1>3, <1>4, <1>5, <1>6, <1>7, <1>8, <1>9, <1>10, <1>11, <1>12, <1>13, <1>14 DEF Worker

\* The endpoints add what they accept; nobody else touches what is owed, but a
\* restart, which forgets it.
LEMMA OthersOwed ==
  ASSUME Owed, Accept \/ Poll \/ Interval \/ Environment \/ \E f \in File : Settle(f)
  PROVE  Owed'
<1>1. CASE Accept
  <2>1. Typed'
    <3>1. UNCHANGED <<automation, dryRun, restrained, worker, file>>
      BY <1>1 DEF Accept, settings
    <3>2. [tab EXCEPT !.at = "waiting"] \in
            [at : {"idle", "checked", "waiting"}, ask : Event \cup {None}, ended : BOOLEAN]
      BY DEF Owed, Typed
    <3>3. pending' \in [full : BOOLEAN, paths : SUBSET File, backfills : SUBSET Event]
      <4>1. CASE tab.ask = None
        BY <1>1, <4>1 DEF Owed, Accept, Typed
      <4>2. CASE tab.ask # None
        <5>1. tab.ask \in Event
          BY <4>2 DEF Owed, Typed
        <5>2. pending' = [pending EXCEPT !.backfills = @ \cup {tab.ask}]
          BY <1>1, <4>2 DEF Accept
        <5> QED
          BY <5>1, <5>2 DEF Owed, Typed
      <4> QED
        BY <4>1, <4>2
    <3> QED
      BY <1>1, <3>1, <3>2, <3>3 DEF Owed, Accept, Typed
  <2>2. TodoDone'
    BY <1>1 DEF Owed, Accept, TodoDone
  <2>3. BackfillsOwed'
    BY <1>1 DEF Owed, Accept, BackfillsOwed, Typed
  <2> QED
    BY <2>1, <2>2, <2>3 DEF Owed
<1>2. CASE Poll \/ Interval \/ ChangeSettings \/ \E a \in Event \cup {None} : Check(a)
  <2>1. Typed'
    <3>1. tab' \in [at : {"idle", "checked", "waiting"}, ask : Event \cup {None}, ended : BOOLEAN]
      <4>1. CASE \E a \in Event \cup {None} : Check(a)
        <5>1. PICK a \in Event \cup {None} : tab' = [at |-> "checked", ask |-> a, ended |-> FALSE]
          BY <4>1 DEF Check
        <5> QED
          BY <5>1
      <4>2. CASE Poll
        BY <4>2 DEF Poll, Closed
      <4>3. CASE Interval \/ ChangeSettings
        BY <4>3 DEF Owed, Interval, ChangeSettings, Typed
      <4> QED
        BY <1>2, <4>1, <4>2, <4>3
    <3>2. automation' \in BOOLEAN /\ dryRun' \in BOOLEAN /\ restrained' \in BOOLEAN
      BY <1>2 DEF Owed, Poll, Interval, ChangeSettings, Check, Typed, history, settings
    <3>3. UNCHANGED <<worker, pending, file>>
      BY <1>2 DEF Poll, Interval, ChangeSettings, Check
    <3> QED
      BY <3>1, <3>2, <3>3 DEF Owed, Typed
  <2>2. UNCHANGED <<worker, pending, accepted>>
    BY <1>2 DEF Poll, Interval, ChangeSettings, Check, history
  <2> QED
    BY <2>1, <2>2 DEF Owed, TodoDone, BackfillsOwed
<1>3. CASE Fail
  <2>1. PICK at \in {"done", "next"} :
          /\ worker' = [worker EXCEPT !.left = {}, !.items = {}, !.at = at]
          /\ at = "done" => worker.event = None
    BY <1>3 DEF Fail
  <2>2. Typed'
    BY <1>3, <2>1 DEF Owed, Fail, Ended, Typed, history, settings
  <2> QED
    BY <1>3, <2>1, <2>2 DEF Owed, Fail, Ended, Typed, TodoDone, BackfillsOwed, Running, history
<1>4. CASE Preview
  <2>1. file' \in [File -> Present \cup {"absent", "gone"}]
    BY <1>4, ObservedTyped DEF Preview, Owed
  <2> QED
    BY <1>4, <2>1 DEF Owed, Preview, Typed, TodoDone, BackfillsOwed, history, settings
<1>5. CASE Restart
  <2>1. file' \in [File -> Present \cup {"absent", "gone"}]
    BY <1>5 DEF Restart, Owed, Typed, Present
  <2>2. worker'.at = "read" /\ accepted' = {}
    BY <1>5 DEF Restart, Idle
  <2>3. Typed'
    BY <1>5, <2>1 DEF Owed, Restart, Typed, Idle, Nothing, Closed, settings
  <2> QED
    BY <2>2, <2>3 DEF Owed, TodoDone, BackfillsOwed, Running
<1>6. ASSUME NEW f \in File, Settle(f) \/ Write(f) PROVE Owed'
  <2>1. file' \in [File -> Present \cup {"absent", "gone"}]
    BY <1>6 DEF Settle, Write, Owed, Typed, Present
  <2> QED
    BY <1>6, <2>1 DEF Owed, Settle, Write, Typed, TodoDone, BackfillsOwed, history, settings
<1>7. ASSUME NEW f \in File, WakeForPath(f) PROVE Owed'
  BY <1>7 DEF Owed, WakeForPath, Typed, TodoDone, BackfillsOwed, history, settings
<1> QED
  BY <1>1, <1>2, <1>3, <1>4, <1>5, <1>6, <1>7 DEF Environment

LEMMA StepOwed == Owed /\ [Next]_vars => Owed'
<1> SUFFICES ASSUME Owed, [Next]_vars PROVE Owed'
  OBVIOUS
<1>1. CASE UNCHANGED vars
  BY <1>1 DEF vars, settings, history, Owed, Typed, TodoDone, BackfillsOwed
<1>2. CASE Next
  BY <1>2, WorkerOwed, OthersOwed DEF Next
<1> QED
  BY <1>1, <1>2

\* A backfill answered with 202 is waiting or has begun, whatever the cycles and
\* backfills before it ended with (ExecuteAsync, WakeForBackfill).
THEOREM NoBackfillForgotten == Spec => []BackfillsOwed
<1>1. Init => Owed
  BY InitTyped DEF Owed
<1>2. Owed => BackfillsOwed
  BY DEF Owed
<1> QED
  BY <1>1, <1>2, StepOwed, PTL DEF Spec

-----------------------------------------------------------------------------
(* Dry Run.                                                                *)

LEMMA StepRestrained == Owed /\ Restrained /\ [Next]_vars => Restrained'
<1> SUFFICES ASSUME Owed, Restrained, [Next]_vars PROVE Restrained'
  OBVIOUS
<1>1. CASE UNCHANGED vars
  BY <1>1 DEF vars, settings, history, Restrained
<1>2. CASE ReadSettings
  <2>1. worker'.dry = dryRun /\ dryRun' = dryRun /\ restrained' = (restrained \/ dryRun)
    BY <1>2 DEF ReadSettings, Owed, Typed, settings
  <2> QED
    BY <2>1 DEF Restrained
<1>3. CASE ChangeSettings
  BY <1>3 DEF ChangeSettings, Restrained
<1>4. CASE Restart
  BY <1>4 DEF Restart, Restrained, Idle, settings
<1>5. CASE Next /\ ~(ReadSettings \/ ChangeSettings \/ Restart)
  <2>1. UNCHANGED <<dryRun, restrained>>
    BY <1>5 DEF Next, Worker, Environment, Take, DropBackfills, BeginCycle, SkipCycle, ListCycle,
       FirstLook, SecondLook, EvaluateBatch, RouteEnd, End, Stamp, BeginBackfill, RouteItem,
       Accept, Poll, Interval, Fail, Preview, WakeForPath, Write, Check, Settle, settings, history
  <2>2. worker'.dry = worker.dry
    <3>1. CASE Worker
      BY <1>5, <3>1 DEF Worker, Take, DropBackfills, BeginCycle, SkipCycle, ListCycle, FirstLook,
         SecondLook, EvaluateBatch, RouteEnd, End, Stamp, BeginBackfill, RouteItem, Owed, Typed
    <3>2. CASE ~Worker
      BY <1>5, <3>2 DEF Next, Environment, Accept, Poll, Interval, Fail, Preview, WakeForPath,
         Write, Check, Settle, Owed, Typed
    <3> QED
      BY <3>1, <3>2
  <2> QED
    BY <2>1, <2>2 DEF Restrained
<1> QED
  BY <1>1, <1>2, <1>3, <1>4, <1>5

\* Only RouteItem hands files over, and not in a pass that read Dry Run.
LEMMA HandsOver ==
  ASSUME Owed, Restrained, [Next]_vars, worker'.tried \ worker.tried # {}, dryRun
  PROVE  ~restrained
<1>1. ~UNCHANGED vars
  BY DEF vars
<1>2. CASE \E f \in File : RouteItem(f)
  BY <1>2 DEF RouteItem, Restrained, Owed, Typed
<1>3. CASE Worker /\ ~\E f \in File : RouteItem(f)
  <2>1. worker'.tried \subseteq worker.tried
    BY <1>3 DEF Worker, Take, ReadSettings, DropBackfills, BeginCycle, SkipCycle, ListCycle,
       FirstLook, SecondLook, EvaluateBatch, RouteEnd, End, Stamp, BeginBackfill, Owed, Typed
  <2> QED
    BY <2>1
<1>4. CASE Next /\ ~Worker
  <2>1. worker'.tried \subseteq worker.tried
    <3>1. CASE Restart
      BY <3>1 DEF Restart, Idle
    <3>2. CASE Fail
      BY <3>2 DEF Fail, Owed, Typed
    <3>3. CASE ~Restart /\ ~Fail
      <4>1. worker' = worker
        BY <1>4, <3>3 DEF Next, Environment, Accept, Poll, Interval, Preview, WakeForPath,
           Write, Check, Settle, ChangeSettings
      <4> QED
        BY <4>1
    <3> QED
      BY <3>1, <3>2, <3>3
  <2> QED
    BY <2>1
<1> QED
  BY <1>1, <1>2, <1>3, <1>4 DEF Next

\* A file handed over while Dry Run is stored belongs to the pass that was under
\* way when it was switched on (RouteAsync with the settings of its pass).
THEOREM DryRunIsBinding == Spec => DryRunBinds
<1>1. Init => Owed /\ Restrained
  BY InitTyped DEF Owed
<1>2. Owed /\ Restrained /\ [Next]_vars
        => [worker'.tried \ worker.tried # {} /\ dryRun => ~restrained]_vars
  BY HandsOver
<1> QED
  BY <1>1, <1>2, StepOwed, StepRestrained, PTL DEF Spec, DryRunBinds

-----------------------------------------------------------------------------
(* Complete backfills.                                                     *)

\* A backfill's own steps pass its files on: first looks to chunks, chunks to
\* items, items to the coordinator.
LEMMA WorkerCovered == ASSUME Owed, Covered, Worker PROVE Covered'
<1>1. CASE Take \/ ReadSettings \/ DropBackfills \/ BeginCycle \/ SkipCycle \/ End \/ Stamp
           \/ \E e \in Event : BeginBackfill(e)
  <2>1. worker'.at \notin {"settle", "batch", "route"}
    <3>1. CASE Take \/ ReadSettings \/ BeginCycle \/ SkipCycle \/ Stamp
               \/ \E e \in Event : BeginBackfill(e)
      BY <3>1 DEF Take, ReadSettings, BeginCycle, SkipCycle, Stamp, BeginBackfill, Owed, Typed
    <3>2. CASE DropBackfills
      BY <3>2 DEF DropBackfills, Owed, Typed
    <3>3. CASE End
      BY <3>3 DEF End, Owed, Typed
    <3> QED
      BY <1>1, <3>1, <3>2, <3>3
  <2>2. unchanged' = unchanged \/ unchanged' = {}
    BY <1>1 DEF Take, ReadSettings, DropBackfills, BeginCycle, SkipCycle, End, Ended, Stamp, BeginBackfill
  <2> QED
    BY <2>1, <2>2 DEF Covered
<1>2. CASE ListCycle
  <2>1. worker'.event = None /\ unchanged' = unchanged
    BY <1>2 DEF ListCycle, Owed, Typed
  <2> QED
    BY <2>1 DEF Covered
<1>3. CASE FirstLook
  <2>1. unchanged' = {f \in File : file[f] \in Present}
    BY <1>3 DEF FirstLook
  <2>2. worker'.left = Stable(file)
        /\ worker'.at = IF \E f \in File : file[f] \in {"new", "observed"} THEN "settle" ELSE "batch"
    BY <1>3 DEF FirstLook, Owed, Typed
  <2>3. \A f \in unchanged' : file'[f] \in {"observed", "stable"}
    BY <1>3, <2>1, ObservedTyped DEF FirstLook, Owed
  <2>4. worker'.at = "batch" => \A f \in unchanged' : f \in worker'.left /\ file'[f] = "stable"
    <3> SUFFICES ASSUME worker'.at = "batch", NEW f \in unchanged'
                 PROVE  f \in worker'.left /\ file'[f] = "stable"
      OBVIOUS
    <3>1. file[f] = "stable"
      BY <2>1, <2>2 DEF Present
    <3>2. file'[f] = file[f]
      BY <1>3, <2>1, <3>1, ObservedTyped DEF FirstLook, Owed
    <3> QED
      BY <2>1, <2>2, <3>1, <3>2 DEF Stable
  <2> QED
    BY <2>1, <2>2, <2>3, <2>4 DEF Covered, OnItsWay
<1>4. CASE SecondLook
  <2>1. worker.at = "settle" /\ unchanged' = unchanged
    BY <1>4 DEF SecondLook
  <2>2. /\ worker'.at = "batch" /\ worker'.left = Stable(file') /\ worker'.tried = worker.tried
        /\ worker'.event = worker.event /\ worker'.dry = worker.dry
    BY <1>4 DEF SecondLook, Owed, Typed
  <2>3. ASSUME NEW f \in unchanged, file[f] \in {"observed", "stable"}, f \in File
        PROVE  file'[f] = "stable" /\ f \in Stable(file')
    <3>1. file'[f] = "stable"
      BY <1>4, <2>3, ObservedTyped DEF SecondLook, Owed
    <3> QED
      BY <2>3, <3>1 DEF Stable
  <2> QED
    BY <2>1, <2>2, <2>3 DEF Covered, OnItsWay
<1>5. CASE EvaluateBatch
  <2>1. PICK batch \in SUBSET worker.left :
          worker' = [worker EXCEPT !.at = "route", !.left = @ \ batch,
                       !.items = {f \in batch : EventOf[f] = worker.event}]
    BY <1>5 DEF EvaluateBatch
  <2>2. /\ worker'.at = "route" /\ worker'.left = worker.left \ batch
        /\ worker'.items = {f \in batch : EventOf[f] = worker.event}
        /\ worker'.tried = worker.tried /\ worker'.event = worker.event /\ worker'.dry = worker.dry
    BY <2>1 DEF Owed, Typed
  <2>3. worker.at = "batch" /\ unchanged' = unchanged /\ file' = file
    BY <1>5 DEF EvaluateBatch
  <2> QED
    BY <2>2, <2>3 DEF Covered, OnItsWay
<1>6. CASE RouteEnd
  <2>1. /\ worker'.at = "batch" /\ worker'.left = worker.left
        /\ worker'.tried = worker.tried /\ worker'.event = worker.event /\ worker'.dry = worker.dry
    BY <1>6 DEF RouteEnd, Owed, Typed
  <2>2. worker.at = "route" /\ worker.items = {} /\ unchanged' = unchanged /\ file' = file
    BY <1>6 DEF RouteEnd
  <2> QED
    BY <2>1, <2>2 DEF Covered, OnItsWay
<1>7. ASSUME NEW f \in File, RouteItem(f) PROVE Covered'
  <2>1. /\ worker'.at = "route" /\ worker.at = "route" /\ worker'.left = worker.left
        /\ worker'.items = worker.items \ {f}
        /\ worker'.event = worker.event /\ worker'.dry = worker.dry /\ unchanged' = unchanged
    BY <1>7 DEF RouteItem, Owed, Typed
  <2>2. CASE f \in Guessed \/ worker.dry \/ file[f] # "stable"
    <3>1. worker'.tried = worker.tried /\ file' = file
      BY <1>7, <2>2 DEF RouteItem, Owed, Typed
    <3> QED
      BY <2>1, <2>2, <3>1 DEF Covered, OnItsWay
  <2>3. CASE f \notin Guessed /\ ~worker.dry /\ file[f] = "stable"
    <3>1. worker'.tried = worker.tried \cup {f} /\ \A g \in File \ {f} : file'[g] = file[g]
      BY <1>7, <2>3 DEF RouteItem, Owed, Typed
    <3> QED
      BY <2>1, <3>1 DEF Covered, OnItsWay
  <2> QED
    BY <2>2, <2>3
<1> QED
  BY <1>1, <1>2, <1>3, <1>4, <1>5, <1>6, <1>7 DEF Worker

\* Others only let windows pass, write files, or end the backfill.
LEMMA OthersCovered ==
  ASSUME Owed, Covered, Accept \/ Poll \/ Interval \/ Environment \/ \E f \in File : Settle(f)
  PROVE  Covered'
<1>1. CASE Fail \/ Restart
  <2>1. worker'.at \notin {"settle", "batch", "route"} /\ unchanged' = {}
    <3>1. CASE Restart
      BY <3>1 DEF Restart, Idle
    <3>2. CASE Fail
      BY <3>2 DEF Fail, Ended, Owed, Typed
    <3> QED
      BY <1>1, <3>1, <3>2
  <2> QED
    BY <2>1 DEF Covered
<1>2. CASE \E f \in File : Write(f)
  <2>1. PICK f \in File : unchanged' = unchanged \ {f} /\ file' = [file EXCEPT ![f] = "new"]
                          /\ worker' = worker
    BY <1>2 DEF Write
  <2>2. \A g \in unchanged' : file'[g] = file[g]
    BY <2>1 DEF Owed, Typed
  <2> QED
    BY <2>1, <2>2 DEF Covered, OnItsWay
<1>3. CASE ~(Fail \/ Restart) /\ ~\E f \in File : Write(f)
  <2>1. worker' = worker /\ unchanged' = unchanged
    BY <1>3 DEF Environment, Accept, Poll, Interval, Preview, WakeForPath, Check, Settle, ChangeSettings
  <2>2. \A g \in File : /\ file[g] = "stable" => file'[g] = "stable"
                        /\ file[g] = "observed" => file'[g] \in {"observed", "stable"}
    <3>1. CASE Preview
      BY <3>1, ObservedTyped DEF Preview, Owed
    <3>2. CASE \E f \in File : Settle(f)
      BY <3>2 DEF Settle, Owed, Typed
    <3>3. CASE ~Preview /\ ~\E f \in File : Settle(f)
      <4>1. file' = file
        BY <1>3, <3>3 DEF Environment, Accept, Poll, Interval, WakeForPath, Check, ChangeSettings
      <4> QED
        BY <4>1
    <3> QED
      BY <3>1, <3>2, <3>3
  <2> QED
    BY <2>1, <2>2 DEF Covered, OnItsWay
<1> QED
  BY <1>1, <1>2, <1>3

LEMMA StepCovered == Owed /\ Covered /\ [Next]_vars => Covered'
<1> SUFFICES ASSUME Owed, Covered, [Next]_vars PROVE Covered'
  OBVIOUS
<1>1. CASE UNCHANGED vars
  BY <1>1 DEF vars, Covered, OnItsWay
<1>2. CASE Next
  BY <1>2, WorkerCovered, OthersCovered DEF Next
<1> QED
  BY <1>1, <1>2

\* A live backfill that ends has handed over every file of its event that was
\* there at its first look and was not written since, settled or not, whatever
\* the cap and however many there are (ProcessBackfillAsync).
THEOREM BackfillIsComplete == Spec => BackfillComplete
<1>1. Init => Owed /\ Covered
  BY InitTyped DEF Owed
<1>2. Covered
        => [worker.event # None /\ worker.at = "batch" /\ worker'.at = "next"
              /\ worker.left = {} /\ ~worker.dry
            => \A f \in unchanged \ Guessed : EventOf[f] = worker.event => f \in worker.tried]_vars
  BY DEF Covered, OnItsWay
<1> QED
  BY <1>1, <1>2, StepOwed, StepCovered, PTL DEF Spec, BackfillComplete

-----------------------------------------------------------------------------
(* Types, and the order in which a capped walk comes to the files.         *)

\* The status the endpoints answer says where the loop is; the rest of the types.
Counted ==
  /\ cycleRunning \in BOOLEAN /\ (cycleRunning <=> worker.at \in Running)
  /\ due \in BOOLEAN /\ acts \in 0..MaxActs /\ untried \subseteq File

\* Putting evaluated files last neither loses a file nor names one twice.
LEMMA RotateOrders ==
  ASSUME Order(seen), NEW files
  PROVE  Order(Rotate(files))
<1> DEFINE later == Rotate(files)
<1>1. ASSUME NEW f \in File, NEW g \in File
      PROVE  <<f, g>> \in later
               <=> IF f \in files <=> g \in files THEN <<f, g>> \in seen ELSE g \in files
  BY <1>1 DEF Rotate
<1>2. later \subseteq File \X File
  BY DEF Rotate
<1> HIDE DEF later
<1>3. \A f \in File : <<f, f>> \notin later
  BY <1>1 DEF Order
<1>4. \A f, g \in File : f # g => <<f, g>> \in later \/ <<g, f>> \in later
  BY <1>1 DEF Order
<1>5. ASSUME NEW f \in File, NEW g \in File, NEW h \in File,
             <<f, g>> \in later, <<g, h>> \in later
      PROVE  <<f, h>> \in later
  <2>1. /\ IF f \in files <=> g \in files THEN <<f, g>> \in seen ELSE g \in files
        /\ IF g \in files <=> h \in files THEN <<g, h>> \in seen ELSE h \in files
    BY <1>1, <1>5
  <2>2. CASE f \in files <=> h \in files
    BY <1>1, <2>1, <2>2 DEF Order
  <2>3. CASE ~(f \in files <=> h \in files)
    BY <1>1, <2>1, <2>3
  <2> QED
    BY <2>2, <2>3
<1>6. Order(later)
  BY <1>2, <1>3, <1>4, <1>5 DEF Order
<1> QED
  BY <1>6 DEF later

LEMMA StepOrdered == Order(seen) /\ [Next]_vars => Order(seen)'
<1> SUFFICES ASSUME Order(seen), [Next]_vars PROVE Order(seen')
  BY DEF Order
<1>1. seen' = seen \/ \E files : seen' = Rotate(files)
  <2>1. CASE ListCycle \/ EvaluateBatch \/ Preview
    BY <2>1 DEF ListCycle, EvaluateBatch, Preview
  <2>2. CASE ~(ListCycle \/ EvaluateBatch \/ Preview)
    BY <2>2 DEF vars, Next, Worker, Environment, Take, ReadSettings, DropBackfills, BeginCycle, SkipCycle,
       FirstLook, SecondLook, RouteEnd, End, Stamp, BeginBackfill, RouteItem,
       Accept, Poll, Interval, Fail, WakeForPath, Write, Check, Settle, ChangeSettings, Restart
  <2> QED
    BY <2>1, <2>2
<1> QED
  BY <1>1, RotateOrders

LEMMA StepCounted == Owed /\ Counted /\ [Next]_vars => Counted'
<1> SUFFICES ASSUME Owed, Counted, [Next]_vars PROVE Counted'
  OBVIOUS
<1>1. CASE UNCHANGED vars
  BY <1>1 DEF vars, settings, history, Counted
<1>2. acts' \in 0..MaxActs
  <2>1. acts' = acts \/ (acts < MaxActs /\ acts' = acts + 1)
    BY DEF vars, Next, Worker, Environment, Take, ReadSettings, DropBackfills, BeginCycle, SkipCycle,
       ListCycle, FirstLook, SecondLook, EvaluateBatch, RouteEnd, End, Stamp, BeginBackfill, RouteItem,
       Accept, Poll, Interval, Fail, Preview, WakeForPath, Write, Check, Settle, ChangeSettings, Restart
  <2> QED
    BY <2>1, MaxActsAssumption DEF Counted
<1>3. due' \in BOOLEAN
  BY DEF Counted, vars, Next, Worker, Environment, Take, ReadSettings, DropBackfills, BeginCycle, SkipCycle,
     ListCycle, FirstLook, SecondLook, EvaluateBatch, RouteEnd, End, Stamp, BeginBackfill, RouteItem,
     Accept, Poll, Interval, Fail, Preview, WakeForPath, Write, Check, Settle, ChangeSettings, Restart
<1>4. untried' \subseteq File
  BY DEF Counted, vars, history, Next, Worker, Environment, Take, ReadSettings, DropBackfills, BeginCycle,
     SkipCycle, ListCycle, FirstLook, SecondLook, EvaluateBatch, RouteEnd, End, Stamp, BeginBackfill, RouteItem,
     Accept, Poll, Interval, Fail, Preview, WakeForPath, Write, Check, Settle, ChangeSettings, Restart
<1>5. cycleRunning' \in BOOLEAN /\ (cycleRunning' <=> worker'.at \in Running)
  <2>1. CASE Take \/ ReadSettings \/ DropBackfills \/ SkipCycle \/ Stamp
    <3>1. worker.at \notin Running /\ cycleRunning' = cycleRunning
      BY <2>1 DEF Take, ReadSettings, DropBackfills, SkipCycle, Stamp, Running
    <3>2. worker'.at \notin Running
      <4>1. CASE Take
        BY <4>1 DEF Take, Owed, Typed, Running
      <4>2. CASE ReadSettings
        BY <4>2 DEF ReadSettings, Owed, Typed, Running
      <4>3. CASE DropBackfills
        BY <4>3 DEF DropBackfills, Owed, Typed, Running
      <4>4. CASE SkipCycle
        BY <4>4 DEF SkipCycle, Owed, Typed, Running
      <4>5. CASE Stamp
        BY <4>5 DEF Stamp, Owed, Typed, Running
      <4> QED
        BY <2>1, <4>1, <4>2, <4>3, <4>4, <4>5
    <3> QED
      BY <3>1, <3>2 DEF Counted
  <2>2. CASE BeginCycle \/ \E e \in Event : BeginBackfill(e)
    BY <2>2 DEF BeginCycle, BeginBackfill, Owed, Typed, Running
  <2>3. CASE ListCycle \/ FirstLook \/ SecondLook \/ EvaluateBatch \/ RouteEnd
    <3>1. worker.at \in Running /\ cycleRunning' = cycleRunning
      BY <2>3 DEF ListCycle, FirstLook, SecondLook, EvaluateBatch, RouteEnd, Running
    <3>2. worker'.at \in {"route", "settle", "batch"}
      <4>1. CASE ListCycle
        BY <4>1 DEF ListCycle, Owed, Typed
      <4>2. CASE FirstLook
        BY <4>2 DEF FirstLook, Owed, Typed
      <4>3. CASE SecondLook
        BY <4>3 DEF SecondLook, Owed, Typed
      <4>4. CASE EvaluateBatch
        BY <4>4 DEF EvaluateBatch, Owed, Typed
      <4>5. CASE RouteEnd
        BY <4>5 DEF RouteEnd, Owed, Typed
      <4> QED
        BY <2>3, <4>1, <4>2, <4>3, <4>4, <4>5
    <3> QED
      BY <3>1, <3>2 DEF Counted, Running
  <2>4. CASE End \/ Fail
    <3>1. cycleRunning' = FALSE
      BY <2>4 DEF End, Fail, Ended
    <3>2. worker'.at \in {"done", "next"}
      BY <2>4 DEF End, Fail, Owed, Typed
    <3> QED
      BY <3>1, <3>2 DEF Running
  <2>5. CASE Restart
    <3>1. cycleRunning' = FALSE /\ worker'.at = "read"
      BY <2>5 DEF Restart, Idle
    <3> QED
      BY <3>1 DEF Running
  <2>6. CASE \E f \in File : RouteItem(f)
    <3>1. worker'.at = worker.at /\ cycleRunning' = cycleRunning
      BY <2>6 DEF RouteItem, Owed, Typed
    <3> QED
      BY <3>1 DEF Counted
  <2>7. CASE Accept \/ Poll \/ Interval \/ ChangeSettings \/ Preview
             \/ (\E f \in File : WakeForPath(f) \/ Write(f) \/ Settle(f))
             \/ \E a \in Event \cup {None} : Check(a)
    <3>1. UNCHANGED <<worker, cycleRunning>>
      BY <2>7 DEF Accept, Poll, Interval, ChangeSettings, Preview, WakeForPath, Write, Settle, Check
    <3> QED
      BY <3>1 DEF Counted
  <2> QED
    BY <1>1, <2>1, <2>2, <2>3, <2>4, <2>5, <2>6, <2>7 DEF Next, Worker, Environment, Counted
<1> QED
  BY <1>2, <1>3, <1>4, <1>5 DEF Counted

\* The worker, its endpoints and what runs beside them keep their types: the
\* status says "running" exactly while a cycle or a backfill runs, and however
\* often files are evaluated, each keeps one place in the order of the walk.
THEOREM Typing == Spec => []TypeOK
<1>1. Init => Owed /\ Covered /\ Order(seen) /\ Counted
  <2> SUFFICES ASSUME Init PROVE Owed /\ Covered /\ Order(seen) /\ Counted
    OBVIOUS
  <2>1. Owed /\ Covered
    BY InitTyped DEF Owed
  <2>2. Order(seen)
    BY WalkAssumption DEF Init
  <2>3. Counted
    <3>1. cycleRunning = FALSE /\ worker.at = "read" /\ acts = 0
      BY DEF Init, Idle
    <3>2. due \in BOOLEAN /\ untried \subseteq File
      BY DEF Init
    <3>3. acts \in 0..MaxActs
      BY <3>1, MaxActsAssumption
    <3>4. worker.at \notin Running /\ cycleRunning \in BOOLEAN /\ ~cycleRunning
      BY <3>1 DEF Running
    <3> QED
      BY <3>2, <3>3, <3>4 DEF Counted
  <2> QED
    BY <2>1, <2>2, <2>3
<1>2. Owed /\ Covered /\ Order(seen) /\ Counted => TypeOK
  <2>1. Counted => cycleRunning = (worker.at \in Running)
    <3> SUFFICES ASSUME Counted PROVE cycleRunning = (worker.at \in Running)
      OBVIOUS
    <3>1. CASE cycleRunning = TRUE
      <4>1. (worker.at \in Running) = TRUE
        BY <3>1 DEF Counted
      <4> QED
        BY <3>1, <4>1, Zenon
    <3>2. CASE cycleRunning = FALSE
      <4>1. (worker.at \in Running) = FALSE
        BY <3>2 DEF Counted
      <4> QED
        BY <3>2, <4>1, Zenon
    <3> QED
      BY <3>1, <3>2 DEF Counted
  <2> QED
    BY <2>1 DEF Owed, Typed, BackfillsOwed, Covered, Counted, TypeOK
<1> QED
  BY <1>1, <1>2, StepOwed, StepCovered, StepOrdered, StepCounted, PTL DEF Spec
=============================================================================
