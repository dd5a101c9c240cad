------------------------ MODULE TransferCoordinator ------------------------
(***************************************************************************)
(* TransferCoordinator.ExecuteOnceAsync: a dictionary that maps a media    *)
(* file to a semaphore with one permit, which its callers take, hold while *)
(* they transfer, release, and drop from the dictionary when nobody seems  *)
(* to wait for it.  Each step is one call on the dictionary or on the      *)
(* semaphore; both are thread-safe, the sequence of calls is not atomic.   *)
(***************************************************************************)
EXTENDS Naturals, Sequences

CONSTANTS Caller,  \* concurrent callers: the routing worker, HTTP requests
          Media,   \* media files
          Gate,    \* semaphore objects; one nobody refers to may be used again
          None     \* no gate

ASSUME GateAssumption == None \notin Gate \cup Media

VARIABLES
  mediaLocks,  \* [Media -> Gate or None], _mediaLocks
  permits,     \* [Gate -> Nat], CurrentCount
  queue,       \* [Gate -> Seq(Caller)], callers whose WaitAsync has not returned
  pc,          \* [Caller -> what the call does next]
  media,       \* [Caller -> Media or None], the argument
  gate         \* [Caller -> Gate or None], the local variable

vars == <<mediaLocks, permits, queue, pc, media, gate>>

CallerPc == {"idle", "fetched", "waiting", "check", "admitted", "running", "release",
             "released", "remove"}

\* The pcs between the return of WaitAsync and the Release.
Holding == {"check", "admitted", "running", "release"}

TypeOK ==
  /\ mediaLocks \in [Media -> Gate \cup {None}]
  /\ permits \in [Gate -> 0..1]
  /\ queue \in [Gate -> Seq(Caller)]
  /\ pc \in [Caller -> CallerPc]
  /\ media \in [Caller -> Media \cup {None}]
  /\ gate \in [Caller -> Gate \cup {None}]

Init ==
  /\ mediaLocks = [m \in Media |-> None]
  /\ permits = [g \in Gate |-> 1]
  /\ queue = [g \in Gate |-> <<>>]
  /\ pc = [c \in Caller |-> "idle"]
  /\ media = [c \in Caller |-> None]
  /\ gate = [c \in Caller |-> None]

Unreferenced(g) == /\ \A m \in Media : mediaLocks[m] # g
                   /\ \A c \in Caller : gate[c] # g

\* GetOrAdd: the gate of the media file, or a new one.
GetOrAdd(c, m) ==
  /\ pc[c] = "idle"
  /\ \/ /\ mediaLocks[m] # None
        /\ gate' = [gate EXCEPT ![c] = mediaLocks[m]]
        /\ UNCHANGED mediaLocks
     \/ /\ mediaLocks[m] = None
        /\ \E g \in Gate : /\ Unreferenced(g)
                           /\ mediaLocks' = [mediaLocks EXCEPT ![m] = g]
                           /\ gate' = [gate EXCEPT ![c] = g]
  /\ pc' = [pc EXCEPT ![c] = "fetched"]
  /\ media' = [media EXCEPT ![c] = m]
  /\ UNCHANGED <<permits, queue>>

\* WaitAsync: a free permit is taken at once, else the caller joins the queue.
Wait(c) ==
  LET g == gate[c]
  IN
  /\ pc[c] = "fetched"
  /\ \/ /\ permits[g] > 0
        /\ permits' = [permits EXCEPT ![g] = @ - 1]
        /\ pc' = [pc EXCEPT ![c] = "check"]
        /\ UNCHANGED queue
     \/ /\ permits[g] = 0
        /\ queue' = [queue EXCEPT ![g] = Append(@, c)]
        /\ pc' = [pc EXCEPT ![c] = "waiting"]
        /\ UNCHANGED permits
  /\ UNCHANGED <<mediaLocks, media, gate>>

Leave(c) ==
  /\ pc' = [pc EXCEPT ![c] = "idle"]
  /\ media' = [media EXCEPT ![c] = None]
  /\ gate' = [gate EXCEPT ![c] = None]

\* The queue of a gate without a caller that waits in it.
Without(q, c) ==
  IF \E i \in DOMAIN q : q[i] = c
  THEN LET i == CHOOSE k \in DOMAIN q : q[k] = c
       IN  [k \in 1..(Len(q) - 1) |-> IF k < i THEN q[k] ELSE q[k + 1]]
  ELSE q

\* Faulty variant: the wait is inside the try block, so that finally releases.
CancelReleasing(c) ==
  /\ pc[c] \in {"fetched", "waiting"}
  /\ queue' = [queue EXCEPT ![gate[c]] = Without(@, c)]
  /\ pc' = [pc EXCEPT ![c] = "release"]
  /\ UNCHANGED <<mediaLocks, permits, media, gate>>

\* The token is cancelled before or during the wait: WaitAsync throws outside
\* the try block, and nothing is released.
Cancel(c) ==
  /\ pc[c] \in {"fetched", "waiting"}
  /\ queue' = [queue EXCEPT ![gate[c]] = Without(@, c)]
  /\ Leave(c)
  /\ UNCHANGED <<mediaLocks, permits>>

Step(c, next) ==
  /\ pc' = [pc EXCEPT ![c] = next]
  /\ UNCHANGED <<mediaLocks, permits, queue, media, gate>>

\* GetIncompleteByMediaFileAsync, asked again at the head of ExecuteAsync: a
\* transfer of the same media file that has its row refuses this one.
CheckIncomplete(c) ==
  /\ pc[c] = "check"
  /\ IF \E d \in Caller : media[d] = media[c] /\ pc[d] = "running"
     THEN Step(c, "release")
     ELSE Step(c, "admitted")

\* The row is inserted and the transfer runs, or a refusal ends it before that.
Insert(c) ==
  /\ pc[c] = "admitted"
  /\ Step(c, "running") \/ Step(c, "release")

\* ExecuteAsync returns or throws.
EndTransfer(c) ==
  /\ pc[c] = "running"
  /\ Step(c, "release")

\* Faulty variant: the permit is not released.
ReleaseForgotten(c) == pc[c] = "release" /\ Step(c, "released")

\* Release: the permit goes to the head of the queue, or back to the gate.
Release(c) ==
  LET g == gate[c]
  IN
  /\ pc[c] = "release"
  /\ \/ /\ queue[g] # <<>>
        /\ pc' = [pc EXCEPT ![c] = "released", ![Head(queue[g])] = "check"]
        /\ queue' = [queue EXCEPT ![g] = Tail(@)]
        /\ UNCHANGED permits
     \/ /\ queue[g] = <<>>
        /\ permits' = [permits EXCEPT ![g] = @ + 1]
        /\ pc' = [pc EXCEPT ![c] = "released"]
        /\ UNCHANGED queue
  /\ UNCHANGED <<mediaLocks, media, gate>>

\* CurrentCount == 1 is read ...
CheckCount(c) ==
  /\ pc[c] = "released"
  /\ IF permits[gate[c]] = 1
     THEN Step(c, "remove")
     ELSE Leave(c) /\ UNCHANGED <<mediaLocks, permits, queue>>

\* ... and acted on: TryRemove of the pair, if the key still has this gate.
TryRemove(c) ==
  /\ pc[c] = "remove"
  /\ mediaLocks' = IF mediaLocks[media[c]] = gate[c]
                   THEN [mediaLocks EXCEPT ![media[c]] = None] ELSE mediaLocks
  /\ Leave(c)
  /\ UNCHANGED <<permits, queue>>

Call(c) == \/ Wait(c) \/ CheckIncomplete(c) \/ Insert(c) \/ EndTransfer(c)
           \/ Release(c) \/ CheckCount(c) \/ TryRemove(c)

Next == \E c \in Caller : \/ \E m \in Media : GetOrAdd(c, m)
                          \/ Call(c)
                          \/ Cancel(c)

Spec == Init /\ [][Next]_vars

\* Every call that can go on does; new calls and cancellations owe nothing.
FairSpec == Spec /\ \A c \in Caller : WF_vars(Call(c))

-----------------------------------------------------------------------------
(* Properties.                                                             *)

\* The permit of a gate is never lost and never doubled, whatever is cancelled,
\* refused or thrown: it is at the gate or with exactly one call.
OnePermit ==
  \A g \in Gate :
    /\ permits[g] = 1 <=> \A c \in Caller : gate[c] = g => pc[c] \notin Holding
    /\ \A c, d \in Caller :
         gate[c] = g /\ gate[d] = g /\ {pc[c], pc[d]} \subseteq Holding => c = d

\* No call waits at a gate whose permit is free, and only calls that wait are
\* queued: Release never hands the permit to a call that has given up.
QueueWaits ==
  \A g \in Gate :
    /\ queue[g] # <<>> => permits[g] = 0
    /\ \A i, j \in DOMAIN queue[g] :
         /\ pc[queue[g][i]] = "waiting" /\ gate[queue[g][i]] = g
         /\ queue[g][i] = queue[g][j] => i = j

\* Every call that asks for a media file gets it or gives up: cancelled calls,
\* failing transfers and dropped gates never block the ones that wait.
EveryCallServed ==
  \A c \in Caller : pc[c] \in {"fetched", "waiting"} ~> pc[c] \notin {"fetched", "waiting"}
=============================================================================
