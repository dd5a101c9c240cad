----------------------- MODULE AutomationWakeSignal -----------------------
(***************************************************************************)
(* AutomationWakeSignal: what the file watcher, the HTTP endpoints and     *)
(* runtime settings ask of the routing worker piles up under a lock, and a *)
(* channel of capacity one says only that there is something.  The lock    *)
(* and the channel are two steps of every writer, and reading the channel, *)
(* draining it and taking the work are three steps of the one reader.      *)
(***************************************************************************)
EXTENDS FiniteSets, Naturals

CONSTANTS Writer,   \* concurrent callers of Wake, WakeForBackfill, WakeForPath
          Share,    \* source shares
          File,     \* paths of a share
          Event,    \* events to backfill
          MaxPendingPathsPerShare

ASSUME MaxAssumption == MaxPendingPathsPerShare \in Nat

\* One request of a caller: everything, one event, or one path of one share.
Ask == [kind : {"full"}]
         \cup [kind : {"backfill"}, event : Event]
         \cup [kind : {"path"}, share : Share, file : File]

VARIABLES
  fullRequested,  \* _fullReconcileRequested
  paths,          \* [Share -> SUBSET File], _pendingPaths; no entry is {}
  backfills,      \* SUBSET Event, _pendingBackfills
  token,          \* the channel holds its one item
  signalling,     \* writers that left the lock and have yet to write the channel
  reader,         \* where WaitAsync is: "reading", "draining" or "taking"
  owed            \* history: requests no AutomationWakeRequest has covered since

pending == <<fullRequested, paths, backfills>>
wakeVars == <<pending, token, signalling, reader, owed>>

WakeTypeOK ==
  /\ fullRequested \in BOOLEAN
  /\ paths \in [Share -> SUBSET File]
  /\ backfills \subseteq Event
  /\ token \in BOOLEAN
  /\ signalling \subseteq Writer
  /\ reader \in {"reading", "draining", "taking"}
  /\ owed \subseteq Ask

WakeInit ==
  /\ fullRequested = FALSE
  /\ paths = [s \in Share |-> {}]
  /\ backfills = {}
  /\ token = FALSE
  /\ signalling = {}
  /\ reader = "reading"
  /\ owed = {}

HasWork == fullRequested \/ backfills # {} \/ \E s \in Share : paths[s] # {}

-----------------------------------------------------------------------------
(* The writers: an update under the lock, then a write of the channel.     *)

\* Faulty variant: the channel is not written.
WakeUnsignalled(w) ==
  /\ w \notin signalling
  /\ fullRequested' = TRUE
  /\ owed' = owed \cup {[kind |-> "full"]}
  /\ UNCHANGED <<paths, backfills, token, signalling, reader>>

Wake(w) ==
  /\ w \notin signalling
  /\ fullRequested' = TRUE
  /\ owed' = owed \cup {[kind |-> "full"]}
  /\ signalling' = signalling \cup {w}
  /\ UNCHANGED <<paths, backfills, token, reader>>

WakeForBackfill(w, e) ==
  /\ w \notin signalling
  /\ backfills' = backfills \cup {e}
  /\ owed' = owed \cup {[kind |-> "backfill", event |-> e]}
  /\ signalling' = signalling \cup {w}
  /\ UNCHANGED <<fullRequested, paths, token, reader>>

\* Faulty variant: too many paths are forgotten and no full walk is asked for.
WakeForPathForgetting(w, s, f) ==
  /\ w \notin signalling
  /\ paths' = [paths EXCEPT ![s] =
       IF Cardinality(@ \cup {f}) > MaxPendingPathsPerShare THEN {} ELSE @ \cup {f}]
  /\ owed' = owed \cup {[kind |-> "path", share |-> s, file |-> f]}
  /\ signalling' = signalling \cup {w}
  /\ UNCHANGED <<fullRequested, backfills, token, reader>>

\* A full walk that is already queued covers the path, and no signal is sent; a
\* path too many turns the share's paths into a full walk.
WakeForPath(w, s, f) ==
  /\ w \notin signalling
  /\ owed' = owed \cup {[kind |-> "path", share |-> s, file |-> f]}
  /\ \/ /\ fullRequested /\ paths[s] = {}
        /\ UNCHANGED <<fullRequested, paths, signalling>>
     \/ /\ ~(fullRequested /\ paths[s] = {})
        /\ signalling' = signalling \cup {w}
        /\ \/ /\ Cardinality(paths[s] \cup {f}) <= MaxPendingPathsPerShare
              /\ paths' = [paths EXCEPT ![s] = @ \cup {f}]
              /\ UNCHANGED fullRequested
           \/ /\ Cardinality(paths[s] \cup {f}) > MaxPendingPathsPerShare
              /\ paths' = [paths EXCEPT ![s] = {}]
              /\ fullRequested' = TRUE
  /\ UNCHANGED <<backfills, token, reader>>

\* TryWrite: a full channel drops the write.
TryWrite(w) ==
  /\ w \in signalling
  /\ token' = TRUE
  /\ signalling' = signalling \ {w}
  /\ UNCHANGED <<pending, reader, owed>>

-----------------------------------------------------------------------------
(* The reader: WaitAsync, called again once the request is worked off.     *)

ReadToken ==
  /\ reader = "reading"
  /\ token
  /\ token' = FALSE
  /\ reader' = "draining"
  /\ UNCHANGED <<pending, signalling, owed>>

\* Faulty variant: a timeout empties the channel and returns nothing.
TimeoutDrains ==
  /\ reader = "reading"
  /\ token' = FALSE
  /\ UNCHANGED <<pending, signalling, reader, owed>>

\* The maximum delay has passed: work is taken without a token.
Timeout ==
  /\ reader = "reading"
  /\ reader' = "taking"
  /\ UNCHANGED <<pending, token, signalling, owed>>

\* while (TryRead) { }: one more item is thrown away ...
Drain ==
  /\ reader = "draining"
  /\ token
  /\ token' = FALSE
  /\ UNCHANGED <<pending, signalling, reader, owed>>

\* ... until there is none.
DrainEnd ==
  /\ reader = "draining"
  /\ ~token
  /\ reader' = "taking"
  /\ UNCHANGED <<pending, token, signalling, owed>>

\* The requests a walk of everything pending answers.
CoversAsk(a) ==
  \/ a.kind = "full" /\ fullRequested
  \/ a.kind = "backfill" /\ a.event \in backfills
  \/ a.kind = "path" /\ (fullRequested \/ a.file \in paths[a.share])

Take ==
  /\ reader = "taking"
  /\ fullRequested' = FALSE
  /\ paths' = [s \in Share |-> {}]
  /\ backfills' = {}
  /\ owed' = {a \in owed : ~CoversAsk(a)}
  /\ reader' = "reading"
  /\ UNCHANGED <<token, signalling>>

Write(w) ==
  \/ Wake(w)
  \/ \E e \in Event : WakeForBackfill(w, e)
  \/ \E s \in Share, f \in File : WakeForPath(w, s, f)

Read == ReadToken \/ Drain \/ DrainEnd \/ Take

WakeNext == Read \/ Timeout \/ \E w \in Writer : Write(w) \/ TryWrite(w)

WakeSpec == WakeInit /\ [][WakeNext]_wakeVars

\* A writer that left the lock reaches the channel, and the worker comes back to
\* WaitAsync.  Strong fairness of DrainEnd: writers, which come from file events
\* and users, do not refill the channel between any two TryReads for ever.  The
\* timeout, which could mask a lost signal, owes nothing.
FairWakeSpec ==
  /\ WakeSpec /\ WF_wakeVars(Read) /\ SF_wakeVars(DrainEnd)
  /\ \A w \in Writer : WF_wakeVars(TryWrite(w))

-----------------------------------------------------------------------------
(* Properties.                                                             *)

\* Pending work is always announced: by the item in the channel, by a writer
\* that is about to write one, or to a reader that is about to take the work.
\* Without this a wake-up waits for the periodic sweep, hours away by default.
WorkAnnounced ==
  HasWork => token \/ signalling # {} \/ reader \in {"draining", "taking"}

\* "The work itself accumulates under _gate, so a coalesced wake can never
\* discard a changed path": every request not yet answered is still pending, as
\* itself or as the full walk that covers it, whatever coalesced or overflowed.
NothingDiscarded == \A a \in owed : CoversAsk(a)

\* Every request is answered, and no timeout is needed for it.
EveryAskAnswered == \A a \in Ask : a \in owed ~> a \notin owed
=============================================================================
