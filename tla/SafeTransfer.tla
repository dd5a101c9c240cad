---------------------------- MODULE SafeTransfer ----------------------------
(***************************************************************************)
(* The safe file engine of MomentFerry: SafeTransferService, the explicit  *)
(* retry and route-again of OperationRetryService, QuarantineService, and  *)
(* OperationRecoveryService at startup and on request, over the operations *)
(* table and the filesystem they share.                                    *)
(*                                                                         *)
(* A worker is one call of ExecuteAsync, made by the routing worker or by  *)
(* an HTTP request.  The program counter names what the call does next; a  *)
(* step is one filesystem effect or one database write together with the   *)
(* reads the code makes just before it (the deletion of a staging file     *)
(* goes with the write after it), so that another worker, recovery, an     *)
(* external write or a crash can come between any two of them.             *)
(***************************************************************************)
EXTENDS MediaOperation, Naturals, Sequences

CONSTANTS Worker,       \* concurrent calls of the engine
          SourcePath,   \* [Media -> Path], MediaFile.SourcePath
          Present,      \* media whose file exists at the start; any other file
                        \* appears when a transfer writes it to a shared folder
          Routable,     \* the <<media, event>> pairs ValidateRoute accepts
          Destination,  \* the paths below destination shares
          Desired,      \* [Media -> SUBSET Destination], names the resolver may render
          Candidates,   \* [Destination -> Seq(Destination)], a name, then its conflict names
          Length,       \* [Content -> Nat], file length
          Garbage,      \* contents a broken or torn copy may leave behind
          Policies,     \* event settings to choose from at the start
          MaxCrashes,   \* bound on process crashes
          MaxRequests,  \* bound on recoveries requested while the services run
          MaxSyncs      \* bound on writes by the external sync client

OperationMode     == {"Copy", "SafeMove", "Archive"}
ConflictStrategy  == {"AppendSourceName", "AppendCounter", "Quarantine"}
DuplicateStrategy == {"KeepExisting", "KeepBoth", "SkipAndRecord", "SafeMoveToExisting"}
Policy == [mode : OperationMode, conflict : ConflictStrategy, duplicate : DuplicateStrategy]

ASSUME ConstantsAssumption ==
  /\ SourcePath \in [Media -> Path]
  /\ \A m, n \in Media : SourcePath[m] = SourcePath[n] => m = n
  /\ Present \subseteq Media
  /\ Routable \subseteq Media \X Event
  /\ Destination \subseteq Path
  /\ Desired \in [Media -> SUBSET Destination]
  /\ Candidates \in [Destination -> Seq(Destination)]
  /\ Length \in [Content -> Nat]
  /\ Garbage \subseteq Content
  /\ Policies \subseteq Policy
  /\ MaxCrashes \in Nat
  /\ MaxRequests \in Nat
  /\ MaxSyncs \in Nat

VARIABLES
  disk,        \* [Path -> Content or None], the shares
  staging,     \* [OpId -> Content or None], <op>.part below .momentferry-staging
  ops,         \* [OpId -> Operation], the operations table
  events,      \* the event rows that exist
  policy,      \* [Event -> Policy], the settings of an event (never edited here)
  pc,          \* [Worker -> what the call does next]
  call,        \* [Worker -> Call], the local variables of the call
  up,          \* the hosted services and the HTTP server are running
  rpc,         \* what RecoverAsync does next
  todo,        \* the snapshot rows RecoverAsync has not handled yet
  item,        \* the row RecoverAsync is finishing
  origin,      \* history: the content each source file started with
  exposed,     \* history: media released while their copy was itself a source
  forgotten,   \* history: released media whose adoption left no trace in its row
  abandoned,   \* history: operations whose call ended without a last write
  crashes,     \* crashes so far
  requests,    \* recoveries requested so far
  syncs        \* external writes so far

files   == <<disk, staging>>
config  == <<events, policy>>
calls   == <<pc, call>>
recover == <<up, rpc, todo, item>>
history == <<origin, exposed, forgotten>>
bounds  == <<history, crashes, requests, syncs>>
vars    == <<files, ops, config, calls, recover, abandoned, bounds>>

WorkerPc == {"idle", "admitted", "hash", "resolve", "copying", "copied", "verify", "commit",
             "move", "moved", "committed", "finalize", "released", "supersede", "direct"}
RecoverPc == {"idle", "list", "scan", "delete", "complete"}

\* The pcs inside the try block of ExecuteAsync up to the committed destination.
Uncommitted == {"hash", "resolve", "copying", "copied", "verify", "commit", "move", "moved"}

\* `via` is how the engine was entered, `op` the immutable snapshot `operation`,
\* `hash` sourceHash, `size` currentSize, `target` finalDestination.
Call == [via    : {"coordinator", "direct"},
         op     : Operation,
         hash   : Content \cup {None},
         size   : Nat,
         target : Path \cup {None}]

NoCall == [via |-> "coordinator", op |-> NoOperation, hash |-> None, size |-> 0, target |-> None]

TypeOK ==
  /\ disk \in [Path -> Content \cup {None}]
  /\ staging \in [OpId -> Content \cup {None}]
  /\ ops \in [OpId -> Operation]
  /\ events \subseteq Event
  /\ policy \in [Event -> Policy]
  /\ pc \in [Worker -> WorkerPc]
  /\ call \in [Worker -> Call]
  /\ up \in BOOLEAN
  /\ rpc \in RecoverPc
  /\ todo \subseteq Operation
  /\ item \in Operation
  /\ origin \in [Media -> Content \cup {None}]
  /\ exposed \subseteq Media
  /\ forgotten \subseteq Media
  /\ abandoned \subseteq OpId
  /\ crashes \in 0..MaxCrashes
  /\ requests \in 0..MaxRequests
  /\ syncs \in 0..MaxSyncs

\* The process has just started on an empty database: RecoverAsync runs first,
\* then the hosted services.
Init ==
  /\ origin \in [Media -> Content \cup {None}]
  /\ \A m \in Media : IF m \in Present THEN origin[m] \in Content \ Garbage ELSE origin[m] = None
  /\ disk = [p \in Path |-> IF \E m \in Present : SourcePath[m] = p
                           THEN origin[CHOOSE m \in Present : SourcePath[m] = p]
                           ELSE None]
  /\ staging = [o \in OpId |-> None]
  /\ ops = [o \in OpId |-> NoOperation]
  /\ events = Event
  /\ policy \in [Event -> Policies]
  /\ pc = [w \in Worker |-> "idle"]
  /\ call = [w \in Worker |-> NoCall]
  /\ up = FALSE
  /\ rpc = "list"
  /\ todo = {}
  /\ item = NoOperation
  /\ exposed = {}
  /\ forgotten = {}
  /\ abandoned = {}
  /\ crashes = 0
  /\ requests = 0
  /\ syncs = 0

-----------------------------------------------------------------------------
(* What the engine asks of the database and the disk.                      *)

Source(op) == SourcePath[op.media]

\* Destination names that are source paths too: files of folders of role Both.
Indexed == {p \in Destination : \E m \in Media : SourcePath[m] = p}

\* A write of an operations row fails when its event is gone: the row's
\* foreign key is enforced, also for the write the catch block attempts.
Accepted(op) == op.event = None \/ op.event \in events

Upsert(op) == /\ Accepted(op)
              /\ ops' = [ops EXCEPT ![op.id] = op]

\* ValidateRoute, the incomplete-operation check and the refusals before the
\* first row is written.
Admissible(m, e) ==
  /\ e \in events
  /\ <<m, e>> \in Routable
  /\ Incomplete(ops, m) = {}
  /\ disk[SourcePath[m]] # None
  /\ policy[e].mode # "Archive"

\* FindStoredCopyAsync: the history names one path, the file there decides.
\* Which of several matching rows is the oldest is left open.
StoredCopies(hash, m) ==
  LET rows == FindByDestinationHash(ops, hash, m)
  IN  IF rows = {} THEN {None}
      ELSE {IF disk[ops[o].dest] = hash THEN ops[o].dest ELSE None : o \in rows}

\* ResolveExistingDestinationAsync: the first candidate that is free, or that
\* holds the same bytes when identical files are not to be kept twice.
\* Faulty variant: an occupied name is taken for the same file.
FitsByName(p, hash, e) == disk[p] = None \/ policy[e].duplicate # "KeepBoth"

Fits(p, hash, e) == disk[p] = None \/ (disk[p] = hash /\ policy[e].duplicate # "KeepBoth")

FirstFit(p, hash, e, q) ==
  \E i \in DOMAIN Candidates[p] :
    /\ q = Candidates[p][i]
    /\ Fits(q, hash, e)
    /\ \A j \in 1..(i - 1) : ~Fits(Candidates[p][j], hash, e)

\* Under ConflictStrategy.Quarantine the first occupied name already throws.
ConflictThrows(p, hash, e) == policy[e].conflict = "Quarantine" /\ ~Fits(p, hash, e)

\* FileExists and GetFileLength against the size found at the start.
HasSize(bytes, n) == IF bytes = None THEN FALSE ELSE Length[bytes] = n

-----------------------------------------------------------------------------
(* ExecuteAsync.                                                           *)

Continue(w, next, c) ==
  /\ pc' = [pc EXCEPT ![w] = next]
  /\ call' = [call EXCEPT ![w] = c]

Goto(w, next) == Continue(w, next, call[w])

Return(w) == Continue(w, "idle", NoCall)

\* The call writes its next snapshot of the row and goes on.
Save(w, op, next) == Upsert(op) /\ Continue(w, next, [call[w] EXCEPT !.op = op])

\* The call writes its last snapshot of the row and returns or throws.
Finish(w, op) == Upsert(op) /\ Return(w)

\* Validation passed: the call holds the row it is about to insert.
Admit(w, m, e, via) ==
  /\ Admissible(m, e)
  /\ \E p \in Desired[m] :
       Continue(w, "admitted",
         [via |-> via, hash |-> None, target |-> None, size |-> Length[disk[SourcePath[m]]],
          op |-> [NoOperation EXCEPT !.media = m, !.event = e,
                                     !.state = "TransferPending", !.dest = p]])

\* TransferCoordinator.ExecuteOnceAsync, called by the routing worker and by
\* POST /transfers.  Its gate lets two calls of one media file through in rare
\* interleavings (module TransferCoordinator), so nothing here relies on it.
Begin(w, m, e) ==
  /\ up
  /\ pc[w] = "idle"
  /\ Admit(w, m, e, "coordinator")
  /\ UNCHANGED <<files, ops, config, recover, abandoned, bounds>>

\* The TransferPending row is inserted under a fresh identifier.
Record(w) ==
  /\ pc[w] = "admitted"
  /\ \E o \in OpId : /\ ops[o].state = "Absent"
                     /\ Save(w, [call[w].op EXCEPT !.id = o], "hash")
  /\ UNCHANGED <<files, config, recover, abandoned, bounds>>

HashSource(w) ==
  /\ pc[w] = "hash"
  /\ disk[Source(call[w].op)] # None
  /\ Continue(w, "resolve", [call[w] EXCEPT !.hash = disk[Source(call[w].op)]])
  /\ UNCHANGED <<files, ops, config, recover, abandoned, bounds>>

\* HandleIdenticalDestinationAsync for a policy other than KeepBoth: the row
\* adopts the copy at p, or records that the duplicate was left alone.
Adopt(w, p) ==
  LET op   == call[w].op
      copy == [op EXCEPT !.dest = p, !.srcHash = call[w].hash, !.dstHash = call[w].hash]
  IN  IF policy[op.event].duplicate = "SafeMoveToExisting"
      THEN Save(w, To(copy, "DestinationCommitted"), "committed")
      ELSE Finish(w, To(copy, "Ignored"))

\* The duplicate checks on the source's hash, then the destination's name.
Resolve(w) ==
  LET op   == call[w].op
      hash == call[w].hash
  IN
  /\ pc[w] = "resolve"
  /\ \E copy \in StoredCopies(hash, op.media) :
       \/ /\ copy # None
          /\ policy[op.event].duplicate # "KeepBoth"
          /\ Adopt(w, copy)
       \/ /\ copy = None \/ policy[op.event].duplicate = "KeepBoth"
          /\ ConflictThrows(op.dest, hash, op.event)
          /\ Finish(w, To(op, "Quarantined"))
       \/ /\ copy = None \/ policy[op.event].duplicate = "KeepBoth"
          /\ ~ConflictThrows(op.dest, hash, op.event)
          /\ \E p \in Destination :
               /\ FirstFit(op.dest, hash, op.event, p)
               /\ IF disk[p] # None
                  THEN Adopt(w, p)
                  ELSE Save(w, [op EXCEPT !.state = "Copying", !.dest = p, !.srcHash = hash],
                            "copying")
  /\ UNCHANGED <<files, config, recover, abandoned, bounds>>

\* CopyFileAsync runs to its end.  What arrived may differ from the source: a
\* source rewritten while it is read leaves a mixture, which verification is for.
Copy(w) ==
  /\ pc[w] = "copying"
  /\ disk[Source(call[w].op)] # None
  /\ \E bytes \in Garbage \cup {disk[Source(call[w].op)]} :
       staging' = [staging EXCEPT ![call[w].op.id] = bytes]
  /\ Goto(w, "copied")
  /\ UNCHANGED <<disk, ops, config, recover, abandoned, bounds>>

\* Faulty variant: the transition stays in memory.
StartVerifyingUnsaved(w) ==
  /\ pc[w] = "copied"
  /\ Continue(w, "verify", [call[w] EXCEPT !.op.state = "Verifying"])
  /\ UNCHANGED <<files, ops, config, recover, abandoned, bounds>>

StartVerifying(w) ==
  /\ pc[w] = "copied"
  /\ Save(w, To(call[w].op, "Verifying"), "verify")
  /\ UNCHANGED <<files, config, recover, abandoned, bounds>>

\* Faulty variant: the length is compared, the hashes are not.
VerifyBySize(w) ==
  /\ pc[w] = "verify"
  /\ HasSize(staging[call[w].op.id], call[w].size)
  /\ Goto(w, "commit")
  /\ UNCHANGED <<files, ops, config, recover, abandoned, bounds>>

\* The staged size, the staged hash and the source hash again.
Verify(w) ==
  LET op     == call[w].op
      staged == staging[op.id]
      again  == disk[Source(op)]
  IN
  /\ pc[w] = "verify"
  /\ \/ /\ ~HasSize(staged, call[w].size)
        /\ Finish(w, To(op, "Quarantined"))
     \/ /\ HasSize(staged, call[w].size) /\ again # None
        /\ {staged, again} # {call[w].hash}
        /\ Finish(w, [op EXCEPT !.state = "Quarantined", !.srcHash = again, !.dstHash = staged])
     \/ /\ HasSize(staged, call[w].size)
        /\ {staged, again} = {call[w].hash}
        /\ Goto(w, "commit")
        /\ UNCHANGED ops
  /\ UNCHANGED <<files, config, recover, abandoned, bounds>>

\* The destination is resolved again: a copy that arrived meanwhile is adopted
\* and the staged file dropped, else the name to move to is settled.
Commit(w) ==
  LET op == call[w].op
  IN
  /\ pc[w] = "commit"
  /\ \/ /\ ConflictThrows(op.dest, call[w].hash, op.event)
        /\ Finish(w, To(op, "Quarantined"))
        /\ UNCHANGED staging
     \/ /\ ~ConflictThrows(op.dest, call[w].hash, op.event)
        /\ \E p \in Destination :
             /\ FirstFit(op.dest, call[w].hash, op.event, p)
             /\ IF disk[p] # None
                THEN /\ staging' = [staging EXCEPT ![op.id] = None]
                     /\ Adopt(w, p)
                ELSE /\ Continue(w, "move", [call[w] EXCEPT !.target = p])
                     /\ UNCHANGED <<staging, ops>>
  /\ UNCHANGED <<disk, config, recover, abandoned, bounds>>

\* Faulty variant: the move replaces what has the name.
MoveOverwriting(w) ==
  /\ pc[w] = "move"
  /\ staging[call[w].op.id] # None
  /\ disk' = [disk EXCEPT ![call[w].target] = staging[call[w].op.id]]
  /\ staging' = [staging EXCEPT ![call[w].op.id] = None]
  /\ Goto(w, "moved")
  /\ UNCHANGED <<ops, config, recover, abandoned, bounds>>

\* File.Move with overwrite: false; a name taken since Commit makes it throw.
Move(w) ==
  LET op == call[w].op
  IN
  /\ pc[w] = "move"
  /\ disk[call[w].target] = None
  /\ staging[op.id] # None
  /\ disk' = [disk EXCEPT ![call[w].target] = staging[op.id]]
  /\ staging' = [staging EXCEPT ![op.id] = None]
  /\ Goto(w, "moved")
  /\ UNCHANGED <<ops, config, recover, abandoned, bounds>>

\* Size and hash once more, in place; then the row says DestinationCommitted.
CheckDestination(w) ==
  LET op    == call[w].op
      final == disk[call[w].target]
  IN
  /\ pc[w] = "moved"
  /\ \/ /\ ~HasSize(final, call[w].size)
        /\ Finish(w, [op EXCEPT !.state = "Quarantined", !.dest = call[w].target])
     \/ /\ HasSize(final, call[w].size)
        /\ final # call[w].hash
        /\ Finish(w, [op EXCEPT !.state = "Quarantined", !.dest = call[w].target,
                                !.dstHash = final])
     \/ /\ HasSize(final, call[w].size)
        /\ final = call[w].hash
        /\ Save(w, [op EXCEPT !.state = "DestinationCommitted", !.dest = call[w].target,
                              !.srcHash = call[w].hash, !.dstHash = final], "committed")
  /\ UNCHANGED <<files, config, recover, abandoned, bounds>>

\* Faulty variant: the operation mode is not asked.
SettleAsMove(w) ==
  /\ pc[w] = "committed"
  /\ Save(w, To(call[w].op, "SourceFinalizePending"), "finalize")
  /\ UNCHANGED <<files, config, recover, abandoned, bounds>>

\* A copy is complete; a safe move announces that it will release the source.
Settle(w) ==
  LET op == call[w].op
  IN
  /\ pc[w] = "committed"
  /\ IF policy[op.event].mode = "SafeMove"
     THEN Save(w, To(op, "SourceFinalizePending"), "finalize")
     ELSE Finish(w, To(op, "Completed"))
  /\ UNCHANGED <<files, config, recover, abandoned, bounds>>

\* File.Delete of the source; a file that is gone already is no error.  The
\* history remembers a release whose copy lies in a folder of role Both.
DeleteSource(op) ==
  /\ disk' = [disk EXCEPT ![Source(op)] = None]
  /\ exposed' = IF op.dest \in Indexed THEN exposed \cup {op.media} ELSE exposed
  /\ UNCHANGED <<origin, forgotten, crashes, requests, syncs>>

Release(w) ==
  /\ pc[w] = "finalize"
  /\ DeleteSource(call[w].op)
  /\ Goto(w, "released")
  /\ UNCHANGED <<staging, ops, config, recover, abandoned>>

Complete(w) ==
  /\ pc[w] = "released"
  /\ Finish(w, To(call[w].op, "Completed"))
  /\ UNCHANGED <<files, config, recover, abandoned, bounds>>

\* Faulty variant: the exception leaves without a write.
FailUnsaved(w) ==
  /\ pc[w] \in Uncommitted
  /\ Return(w)
  /\ UNCHANGED <<files, ops, config, recover, abandoned, bounds>>

\* The catch block: any I/O failure before the commit ends in RetryPending.  A
\* copy that failed half way leaves its bytes in the staging directory.
Fail(w) ==
  /\ pc[w] \in Uncommitted
  /\ Finish(w, To(call[w].op, "RetryPending"))
  /\ IF pc[w] = "copying"
     THEN \E bytes \in Garbage \cup {None} :
            staging' = [staging EXCEPT ![call[w].op.id] = bytes]
     ELSE UNCHANGED staging
  /\ UNCHANGED <<disk, config, recover, abandoned, bounds>>

\* Faulty variant: every failure ends in RetryPending.
FinalizeFailsAsRetry(w) ==
  /\ \/ pc[w] = "finalize"
     \/ pc[w] \in {"committed", "released"} /\ call[w].target # None
  /\ Finish(w, To(call[w].op, "RetryPending"))
  /\ UNCHANGED <<files, config, recover, abandoned, bounds>>

\* The catch block after the commit, or after a failed delete under an adoption:
\* the delete or a write of the row failed.
FinalizeFails(w) ==
  /\ \/ pc[w] = "finalize"
     \/ pc[w] \in {"committed", "released"} /\ call[w].target # None
  /\ Finish(w, To(call[w].op, "SourceFinalizePending"))
  /\ UNCHANGED <<files, config, recover, abandoned, bounds>>

\* HandleIdenticalDestinationAsync keeps its committed snapshot to itself.  When a
\* later write of it fails, the catch block of ExecuteAsync still holds the row
\* from before the adoption and writes RetryPending with no destination hash, even
\* if the source is gone.  (The old name it restores is read by nothing.)
AdoptionForgotten(w) ==
  /\ pc[w] \in {"committed", "finalize", "released"}
  /\ call[w].target = None
  /\ Finish(w, [call[w].op EXCEPT !.state = "RetryPending", !.dstHash = None])
  /\ forgotten' = IF disk[Source(call[w].op)] = None
                  THEN forgotten \cup {call[w].op.media} ELSE forgotten
  /\ UNCHANGED <<files, config, recover, abandoned, origin, exposed, crashes, requests, syncs>>

\* The call ends and its row stays as last written.
Drop(w) ==
  /\ Return(w)
  /\ abandoned' = abandoned \cup ({call[w].op.id} \ {None})
  /\ UNCHANGED <<files, ops, config, recover, bounds>>

\* The event was deleted under the call: every write of the row fails, the one
\* in the catch block included, and the exception leaves ExecuteAsync.
EventGone(w) ==
  /\ pc[w] \notin {"idle", "direct"}
  /\ ~Accepted(call[w].op)
  /\ Drop(w)

\* OperationCanceledException is rethrown: the client went away.  No await, hence
\* no cancellation, lies between the last check and the move or the delete.
Cancel(w) ==
  /\ pc[w] \notin {"idle", "move", "finalize"}
  /\ Drop(w)

-----------------------------------------------------------------------------
(* OperationRetryService and QuarantineService.                            *)

\* RetryAsync reads the row ...
Retry(w, o) ==
  /\ up
  /\ pc[w] = "idle"
  /\ ops[o].state \in Waiting
  /\ ops[o].event \in events
  /\ Continue(w, "supersede", [NoCall EXCEPT !.via = "direct", !.op = ops[o]])
  /\ UNCHANGED <<files, ops, config, recover, abandoned, bounds>>

\* ... and so does RouteAgainAsync, for an operation that has finished.
RouteAgain(w, o) ==
  /\ up
  /\ pc[w] = "idle"
  /\ ops[o].state \in {"Completed", "Ignored"}
  /\ ops[o].event # None
  /\ disk[Source(ops[o])] # None
  /\ Continue(w, "supersede", [NoCall EXCEPT !.via = "direct", !.op = ops[o]])
  /\ UNCHANGED <<files, ops, config, recover, abandoned, bounds>>

\* The old operation becomes Failed; a retry first deletes its staging file.
Supersede(w) ==
  LET op == call[w].op
  IN
  /\ pc[w] = "supersede"
  /\ Save(w, To(op, "Failed"), "direct")
  /\ staging' = IF op.state \in Waiting THEN [staging EXCEPT ![op.id] = None] ELSE staging
  /\ UNCHANGED <<disk, config, recover, abandoned, bounds>>

\* ExecuteAsync is then called without the coordinator.
ExecuteDirect(w) ==
  LET op == call[w].op
  IN
  /\ pc[w] = "direct"
  /\ \/ Admit(w, op.media, op.event, "direct")
     \/ ~Admissible(op.media, op.event) /\ Return(w)
  /\ UNCHANGED <<files, ops, config, recover, abandoned, bounds>>

\* QuarantineService.DismissAsync.
Dismiss(o) ==
  /\ up
  /\ ops[o].state = "Quarantined"
  /\ Upsert(To(ops[o], "Ignored"))
  /\ UNCHANGED <<files, config, calls, recover, abandoned, bounds>>

\* POST /events/{id}/route-again: SupersedeTerminalByEventAsync, one statement.
SupersedeEvent(e) ==
  /\ up
  /\ e \in events
  /\ ops' = [o \in OpId |->
               IF ops[o].event = e /\ ops[o].state \in {"Completed", "Ignored"}
               THEN To(ops[o], "Failed") ELSE ops[o]]
  /\ UNCHANGED <<files, config, calls, recover, abandoned, bounds>>

\* DELETE /events/{id}: the rows of its operations keep no event.
DeleteEvent(e) ==
  /\ up
  /\ e \in events
  /\ events' = events \ {e}
  /\ ops' = [o \in OpId |->
               IF ops[o].event = e THEN [ops[o] EXCEPT !.event = None] ELSE ops[o]]
  /\ UNCHANGED <<files, policy, calls, recover, abandoned, bounds>>

-----------------------------------------------------------------------------
(* OperationRecoveryService.                                               *)

\* POST /recovery while the services run.
RequestRecovery ==
  /\ up
  /\ rpc = "idle"
  /\ requests < MaxRequests
  /\ requests' = requests + 1
  /\ rpc' = "list"
  /\ UNCHANGED <<files, ops, config, calls, up, todo, item, abandoned, history, crashes, syncs>>

RecoverList ==
  /\ rpc = "list"
  /\ rpc' = "scan"
  /\ todo' = ListIncomplete(ops)
  /\ UNCHANGED <<files, ops, config, calls, up, item, abandoned, bounds>>

\* Faulty variant: the row is looked at again.
ResolvedAgain(r, state) ==
  /\ Upsert(To(r, state))
  /\ rpc' = "scan"
  /\ item' = NoOperation
  /\ UNCHANGED <<files, config, calls, up, todo, abandoned, bounds>>

\* A snapshot row is written back in the given state and is done with.
Resolved(r, state) ==
  /\ Upsert(To(r, state))
  /\ todo' = todo \ {r}
  /\ rpc' = "scan"
  /\ item' = NoOperation
  /\ UNCHANGED <<files, config, calls, up, abandoned, bounds>>

RecoverUncommitted(r) ==
  /\ rpc = "scan"
  /\ r \in todo
  /\ ~HasCommittedDestination(r)
  /\ Resolved(r, "RetryPending")

\* The committed copy is there, has the recorded bytes, and its event exists.
Verifiable(r) ==
  LET expected == IF r.dstHash # None THEN r.dstHash ELSE r.srcHash
  IN  /\ r.dest # None
      /\ disk[r.dest] # None
      /\ disk[r.dest] = expected
      /\ r.event \in events

\* The source that would be deleted still has the bytes of the copy.
SourceMatches(r) == disk[Source(r)] = disk[r.dest]

RecoverCommitted(r) ==
  /\ rpc = "scan"
  /\ r \in todo
  /\ HasCommittedDestination(r)
  /\ \/ /\ ~Verifiable(r)
        /\ Resolved(r, "Quarantined")
     \/ /\ Verifiable(r)
        /\ policy[r.event].mode # "SafeMove" \/ disk[Source(r)] = None
        /\ Resolved(r, "Completed")
     \/ /\ Verifiable(r)
        /\ policy[r.event].mode = "SafeMove"
        /\ disk[Source(r)] # None /\ ~SourceMatches(r)
        /\ Resolved(r, "Quarantined")
     \/ /\ Verifiable(r)
        /\ policy[r.event].mode = "SafeMove"
        /\ SourceMatches(r)
        /\ Upsert(To(r, "SourceFinalizePending"))
        /\ todo' = todo \ {r}
        /\ item' = To(r, "SourceFinalizePending")
        /\ rpc' = "delete"
        /\ UNCHANGED <<files, config, calls, up, abandoned, bounds>>

RecoverDelete ==
  /\ rpc = "delete"
  /\ DeleteSource(item)
  /\ rpc' = "complete"
  /\ UNCHANGED <<staging, ops, config, calls, up, todo, item, abandoned>>

RecoverComplete ==
  /\ rpc = "complete"
  /\ Resolved(item, "Completed")

\* A read, the delete or a write of a committed item failed.
RecoverFails ==
  \/ /\ rpc \in {"delete", "complete"}
     /\ Resolved(item, "SourceFinalizePending")
  \/ /\ rpc = "scan"
     /\ \E r \in todo : HasCommittedDestination(r) /\ Resolved(r, "SourceFinalizePending")

\* Faulty variant: recovery ends with rows left.
RecoverEndEarly ==
  /\ rpc = "scan"
  /\ rpc' = "idle"
  /\ todo' = {}
  /\ up' = TRUE
  /\ UNCHANGED <<files, ops, config, calls, item, abandoned, bounds>>

\* RecoverAsync ends: all rows handled, the client gone, or a row that can no
\* longer be written because its event was deleted since the listing.
RecoverEnd ==
  /\ \/ rpc = "scan" /\ todo = {}
     \/ up /\ rpc \in {"scan", "complete"}
     \/ up /\ rpc = "delete" /\ ~Accepted(item)
  /\ rpc' = "idle"
  /\ todo' = {}
  /\ item' = NoOperation
  /\ up' = TRUE
  /\ UNCHANGED <<files, ops, config, calls, abandoned, bounds>>

-----------------------------------------------------------------------------
(* The process and the outside world.                                      *)

\* A crash or a stop at any point, recovery included; a staging file that was
\* being written stays behind.  The next start begins with recovery.
Crash ==
  /\ crashes < MaxCrashes
  /\ crashes' = crashes + 1
  /\ \E bytes \in Garbage \cup {None} :
       staging' = [o \in OpId |-> IF \E w \in Worker : pc[w] = "copying" /\ call[w].op.id = o
                                 THEN bytes ELSE staging[o]]
  /\ pc' = [w \in Worker |-> "idle"]
  /\ call' = [w \in Worker |-> NoCall]
  /\ up' = FALSE
  /\ rpc' = "list"
  /\ todo' = {}
  /\ item' = NoOperation
  /\ UNCHANGED <<disk, ops, config, abandoned, history, requests, syncs>>

\* The sync client or a user rewrites a source file, at any time.
Sync(m) ==
  /\ syncs < MaxSyncs
  /\ syncs' = syncs + 1
  /\ \E bytes \in Content \ Garbage :
       /\ disk[SourcePath[m]] \notin {None, bytes}
       /\ disk' = [disk EXCEPT ![SourcePath[m]] = bytes]
  /\ UNCHANGED <<staging, ops, config, calls, recover, abandoned, history, crashes, requests>>

-----------------------------------------------------------------------------
Execute(w) ==
  \/ Record(w) \/ HashSource(w) \/ Resolve(w) \/ Copy(w) \/ StartVerifying(w) \/ Verify(w)
  \/ Commit(w) \/ Move(w) \/ CheckDestination(w) \/ Settle(w) \/ Release(w) \/ Complete(w)
  \/ Fail(w) \/ FinalizeFails(w) \/ AdoptionForgotten(w) \/ EventGone(w) \/ Supersede(w)
  \/ ExecuteDirect(w)

Recover ==
  \/ RecoverList \/ RecoverDelete \/ RecoverComplete \/ RecoverFails \/ RecoverEnd
  \/ \E r \in todo : RecoverUncommitted(r) \/ RecoverCommitted(r)

User ==
  \/ \E w \in Worker, o \in OpId : Retry(w, o) \/ RouteAgain(w, o)
  \/ \E o \in OpId : Dismiss(o)
  \/ \E e \in Event : SupersedeEvent(e) \/ DeleteEvent(e)
  \/ \E w \in Worker : Cancel(w)

\* Everything but a recovery requested while the services run.
Unattended ==
  \/ \E w \in Worker, m \in Media, e \in Event : Begin(w, m, e)
  \/ \E w \in Worker : Execute(w)
  \/ Recover \/ User \/ Crash

Next == Unattended \/ RequestRecovery

Spec == Init /\ [][Next]_vars
UnattendedSpec == Init /\ [][Unattended]_vars

\* ... and with an external client that rewrites sources.
SyncNext == Next \/ \E m \in Media : Sync(m)
SyncSpec == Init /\ [][SyncNext]_vars

\* The thread pool resumes every awaiting call, and recovery is awaited at
\* startup; users, crashes and the sync client owe nothing.
FairSpec == UnattendedSpec /\ (\A w \in Worker : WF_vars(Execute(w))) /\ WF_vars(Recover)

-----------------------------------------------------------------------------
(* Properties.                                                             *)

\* No folder is both a source and a destination.
DisjointShares == \A m \in Media : SourcePath[m] \notin Destination

\* A row that claims a committed destination names a file that holds exactly
\* the bytes it claims, for as long as the row makes that claim: no other call,
\* recovery, retry or crash ever overwrites or removes the copy.
\* (Verification, MoveFile without overwrite, adoption of identical files.)
CommittedCopyStored ==
  \A o \in OpId : HasCommittedDestination(ops[o]) =>
    /\ ops[o].dstHash # None
    /\ disk[ops[o].dest] = ops[o].dstHash

\* Whatever the engine does to a source file, its bytes are on some share, in any
\* arrangement of the folders.  The exception is named by its cause: a file that
\* was released while the copy its row names was itself a source file, in a folder
\* of role Both.  Such a copy can be taken for its own duplicate and released, against
\* docs/IMPLEMENTATION.md:933; every other file, also one that lay in such a folder,
\* keeps its bytes.
NoContentLost == \A m \in Present \ exposed : \E p \in Path : disk[p] = origin[m]

\* An operation that is not past its commit still has its source, unless another
\* operation of the same media file holds a copy on record.  The exception: the
\* source was released under an adopted copy and the call then failed to write its
\* row (SafeTransferService.cs:333), whose catch block forgets the adoption.  The
\* row says RetryPending for good and names nothing, but a destination does hold
\* the bytes.
UncommittedKeepsSource ==
  \A o \in OpId : ops[o].state \in InFlight \cup {"RetryPending"} =>
    \/ disk[Source(ops[o])] # None
    \/ \E q \in OpId \ {o} : /\ ops[q].media = ops[o].media
                             /\ ops[q].dstHash # None
                             /\ disk[ops[q].dest] = ops[q].dstHash
    \/ /\ ops[o].media \in forgotten
       /\ \E p \in Destination : disk[p] = origin[ops[o].media]

\* A source file disappears only when a row of its media file says
\* SourceFinalizePending in the database, under Safe Move, and the destination of
\* that row is another file with the same bytes.  (Docs: the committed operation
\* is persisted, and no destructive action depends on memory alone.)
ReleaseIsBacked ==
  [][\A m \in Media :
       disk[SourcePath[m]] # None /\ disk'[SourcePath[m]] = None =>
         \E o \in OpId : /\ ops[o].media = m
                         /\ ops[o].state = "SourceFinalizePending"
                         /\ ops[o].event # None => policy[ops[o].event].mode = "SafeMove"
                         /\ ops[o].dest # SourcePath[m]
                         /\ disk[ops[o].dest] = disk[SourcePath[m]]]_vars

\* The pcs at which a call's snapshot is in the table.
Executing == Uncommitted \cup {"committed", "finalize", "released"}

\* While a call runs, its row says what the call believes: every transition is
\* in the database before the effect that follows it.
TransitionsPersisted ==
  \A w \in Worker : pc[w] \in Executing =>
    /\ ops[call[w].op.id].state = call[w].op.state
    /\ ops[call[w].op.id].dest = call[w].op.dest

\* While the services run, a row in flight belongs to a running call, or to one
\* that was cancelled or lost its event: nothing is left behind silently.
InFlightOwned ==
  \A o \in OpId : up /\ ops[o].state \in InFlight \cup {"DestinationCommitted"} =>
    \/ o \in abandoned
    \/ \E w \in Worker : pc[w] \in Executing /\ call[w].op.id = o

\* Startup ends with nothing in flight and nothing merely committed.
StartupReconciles ==
  [][~up /\ up' => \A o \in OpId : ops'[o].state \notin InFlight \cup {"DestinationCommitted"}]_vars

\* Every operation in flight gets out of flight: it finishes, is set aside for
\* the user or, after a crash, is settled by the recovery of the next start.
\* Cancelled calls and calls whose event was deleted are the exception.
InFlightSettles ==
  \A o \in OpId : ops[o].state \in InFlight \cup {"DestinationCommitted"} ~>
    \/ ops[o].state \notin InFlight \cup {"DestinationCommitted"}
    \/ o \in abandoned

\* Startup recovery ends, whatever the crash left in the table and on disk.
StartupEnds == ~up ~> up

\* Seen from the shares, the engine only ever stores verified bytes under free
\* names and releases sources whose bytes are stored.
Verified == INSTANCE VerifiedMove
              WITH original <- origin,
                   source   <- [m \in Media |-> disk[SourcePath[m]]],
                   stored   <- [d \in Destination |-> disk[d]]
ImplementsVerifiedMove == Verified!Spec
=============================================================================
