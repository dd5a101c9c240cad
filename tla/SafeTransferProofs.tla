------------------------- MODULE SafeTransferProofs -------------------------
(***************************************************************************)
(* Theorems about SafeTransfer, for any media, events, paths, contents,    *)
(* workers, event settings and bounds.                                     *)
(*                                                                         *)
(* The argument is in layers.                                              *)
(*   Placed   types, and every operation in use names an indexed file and  *)
(*            a path below a destination share                             *)
(*   Claimed  inductive relative to Placed: whoever says "committed" names *)
(*            a file with the recorded bytes, if no source lies there, and *)
(*            until a source is rewritten from outside these are the bytes *)
(*            the source came with, or it has no need of them any more     *)
(*   Owned    who owns a row in flight, under all steps, the sync client   *)
(*            and requested recoveries included                            *)
(*   Mirrored, Staged                                                      *)
(*            while recovery runs only at startup, relative to Owned: the  *)
(*            table says what a running call believes                      *)
(*   Known    all of these; for disjoint shares a row accounts for each    *)
(*            source that is gone, or did until its call forgot it, and    *)
(*            the engine implements the abstract verified move             *)
(* Every step of a call has one of a few shapes (ExecuteShape).            *)
(***************************************************************************)
EXTENDS SafeTransfer, TLAPS

USE NoneAssumption, ConstantsAssumption

-----------------------------------------------------------------------------
(* The first layer.                                                        *)

\* An operation that names an indexed file and a path below a destination share.
Located(op) == op.media \in Media /\ op.dest \in Destination

Identified(op) == op.id \in OpId /\ Located(op)

RowsPlaced ==
  /\ ops \in [OpId -> Operation]
  /\ \A o \in OpId : ops[o].state # "Absent" => Identified(ops[o])

\* What the local variables c of a call hold at pc p.
CallPlaced(p, c) ==
  /\ p # "idle" => Located(c.op)
  /\ p \notin {"idle", "admitted"} => Identified(c.op)
  /\ p \in {"move", "moved"} => c.target \in Destination

CallsPlaced ==
  /\ pc \in [Worker -> WorkerPc]
  /\ call \in [Worker -> Call]
  /\ \A w \in Worker : CallPlaced(pc[w], call[w])

RecoveryPlaced ==
  /\ up \in BOOLEAN
  /\ rpc \in RecoverPc
  /\ todo \subseteq Operation
  /\ item \in Operation
  /\ \A r \in todo : Identified(r)
  /\ rpc \in {"delete", "complete"} => Identified(item)

FilesTyped ==
  /\ disk \in [Path -> Content \cup {None}]
  /\ staging \in [OpId -> Content \cup {None}]

RestTyped ==
  /\ events \subseteq Event
  /\ policy \in [Event -> Policy]
  /\ origin \in [Media -> Content \cup {None}]
  /\ exposed \subseteq Media
  /\ forgotten \subseteq Media
  /\ abandoned \subseteq OpId
  /\ crashes \in 0..MaxCrashes
  /\ requests \in 0..MaxRequests
  /\ syncs \in 0..MaxSyncs

Placed == RowsPlaced /\ CallsPlaced /\ RecoveryPlaced /\ FilesTyped /\ RestTyped

LEMMA PlacedTypes == Placed => TypeOK
  BY DEF Placed, RowsPlaced, CallsPlaced, RecoveryPlaced, FilesTyped, RestTyped, TypeOK

LEMMA NoOperationType == NoOperation \in Operation
  BY DEF NoOperation, Operation, OperationState, InFlight, Finishing, Finished, Waiting

LEMMA NoCallType == NoCall \in Call
  BY NoOperationType DEF NoCall, Call

\* A transition changes the state alone.
LEMMA ToFields ==
  \A op \in Operation, s \in OperationState :
    /\ To(op, s) \in Operation
    /\ To(op, s).id = op.id
    /\ To(op, s).media = op.media
    /\ To(op, s).event = op.event
    /\ To(op, s).state = s
    /\ To(op, s).dest = op.dest
    /\ To(op, s).srcHash = op.srcHash
    /\ To(op, s).dstHash = op.dstHash
  BY DEF To, Operation

LEMMA StateNames ==
  /\ {"RetryPending", "Quarantined", "Completed", "Ignored", "Failed", "Copying", "Verifying",
      "DestinationCommitted", "SourceFinalizePending", "TransferPending"} \subseteq OperationState
  BY DEF OperationState, InFlight, Finishing, Finished, Waiting

LEMMA ToPlaced ==
  \A op \in Operation, s \in OperationState :
    (Identified(op) => Identified(To(op, s))) /\ (Located(op) => Located(To(op, s)))
  BY ToFields DEF Identified, Located

LEMMA UpsertPlaced ==
  RowsPlaced => \A op \in Operation : Identified(op) /\ Upsert(op) => RowsPlaced'
  BY DEF RowsPlaced, Upsert

LEMMA ContinuePlaced ==
  CallsPlaced =>
    \A w \in Worker, next \in WorkerPc, c \in Call :
      Continue(w, next, c) /\ CallPlaced(next, c) => CallsPlaced'
  BY DEF CallsPlaced, Continue

LEMMA ReturnPlaced == CallsPlaced => \A w \in Worker : Return(w) => CallsPlaced'
<1>1. CallPlaced("idle", NoCall) /\ "idle" \in WorkerPc
  BY DEF CallPlaced, WorkerPc
<1> QED
  BY <1>1, ContinuePlaced, NoCallType DEF Return

LEMMA GotoPlaced ==
  CallsPlaced =>
    \A w \in Worker, next \in WorkerPc :
      /\ pc[w] \notin {"idle", "admitted"}
      /\ next \in {"move", "moved"} => pc[w] \in {"move", "moved"}
      /\ Goto(w, next)
      => CallsPlaced'
<1> SUFFICES ASSUME CallsPlaced, NEW w \in Worker, NEW next \in WorkerPc,
                    pc[w] \notin {"idle", "admitted"},
                    next \in {"move", "moved"} => pc[w] \in {"move", "moved"},
                    Goto(w, next)
             PROVE  CallsPlaced'
  OBVIOUS
<1>1. CallPlaced(next, call[w]) /\ call[w] \in Call
  BY DEF CallsPlaced, CallPlaced, Identified
<1> QED
  BY <1>1, ContinuePlaced DEF Goto

LEMMA SavePlaced ==
  RowsPlaced /\ CallsPlaced =>
    \A w \in Worker, op \in Operation, next \in WorkerPc :
      /\ Identified(op)
      /\ next \notin {"move", "moved"}
      /\ Save(w, op, next)
      => RowsPlaced' /\ CallsPlaced'
<1> SUFFICES ASSUME RowsPlaced, CallsPlaced,
                    NEW w \in Worker, NEW op \in Operation, NEW next \in WorkerPc,
                    Identified(op), next \notin {"move", "moved"}, Save(w, op, next)
             PROVE  RowsPlaced' /\ CallsPlaced'
  OBVIOUS
<1> DEFINE c == [call[w] EXCEPT !.op = op]
<1>0. call[w] \in Call
  BY DEF CallsPlaced
<1>1. c \in Call /\ c.op = op
  BY <1>0 DEF Call
<1>2. CallPlaced(next, c)
  BY <1>1 DEF CallPlaced, Identified
<1> QED
  BY <1>1, <1>2, UpsertPlaced, ContinuePlaced DEF Save

LEMMA FinishPlaced ==
  RowsPlaced /\ CallsPlaced =>
    \A w \in Worker, op \in Operation :
      Identified(op) /\ Finish(w, op) => RowsPlaced' /\ CallsPlaced'
  BY UpsertPlaced, ReturnPlaced DEF Finish

\* The call of a worker that executes, with its types.
LEMMA CallAt ==
  CallsPlaced =>
    \A w \in Worker :
      /\ call[w] \in Call
      /\ call[w].op \in Operation
      /\ call[w].hash \in Content \cup {None}
      /\ call[w].size \in Nat
      /\ pc[w] # "idle" => Located(call[w].op) /\ Source(call[w].op) \in Path
      /\ pc[w] \notin {"idle", "admitted"} => Identified(call[w].op)
      /\ pc[w] \in {"move", "moved"} => call[w].target \in Destination
  BY DEF CallsPlaced, CallPlaced, Call, Located, Source

-----------------------------------------------------------------------------
(* The first layer is inductive: the calls.                                *)

LEMMA BeginPlaced ==
  Placed => \A w \in Worker, m \in Media, e \in Event, via \in {"coordinator", "direct"} :
              Admit(w, m, e, via) => CallsPlaced'
<1> SUFFICES ASSUME Placed, NEW w \in Worker, NEW m \in Media, NEW e \in Event,
                    NEW via \in {"coordinator", "direct"}, Admit(w, m, e, via)
             PROVE  CallsPlaced'
  OBVIOUS
<1>1. disk[SourcePath[m]] \in Content
  BY DEF Admit, Admissible, Placed, FilesTyped
<1>2. PICK p \in Desired[m] :
        Continue(w, "admitted",
          [via |-> via, hash |-> None, target |-> None, size |-> Length[disk[SourcePath[m]]],
           op |-> [NoOperation EXCEPT !.media = m, !.event = e,
                                      !.state = "TransferPending", !.dest = p]])
  BY DEF Admit
<1> DEFINE op == [NoOperation EXCEPT !.media = m, !.event = e,
                                     !.state = "TransferPending", !.dest = p]
<1> DEFINE c == [via |-> via, hash |-> None, target |-> None,
                 size |-> Length[disk[SourcePath[m]]], op |-> op]
<1>3. op \in Operation /\ Located(op)
  BY StateNames DEF NoOperation, Operation, Located
<1>4. c \in Call /\ c.op = op
  BY <1>1, <1>3 DEF Call
<1>5. CallPlaced("admitted", c) /\ "admitted" \in WorkerPc
  BY <1>3, <1>4 DEF CallPlaced, WorkerPc
<1>6. Continue(w, "admitted", c)
  BY <1>2
<1> HIDE DEF c
<1> QED
  BY <1>4, <1>5, <1>6, ContinuePlaced DEF Placed

\* What an action leaves alone stays placed.
LEMMA Untouched ==
  Placed =>
    /\ UNCHANGED ops => RowsPlaced'
    /\ UNCHANGED calls => CallsPlaced'
    /\ UNCHANGED recover => RecoveryPlaced'
    /\ UNCHANGED files => FilesTyped'
    /\ UNCHANGED <<config, abandoned, bounds>> => RestTyped'
<1> SUFFICES ASSUME Placed
             PROVE  /\ UNCHANGED ops => RowsPlaced'
                    /\ UNCHANGED calls => CallsPlaced'
                    /\ UNCHANGED recover => RecoveryPlaced'
                    /\ UNCHANGED files => FilesTyped'
                    /\ UNCHANGED <<config, abandoned, bounds>> => RestTyped'
  OBVIOUS
<1>1. UNCHANGED ops => RowsPlaced'
  BY DEF Placed, RowsPlaced
<1>2. UNCHANGED calls => CallsPlaced'
  BY DEF Placed, CallsPlaced, calls
<1>3. UNCHANGED recover => RecoveryPlaced'
  BY DEF Placed, RecoveryPlaced, recover
<1>4. UNCHANGED files => FilesTyped'
  BY DEF Placed, FilesTyped, files
<1>5. UNCHANGED <<config, abandoned, bounds>> => RestTyped'
  BY DEF Placed, RestTyped, config, bounds, history
<1> QED
  BY <1>1, <1>2, <1>3, <1>4, <1>5

LEMMA PcNames ==
  /\ {"idle", "admitted", "hash", "resolve", "copying", "copied", "verify", "commit", "move",
      "moved", "committed", "finalize", "released", "supersede", "direct"} = WorkerPc
  /\ Uncommitted = {"hash", "resolve", "copying", "copied", "verify", "commit", "move", "moved"}
  BY DEF WorkerPc, Uncommitted

LEMMA AdoptPlaced ==
  Placed =>
    \A w \in Worker, p \in Destination :
      pc[w] \notin {"idle", "admitted"} /\ Adopt(w, p) => RowsPlaced' /\ CallsPlaced'
<1> SUFFICES ASSUME Placed, NEW w \in Worker, NEW p \in Destination,
                    pc[w] \notin {"idle", "admitted"}, Adopt(w, p)
             PROVE  RowsPlaced' /\ CallsPlaced'
  OBVIOUS
<1> DEFINE copy == [call[w].op EXCEPT !.dest = p, !.srcHash = call[w].hash,
                                      !.dstHash = call[w].hash]
<1>1. call[w].op \in Operation /\ Identified(call[w].op)
      /\ call[w].hash \in Content \cup {None}
  BY CallAt DEF Placed
<1>2. copy \in Operation /\ Identified(copy)
  BY <1>1 DEF Operation, Identified, Located
<1>3. \/ Save(w, To(copy, "DestinationCommitted"), "committed")
      \/ Finish(w, To(copy, "Ignored"))
  BY DEF Adopt
<1> HIDE DEF copy
<1>4. /\ To(copy, "DestinationCommitted") \in Operation
      /\ Identified(To(copy, "DestinationCommitted"))
      /\ To(copy, "Ignored") \in Operation
      /\ Identified(To(copy, "Ignored"))
  BY <1>2, ToFields, ToPlaced, StateNames
<1>5. CASE Save(w, To(copy, "DestinationCommitted"), "committed")
  BY <1>4, <1>5, SavePlaced, PcNames DEF Placed
<1>6. CASE Finish(w, To(copy, "Ignored"))
  BY <1>4, <1>6, FinishPlaced DEF Placed
<1> QED
  BY <1>3, <1>5, <1>6

\* A path the history names is below a destination share.
LEMMA StoredPlaced ==
  RowsPlaced =>
    \A hash, m : \A copy \in StoredCopies(hash, m) : copy # None => copy \in Destination
<1> SUFFICES ASSUME RowsPlaced, NEW hash, NEW m, NEW copy \in StoredCopies(hash, m),
                    copy # None
             PROVE  copy \in Destination
  OBVIOUS
<1>1. PICK o \in FindByDestinationHash(ops, hash, m) :
        copy = IF disk[ops[o].dest] = hash THEN ops[o].dest ELSE None
  BY DEF StoredCopies
<1>2. o \in OpId /\ ops[o].state # "Absent"
  BY <1>1 DEF FindByDestinationHash, Finishing, Finished
<1> QED
  BY <1>1, <1>2 DEF RowsPlaced, Identified, Located

\* A saved or final row of the call's own operation.
LEMMA OwnRow ==
  Placed =>
    \A w \in Worker, s \in OperationState :
      pc[w] \notin {"idle", "admitted"} =>
        /\ To(call[w].op, s) \in Operation
        /\ Identified(To(call[w].op, s))
        /\ Finish(w, To(call[w].op, s)) => RowsPlaced' /\ CallsPlaced'
        /\ \A next \in WorkerPc \ {"move", "moved"} :
             Save(w, To(call[w].op, s), next) => RowsPlaced' /\ CallsPlaced'
<1> SUFFICES ASSUME Placed, NEW w \in Worker, NEW s \in OperationState,
                    pc[w] \notin {"idle", "admitted"}
             PROVE  /\ To(call[w].op, s) \in Operation
                    /\ Identified(To(call[w].op, s))
                    /\ Finish(w, To(call[w].op, s)) => RowsPlaced' /\ CallsPlaced'
                    /\ \A next \in WorkerPc \ {"move", "moved"} :
                         Save(w, To(call[w].op, s), next) => RowsPlaced' /\ CallsPlaced'
  OBVIOUS
<1>1. call[w].op \in Operation /\ Identified(call[w].op)
  BY CallAt DEF Placed
<1>2. To(call[w].op, s) \in Operation /\ Identified(To(call[w].op, s))
  BY <1>1, ToFields, ToPlaced
<1> QED
  BY <1>2, FinishPlaced, SavePlaced DEF Placed

\* The call's local variables where the actions below read them.
LEMMA RunningCall ==
  Placed =>
    \A w \in Worker :
      pc[w] \notin {"idle", "admitted"} =>
        /\ call[w] \in Call
        /\ call[w].op \in Operation
        /\ Identified(call[w].op)
        /\ call[w].op.id \in OpId
        /\ call[w].hash \in Content \cup {None}
        /\ Source(call[w].op) \in Path
        /\ disk[Source(call[w].op)] \in Content \cup {None}
        /\ staging[call[w].op.id] \in Content \cup {None}
        /\ pc[w] \in {"move", "moved"} => /\ call[w].target \in Destination
                                          /\ disk[call[w].target] \in Content \cup {None}
<1> SUFFICES ASSUME Placed, NEW w \in Worker, pc[w] \notin {"idle", "admitted"}
             PROVE  /\ call[w] \in Call
                    /\ call[w].op \in Operation
                    /\ Identified(call[w].op)
                    /\ call[w].op.id \in OpId
                    /\ call[w].hash \in Content \cup {None}
                    /\ Source(call[w].op) \in Path
                    /\ disk[Source(call[w].op)] \in Content \cup {None}
                    /\ staging[call[w].op.id] \in Content \cup {None}
                    /\ pc[w] \in {"move", "moved"} =>
                         /\ call[w].target \in Destination
                         /\ disk[call[w].target] \in Content \cup {None}
  OBVIOUS
<1>1. /\ call[w] \in Call
      /\ call[w].op \in Operation
      /\ Identified(call[w].op)
      /\ call[w].hash \in Content \cup {None}
      /\ Source(call[w].op) \in Path
      /\ pc[w] \in {"move", "moved"} => call[w].target \in Destination
  BY CallAt DEF Placed
<1> QED
  BY <1>1 DEF Placed, FilesTyped, Identified

LEMMA DropPlaced == Placed => \A w \in Worker : Drop(w) => Placed'
<1> SUFFICES ASSUME Placed, NEW w \in Worker, Drop(w) PROVE Placed'
  OBVIOUS
<1>1. CallsPlaced'
  BY ReturnPlaced DEF Drop, Placed
<1>2. RestTyped'
  <2>1. call[w].op.id \in OpId \cup {None}
    BY CallAt DEF Placed, Operation
  <2> QED
    BY <2>1 DEF Drop, Placed, RestTyped, config, bounds, history
<1> QED
  BY <1>1, <1>2, Untouched DEF Drop, Placed

\* Every step of a call keeps the first layer.
LEMMA ExecutePlaced == Placed => \A w \in Worker : Execute(w) => Placed'
<1> SUFFICES ASSUME Placed, NEW w \in Worker, Execute(w) PROVE Placed'
  OBVIOUS
<1> DEFINE op == call[w].op
<1> USE DEF WorkerPc
<1>r. CASE Record(w)
  <2>1. PICK o \in OpId : Save(w, [op EXCEPT !.id = o], "hash")
    BY <1>r DEF Record
  <2>2. pc[w] = "admitted" /\ op \in Operation /\ Located(op)
    BY <1>r, CallAt DEF Record, Placed
  <2>3. [op EXCEPT !.id = o] \in Operation /\ Identified([op EXCEPT !.id = o])
    BY <2>2 DEF Operation, Identified, Located
  <2>4. RowsPlaced' /\ CallsPlaced'
    BY <2>1, <2>3, SavePlaced DEF Placed
  <2> QED
    BY <1>r, <2>4, Untouched DEF Record, Placed
<1>h. CASE HashSource(w)
  <2>0. /\ pc[w] = "hash" /\ call[w] \in Call /\ Identified(op)
        /\ disk[Source(op)] \in Content \cup {None}
    BY <1>h, RunningCall DEF HashSource
  <2>1. /\ [call[w] EXCEPT !.hash = disk[Source(op)]] \in Call
        /\ [call[w] EXCEPT !.hash = disk[Source(op)]].op = op
    BY <2>0 DEF Call
  <2>2. CallPlaced("resolve", [call[w] EXCEPT !.hash = disk[Source(op)]])
    BY <2>0, <2>1 DEF CallPlaced, Identified
  <2>3. CallsPlaced'
    BY <1>h, <2>1, <2>2, ContinuePlaced DEF HashSource, Placed
  <2> QED
    BY <1>h, <2>3, Untouched DEF HashSource, Placed
<1>res. CASE Resolve(w)
  <2>1. pc[w] = "resolve" /\ op \in Operation /\ Identified(op)
        /\ call[w].hash \in Content \cup {None}
    BY <1>res, RunningCall DEF Resolve
  <2>2. PICK copy \in StoredCopies(call[w].hash, op.media) :
          \/ copy # None /\ Adopt(w, copy)
          \/ Finish(w, To(op, "Quarantined"))
          \/ \E p \in Destination :
               \/ Adopt(w, p)
               \/ Save(w, [op EXCEPT !.state = "Copying", !.dest = p, !.srcHash = call[w].hash],
                       "copying")
    BY <1>res DEF Resolve
  <2>3. ASSUME copy # None /\ Adopt(w, copy)
        PROVE  RowsPlaced' /\ CallsPlaced'
    BY <2>1, <2>3, StoredPlaced, AdoptPlaced DEF Placed
  <2>4. ASSUME Finish(w, To(op, "Quarantined"))
        PROVE  RowsPlaced' /\ CallsPlaced'
    BY <2>1, <2>4, OwnRow, StateNames
  <2>5. ASSUME NEW p \in Destination, Adopt(w, p) PROVE RowsPlaced' /\ CallsPlaced'
    BY <2>1, <2>5, AdoptPlaced
  <2>6. ASSUME NEW p \in Destination,
               Save(w, [op EXCEPT !.state = "Copying", !.dest = p, !.srcHash = call[w].hash],
                    "copying")
        PROVE  RowsPlaced' /\ CallsPlaced'
    <3> DEFINE next == [op EXCEPT !.state = "Copying", !.dest = p, !.srcHash = call[w].hash]
    <3>1. next \in Operation /\ Identified(next)
      BY <2>1, StateNames DEF Operation, Identified, Located
    <3> QED
      BY <2>6, <3>1, SavePlaced DEF Placed
  <2>7. RowsPlaced' /\ CallsPlaced'
    BY <2>2, <2>3, <2>4, <2>5, <2>6
  <2> QED
    BY <1>res, <2>7, Untouched DEF Resolve, Placed
<1>c. CASE Copy(w)
  <2>1. CallsPlaced'
    BY <1>c, GotoPlaced DEF Copy, Placed
  <2>2. disk[Source(op)] \in Content /\ Garbage \subseteq Content
    BY <1>c, RunningCall DEF Copy
  <2>3. FilesTyped'
    BY <1>c, <2>2 DEF Copy, Placed, FilesTyped
  <2> QED
    BY <1>c, <2>1, <2>3, Untouched DEF Copy, Placed
<1>s. CASE StartVerifying(w)
  <2>1. RowsPlaced' /\ CallsPlaced'
    BY <1>s, OwnRow, StateNames DEF StartVerifying
  <2> QED
    BY <1>s, <2>1, Untouched DEF StartVerifying, Placed
<1>v. CASE Verify(w)
  <2>1. /\ pc[w] = "verify" /\ op \in Operation /\ Identified(op)
        /\ disk[Source(op)] \in Content \cup {None}
        /\ staging[op.id] \in Content \cup {None}
    BY <1>v, RunningCall DEF Verify
  <2> DEFINE next == [op EXCEPT !.state = "Quarantined", !.srcHash = disk[Source(op)],
                                !.dstHash = staging[op.id]]
  <2>2. \/ Finish(w, To(op, "Quarantined"))
        \/ Finish(w, next)
        \/ Goto(w, "commit") /\ UNCHANGED ops
    BY <1>v DEF Verify
  <2>3. ASSUME Finish(w, To(op, "Quarantined"))
        PROVE  RowsPlaced' /\ CallsPlaced'
    BY <2>1, <2>3, OwnRow, StateNames
  <2>4. ASSUME Finish(w, next)
        PROVE  RowsPlaced' /\ CallsPlaced'
    <3>1. next \in Operation /\ Identified(next)
      BY <2>1, StateNames DEF Operation, Identified, Located
    <3> QED
      BY <2>4, <3>1, FinishPlaced DEF Placed
  <2>5. ASSUME Goto(w, "commit") /\ UNCHANGED ops
        PROVE  RowsPlaced' /\ CallsPlaced'
    BY <2>1, <2>5, GotoPlaced, Untouched DEF Placed
  <2>6. RowsPlaced' /\ CallsPlaced'
    BY <2>2, <2>3, <2>4, <2>5
  <2> QED
    BY <1>v, <2>6, Untouched DEF Verify, Placed
<1>co. CASE Commit(w)
  <2>1. pc[w] = "commit" /\ op \in Operation /\ Identified(op) /\ call[w] \in Call
    BY <1>co, RunningCall DEF Commit
  <2>2. \/ Finish(w, To(op, "Quarantined")) /\ UNCHANGED staging
        \/ \E p \in Destination :
             \/ staging' = [staging EXCEPT ![op.id] = None] /\ Adopt(w, p)
             \/ Continue(w, "move", [call[w] EXCEPT !.target = p]) /\ UNCHANGED <<staging, ops>>
    BY <1>co DEF Commit
  <2>3. FilesTyped'
    BY <1>co, <2>2 DEF Commit, Placed, FilesTyped
  <2>4. ASSUME Finish(w, To(op, "Quarantined"))
        PROVE  RowsPlaced' /\ CallsPlaced'
    BY <2>1, <2>4, OwnRow, StateNames
  <2>5. ASSUME NEW p \in Destination, Adopt(w, p) PROVE RowsPlaced' /\ CallsPlaced'
    BY <2>1, <2>5, AdoptPlaced
  <2>6. ASSUME NEW p \in Destination,
               Continue(w, "move", [call[w] EXCEPT !.target = p]), UNCHANGED ops
        PROVE  RowsPlaced' /\ CallsPlaced'
    <3>1. /\ [call[w] EXCEPT !.target = p] \in Call
          /\ [call[w] EXCEPT !.target = p].op = op
          /\ [call[w] EXCEPT !.target = p].target = p
      BY <2>1 DEF Call
    <3>2. CallPlaced("move", [call[w] EXCEPT !.target = p])
      BY <2>1, <3>1 DEF CallPlaced, Identified
    <3> QED
      BY <2>6, <3>1, <3>2, ContinuePlaced, Untouched DEF Placed
  <2>7. RowsPlaced' /\ CallsPlaced'
    BY <2>2, <2>4, <2>5, <2>6
  <2> QED
    BY <1>co, <2>3, <2>7, Untouched DEF Commit, Placed
<1>m. CASE Move(w)
  <2>1. CallsPlaced'
    BY <1>m, GotoPlaced DEF Move, Placed
  <2>2. FilesTyped'
    BY <1>m, RunningCall DEF Move, Placed, FilesTyped
  <2> QED
    BY <1>m, <2>1, <2>2, Untouched DEF Move, Placed
<1>cd. CASE CheckDestination(w)
  <2>1. /\ pc[w] = "moved" /\ op \in Operation /\ Identified(op)
        /\ call[w].hash \in Content \cup {None}
        /\ call[w].target \in Destination
        /\ disk[call[w].target] \in Content \cup {None}
    BY <1>cd, RunningCall DEF CheckDestination
  <2> DEFINE a == [op EXCEPT !.state = "Quarantined", !.dest = call[w].target]
             b == [op EXCEPT !.state = "Quarantined", !.dest = call[w].target,
                             !.dstHash = disk[call[w].target]]
             c == [op EXCEPT !.state = "DestinationCommitted", !.dest = call[w].target,
                             !.srcHash = call[w].hash, !.dstHash = disk[call[w].target]]
  <2>2. Finish(w, a) \/ Finish(w, b) \/ Save(w, c, "committed")
    BY <1>cd DEF CheckDestination
  <2>3. a \in Operation /\ Identified(a)
    BY <2>1, StateNames DEF Operation, Identified, Located
  <2>4. b \in Operation /\ Identified(b)
    BY <2>1, StateNames DEF Operation, Identified, Located
  <2>5. c \in Operation /\ Identified(c)
    BY <2>1, StateNames DEF Operation, Identified, Located
  <2> HIDE DEF a, b, c
  <2>6. RowsPlaced' /\ CallsPlaced'
    BY <2>2, <2>3, <2>4, <2>5, FinishPlaced, SavePlaced DEF Placed
  <2> QED
    BY <1>cd, <2>6, Untouched DEF CheckDestination, Placed
<1>se. CASE Settle(w)
  <2>1. RowsPlaced' /\ CallsPlaced'
    BY <1>se, OwnRow, StateNames DEF Settle
  <2> QED
    BY <1>se, <2>1, Untouched DEF Settle, Placed
<1>rel. CASE Release(w)
  <2>1. CallsPlaced'
    BY <1>rel, GotoPlaced DEF Release, Placed
  <2>2. FilesTyped'
    BY <1>rel DEF Release, DeleteSource, Placed, FilesTyped
  <2>3. RestTyped'
    BY <1>rel, RunningCall DEF Release, DeleteSource, Placed, RestTyped, config, Identified, Located
  <2> QED
    BY <1>rel, <2>1, <2>2, <2>3, Untouched DEF Release, Placed
<1>cm. CASE Complete(w)
  <2>1. RowsPlaced' /\ CallsPlaced'
    BY <1>cm, OwnRow, StateNames DEF Complete
  <2> QED
    BY <1>cm, <2>1, Untouched DEF Complete, Placed
<1>f. CASE Fail(w)
  <2>1. RowsPlaced' /\ CallsPlaced'
    BY <1>f, OwnRow, StateNames DEF Fail, Uncommitted
  <2>2. FilesTyped'
    BY <1>f DEF Fail, Placed, FilesTyped
  <2> QED
    BY <1>f, <2>1, <2>2, Untouched DEF Fail, Placed
<1>ff. CASE FinalizeFails(w)
  <2>1. RowsPlaced' /\ CallsPlaced'
    BY <1>ff, OwnRow, StateNames DEF FinalizeFails
  <2> QED
    BY <1>ff, <2>1, Untouched DEF FinalizeFails, Placed
<1>af. CASE AdoptionForgotten(w)
  <2> DEFINE row == [op EXCEPT !.state = "RetryPending", !.dstHash = None]
  <2>1. op \in Operation /\ Identified(op)
    BY <1>af, RunningCall DEF AdoptionForgotten
  <2>2. row \in Operation
    BY <2>1, StateNames DEF Operation
  <2>3. row.id = op.id /\ row.media = op.media /\ row.dest = op.dest /\ row.event = op.event
    BY <2>1 DEF Operation
  <2> HIDE DEF row
  <2>4. Identified(row)
    BY <2>1, <2>3 DEF Identified, Located
  <2>5. RowsPlaced' /\ CallsPlaced'
    BY <1>af, <2>2, <2>4, FinishPlaced DEF AdoptionForgotten, Placed, row
  <2>6. RestTyped'
    BY <1>af, <2>1 DEF AdoptionForgotten, Placed, RestTyped, config, Identified, Located
  <2> QED
    BY <1>af, <2>5, <2>6, Untouched DEF AdoptionForgotten, Placed
<1>eg. CASE EventGone(w)
  <2>1. Drop(w) /\ pc[w] \notin {"idle"}
    BY <1>eg DEF EventGone
  <2> QED
    BY <2>1, DropPlaced
<1>su. CASE Supersede(w)
  <2>1. RowsPlaced' /\ CallsPlaced'
    BY <1>su, OwnRow, StateNames DEF Supersede
  <2>2. FilesTyped'
    BY <1>su DEF Supersede, Placed, FilesTyped
  <2> QED
    BY <1>su, <2>1, <2>2, Untouched DEF Supersede, Placed
<1>ed. CASE ExecuteDirect(w)
  <2>1. CASE Return(w)
    BY <1>ed, <2>1, ReturnPlaced, Untouched DEF ExecuteDirect, Placed
  <2>2. CASE Admit(w, op.media, op.event, "direct")
    <3>1. op.media \in Media /\ op.event \in Event
      BY <2>2 DEF Admit, Admissible
    <3> QED
      BY <1>ed, <2>2, <3>1, BeginPlaced, Untouched DEF ExecuteDirect, Placed
  <2> QED
    BY <1>ed, <2>1, <2>2 DEF ExecuteDirect
<1> QED
  BY <1>r, <1>h, <1>res, <1>c, <1>s, <1>v, <1>co, <1>m, <1>cd, <1>se, <1>rel, <1>cm, <1>f,
     <1>ff, <1>af, <1>eg, <1>su, <1>ed DEF Execute

-----------------------------------------------------------------------------
(* The first layer is inductive: users, recovery and the outside world.    *)

\* A call that RetryAsync or RouteAgainAsync starts holds the row it read.
LEMMA DirectPlaced ==
  Placed =>
    \A w \in Worker, o \in OpId :
      /\ ops[o].state # "Absent"
      /\ Continue(w, "supersede", [NoCall EXCEPT !.via = "direct", !.op = ops[o]])
      => CallsPlaced'
<1> SUFFICES ASSUME Placed, NEW w \in Worker, NEW o \in OpId,
                    ops[o].state # "Absent",
                    Continue(w, "supersede", [NoCall EXCEPT !.via = "direct", !.op = ops[o]])
             PROVE  CallsPlaced'
  OBVIOUS
<1> DEFINE c == [NoCall EXCEPT !.via = "direct", !.op = ops[o]]
<1>1. ops[o] \in Operation /\ Identified(ops[o])
  BY DEF Placed, RowsPlaced
<1>2. c \in Call /\ c.op = ops[o]
  BY <1>1, NoCallType DEF Call
<1>3. CallPlaced("supersede", c) /\ "supersede" \in WorkerPc
  BY <1>1, <1>2 DEF CallPlaced, Identified, WorkerPc
<1> HIDE DEF c
<1> QED
  BY <1>2, <1>3, ContinuePlaced DEF Placed, c

\* A row that exists may be rewritten in any state.
LEMMA RowRewritten ==
  Placed =>
    \A o \in OpId, s \in OperationState :
      ops[o].state # "Absent" /\ Upsert(To(ops[o], s)) => RowsPlaced'
<1> SUFFICES ASSUME Placed, NEW o \in OpId, NEW s \in OperationState,
                    ops[o].state # "Absent", Upsert(To(ops[o], s))
             PROVE  RowsPlaced'
  OBVIOUS
<1>1. ops[o] \in Operation /\ Identified(ops[o])
  BY DEF Placed, RowsPlaced
<1> QED
  BY <1>1, ToFields, ToPlaced, UpsertPlaced DEF Placed

LEMMA UserPlaced == Placed /\ User => Placed'
<1> SUFFICES ASSUME Placed, User PROVE Placed'
  OBVIOUS
<1>1. ASSUME NEW w \in Worker, NEW o \in OpId, Retry(w, o) PROVE Placed'
  <2>1. CallsPlaced'
    BY <1>1, DirectPlaced DEF Retry, Waiting
  <2> QED
    BY <1>1, <2>1, Untouched DEF Retry, Placed
<1>2. ASSUME NEW w \in Worker, NEW o \in OpId, RouteAgain(w, o) PROVE Placed'
  <2>1. CallsPlaced'
    BY <1>2, DirectPlaced DEF RouteAgain
  <2> QED
    BY <1>2, <2>1, Untouched DEF RouteAgain, Placed
<1>3. ASSUME NEW o \in OpId, Dismiss(o) PROVE Placed'
  <2>1. RowsPlaced'
    BY <1>3, RowRewritten, StateNames DEF Dismiss
  <2> QED
    BY <1>3, <2>1, Untouched DEF Dismiss, Placed
<1>4. ASSUME NEW e \in Event, SupersedeEvent(e) PROVE Placed'
  <2>1. ASSUME NEW o \in OpId
        PROVE  /\ ops'[o] \in Operation
               /\ ops'[o].state # "Absent" => Identified(ops'[o])
    <3>1. ops[o] \in Operation /\ (ops[o].state # "Absent" => Identified(ops[o]))
      BY DEF Placed, RowsPlaced
    <3>2. CASE ops[o].event = e /\ ops[o].state \in {"Completed", "Ignored"}
      <4>1. ops'[o] = To(ops[o], "Failed")
        BY <1>4, <3>2 DEF SupersedeEvent
      <4>2. "Failed" \in OperationState /\ Identified(ops[o])
        BY <3>1, <3>2, StateNames
      <4>3. To(ops[o], "Failed") \in Operation /\ Identified(To(ops[o], "Failed"))
        BY <3>1, <4>2, ToFields, ToPlaced
      <4> QED
        BY <4>1, <4>3
    <3>3. CASE ~(ops[o].event = e /\ ops[o].state \in {"Completed", "Ignored"})
      <4>1. ops'[o] = ops[o]
        BY <1>4, <3>3 DEF SupersedeEvent
      <4> QED
        BY <3>1, <4>1
    <3> QED
      BY <3>2, <3>3
  <2>2. ops' = [o \in OpId |-> ops'[o]]
    BY <1>4 DEF SupersedeEvent
  <2>3. RowsPlaced'
    BY <2>1, <2>2 DEF RowsPlaced
  <2> QED
    BY <1>4, <2>3, Untouched DEF SupersedeEvent, Placed
<1>5. ASSUME NEW e \in Event, DeleteEvent(e) PROVE Placed'
  <2>1. ASSUME NEW o \in OpId
        PROVE  /\ ops'[o] \in Operation
               /\ ops'[o].state # "Absent" => Identified(ops'[o])
    <3>1. ops[o] \in Operation /\ (ops[o].state # "Absent" => Identified(ops[o]))
      BY DEF Placed, RowsPlaced
    <3> DEFINE r == [ops[o] EXCEPT !.event = None]
    <3>2. ops'[o] = ops[o] \/ ops'[o] = r
      BY <1>5 DEF DeleteEvent
    <3>3. /\ r \in Operation /\ r.state = ops[o].state
          /\ Identified(ops[o]) => Identified(r)
      BY <3>1 DEF Operation, Identified, Located
    <3> HIDE DEF r
    <3>4. CASE ops'[o] = r
      BY <3>1, <3>3, <3>4
    <3>5. CASE ops'[o] = ops[o]
      BY <3>1, <3>5
    <3> QED
      BY <3>2, <3>4, <3>5
  <2>2. ops' = [o \in OpId |-> ops'[o]]
    BY <1>5 DEF DeleteEvent
  <2>3. RowsPlaced'
    BY <2>1, <2>2 DEF RowsPlaced
  <2>4. RestTyped'
    BY <1>5 DEF DeleteEvent, Placed, RestTyped, bounds, history
  <2> QED
    BY <1>5, <2>3, <2>4, Untouched DEF DeleteEvent, Placed
<1>6. ASSUME NEW w \in Worker, Cancel(w) PROVE Placed'
  BY <1>6, DropPlaced DEF Cancel
<1> QED
  BY <1>1, <1>2, <1>3, <1>4, <1>5, <1>6 DEF User

\* A row of recovery's list, or the one it is finishing, may be written back.
LEMMA ResolvedPlaced ==
  Placed =>
    \A r \in Operation, s \in OperationState :
      Identified(r) /\ Resolved(r, s) => Placed'
<1> SUFFICES ASSUME Placed, NEW r \in Operation, NEW s \in OperationState,
                    Identified(r), Resolved(r, s)
             PROVE  Placed'
  OBVIOUS
<1>1. RowsPlaced'
  BY ToFields, ToPlaced, UpsertPlaced DEF Resolved, Placed
<1>2. RecoveryPlaced'
  BY NoOperationType DEF Resolved, Placed, RecoveryPlaced, RecoverPc
<1> QED
  BY <1>1, <1>2, Untouched DEF Resolved, Placed

LEMMA RecoverPlaced == Placed /\ (Recover \/ RequestRecovery) => Placed'
<1> SUFFICES ASSUME Placed, Recover \/ RequestRecovery PROVE Placed'
  OBVIOUS
<1>0. \A r \in todo : r \in Operation /\ Identified(r)
  BY DEF Placed, RecoveryPlaced
<1>i. rpc \in {"delete", "complete"} => item \in Operation /\ Identified(item)
  BY DEF Placed, RecoveryPlaced
<1>1. CASE RecoverList
  <2>1. ListIncomplete(ops) \subseteq Operation /\ \A r \in ListIncomplete(ops) : Identified(r)
    BY DEF ListIncomplete, Placed, RowsPlaced
  <2>2. RecoveryPlaced'
    BY <1>1, <2>1 DEF RecoverList, Placed, RecoveryPlaced, RecoverPc
  <2> QED
    BY <1>1, <2>2, Untouched DEF RecoverList, Placed
<1>2. CASE RecoverDelete
  <2>1. RecoveryPlaced'
    BY <1>2 DEF RecoverDelete, Placed, RecoveryPlaced, RecoverPc
  <2>2. FilesTyped'
    BY <1>2 DEF RecoverDelete, DeleteSource, Placed, FilesTyped
  <2>3. RestTyped'
    BY <1>2, <1>i DEF RecoverDelete, DeleteSource, Placed, RestTyped, config, Identified, Located
  <2> QED
    BY <1>2, <2>1, <2>2, <2>3, Untouched DEF RecoverDelete, Placed
<1>3. CASE RecoverComplete
  BY <1>3, <1>i, ResolvedPlaced, StateNames DEF RecoverComplete
<1>4. CASE RecoverFails
  BY <1>4, <1>0, <1>i, ResolvedPlaced, StateNames DEF RecoverFails
<1>5. CASE RecoverEnd
  <2>1. RecoveryPlaced'
    BY <1>5, NoOperationType DEF RecoverEnd, Placed, RecoveryPlaced, RecoverPc
  <2> QED
    BY <1>5, <2>1, Untouched DEF RecoverEnd, Placed
<1>6. ASSUME NEW r \in todo, RecoverUncommitted(r) PROVE Placed'
  BY <1>0, <1>6, ResolvedPlaced, StateNames DEF RecoverUncommitted
<1>7. ASSUME NEW r \in todo, RecoverCommitted(r) PROVE Placed'
  <2>1. \/ Resolved(r, "Quarantined")
        \/ Resolved(r, "Completed")
        \/ /\ Upsert(To(r, "SourceFinalizePending"))
           /\ todo' = todo \ {r}
           /\ item' = To(r, "SourceFinalizePending")
           /\ rpc' = "delete"
           /\ UNCHANGED <<files, config, calls, up, abandoned, bounds>>
    BY <1>7 DEF RecoverCommitted
  <2>2. CASE Resolved(r, "Quarantined") \/ Resolved(r, "Completed")
    BY <1>0, <2>2, ResolvedPlaced, StateNames
  <2>3. CASE /\ Upsert(To(r, "SourceFinalizePending"))
             /\ todo' = todo \ {r}
             /\ item' = To(r, "SourceFinalizePending")
             /\ rpc' = "delete"
             /\ UNCHANGED <<files, config, calls, up, abandoned, bounds>>
    <3>1. /\ To(r, "SourceFinalizePending") \in Operation
          /\ Identified(To(r, "SourceFinalizePending"))
      BY <1>0, ToFields, ToPlaced, StateNames
    <3>2. RowsPlaced'
      BY <2>3, <3>1, UpsertPlaced DEF Placed
    <3>3. RecoveryPlaced'
      BY <2>3, <3>1 DEF Placed, RecoveryPlaced, RecoverPc
    <3> QED
      BY <2>3, <3>2, <3>3, Untouched DEF Placed
  <2> QED
    BY <2>1, <2>2, <2>3
<1>8. CASE RequestRecovery
  <2>1. RecoveryPlaced'
    BY <1>8 DEF RequestRecovery, Placed, RecoveryPlaced, RecoverPc
  <2>2. RestTyped'
    BY <1>8 DEF RequestRecovery, Placed, RestTyped, config, history
  <2> QED
    BY <1>8, <2>1, <2>2, Untouched DEF RequestRecovery, Placed
<1> QED
  BY <1>1, <1>2, <1>3, <1>4, <1>5, <1>6, <1>7, <1>8 DEF Recover

LEMMA CrashPlaced == Placed /\ Crash => Placed'
<1> SUFFICES ASSUME Placed, Crash PROVE Placed'
  OBVIOUS
<1>1. CallsPlaced'
  BY NoCallType DEF Crash, CallsPlaced, CallPlaced, WorkerPc
<1>2. RecoveryPlaced'
  BY NoOperationType DEF Crash, RecoveryPlaced, RecoverPc
<1>3. FilesTyped'
  <2>1. PICK bytes \in Garbage \cup {None} :
          staging' = [o \in OpId |-> IF \E w \in Worker : pc[w] = "copying" /\ call[w].op.id = o
                                    THEN bytes ELSE staging[o]]
    BY DEF Crash
  <2>2. bytes \in Content \cup {None}
    OBVIOUS
  <2> QED
    BY <2>1, <2>2 DEF Crash, Placed, FilesTyped
<1>4. RestTyped'
  BY DEF Crash, Placed, RestTyped, config, history
<1> QED
  BY <1>1, <1>2, <1>3, <1>4, Untouched DEF Crash, Placed

LEMMA SyncPlaced == Placed => \A m \in Media : Sync(m) => Placed'
<1> SUFFICES ASSUME Placed, NEW m \in Media, Sync(m) PROVE Placed'
  OBVIOUS
<1>1. FilesTyped'
  BY DEF Sync, Placed, FilesTyped
<1>2. RestTyped'
  BY DEF Sync, Placed, RestTyped, config, history
<1> QED
  BY <1>1, <1>2, Untouched DEF Sync, Placed

LEMMA InitPlaced == Init => Placed
<1> SUFFICES ASSUME Init PROVE Placed
  OBVIOUS
<1>1. RowsPlaced
  BY NoOperationType DEF Init, RowsPlaced, NoOperation
<1>2. CallsPlaced
  BY NoCallType DEF Init, CallsPlaced, CallPlaced, WorkerPc
<1>3. RecoveryPlaced
  BY NoOperationType DEF Init, RecoveryPlaced, RecoverPc
<1>4. FilesTyped
  <2>1. \A p \in Path : (IF \E m \in Present : SourcePath[m] = p
                         THEN origin[CHOOSE m \in Present : SourcePath[m] = p]
                         ELSE None) \in Content \cup {None}
    BY DEF Init
  <2> QED
    BY <2>1 DEF Init, FilesTyped
<1>5. RestTyped
  <2>1. policy \in [Event -> Policy]
    BY DEF Init
  <2>2. 0 \in 0..MaxCrashes /\ 0 \in 0..MaxRequests /\ 0 \in 0..MaxSyncs
    BY SMT
  <2> QED
    BY <2>1, <2>2 DEF Init, RestTyped
<1> QED
  BY <1>1, <1>2, <1>3, <1>4, <1>5 DEF Placed

LEMMA NextPlaced == Placed /\ [SyncNext]_vars => Placed'
<1> SUFFICES ASSUME Placed, [SyncNext]_vars PROVE Placed'
  OBVIOUS
<1>1. ASSUME NEW w \in Worker, NEW m \in Media, NEW e \in Event, Begin(w, m, e) PROVE Placed'
  BY <1>1, BeginPlaced, Untouched DEF Begin, Placed
<1>2. CASE UNCHANGED vars
  BY <1>2, Untouched DEF vars, Placed, calls, recover
<1> QED
  BY <1>1, <1>2, ExecutePlaced, UserPlaced, RecoverPlaced, CrashPlaced, SyncPlaced
     DEF SyncNext, Next, Unattended

\* The first layer holds throughout.
THEOREM PlacedHolds == SyncSpec => []Placed
  BY InitPlaced, NextPlaced, PTL DEF SyncSpec

\* Whatever the engine, recovery, a user, a crash or the sync client does, the
\* table, the disk and the local variables of every call keep their types.
THEOREM Typing == SyncSpec => []TypeOK
  BY PlacedHolds, PlacedTypes, PTL

-----------------------------------------------------------------------------
(* The second layer.  The facts about origin hold until the sync client    *)
(* first rewrites a source, that is as long as syncs is 0.  A folder of    *)
(* role Both is allowed: what is said of a copy is said of a path that is  *)
(* no source, and what is said of a source leaves out, in such a folder,   *)
(* the files that came later and those whose bytes are already safe.       *)

\* The paths below destination shares that nothing is ever deleted from.
Lasting == Destination \ Indexed

\* With disk d and history x the bytes that m came with need no more care.
Kept(d, x, m) == m \in x \/ \E p \in Lasting : d[p] # None /\ d[p] = origin[m]

\* What is taken for the bytes of m are those it came with.
Genuine(d, x, m, bytes) ==
  \/ bytes = origin[m]
  \/ SourcePath[m] \in Destination /\ (m \in Present => Kept(d, x, m))

\* With disk d and n external rewrites, the operation's claim to a committed
\* destination is true, and its hash is that of the bytes its media came with.
ClaimOn(d, n, x, op) ==
  HasCommittedDestination(op) =>
    /\ op.dstHash # None
    /\ op.dest \in Lasting => d[op.dest] = op.dstHash
    /\ n = 0 => Genuine(d, x, op.media, op.dstHash)

Committing == {"committed", "finalize", "released"}
Hashed     == Uncommitted \ {"hash"}

RowsClaimed == \A o \in OpId : ClaimOn(disk, syncs, exposed, ops[o])

CallClaimed(d, n, x, p, c) ==
  /\ p # "idle" => ClaimOn(d, n, x, c.op)
  /\ p \in Committing => HasCommittedDestination(c.op)
  /\ p \in Hashed => c.hash # None /\ (n = 0 => Genuine(d, x, c.op.media, c.hash))

CallsClaimed == \A w \in Worker : CallClaimed(disk, syncs, exposed, pc[w], call[w])

RecoveryClaimed ==
  /\ \A r \in todo : ClaimOn(disk, syncs, exposed, r)
  /\ rpc \in {"delete", "complete"} =>
       HasCommittedDestination(item) /\ ClaimOn(disk, syncs, exposed, item)

SourcesKept ==
  syncs = 0 =>
    /\ \A m \in Present : origin[m] # None
    /\ \A m \in Media : \/ disk[SourcePath[m]] = None
                       \/ Genuine(disk, exposed, m, disk[SourcePath[m]])
    /\ \A m \in Present : disk[SourcePath[m]] = origin[m] \/ Kept(disk, exposed, m)

Claimed == RowsClaimed /\ CallsClaimed /\ RecoveryClaimed /\ SourcesKept

\* What a step does to the disk at most: bytes at a lasting path stay.
Keeps ==
  /\ \A d \in Lasting : disk[d] # None => disk'[d] = disk[d]
  /\ exposed \subseteq exposed'
  /\ UNCHANGED origin
  /\ syncs' = 0 => syncs = 0

LEMMA KeepsKept ==
  Keeps => \A m : Kept(disk, exposed, m) => Kept(disk', exposed', m)
  BY DEF Keeps, Kept

LEMMA KeepsGenuine ==
  Keeps => \A m, b : Genuine(disk, exposed, m, b) => Genuine(disk', exposed', m, b)
  BY KeepsKept DEF Genuine

LEMMA KeepsClaim ==
  Keeps => \A op : ClaimOn(disk, syncs, exposed, op) => ClaimOn(disk', syncs', exposed', op)
  BY KeepsGenuine DEF Keeps, ClaimOn

\* If no folder has both roles, the claims are what they seem.
LEMMA Disjoint ==
  ASSUME DisjointShares
  PROVE  /\ Lasting = Destination
         /\ \A d, x, b : \A m \in Media : Genuine(d, x, m, b) => b = origin[m]
  BY DEF DisjointShares, Lasting, Indexed, Genuine

LEMMA RowsKept ==
  Placed /\ RowsClaimed /\ Keeps => \A o \in OpId : ClaimOn(disk', syncs', exposed', ops[o])
<1> SUFFICES ASSUME Placed, RowsClaimed, Keeps, NEW o \in OpId
             PROVE  ClaimOn(disk', syncs', exposed', ops[o])
  OBVIOUS
<1> QED
  BY KeepsClaim DEF RowsClaimed

LEMMA CallsKept ==
  Placed /\ CallsClaimed /\ Keeps =>
    \A w \in Worker : CallClaimed(disk', syncs', exposed', pc[w], call[w])
<1> SUFFICES ASSUME Placed, CallsClaimed, Keeps, NEW w \in Worker
             PROVE  CallClaimed(disk', syncs', exposed', pc[w], call[w])
  OBVIOUS
<1>2. CallClaimed(disk, syncs, exposed, pc[w], call[w])
  BY DEF CallsClaimed
<1>3. pc[w] # "idle" => ClaimOn(disk', syncs', exposed', call[w].op)
  BY <1>2, KeepsClaim DEF CallClaimed
<1>4. syncs' = 0 => syncs = 0
  BY DEF Keeps
<1> QED
  BY <1>2, <1>3, <1>4, KeepsGenuine DEF CallClaimed

LEMMA RecoveryKept ==
  Placed /\ RecoveryClaimed /\ Keeps =>
    /\ \A r \in todo : ClaimOn(disk', syncs', exposed', r)
    /\ rpc \in {"delete", "complete"} => ClaimOn(disk', syncs', exposed', item)
  BY KeepsClaim DEF RecoveryClaimed

\* How the parts of the second layer survive.
LEMMA UntouchedClaimed ==
  Placed /\ Claimed /\ Keeps =>
    /\ UNCHANGED ops => RowsClaimed'
    /\ UNCHANGED calls => CallsClaimed'
    /\ UNCHANGED recover => RecoveryClaimed'
<1> SUFFICES ASSUME Placed, Claimed, Keeps
             PROVE  /\ UNCHANGED ops => RowsClaimed'
                    /\ UNCHANGED calls => CallsClaimed'
                    /\ UNCHANGED recover => RecoveryClaimed'
  OBVIOUS
<1>0. UNCHANGED origin
  BY DEF Keeps
<1>1. UNCHANGED ops => RowsClaimed'
  BY <1>0, RowsKept DEF Claimed, RowsClaimed, ClaimOn, Genuine, Kept, HasCommittedDestination
<1>2. UNCHANGED calls => CallsClaimed'
  BY <1>0, CallsKept DEF Claimed, CallsClaimed, CallClaimed, ClaimOn, Genuine, Kept, calls,
     HasCommittedDestination, Committing, Hashed
<1>3. UNCHANGED recover => RecoveryClaimed'
  BY <1>0, RecoveryKept DEF Claimed, RecoveryClaimed, ClaimOn, Genuine, Kept, recover,
     HasCommittedDestination
<1> QED
  BY <1>1, <1>2, <1>3

LEMMA UpsertClaimed ==
  Placed /\ Claimed /\ Keeps =>
    \A op \in Operation : Upsert(op) /\ ClaimOn(disk', syncs', exposed', op) => RowsClaimed'
<1> SUFFICES ASSUME Placed, Claimed, Keeps, NEW op \in Operation, Upsert(op),
                    ClaimOn(disk', syncs', exposed', op), NEW o \in OpId
             PROVE  ClaimOn(disk, syncs, exposed, ops[o])'
  BY DEF RowsClaimed
<1>1. ops'[o] = op \/ ops'[o] = ops[o]
  BY DEF Upsert, Placed, RowsPlaced
<1>2. ClaimOn(disk', syncs', exposed', ops[o])
  BY RowsKept DEF Claimed
<1>3. UNCHANGED origin
  BY DEF Keeps
<1> QED
  BY <1>1, <1>2, <1>3 DEF ClaimOn, Genuine, Kept, HasCommittedDestination

LEMMA ContinueClaimed ==
  Placed /\ Claimed /\ Keeps =>
    \A w \in Worker, next \in WorkerPc, c \in Call :
      Continue(w, next, c) /\ CallClaimed(disk', syncs', exposed', next, c) => CallsClaimed'
<1> SUFFICES ASSUME Placed, Claimed, Keeps,
                    NEW w \in Worker, NEW next \in WorkerPc, NEW c \in Call,
                    Continue(w, next, c), CallClaimed(disk', syncs', exposed', next, c),
                    NEW v \in Worker
             PROVE  CallClaimed(disk, syncs, exposed, pc[v], call[v])'
  BY DEF CallsClaimed
<1>1. \/ pc'[v] = next /\ call'[v] = c
      \/ pc'[v] = pc[v] /\ call'[v] = call[v]
  BY DEF Continue, Placed, CallsPlaced
<1>2. CallClaimed(disk', syncs', exposed', pc[v], call[v])
  BY CallsKept DEF Claimed
<1>3. UNCHANGED origin
  BY DEF Keeps
<1> QED
  BY <1>1, <1>2, <1>3 DEF CallClaimed, ClaimOn, Genuine, Kept, HasCommittedDestination, Committing, Hashed

LEMMA ReturnClaimed ==
  Placed /\ Claimed /\ Keeps => \A w \in Worker : Return(w) => CallsClaimed'
<1>1. \A d, n, x : CallClaimed(d, n, x, "idle", NoCall)
  BY DEF CallClaimed, Committing, Hashed, Uncommitted
<1>2. "idle" \in WorkerPc
  BY DEF WorkerPc
<1> QED
  BY <1>1, <1>2, ContinueClaimed, NoCallType DEF Return

LEMMA FinishClaimed ==
  Placed /\ Claimed /\ Keeps =>
    \A w \in Worker, op \in Operation :
      Finish(w, op) /\ ClaimOn(disk', syncs', exposed', op) => RowsClaimed' /\ CallsClaimed'
  BY UpsertClaimed, ReturnClaimed DEF Finish

-----------------------------------------------------------------------------
(* What the steps do to the disk.                                          *)

\* Only four kinds of steps write to the shares.
LEMMA DiskSteps ==
  [SyncNext]_vars =>
    \/ UNCHANGED disk
    \/ \E w \in Worker : Move(w) \/ Release(w)
    \/ RecoverDelete
    \/ \E m \in Media : Sync(m)
<1> SUFFICES ASSUME [SyncNext]_vars, ~RecoverDelete,
                    ~\E w \in Worker : Move(w) \/ Release(w),
                    ~\E m \in Media : Sync(m)
             PROVE  UNCHANGED disk
  OBVIOUS
<1>1. ASSUME NEW w \in Worker, Execute(w) PROVE UNCHANGED disk
  BY <1>1 DEF Execute, Record, HashSource, Resolve, Copy, StartVerifying, Verify, Commit,
     CheckDestination, Settle, Complete, Fail, FinalizeFails, AdoptionForgotten, EventGone, Drop,
     Supersede, ExecuteDirect, files
<1>2. ASSUME User PROVE UNCHANGED disk
  BY <1>2 DEF User, Retry, RouteAgain, Dismiss, SupersedeEvent, DeleteEvent, Cancel, Drop, files
<1>3. ASSUME Recover PROVE UNCHANGED disk
  BY <1>3 DEF Recover, RecoverList, RecoverComplete, RecoverFails, RecoverEnd,
     RecoverUncommitted, RecoverCommitted, Resolved, files
<1>4. ASSUME Crash \/ RequestRecovery PROVE UNCHANGED disk
  BY <1>4 DEF Crash, RequestRecovery, files
<1>5. ASSUME NEW w \in Worker, NEW m \in Media, NEW e \in Event, Begin(w, m, e)
      PROVE  UNCHANGED disk
  BY <1>5 DEF Begin, files
<1>6. ASSUME UNCHANGED vars PROVE UNCHANGED disk
  BY <1>6 DEF vars, files
<1> QED
  BY <1>1, <1>2, <1>3, <1>4, <1>5, <1>6 DEF SyncNext, Next, Unattended

\* What the histories see of a step: rewrites are counted by Sync alone, and a
\* release or a forgotten adoption that was seen stays in the history.
Remembers == /\ UNCHANGED <<origin, syncs>>
             /\ exposed \subseteq exposed' /\ forgotten \subseteq forgotten'

LEMMA NextRemembers == [Next]_vars => Remembers
<1> SUFFICES ASSUME [Next]_vars PROVE Remembers
  OBVIOUS
<1> USE DEF Remembers
<1>1. ASSUME NEW w \in Worker, Execute(w) PROVE Remembers
  BY <1>1 DEF Execute, Record, HashSource, Resolve, Copy, StartVerifying, Verify, Commit, Move,
     CheckDestination, Settle, Release, DeleteSource, Complete, Fail, FinalizeFails,
     AdoptionForgotten, EventGone, Drop, Supersede, ExecuteDirect, bounds, history
<1>2. ASSUME User PROVE Remembers
  BY <1>2 DEF User, Retry, RouteAgain, Dismiss, SupersedeEvent, DeleteEvent, Cancel, Drop, bounds,
     history
<1>3. ASSUME Recover PROVE Remembers
  BY <1>3 DEF Recover, RecoverList, RecoverDelete, DeleteSource, RecoverComplete, RecoverFails,
     RecoverEnd, RecoverUncommitted, RecoverCommitted, Resolved, bounds, history
<1>4. ASSUME Crash \/ RequestRecovery PROVE Remembers
  BY <1>4 DEF Crash, RequestRecovery, history
<1>5. ASSUME NEW w \in Worker, NEW m \in Media, NEW e \in Event, Begin(w, m, e)
      PROVE  Remembers
  BY <1>5 DEF Begin, bounds, history
<1>6. ASSUME UNCHANGED vars PROVE Remembers
  BY <1>6 DEF vars, bounds, history
<1> QED
  BY <1>1, <1>2, <1>3, <1>4, <1>5, <1>6 DEF Next, Unattended

LEMMA HistorySteps ==
  [SyncNext]_vars => /\ UNCHANGED origin
                     /\ exposed \subseteq exposed'
                     /\ (\E m \in Media : Sync(m)) \/ UNCHANGED syncs
  BY NextRemembers DEF Remembers, SyncNext, Sync, history

\* A file below a destination share that is no source is never changed or removed.
LEMMA NextKeeps == Placed /\ [SyncNext]_vars => Keeps
<1> SUFFICES ASSUME Placed, [SyncNext]_vars PROVE Keeps
  OBVIOUS
<1>1. UNCHANGED origin /\ exposed \subseteq exposed'
  BY HistorySteps
<1>2. syncs' = 0 => syncs = 0
  <2>1. ASSUME NEW m \in Media, Sync(m) PROVE syncs' # 0
    BY <2>1, SMT DEF Sync, Placed, RestTyped
  <2> QED
    BY <2>1, HistorySteps
<1>3. ASSUME NEW d \in Lasting, disk[d] # None PROVE disk'[d] = disk[d]
  <2>0. d \in Path /\ disk \in [Path -> Content \cup {None}]
    BY DEF Placed, FilesTyped, Lasting
  <2>m. \A m \in Media : SourcePath[m] # d
    BY DEF Lasting, Indexed
  <2>1. ASSUME NEW w \in Worker, Move(w) PROVE disk'[d] = disk[d]
    BY <1>3, <2>0, <2>1 DEF Move
  <2>2. ASSUME NEW w \in Worker, Release(w) PROVE disk'[d] = disk[d]
    <3>1. Source(call[w].op) # d
      BY <2>2, <2>m, RunningCall DEF Release, Identified, Located, Source
    <3> QED
      BY <2>0, <2>2, <3>1 DEF Release, DeleteSource
  <2>3. CASE RecoverDelete
    <3>1. Source(item) # d
      BY <2>3, <2>m DEF RecoverDelete, Placed, RecoveryPlaced, Identified, Located, Source
    <3> QED
      BY <2>0, <2>3, <3>1 DEF RecoverDelete, DeleteSource
  <2>4. ASSUME NEW m \in Media, Sync(m) PROVE disk'[d] = disk[d]
    BY <2>0, <2>m, <2>4 DEF Sync
  <2> QED
    BY <2>1, <2>2, <2>3, <2>4, DiskSteps
<1> QED
  BY <1>1, <1>2, <1>3 DEF Keeps

\* A source is deleted under the claim of a committed operation: the bytes it came
\* with are at a lasting path, or the release is remembered.
LEMMA DeleteKeepsContent ==
  Placed /\ SourcesKept /\ Keeps =>
    \A op \in Operation :
      /\ Located(op)
      /\ HasCommittedDestination(op) /\ ClaimOn(disk, syncs, exposed, op)
      /\ DeleteSource(op)
      => SourcesKept'
<1> SUFFICES ASSUME Placed, SourcesKept, Keeps, NEW op \in Operation,
                    Located(op), HasCommittedDestination(op), ClaimOn(disk, syncs, exposed, op),
                    DeleteSource(op), syncs' = 0
             PROVE  /\ \A m \in Present : origin'[m] # None
                    /\ \A m \in Media : \/ disk'[SourcePath[m]] = None
                                       \/ Genuine(disk, exposed, m, disk[SourcePath[m]])'
                    /\ \A m \in Present : \/ disk'[SourcePath[m]] = origin'[m]
                                          \/ Kept(disk, exposed, m)'
  BY DEF SourcesKept
<1>0. /\ disk \in [Path -> Content \cup {None}] /\ syncs = 0 /\ UNCHANGED origin
      /\ op.media \in Media /\ Source(op) = SourcePath[op.media]
      /\ disk' = [disk EXCEPT ![SourcePath[op.media]] = None]
  BY DEF Placed, FilesTyped, Keeps, Located, Source, DeleteSource
<1>1. \A m : Kept(disk, exposed, m) => Kept(disk, exposed, m)'
  BY <1>0, KeepsKept DEF Kept
<1>2. \A m, b : Genuine(disk, exposed, m, b) => (Genuine(disk', exposed', m, b))
  BY KeepsGenuine
<1>3. ASSUME NEW m \in Media, m # op.media PROVE disk'[SourcePath[m]] = disk[SourcePath[m]]
  BY <1>0, <1>3
<1>4. disk'[SourcePath[op.media]] = None
  BY <1>0
<1>5. ASSUME NEW m \in Media
      PROVE  disk'[SourcePath[m]] = None \/ Genuine(disk, exposed, m, disk[SourcePath[m]])'
  <2>1. CASE m = op.media
    BY <1>4, <2>1
  <2>2. CASE m # op.media
    <3>1. \/ disk[SourcePath[m]] = None
          \/ Genuine(disk', exposed', m, disk[SourcePath[m]])
      BY <1>0, <1>2 DEF SourcesKept
    <3> QED
      BY <1>0, <1>3, <2>2, <3>1 DEF Genuine, Kept
  <2> QED
    BY <2>1, <2>2
<1>6. ASSUME NEW m \in Present
      PROVE  disk'[SourcePath[m]] = origin'[m] \/ Kept(disk, exposed, m)'
  <2>1. CASE m # op.media
    BY <1>0, <1>1, <1>3, <2>1 DEF SourcesKept
  <2>2. CASE m = op.media /\ op.dest \notin Lasting
    <3>1. m \in exposed'
      BY <2>2 DEF Located, Lasting, DeleteSource
    <3> QED
      BY <3>1 DEF Kept
  <2>3. CASE m = op.media /\ op.dest \in Lasting
    <3>1. /\ op.dstHash # None /\ disk[op.dest] = op.dstHash
          /\ Genuine(disk, exposed, m, op.dstHash)
      BY <1>0, <2>3 DEF ClaimOn
    <3>2. CASE op.dstHash = origin[m]
      <4>1. Kept(disk, exposed, m)
        BY <2>3, <3>1, <3>2 DEF Kept
      <4> QED
        BY <1>1, <4>1
    <3>3. CASE op.dstHash # origin[m]
      BY <1>1, <3>1, <3>3 DEF Genuine
    <3> QED
      BY <3>2, <3>3
  <2> QED
    BY <2>1, <2>2, <2>3
<1> QED
  BY <1>0, <1>5, <1>6 DEF SourcesKept

\* What a step leaves of the sources.
LEMMA NextKeepsSources == Placed /\ Claimed /\ [SyncNext]_vars => SourcesKept'
<1> SUFFICES ASSUME Placed, Claimed, [SyncNext]_vars PROVE SourcesKept'
  OBVIOUS
<1>0. /\ Keeps /\ UNCHANGED origin /\ (syncs' = 0 => syncs = 0) /\ SourcesKept
      /\ disk \in [Path -> Content \cup {None}]
  BY NextKeeps DEF Keeps, Claimed, Placed, FilesTyped
<1>k. /\ \A m : Kept(disk, exposed, m) => Kept(disk, exposed, m)'
      /\ \A m, b : Genuine(disk, exposed, m, b) => Genuine(disk', exposed', m, b)
  BY <1>0, KeepsKept, KeepsGenuine DEF Kept
<1>1. CASE UNCHANGED disk
  <2>1. ASSUME syncs' = 0, NEW m \in Media
        PROVE  \/ disk'[SourcePath[m]] = None
               \/ Genuine(disk, exposed, m, disk[SourcePath[m]])'
    <3>1. \/ disk[SourcePath[m]] = None
          \/ Genuine(disk', exposed', m, disk[SourcePath[m]])
      BY <1>0, <1>k, <2>1 DEF SourcesKept
    <3> QED
      BY <1>0, <1>1, <3>1 DEF Genuine, Kept
  <2>2. ASSUME syncs' = 0, NEW m \in Present
        PROVE  disk'[SourcePath[m]] = origin'[m] \/ Kept(disk, exposed, m)'
    BY <1>0, <1>1, <1>k, <2>2 DEF SourcesKept
  <2> QED
    BY <1>0, <2>1, <2>2 DEF SourcesKept
<1>2. ASSUME NEW w \in Worker, Move(w) PROVE SourcesKept'
  <2>1. call[w].target \in Path /\ call[w].target \in Destination /\ disk[call[w].target] = None
    BY <1>2, RunningCall DEF Move
  <2>2. \A p \in Path : p # call[w].target => disk'[p] = disk[p]
    BY <1>0, <1>2 DEF Move
  <2>3. ASSUME syncs = 0, NEW m \in Present, SourcePath[m] = call[w].target
        PROVE  Kept(disk, exposed, m)
    BY <2>1, <2>3, <1>0 DEF SourcesKept
  <2>4. ASSUME syncs = 0, NEW m \in Media
        PROVE  \/ disk'[SourcePath[m]] = None
               \/ Genuine(disk, exposed, m, disk[SourcePath[m]])'
    <3>1. CASE SourcePath[m] = call[w].target
      <4>1. m \in Present => Kept(disk, exposed, m)'
        BY <1>k, <2>3, <2>4, <3>1
      <4> QED
        BY <2>1, <3>1, <4>1 DEF Genuine
    <3>2. CASE SourcePath[m] # call[w].target
      <4>1. \/ disk[SourcePath[m]] = None
            \/ Genuine(disk', exposed', m, disk[SourcePath[m]])
        BY <1>0, <1>k, <2>4 DEF SourcesKept
      <4> QED
        BY <1>0, <2>2, <3>2, <4>1 DEF Genuine, Kept
    <3> QED
      BY <3>1, <3>2
  <2>5. ASSUME syncs = 0, NEW m \in Present
        PROVE  disk'[SourcePath[m]] = origin'[m] \/ Kept(disk, exposed, m)'
    <3>1. CASE SourcePath[m] = call[w].target
      BY <1>k, <2>3, <2>5, <3>1
    <3>2. CASE SourcePath[m] # call[w].target
      BY <1>0, <1>k, <2>2, <2>5, <3>2 DEF SourcesKept
    <3> QED
      BY <3>1, <3>2
  <2> QED
    BY <1>0, <2>4, <2>5 DEF SourcesKept
<1>3. ASSUME NEW w \in Worker, Release(w) PROVE SourcesKept'
  <2>1. /\ call[w].op \in Operation /\ Located(call[w].op)
        /\ HasCommittedDestination(call[w].op) /\ ClaimOn(disk, syncs, exposed, call[w].op)
    BY <1>3, RunningCall DEF Release, Identified, Claimed, CallsClaimed, CallClaimed, Committing
  <2> QED
    BY <1>0, <1>3, <2>1, DeleteKeepsContent DEF Release
<1>4. CASE RecoverDelete
  <2>1. /\ item \in Operation /\ Located(item)
        /\ HasCommittedDestination(item) /\ ClaimOn(disk, syncs, exposed, item)
    BY <1>4 DEF RecoverDelete, Placed, RecoveryPlaced, Identified, Claimed, RecoveryClaimed
  <2> QED
    BY <1>0, <1>4, <2>1, DeleteKeepsContent DEF RecoverDelete
<1>5. ASSUME NEW m \in Media, Sync(m) PROVE SourcesKept'
  <2>1. syncs' # 0
    BY <1>5, SMT DEF Sync, Placed, RestTyped
  <2> QED
    BY <2>1 DEF SourcesKept
<1> QED
  BY <1>1, <1>2, <1>3, <1>4, <1>5, DiskSteps

-----------------------------------------------------------------------------
(* The second layer is inductive: the calls.                               *)

\* The call's claim at its pc, before and after the step.
LEMMA CallFacts ==
  Placed /\ Claimed /\ Keeps =>
    \A w \in Worker :
      /\ pc[w] # "idle" => ClaimOn(disk', syncs', exposed', call[w].op)
      /\ pc[w] \in Committing => HasCommittedDestination(call[w].op)
      /\ pc[w] \in Hashed => call[w].hash # None
      /\ pc[w] \in Hashed /\ syncs' = 0 =>
           Genuine(disk', exposed', call[w].op.media, call[w].hash)
  BY CallsKept DEF Claimed, CallClaimed

\* A state that claims no destination.
LEMMA NoClaim ==
  \A d, n, x, op : op.state \notin Finishing \cup {"Completed"} => ClaimOn(d, n, x, op)
  BY DEF ClaimOn, HasCommittedDestination

\* A committed operation in another committed state claims the same.
LEMMA SameClaim ==
  \A d, n, x : \A op \in Operation, s \in OperationState :
    HasCommittedDestination(op) /\ ClaimOn(d, n, x, op) => ClaimOn(d, n, x, To(op, s))
  BY ToFields DEF ClaimOn

LEMMA GotoClaimed ==
  Placed /\ Claimed /\ Keeps =>
    \A w \in Worker, next \in WorkerPc :
      /\ pc[w] # "idle"
      /\ next \in Committing => pc[w] \in Committing
      /\ next \in Hashed => pc[w] \in Hashed
      /\ Goto(w, next)
      => CallsClaimed'
<1> SUFFICES ASSUME Placed, Claimed, Keeps, NEW w \in Worker, NEW next \in WorkerPc,
                    pc[w] # "idle", next \in Committing => pc[w] \in Committing,
                    next \in Hashed => pc[w] \in Hashed, Goto(w, next)
             PROVE  CallsClaimed'
  OBVIOUS
<1>1. CallClaimed(disk', syncs', exposed', next, call[w])
  BY CallFacts DEF CallClaimed
<1>2. call[w] \in Call
  BY CallAt DEF Placed
<1> QED
  BY <1>1, <1>2, ContinueClaimed DEF Goto

\* A row is saved and the call goes on at a pc that has or asks for no more.
LEMMA SaveClaimed ==
  Placed /\ Claimed /\ Keeps =>
    \A w \in Worker, op \in Operation, next \in WorkerPc :
      /\ Save(w, op, next)
      /\ ClaimOn(disk', syncs', exposed', op)
      /\ next \in Committing => HasCommittedDestination(op)
      /\ next \in Hashed => pc[w] \in Hashed /\ op.media = call[w].op.media
      => RowsClaimed' /\ CallsClaimed'
<1> SUFFICES ASSUME Placed, Claimed, Keeps,
                    NEW w \in Worker, NEW op \in Operation, NEW next \in WorkerPc,
                    Save(w, op, next), ClaimOn(disk', syncs', exposed', op),
                    next \in Committing => HasCommittedDestination(op),
                    next \in Hashed => pc[w] \in Hashed /\ op.media = call[w].op.media
             PROVE  RowsClaimed' /\ CallsClaimed'
  OBVIOUS
<1> DEFINE c == [call[w] EXCEPT !.op = op]
<1>0. call[w] \in Call
  BY CallAt DEF Placed
<1>1. c \in Call /\ c.op = op /\ c.hash = call[w].hash
  BY <1>0 DEF Call
<1>2. Upsert(op) /\ Continue(w, next, c)
  BY DEF Save
<1> HIDE DEF c
<1>3. CallClaimed(disk', syncs', exposed', next, c)
  BY <1>1, CallFacts DEF CallClaimed
<1> QED
  BY <1>1, <1>2, <1>3, UpsertClaimed, ContinueClaimed

LEMMA AdmitClaimed ==
  Placed /\ Claimed /\ Keeps =>
    \A w \in Worker, m \in Media, e \in Event, via \in {"coordinator", "direct"} :
      Admit(w, m, e, via) => CallsClaimed'
<1> SUFFICES ASSUME Placed, Claimed, Keeps, NEW w \in Worker, NEW m \in Media, NEW e \in Event,
                    NEW via \in {"coordinator", "direct"}, Admit(w, m, e, via)
             PROVE  CallsClaimed'
  OBVIOUS
<1>1. disk[SourcePath[m]] \in Content
  BY DEF Admit, Admissible, Placed, FilesTyped
<1>2. PICK p \in Desired[m] :
        Continue(w, "admitted",
          [via |-> via, hash |-> None, target |-> None, size |-> Length[disk[SourcePath[m]]],
           op |-> [NoOperation EXCEPT !.media = m, !.event = e,
                                      !.state = "TransferPending", !.dest = p]])
  BY DEF Admit
<1> DEFINE op == [NoOperation EXCEPT !.media = m, !.event = e,
                                     !.state = "TransferPending", !.dest = p]
<1> DEFINE c == [via |-> via, hash |-> None, target |-> None,
                 size |-> Length[disk[SourcePath[m]]], op |-> op]
<1>3. op \in Operation /\ op.state = "TransferPending"
  BY StateNames DEF NoOperation, Operation
<1>4. c \in Call /\ c.op = op
  BY <1>1, <1>3 DEF Call
<1>5. \A d, n, x : CallClaimed(d, n, x, "admitted", c)
  BY <1>3, <1>4, NoClaim DEF CallClaimed, Committing, Hashed, Uncommitted, Finishing
<1>6. Continue(w, "admitted", c) /\ "admitted" \in WorkerPc
  BY <1>2 DEF WorkerPc
<1> HIDE DEF c
<1> QED
  BY <1>4, <1>5, <1>6, ContinueClaimed

\* Adoption claims a file whose bytes were just compared with the source's hash.
LEMMA AdoptClaimed ==
  Placed /\ Claimed /\ Keeps =>
    \A w \in Worker, p \in Destination :
      /\ pc[w] \in Hashed
      /\ disk[p] = call[w].hash
      /\ Adopt(w, p)
      => RowsClaimed' /\ CallsClaimed'
<1> SUFFICES ASSUME Placed, Claimed, Keeps, NEW w \in Worker, NEW p \in Destination,
                    pc[w] \in Hashed, disk[p] = call[w].hash, Adopt(w, p)
             PROVE  RowsClaimed' /\ CallsClaimed'
  OBVIOUS
<1> DEFINE copy == [call[w].op EXCEPT !.dest = p, !.srcHash = call[w].hash,
                                      !.dstHash = call[w].hash]
<1>1. call[w].op \in Operation /\ call[w].hash \in Content \cup {None}
  BY CallAt DEF Placed
<1>2. /\ copy \in Operation /\ copy.dest = p /\ copy.dstHash = call[w].hash
      /\ copy.media = call[w].op.media
  BY <1>1 DEF Operation
<1>3. \/ Save(w, To(copy, "DestinationCommitted"), "committed")
      \/ Finish(w, To(copy, "Ignored"))
  BY DEF Adopt
<1> HIDE DEF copy
<1>4. (p \in Lasting => disk'[p] = call[w].hash) /\ call[w].hash # None
      /\ (syncs' = 0 => Genuine(disk', exposed', call[w].op.media, call[w].hash))
  BY CallFacts DEF Keeps
<1>5. CASE Save(w, To(copy, "DestinationCommitted"), "committed")
  <2>1. /\ To(copy, "DestinationCommitted") \in Operation
        /\ To(copy, "DestinationCommitted").dest = p
        /\ To(copy, "DestinationCommitted").dstHash = call[w].hash
        /\ To(copy, "DestinationCommitted").media = call[w].op.media
        /\ To(copy, "DestinationCommitted").state = "DestinationCommitted"
    <3>1. "DestinationCommitted" \in OperationState
      BY StateNames
    <3> QED
      BY <1>2, <3>1, ToFields
  <2>2. /\ ClaimOn(disk', syncs', exposed', To(copy, "DestinationCommitted"))
        /\ HasCommittedDestination(To(copy, "DestinationCommitted"))
    BY <1>4, <2>1 DEF ClaimOn, HasCommittedDestination, Finishing
  <2>3. "committed" \in WorkerPc /\ "committed" \notin Hashed
    BY DEF WorkerPc, Hashed, Uncommitted
  <2> QED
    BY <1>5, <2>1, <2>2, <2>3, SaveClaimed
<1>6. CASE Finish(w, To(copy, "Ignored"))
  <2>1. To(copy, "Ignored") \in Operation /\ To(copy, "Ignored").state = "Ignored"
    BY <1>2, ToFields, StateNames
  <2>2. ClaimOn(disk', syncs', exposed', To(copy, "Ignored"))
    BY <2>1, NoClaim DEF Finishing
  <2> QED
    BY <1>6, <2>1, <2>2, FinishClaimed
<1> QED
  BY <1>3, <1>5, <1>6

\* A last row that claims no destination, or the claim the call already has.
LEMMA OwnRowClaimed ==
  Placed /\ Claimed /\ Keeps =>
    \A w \in Worker, s \in OperationState :
      /\ pc[w] # "idle"
      /\ s \in Finishing \cup {"Completed"} => pc[w] \in Committing
      => /\ To(call[w].op, s) \in Operation
         /\ ClaimOn(disk', syncs', exposed', To(call[w].op, s))
         /\ Finish(w, To(call[w].op, s)) => RowsClaimed' /\ CallsClaimed'
<1> SUFFICES ASSUME Placed, Claimed, Keeps, NEW w \in Worker, NEW s \in OperationState,
                    pc[w] # "idle", s \in Finishing \cup {"Completed"} => pc[w] \in Committing
             PROVE  /\ To(call[w].op, s) \in Operation
                    /\ ClaimOn(disk', syncs', exposed', To(call[w].op, s))
                    /\ Finish(w, To(call[w].op, s)) => RowsClaimed' /\ CallsClaimed'
  OBVIOUS
<1>1. call[w].op \in Operation
  BY CallAt DEF Placed
<1>2. To(call[w].op, s) \in Operation /\ To(call[w].op, s).state = s
  BY <1>1, ToFields
<1>3. ClaimOn(disk', syncs', exposed', To(call[w].op, s))
  <2>1. CASE s \in Finishing \cup {"Completed"}
    BY <1>1, <2>1, CallFacts, SameClaim
  <2>2. CASE s \notin Finishing \cup {"Completed"}
    BY <1>2, <2>2, NoClaim
  <2> QED
    BY <2>1, <2>2
<1> QED
  BY <1>2, <1>3, FinishClaimed

\* Every step of a call keeps the second layer.
LEMMA ExecuteClaimed ==
  Placed /\ Claimed /\ Keeps =>
    \A w \in Worker : Execute(w) => RowsClaimed' /\ CallsClaimed' /\ RecoveryClaimed'
<1> SUFFICES ASSUME Placed, Claimed, Keeps, NEW w \in Worker, Execute(w)
             PROVE  RowsClaimed' /\ CallsClaimed' /\ RecoveryClaimed'
  OBVIOUS
<1> DEFINE op == call[w].op
<1> USE DEF WorkerPc, Committing, Hashed, Uncommitted, Finishing
<1>0. RecoveryClaimed'
  <2>1. UNCHANGED recover
    BY DEF Execute, Record, HashSource, Resolve, Copy, StartVerifying, Verify, Commit, Move,
       CheckDestination, Settle, Release, Complete, Fail, FinalizeFails, AdoptionForgotten, EventGone, Drop,
       Supersede, ExecuteDirect
  <2> QED
    BY <2>1, UntouchedClaimed
<1> SUFFICES RowsClaimed' /\ CallsClaimed'
  BY <1>0
<1>t. pc[w] # "idle" => op \in Operation /\ call[w] \in Call
  BY CallAt DEF Placed
<1>r. CASE Record(w)
  <2>1. PICK o \in OpId : Save(w, [op EXCEPT !.id = o], "hash")
    BY <1>r DEF Record
  <2> DEFINE row == [op EXCEPT !.id = o]
  <2>2. pc[w] = "admitted"
    BY <1>r DEF Record
  <2>3. /\ row \in Operation /\ row.dest = op.dest /\ row.dstHash = op.dstHash
        /\ row.media = op.media /\ row.state = op.state
    BY <1>t, <2>2 DEF Operation
  <2> HIDE DEF row
  <2>4. ClaimOn(disk', syncs', exposed', row)
    BY <2>2, <2>3, CallFacts DEF ClaimOn, HasCommittedDestination
  <2> QED
    BY <2>1, <2>3, <2>4, SaveClaimed DEF row
<1>h. CASE HashSource(w)
  <2> DEFINE c == [call[w] EXCEPT !.hash = disk[Source(op)]]
  <2>1. /\ pc[w] = "hash" /\ Continue(w, "resolve", c) /\ disk[Source(op)] # None
        /\ disk[Source(op)] \in Content \cup {None} /\ Located(op)
    BY <1>h, RunningCall DEF HashSource, Identified
  <2>2. c \in Call /\ c.op = op /\ c.hash = disk[Source(op)]
    BY <1>t, <2>1 DEF Call
  <2> HIDE DEF c
  <2>3. syncs' = 0 => Genuine(disk', exposed', op.media, c.hash)
    BY <2>1, <2>2, KeepsGenuine DEF Claimed, SourcesKept, Keeps, Located, Source
  <2>4. CallClaimed(disk', syncs', exposed', "resolve", c)
    BY <2>1, <2>2, <2>3, CallFacts DEF CallClaimed
  <2>5. CallsClaimed'
    BY <2>1, <2>2, <2>4, ContinueClaimed
  <2> QED
    BY <1>h, <2>5, UntouchedClaimed DEF HashSource
<1>res. CASE Resolve(w)
  <2>1. pc[w] = "resolve"
    BY <1>res DEF Resolve
  <2>2. PICK copy \in StoredCopies(call[w].hash, op.media) :
          \/ copy # None /\ Adopt(w, copy)
          \/ Finish(w, To(op, "Quarantined"))
          \/ \E p \in Destination :
               /\ FirstFit(op.dest, call[w].hash, op.event, p)
               /\ \/ disk[p] # None /\ Adopt(w, p)
                  \/ Save(w, [op EXCEPT !.state = "Copying", !.dest = p,
                                        !.srcHash = call[w].hash], "copying")
    BY <1>res DEF Resolve
  <2>3. ASSUME copy # None, Adopt(w, copy) PROVE RowsClaimed' /\ CallsClaimed'
    <3>1. copy \in Destination
      BY <2>3, StoredPlaced DEF Placed
    <3>2. disk[copy] = call[w].hash
      BY <2>3 DEF StoredCopies
    <3> QED
      BY <2>1, <2>3, <3>1, <3>2, AdoptClaimed
  <2>4. ASSUME Finish(w, To(op, "Quarantined")) PROVE RowsClaimed' /\ CallsClaimed'
    BY <2>1, <2>4, OwnRowClaimed, StateNames
  <2>5. ASSUME NEW p \in Destination, FirstFit(op.dest, call[w].hash, op.event, p),
               disk[p] # None, Adopt(w, p)
        PROVE  RowsClaimed' /\ CallsClaimed'
    <3>1. disk[p] = call[w].hash
      BY <2>5 DEF FirstFit, Fits
    <3> QED
      BY <2>1, <2>5, <3>1, AdoptClaimed
  <2>6. ASSUME NEW p \in Destination,
               Save(w, [op EXCEPT !.state = "Copying", !.dest = p, !.srcHash = call[w].hash],
                    "copying")
        PROVE  RowsClaimed' /\ CallsClaimed'
    <3> DEFINE row == [op EXCEPT !.state = "Copying", !.dest = p, !.srcHash = call[w].hash]
    <3>1. call[w].hash \in Content \cup {None}
      BY <2>1, RunningCall
    <3>2. row \in Operation /\ row.state = "Copying" /\ row.media = op.media
      BY <1>t, <2>1, <3>1, StateNames DEF Operation
    <3> HIDE DEF row
    <3>3. ClaimOn(disk', syncs', exposed', row)
      BY <3>2, NoClaim
    <3> QED
      BY <2>1, <2>6, <3>2, <3>3, SaveClaimed DEF row
  <2> QED
    BY <2>2, <2>3, <2>4, <2>5, <2>6
<1>c. CASE Copy(w)
  <2>1. CallsClaimed'
    BY <1>c, GotoClaimed DEF Copy
  <2> QED
    BY <1>c, <2>1, UntouchedClaimed DEF Copy
<1>s. CASE StartVerifying(w)
  <2>1. pc[w] = "copied" /\ Save(w, To(op, "Verifying"), "verify")
    BY <1>s DEF StartVerifying
  <2>2. /\ To(op, "Verifying") \in Operation /\ ClaimOn(disk', syncs', exposed', To(op, "Verifying"))
        /\ To(op, "Verifying").media = op.media
    BY <1>t, <2>1, OwnRowClaimed, ToFields, StateNames
  <2> QED
    BY <2>1, <2>2, SaveClaimed
<1>v. CASE Verify(w)
  <2> DEFINE row == [op EXCEPT !.state = "Quarantined", !.srcHash = disk[Source(op)],
                               !.dstHash = staging[op.id]]
  <2>1. /\ pc[w] = "verify"
        /\ disk[Source(op)] \in Content \cup {None}
        /\ staging[op.id] \in Content \cup {None}
    BY <1>v, RunningCall DEF Verify
  <2>2. \/ Finish(w, To(op, "Quarantined"))
        \/ Finish(w, row)
        \/ Goto(w, "commit") /\ UNCHANGED ops
    BY <1>v DEF Verify
  <2>3. row \in Operation /\ row.state = "Quarantined"
    BY <1>t, <2>1, StateNames DEF Operation
  <2> HIDE DEF row
  <2>4. ASSUME Finish(w, To(op, "Quarantined")) PROVE RowsClaimed' /\ CallsClaimed'
    BY <2>1, <2>4, OwnRowClaimed, StateNames
  <2>5. ASSUME Finish(w, row) PROVE RowsClaimed' /\ CallsClaimed'
    BY <2>3, <2>5, NoClaim, FinishClaimed
  <2>6. ASSUME Goto(w, "commit"), UNCHANGED ops PROVE RowsClaimed' /\ CallsClaimed'
    BY <2>1, <2>6, GotoClaimed, UntouchedClaimed
  <2> QED
    BY <2>2, <2>4, <2>5, <2>6
<1>co. CASE Commit(w)
  <2>1. pc[w] = "commit"
    BY <1>co DEF Commit
  <2>2. \/ Finish(w, To(op, "Quarantined"))
        \/ \E p \in Destination :
             /\ FirstFit(op.dest, call[w].hash, op.event, p)
             /\ \/ disk[p] # None /\ Adopt(w, p)
                \/ Continue(w, "move", [call[w] EXCEPT !.target = p]) /\ UNCHANGED ops
    BY <1>co DEF Commit
  <2>3. ASSUME Finish(w, To(op, "Quarantined")) PROVE RowsClaimed' /\ CallsClaimed'
    BY <2>1, <2>3, OwnRowClaimed, StateNames
  <2>4. ASSUME NEW p \in Destination, FirstFit(op.dest, call[w].hash, op.event, p),
               disk[p] # None, Adopt(w, p)
        PROVE  RowsClaimed' /\ CallsClaimed'
    <3>1. disk[p] = call[w].hash
      BY <2>4 DEF FirstFit, Fits
    <3> QED
      BY <2>1, <2>4, <3>1, AdoptClaimed
  <2>5. ASSUME NEW p \in Destination,
               Continue(w, "move", [call[w] EXCEPT !.target = p]), UNCHANGED ops
        PROVE  RowsClaimed' /\ CallsClaimed'
    <3> DEFINE c == [call[w] EXCEPT !.target = p]
    <3>1. c \in Call /\ c.op = op /\ c.hash = call[w].hash
      BY <1>t, <2>1 DEF Call
    <3> HIDE DEF c
    <3>2. CallClaimed(disk', syncs', exposed', "move", c)
      BY <2>1, <3>1, CallFacts DEF CallClaimed
    <3> QED
      BY <2>5, <3>1, <3>2, ContinueClaimed, UntouchedClaimed DEF c
  <2> QED
    BY <2>2, <2>3, <2>4, <2>5
<1>m. CASE Move(w)
  <2>1. CallsClaimed'
    BY <1>m, GotoClaimed DEF Move
  <2> QED
    BY <1>m, <2>1, UntouchedClaimed DEF Move
<1>cd. CASE CheckDestination(w)
  <2>1. /\ pc[w] = "moved" /\ op \in Operation
        /\ call[w].hash \in Content \cup {None}
        /\ call[w].target \in Destination
        /\ disk[call[w].target] \in Content \cup {None}
    BY <1>cd, RunningCall DEF CheckDestination
  <2> DEFINE a == [op EXCEPT !.state = "Quarantined", !.dest = call[w].target]
             b == [op EXCEPT !.state = "Quarantined", !.dest = call[w].target,
                             !.dstHash = disk[call[w].target]]
             c == [op EXCEPT !.state = "DestinationCommitted", !.dest = call[w].target,
                             !.srcHash = call[w].hash, !.dstHash = disk[call[w].target]]
  <2>2. \/ Finish(w, a)
        \/ Finish(w, b)
        \/ disk[call[w].target] = call[w].hash /\ Save(w, c, "committed")
    BY <1>cd DEF CheckDestination
  <2>3. a \in Operation /\ a.state = "Quarantined"
    BY <2>1, StateNames DEF Operation
  <2>4. b \in Operation /\ b.state = "Quarantined"
    BY <2>1, StateNames DEF Operation
  <2>5. /\ c \in Operation /\ c.state = "DestinationCommitted" /\ c.dest = call[w].target
        /\ c.dstHash = disk[call[w].target] /\ c.media = op.media
    BY <2>1, StateNames DEF Operation
  <2> HIDE DEF a, b, c
  <2>6. ASSUME disk[call[w].target] = call[w].hash, Save(w, c, "committed")
        PROVE  RowsClaimed' /\ CallsClaimed'
    <3>1. /\ call[w].hash # None
          /\ syncs' = 0 => Genuine(disk', exposed', op.media, call[w].hash)
      BY <2>1, CallFacts
    <3>2. call[w].target \in Lasting => disk'[call[w].target] = call[w].hash
      BY <2>1, <2>6, <3>1 DEF Keeps
    <3>3. ClaimOn(disk', syncs', exposed', c) /\ HasCommittedDestination(c)
      BY <2>5, <2>6, <3>1, <3>2 DEF ClaimOn, HasCommittedDestination
    <3> QED
      BY <2>5, <2>6, <3>3, SaveClaimed
  <2> QED
    BY <2>2, <2>3, <2>4, <2>6, NoClaim, FinishClaimed
<1>se. CASE Settle(w)
  <2>1. pc[w] = "committed"
        /\ \/ Save(w, To(op, "SourceFinalizePending"), "finalize")
           \/ Finish(w, To(op, "Completed"))
    BY <1>se DEF Settle
  <2>2. /\ To(op, "SourceFinalizePending") \in Operation
        /\ ClaimOn(disk', syncs', exposed', To(op, "SourceFinalizePending"))
        /\ HasCommittedDestination(To(op, "SourceFinalizePending"))
    BY <1>t, <2>1, OwnRowClaimed, ToFields, StateNames DEF HasCommittedDestination
  <2>3. ASSUME Save(w, To(op, "SourceFinalizePending"), "finalize")
        PROVE  RowsClaimed' /\ CallsClaimed'
    BY <2>2, <2>3, SaveClaimed
  <2>4. ASSUME Finish(w, To(op, "Completed")) PROVE RowsClaimed' /\ CallsClaimed'
    BY <2>1, <2>4, OwnRowClaimed, StateNames
  <2> QED
    BY <2>1, <2>3, <2>4
<1>rel. CASE Release(w)
  <2>1. CallsClaimed'
    BY <1>rel, GotoClaimed DEF Release
  <2> QED
    BY <1>rel, <2>1, UntouchedClaimed DEF Release
<1>cm. CASE Complete(w)
  BY <1>cm, OwnRowClaimed, StateNames DEF Complete
<1>f. CASE Fail(w)
  BY <1>f, OwnRowClaimed, StateNames DEF Fail
<1>ff. CASE FinalizeFails(w)
  BY <1>ff, OwnRowClaimed, StateNames DEF FinalizeFails
<1>af. CASE AdoptionForgotten(w)
  <2> DEFINE row == [op EXCEPT !.state = "RetryPending", !.dstHash = None]
  <2>1. pc[w] # "idle" /\ Finish(w, row)
    BY <1>af DEF AdoptionForgotten
  <2>2. row \in Operation /\ row.state = "RetryPending"
    BY <1>t, <2>1, StateNames DEF Operation
  <2> HIDE DEF row
  <2>3. ClaimOn(disk', syncs', exposed', row)
    BY <2>2, NoClaim
  <2> QED
    BY <2>1, <2>2, <2>3, FinishClaimed
<1>eg. CASE EventGone(w)
  BY <1>eg, ReturnClaimed, UntouchedClaimed DEF EventGone, Drop
<1>su. CASE Supersede(w)
  <2>1. pc[w] = "supersede" /\ Save(w, To(op, "Failed"), "direct")
    BY <1>su DEF Supersede
  <2>2. To(op, "Failed") \in Operation /\ ClaimOn(disk', syncs', exposed', To(op, "Failed"))
    BY <2>1, OwnRowClaimed, StateNames
  <2> QED
    BY <2>1, <2>2, SaveClaimed
<1>ed. CASE ExecuteDirect(w)
  <2>1. RowsClaimed'
    BY <1>ed, UntouchedClaimed DEF ExecuteDirect
  <2>2. CASE Return(w)
    BY <2>1, <2>2, ReturnClaimed
  <2>3. CASE Admit(w, op.media, op.event, "direct")
    <3>1. op.media \in Media /\ op.event \in Event
      BY <2>3 DEF Admit, Admissible
    <3> QED
      BY <2>1, <2>3, <3>1, AdmitClaimed
  <2> QED
    BY <1>ed, <2>2, <2>3 DEF ExecuteDirect
<1> QED
  BY <1>r, <1>h, <1>res, <1>c, <1>s, <1>v, <1>co, <1>m, <1>cd, <1>se, <1>rel, <1>cm, <1>f,
     <1>ff, <1>af, <1>eg, <1>su, <1>ed DEF Execute

-----------------------------------------------------------------------------
(* The second layer is inductive: users, recovery and the outside world.   *)

LEMMA DirectClaimed ==
  Placed /\ Claimed /\ Keeps =>
    \A w \in Worker, o \in OpId :
      /\ ops[o].state # "Absent"
      /\ Continue(w, "supersede", [NoCall EXCEPT !.via = "direct", !.op = ops[o]])
      => CallsClaimed'
<1> SUFFICES ASSUME Placed, Claimed, Keeps, NEW w \in Worker, NEW o \in OpId,
                    ops[o].state # "Absent",
                    Continue(w, "supersede", [NoCall EXCEPT !.via = "direct", !.op = ops[o]])
             PROVE  CallsClaimed'
  OBVIOUS
<1> DEFINE c == [NoCall EXCEPT !.via = "direct", !.op = ops[o]]
<1>1. ops[o] \in Operation /\ ClaimOn(disk', syncs', exposed', ops[o])
  BY RowsKept DEF Placed, RowsPlaced, Claimed
<1>2. c \in Call /\ c.op = ops[o]
  BY <1>1, NoCallType DEF Call
<1> HIDE DEF c
<1>3. CallClaimed(disk', syncs', exposed', "supersede", c) /\ "supersede" \in WorkerPc
  BY <1>1, <1>2 DEF CallClaimed, Committing, Hashed, Uncommitted, WorkerPc
<1> QED
  BY <1>2, <1>3, ContinueClaimed DEF c

LEMMA UserClaimed ==
  Placed /\ Claimed /\ Keeps /\ User => RowsClaimed' /\ CallsClaimed' /\ RecoveryClaimed'
<1> SUFFICES ASSUME Placed, Claimed, Keeps, User
             PROVE  RowsClaimed' /\ CallsClaimed' /\ RecoveryClaimed'
  OBVIOUS
<1>0. RecoveryClaimed'
  <2>1. UNCHANGED recover
    BY DEF User, Retry, RouteAgain, Dismiss, SupersedeEvent, DeleteEvent, Cancel, Drop
  <2> QED
    BY <2>1, UntouchedClaimed
<1> SUFFICES RowsClaimed' /\ CallsClaimed'
  BY <1>0
<1>o. UNCHANGED origin
  BY DEF Keeps
<1>1. ASSUME NEW w \in Worker, NEW o \in OpId, Retry(w, o) \/ RouteAgain(w, o)
      PROVE  RowsClaimed' /\ CallsClaimed'
  <2>1. ops[o].state # "Absent"
    BY <1>1 DEF Retry, RouteAgain, Waiting
  <2> QED
    BY <1>1, <2>1, DirectClaimed, UntouchedClaimed DEF Retry, RouteAgain
<1>2. ASSUME NEW o \in OpId, Dismiss(o) PROVE RowsClaimed' /\ CallsClaimed'
  <2>1. ops[o] \in Operation /\ "Ignored" \in OperationState
    BY StateNames DEF Placed, RowsPlaced
  <2>2. To(ops[o], "Ignored") \in Operation /\ To(ops[o], "Ignored").state = "Ignored"
    BY <2>1, ToFields
  <2>3. ClaimOn(disk', syncs', exposed', To(ops[o], "Ignored"))
    BY <2>2, NoClaim DEF Finishing
  <2> QED
    BY <1>2, <2>2, <2>3, UpsertClaimed, UntouchedClaimed DEF Dismiss
<1>3. ASSUME NEW e \in Event, SupersedeEvent(e) PROVE RowsClaimed' /\ CallsClaimed'
  <2>1. ASSUME NEW o \in OpId PROVE ClaimOn(disk', syncs', exposed', ops'[o])
    <3>0. ops[o] \in Operation /\ "Failed" \in OperationState
      BY StateNames DEF Placed, RowsPlaced
    <3>1. ops'[o] = ops[o] \/ ops'[o] = To(ops[o], "Failed")
      BY <1>3 DEF SupersedeEvent
    <3>2. ClaimOn(disk', syncs', exposed', ops[o])
      BY RowsKept DEF Claimed
    <3>3. To(ops[o], "Failed").state = "Failed"
      BY <3>0, ToFields
    <3>4. ClaimOn(disk', syncs', exposed', To(ops[o], "Failed"))
      BY <3>3, NoClaim DEF Finishing
    <3> QED
      BY <3>1, <3>2, <3>4
  <2>2. RowsClaimed'
    BY <1>o, <2>1 DEF RowsClaimed, ClaimOn, Genuine, Kept, HasCommittedDestination
  <2> QED
    BY <1>3, <2>2, UntouchedClaimed DEF SupersedeEvent
<1>4. ASSUME NEW e \in Event, DeleteEvent(e) PROVE RowsClaimed' /\ CallsClaimed'
  <2>1. ASSUME NEW o \in OpId PROVE ClaimOn(disk', syncs', exposed', ops'[o])
    <3> DEFINE r == [ops[o] EXCEPT !.event = None]
    <3>0. ops[o] \in Operation
      BY DEF Placed, RowsPlaced
    <3>1. ops'[o] = ops[o] \/ ops'[o] = r
      BY <1>4 DEF DeleteEvent
    <3>2. ClaimOn(disk', syncs', exposed', ops[o])
      BY RowsKept DEF Claimed
    <3>3. /\ r.state = ops[o].state /\ r.dest = ops[o].dest
          /\ r.dstHash = ops[o].dstHash /\ r.media = ops[o].media
      BY <3>0 DEF Operation
    <3> HIDE DEF r
    <3>4. ClaimOn(disk', syncs', exposed', r)
      BY <3>2, <3>3 DEF ClaimOn, HasCommittedDestination
    <3> QED
      BY <3>1, <3>2, <3>4
  <2>2. RowsClaimed'
    BY <1>o, <2>1 DEF RowsClaimed, ClaimOn, Genuine, Kept, HasCommittedDestination
  <2> QED
    BY <1>4, <2>2, UntouchedClaimed DEF DeleteEvent
<1>5. ASSUME NEW w \in Worker, Cancel(w) PROVE RowsClaimed' /\ CallsClaimed'
  BY <1>5, ReturnClaimed, UntouchedClaimed DEF Cancel, Drop
<1> QED
  BY <1>1, <1>2, <1>3, <1>4, <1>5 DEF User

\* Recovery writes a row back in a state that claims nothing, or one whose claim
\* it has; the rest of its list is as it was.
LEMMA ResolvedClaimed ==
  Placed /\ Claimed /\ Keeps =>
    \A r \in Operation, s \in OperationState :
      /\ Resolved(r, s)
      /\ ClaimOn(disk', syncs', exposed', r)
      /\ s \in Finishing \cup {"Completed"} => HasCommittedDestination(r)
      => RowsClaimed' /\ CallsClaimed' /\ RecoveryClaimed'
<1> SUFFICES ASSUME Placed, Claimed, Keeps, NEW r \in Operation, NEW s \in OperationState,
                    Resolved(r, s), ClaimOn(disk', syncs', exposed', r),
                    s \in Finishing \cup {"Completed"} => HasCommittedDestination(r)
             PROVE  RowsClaimed' /\ CallsClaimed' /\ RecoveryClaimed'
  OBVIOUS
<1>1. To(r, s) \in Operation /\ To(r, s).state = s
  BY ToFields
<1>2. ClaimOn(disk', syncs', exposed', To(r, s))
  BY <1>1, NoClaim, SameClaim
<1>3. RowsClaimed'
  BY <1>1, <1>2, UpsertClaimed DEF Resolved
<1>4. CallsClaimed'
  BY UntouchedClaimed DEF Resolved
<1>5. RecoveryClaimed'
  <2>1. \A q \in todo' : ClaimOn(disk', syncs', exposed', q)
    BY RecoveryKept DEF Resolved, Claimed
  <2>2. rpc' = "scan" /\ UNCHANGED origin
    BY DEF Resolved, Keeps
  <2> QED
    BY <2>1, <2>2 DEF RecoveryClaimed, ClaimOn, Genuine, Kept,
       HasCommittedDestination
<1> QED
  BY <1>3, <1>4, <1>5

LEMMA RecoverClaimed ==
  Placed /\ Claimed /\ Keeps /\ (Recover \/ RequestRecovery) =>
    RowsClaimed' /\ CallsClaimed' /\ RecoveryClaimed'
<1> SUFFICES ASSUME Placed, Claimed, Keeps, Recover \/ RequestRecovery
             PROVE  RowsClaimed' /\ CallsClaimed' /\ RecoveryClaimed'
  OBVIOUS
<1>0. \A r \in todo : r \in Operation /\ ClaimOn(disk', syncs', exposed', r)
  BY RecoveryKept DEF Claimed, Placed, RecoveryPlaced
<1>i. rpc \in {"delete", "complete"} =>
        item \in Operation /\ HasCommittedDestination(item) /\ ClaimOn(disk', syncs', exposed', item)
  BY RecoveryKept DEF Claimed, Placed, RecoveryPlaced, RecoveryClaimed
<1>o. UNCHANGED origin
  BY DEF Keeps
<1>1. CASE RecoverList
  <2>1. \A r \in todo' : ClaimOn(disk', syncs', exposed', r)
    BY <1>1, RowsKept DEF RecoverList, ListIncomplete, Claimed
  <2>2. RecoveryClaimed'
    BY <1>1, <1>o, <2>1 DEF RecoverList, RecoveryClaimed, ClaimOn, Genuine, Kept,
       HasCommittedDestination
  <2> QED
    BY <1>1, <2>2, UntouchedClaimed DEF RecoverList
<1>2. CASE RecoverDelete
  <2>1. RecoveryClaimed'
    BY <1>0, <1>2, <1>i, <1>o DEF RecoverDelete, RecoveryClaimed, ClaimOn, Genuine, Kept,
       HasCommittedDestination
  <2> QED
    BY <1>2, <2>1, UntouchedClaimed DEF RecoverDelete
<1>3. CASE RecoverComplete
  BY <1>3, <1>i, ResolvedClaimed, StateNames DEF RecoverComplete
<1>4. CASE RecoverFails
  BY <1>0, <1>4, <1>i, ResolvedClaimed, StateNames DEF RecoverFails
<1>5. CASE RecoverEnd
  <2>1. RecoveryClaimed'
    BY <1>5 DEF RecoverEnd, RecoveryClaimed
  <2> QED
    BY <1>5, <2>1, UntouchedClaimed DEF RecoverEnd
<1>6. ASSUME NEW r \in todo, RecoverUncommitted(r)
      PROVE  RowsClaimed' /\ CallsClaimed' /\ RecoveryClaimed'
  BY <1>0, <1>6, ResolvedClaimed, StateNames DEF RecoverUncommitted, Finishing
<1>7. ASSUME NEW r \in todo, RecoverCommitted(r)
      PROVE  RowsClaimed' /\ CallsClaimed' /\ RecoveryClaimed'
  <2>1. HasCommittedDestination(r)
    BY <1>7 DEF RecoverCommitted
  <2> DEFINE row == To(r, "SourceFinalizePending")
  <2>2. \/ Resolved(r, "Quarantined")
        \/ Resolved(r, "Completed")
        \/ /\ Upsert(row)
           /\ todo' = todo \ {r}
           /\ item' = row
           /\ rpc' = "delete"
           /\ UNCHANGED calls
    BY <1>7 DEF RecoverCommitted
  <2>3. CASE Resolved(r, "Quarantined") \/ Resolved(r, "Completed")
    BY <1>0, <2>1, <2>3, ResolvedClaimed, StateNames
  <2>4. CASE /\ Upsert(row)
             /\ todo' = todo \ {r}
             /\ item' = row
             /\ rpc' = "delete"
             /\ UNCHANGED calls
    <3>0. "SourceFinalizePending" \in OperationState
      BY StateNames
    <3>1. row \in Operation /\ row.state = "SourceFinalizePending"
      BY <1>0, <3>0, ToFields
    <3>2. ClaimOn(disk', syncs', exposed', row) /\ HasCommittedDestination(row)
      BY <1>0, <2>1, <3>0, <3>1, SameClaim DEF HasCommittedDestination, Finishing
    <3> HIDE DEF row
    <3>3. RowsClaimed' /\ CallsClaimed'
      BY <2>4, <3>1, <3>2, UpsertClaimed, UntouchedClaimed
    <3>4. RecoveryClaimed'
      BY <1>0, <1>o, <2>4, <3>2 DEF RecoveryClaimed, ClaimOn, Genuine, Kept,
       HasCommittedDestination
    <3> QED
      BY <3>3, <3>4
  <2> QED
    BY <2>2, <2>3, <2>4
<1>8. CASE RequestRecovery
  <2>1. RecoveryClaimed'
    BY <1>0, <1>8, <1>o DEF RequestRecovery, RecoveryClaimed, ClaimOn, Genuine, Kept,
       HasCommittedDestination
  <2> QED
    BY <1>8, <2>1, UntouchedClaimed DEF RequestRecovery
<1> QED
  BY <1>1, <1>2, <1>3, <1>4, <1>5, <1>6, <1>7, <1>8 DEF Recover

LEMMA InitClaimed == Init => Claimed
<1> SUFFICES ASSUME Init PROVE Claimed
  OBVIOUS
<1>1. RowsClaimed
  BY NoClaim DEF Init, RowsClaimed, NoOperation, Finishing
<1>2. CallsClaimed
  BY DEF Init, CallsClaimed, CallClaimed, Committing, Hashed, Uncommitted
<1>3. RecoveryClaimed
  BY DEF Init, RecoveryClaimed
<1>4. SourcesKept
  <2>1. \A m \in Present : origin[m] # None /\ disk[SourcePath[m]] = origin[m]
    BY DEF Init
  <2>2. \A m \in Media : disk[SourcePath[m]] \in {None, origin[m]}
    BY <2>1 DEF Init
  <2> QED
    BY <2>1, <2>2 DEF SourcesKept, Genuine
<1> QED
  BY <1>1, <1>2, <1>3, <1>4 DEF Claimed

LEMMA NextClaimed == Placed /\ Claimed /\ [SyncNext]_vars => Claimed'
<1> SUFFICES ASSUME Placed, Claimed, [SyncNext]_vars PROVE Claimed'
  OBVIOUS
<1>0. Keeps /\ SourcesKept'
  BY NextKeeps, NextKeepsSources
<1>1. ASSUME NEW w \in Worker, NEW m \in Media, NEW e \in Event, Begin(w, m, e)
      PROVE  RowsClaimed' /\ CallsClaimed' /\ RecoveryClaimed'
  BY <1>0, <1>1, AdmitClaimed, UntouchedClaimed DEF Begin
<1>2. CASE Crash
  <2>1. CallsClaimed' /\ RecoveryClaimed'
    BY <1>2 DEF Crash, CallsClaimed, CallClaimed, Committing, Hashed, Uncommitted,
       RecoveryClaimed
  <2> QED
    BY <1>0, <1>2, <2>1, UntouchedClaimed DEF Crash, Claimed
<1>3. ASSUME NEW m \in Media, Sync(m)
      PROVE  RowsClaimed' /\ CallsClaimed' /\ RecoveryClaimed'
  BY <1>0, <1>3, UntouchedClaimed DEF Sync
<1>4. CASE UNCHANGED vars
  BY <1>0, <1>4, UntouchedClaimed DEF vars, Claimed
<1> QED
  BY <1>0, <1>1, <1>2, <1>3, <1>4, ExecuteClaimed, UserClaimed, RecoverClaimed
     DEF SyncNext, Next, Unattended, Claimed

-----------------------------------------------------------------------------
(* The theorems.                                                           *)

\* The second layer holds throughout.
THEOREM ClaimedHolds == SyncSpec => []Claimed
<1>1. Init => Claimed
  BY InitClaimed
<1>2. Placed /\ Claimed /\ [SyncNext]_vars => Claimed'
  BY NextClaimed
<1> QED
  BY <1>1, <1>2, PlacedHolds, PTL DEF SyncSpec

\* Whatever interleaves, is cancelled, crashes or is rewritten outside: a row
\* that claims a committed destination names a file with exactly the bytes it
\* records, if no folder is both a source and a destination.
THEOREM CommittedCopyStaysStored ==
  ASSUME DisjointShares PROVE SyncSpec => []CommittedCopyStored
<1>1. ASSUME Placed, Claimed PROVE CommittedCopyStored
  <2> SUFFICES ASSUME NEW o \in OpId, HasCommittedDestination(ops[o])
               PROVE  ops[o].dstHash # None /\ disk[ops[o].dest] = ops[o].dstHash
    BY DEF CommittedCopyStored
  <2>1. ops[o].dest \in Lasting
    BY <1>1, Disjoint DEF Placed, RowsPlaced, Identified, Located, HasCommittedDestination,
       Finishing
  <2> QED
    BY <1>1, <2>1 DEF Claimed, RowsClaimed, ClaimOn
<1> QED
  BY <1>1, PlacedHolds, ClaimedHolds, PTL

\* As long as nobody rewrites a source, the bytes of every source file are on some
\* share, also where a folder is source and destination in one; no release,
\* recovery, retry or crash loses the last copy, except a release whose row names
\* another source file as the copy.
THEOREM NoContentIsLost == Spec => []NoContentLost
<1> DEFINE Calm == syncs = 0
<1>1. Init => Calm
  BY DEF Init
<1>2. Calm /\ [Next]_vars => Calm'
  <2> SUFFICES ASSUME Calm, [Next]_vars PROVE Calm'
    OBVIOUS
  <2>1. UNCHANGED syncs
    BY NextRemembers DEF Remembers
  <2> QED
    BY <2>1
<1>3. Spec => []Calm
  BY <1>1, <1>2, PTL DEF Spec
<1>4. [Next]_vars => [SyncNext]_vars
  BY DEF SyncNext
<1>5. Spec => SyncSpec
  BY <1>4, PTL DEF Spec, SyncSpec
<1>6. Claimed /\ Calm => NoContentLost
  BY DEF Claimed, SourcesKept, Kept, Lasting, NoContentLost
<1> QED
  BY <1>3, <1>5, <1>6, ClaimedHolds, PTL

-----------------------------------------------------------------------------
(* The shapes of a call's steps.                                           *)

\* The states of a row that must not be left behind.
Unsettled == InFlight \cup {"DestinationCommitted"}

\* Two snapshots of one operation.
SameOperation(a, b) == a.id = b.id /\ a.media = b.media /\ a.event = b.event

\* A call begins, is admitted or ends before it has a row.
Enters(w) ==
  /\ pc[w] \notin Executing
  /\ \E next \in WorkerPc \ Executing, c \in Call :
       /\ next # "supersede"
       /\ next = "admitted" => c.op.state = "TransferPending"
       /\ next # "idle" => disk[Source(c.op)] # None
       /\ Continue(w, next, c)
  /\ UNCHANGED <<ops, abandoned>>

\* A call inserts its row.
Inserts(w) ==
  /\ pc[w] = "admitted"
  /\ \E o \in OpId : ops[o].state = "Absent" /\ Save(w, [call[w].op EXCEPT !.id = o], "hash")
  /\ UNCHANGED abandoned

\* A call goes on and its row stays.
Goes(w) ==
  /\ pc[w] \in Executing
  /\ \E next \in Executing \ {"finalize"}, c \in Call :
       /\ c.op = call[w].op
       /\ next \in Committing \/ pc[w] \notin Committing
       /\ Continue(w, next, c)
  /\ UNCHANGED <<ops, abandoned>>

\* The call forgets the copy it adopted, and the history knows of it.
Forgets(w, op) ==
  /\ op.state = "RetryPending"
  /\ UNCHANGED disk
  /\ disk[Source(call[w].op)] = None => call[w].op.media \in forgotten'

\* What a committed call writes: the same claim in another state, unless it
\* forgets it.
KeepsDestination(w, op) ==
  pc[w] \in Committing =>
    \/ Forgets(w, op)
    \/ /\ op.state \in {"SourceFinalizePending", "Completed"}
       /\ op.dest = call[w].op.dest
       /\ op.dstHash = call[w].op.dstHash

\* A call writes its row and goes on.
Saves(w) ==
  /\ pc[w] \in Executing
  /\ \E op \in Operation, next \in Executing :
       /\ SameOperation(op, call[w].op)
       /\ op.state \in InFlight \cup Finishing
       /\ next \in Committing \/ op.state \in InFlight
       /\ next = "finalize" => /\ op.state = "SourceFinalizePending"
                               /\ policy[op.event].mode = "SafeMove"
       /\ KeepsDestination(w, op)
       /\ Save(w, op, next)
  /\ UNCHANGED abandoned

\* A call writes its row a last time.
Ends(w) ==
  /\ pc[w] \in Executing
  /\ \E op \in Operation :
       /\ SameOperation(op, call[w].op)
       /\ op.state \notin Unsettled \cup {"Absent"}
       /\ KeepsDestination(w, op)
       /\ Finish(w, op)
  /\ UNCHANGED abandoned

CallStep(w) ==
  \/ Enters(w) \/ Inserts(w) \/ Goes(w) \/ Saves(w) \/ Ends(w)
  \/ (pc[w] # "idle" /\ Drop(w))
  \/ Supersede(w)

LEMMA ExecutingNames ==
  /\ Executing = {"hash", "resolve", "copying", "copied", "verify", "commit", "move", "moved",
                  "committed", "finalize", "released"}
  /\ Executing \subseteq WorkerPc
  /\ Unsettled = {"TransferPending", "Copying", "Verifying", "DestinationCommitted"}
  /\ Unsettled \subseteq InFlight \cup Finishing
  /\ Committing = {"committed", "finalize", "released"}
  BY DEF Executing, Uncommitted, WorkerPc, Unsettled, InFlight, Finishing, Committing

\* The call's own row in another state has the shape of a saved or final row.
LEMMA OwnSnapshot ==
  Placed =>
    \A w \in Worker, s \in OperationState :
      pc[w] \in Executing =>
        /\ To(call[w].op, s) \in Operation
        /\ To(call[w].op, s).state = s
        /\ SameOperation(To(call[w].op, s), call[w].op)
        /\ pc[w] \in Committing => To(call[w].op, s).dest = call[w].op.dest
                                   /\ To(call[w].op, s).dstHash = call[w].op.dstHash
<1> SUFFICES ASSUME Placed, NEW w \in Worker, NEW s \in OperationState, pc[w] \in Executing
             PROVE  /\ To(call[w].op, s) \in Operation
                    /\ To(call[w].op, s).state = s
                    /\ SameOperation(To(call[w].op, s), call[w].op)
                    /\ pc[w] \in Committing => To(call[w].op, s).dest = call[w].op.dest
                                               /\ To(call[w].op, s).dstHash = call[w].op.dstHash
  OBVIOUS
<1>1. call[w].op \in Operation
  BY CallAt DEF Placed
<1> QED
  BY <1>1, ToFields DEF SameOperation

\* A step that ends the call with its row in another state.
LEMMA EndsAs ==
  Placed =>
    \A w \in Worker, s \in OperationState \ (Unsettled \cup {"Absent"}) :
      /\ pc[w] \in Executing
      /\ pc[w] \in Committing => s \in {"SourceFinalizePending", "Completed"}
      /\ Finish(w, To(call[w].op, s))
      /\ UNCHANGED abandoned
      => Ends(w)
<1> SUFFICES ASSUME Placed, NEW w \in Worker,
                    NEW s \in OperationState \ (Unsettled \cup {"Absent"}),
                    pc[w] \in Executing,
                    pc[w] \in Committing => s \in {"SourceFinalizePending", "Completed"},
                    Finish(w, To(call[w].op, s)), UNCHANGED abandoned
             PROVE  Ends(w)
  OBVIOUS
<1> DEFINE op == To(call[w].op, s)
<1>1. op \in Operation /\ op.state = s /\ SameOperation(op, call[w].op)
      /\ (pc[w] \in Committing => op.dest = call[w].op.dest /\ op.dstHash = call[w].op.dstHash)
  BY OwnSnapshot
<1>2. Finish(w, op)
  OBVIOUS
<1> HIDE DEF op
<1>3. KeepsDestination(w, op)
  BY <1>1 DEF KeepsDestination
<1> QED
  BY <1>1, <1>2, <1>3 DEF Ends

\* ... and one that goes on with it.
LEMMA SavesAs ==
  Placed =>
    \A w \in Worker, s \in InFlight \cup Finishing, next \in Executing :
      /\ pc[w] \in Executing
      /\ pc[w] \in Committing => s = "SourceFinalizePending"
      /\ next \in Committing \/ s \in InFlight
      /\ next = "finalize" => s = "SourceFinalizePending"
                              /\ policy[call[w].op.event].mode = "SafeMove"
      /\ Save(w, To(call[w].op, s), next)
      /\ UNCHANGED abandoned
      => Saves(w)
<1> SUFFICES ASSUME Placed, NEW w \in Worker,
                    NEW s \in InFlight \cup Finishing, NEW next \in Executing,
                    pc[w] \in Executing,
                    pc[w] \in Committing => s = "SourceFinalizePending",
                    next \in Committing \/ s \in InFlight,
                    next = "finalize" => s = "SourceFinalizePending"
                                         /\ policy[call[w].op.event].mode = "SafeMove",
                    Save(w, To(call[w].op, s), next), UNCHANGED abandoned
             PROVE  Saves(w)
  OBVIOUS
<1> DEFINE op == To(call[w].op, s)
<1>0. s \in OperationState
  BY DEF OperationState
<1>1. op \in Operation /\ op.state = s /\ SameOperation(op, call[w].op)
      /\ (pc[w] \in Committing => op.dest = call[w].op.dest /\ op.dstHash = call[w].op.dstHash)
  BY <1>0, OwnSnapshot
<1>2. Save(w, op, next)
  OBVIOUS
<1> HIDE DEF op
<1>3. KeepsDestination(w, op)
  BY <1>1 DEF KeepsDestination
<1>4. next = "finalize" => op.state = "SourceFinalizePending"
                           /\ policy[op.event].mode = "SafeMove"
  BY <1>1 DEF SameOperation
<1> QED
  BY <1>1, <1>2, <1>3, <1>4 DEF Saves

LEMMA AdoptShape ==
  Placed =>
    \A w \in Worker, p \in Destination :
      pc[w] \in Uncommitted /\ Adopt(w, p) /\ UNCHANGED abandoned => Saves(w) \/ Ends(w)
<1> SUFFICES ASSUME Placed, NEW w \in Worker, NEW p \in Destination,
                    pc[w] \in Uncommitted, Adopt(w, p), UNCHANGED abandoned
             PROVE  Saves(w) \/ Ends(w)
  OBVIOUS
<1> DEFINE copy == [call[w].op EXCEPT !.dest = p, !.srcHash = call[w].hash,
                                      !.dstHash = call[w].hash]
<1>1. call[w].op \in Operation /\ Identified(call[w].op)
      /\ call[w].hash \in Content \cup {None}
  BY RunningCall DEF Uncommitted
<1>2. copy \in Operation /\ SameOperation(copy, call[w].op)
  <2>1. copy \in Operation /\ Identified(copy)
    BY <1>1 DEF Operation, Identified, Located
  <2>2. copy.id = call[w].op.id /\ copy.media = call[w].op.media
        /\ copy.event = call[w].op.event
    BY <1>1 DEF Operation
  <2> HIDE DEF copy
  <2> QED
    BY <2>1, <2>2 DEF SameOperation
<1>3. \/ Save(w, To(copy, "DestinationCommitted"), "committed")
      \/ Finish(w, To(copy, "Ignored"))
  BY DEF Adopt
<1>4. pc[w] \in Executing /\ pc[w] \notin Committing
  BY DEF Executing, Uncommitted, Committing
<1> HIDE DEF copy
<1>5. \A s \in OperationState :
        /\ To(copy, s) \in Operation
        /\ To(copy, s).state = s
        /\ SameOperation(To(copy, s), call[w].op)
  BY <1>2, ToFields DEF SameOperation
<1>6. CASE Save(w, To(copy, "DestinationCommitted"), "committed")
  BY <1>4, <1>5, <1>6, ExecutingNames, StateNames DEF Saves, KeepsDestination, Finishing
<1>7. CASE Finish(w, To(copy, "Ignored"))
  BY <1>4, <1>5, <1>7, ExecutingNames, StateNames DEF Ends, KeepsDestination
<1> QED
  BY <1>3, <1>6, <1>7

LEMMA ResolveShape == Placed => \A w \in Worker : Resolve(w) => Saves(w) \/ Ends(w)
<1> SUFFICES ASSUME Placed, NEW w \in Worker, Resolve(w) PROVE Saves(w) \/ Ends(w)
  OBVIOUS
<1> DEFINE op == call[w].op
<1>1. /\ pc[w] = "resolve" /\ op \in Operation /\ Identified(op)
      /\ call[w].hash \in Content \cup {None}
      /\ UNCHANGED abandoned
  BY RunningCall DEF Resolve
<1>2. PICK copy \in StoredCopies(call[w].hash, op.media) :
        \/ copy # None /\ Adopt(w, copy)
        \/ Finish(w, To(op, "Quarantined"))
        \/ \E p \in Destination :
             \/ Adopt(w, p)
             \/ Save(w, [op EXCEPT !.state = "Copying", !.dest = p, !.srcHash = call[w].hash],
                     "copying")
  BY DEF Resolve
<1>3. pc[w] \in Executing /\ pc[w] \in Uncommitted /\ pc[w] \notin Committing
  BY <1>1 DEF Executing, Uncommitted, Committing
<1>4. ASSUME copy # None, Adopt(w, copy) PROVE Saves(w) \/ Ends(w)
  <2>1. copy \in Destination
    BY <1>4, StoredPlaced DEF Placed
  <2> QED
    BY <1>1, <1>3, <1>4, <2>1, AdoptShape
<1>5. ASSUME Finish(w, To(op, "Quarantined")) PROVE Ends(w)
  BY <1>1, <1>3, <1>5, EndsAs, StateNames, ExecutingNames
<1>6. ASSUME NEW p \in Destination, Adopt(w, p) PROVE Saves(w) \/ Ends(w)
  BY <1>1, <1>3, <1>6, AdoptShape
<1>7. ASSUME NEW p \in Destination,
             Save(w, [op EXCEPT !.state = "Copying", !.dest = p, !.srcHash = call[w].hash],
                  "copying")
      PROVE  Saves(w)
  <2> DEFINE next == [op EXCEPT !.state = "Copying", !.dest = p, !.srcHash = call[w].hash]
  <2>1. next \in Operation /\ next.state = "Copying" /\ SameOperation(next, op)
    <3>1. next \in Operation /\ Identified(next)
      BY <1>1, StateNames DEF Operation, Identified, Located
    <3>2. next.state = "Copying" /\ next.id = op.id /\ next.media = op.media
          /\ next.event = op.event
      BY <1>1 DEF Operation
    <3> HIDE DEF next
    <3> QED
      BY <3>1, <3>2 DEF SameOperation
  <2>2. Save(w, next, "copying")
    BY <1>7
  <2> HIDE DEF next
  <2> QED
    BY <1>1, <1>3, <2>1, <2>2, ExecutingNames DEF Saves, KeepsDestination, InFlight
<1> QED
  BY <1>2, <1>4, <1>5, <1>6, <1>7

LEMMA VerifyShape == Placed => \A w \in Worker : Verify(w) => Goes(w) \/ Ends(w)
<1> SUFFICES ASSUME Placed, NEW w \in Worker, Verify(w) PROVE Goes(w) \/ Ends(w)
  OBVIOUS
<1> DEFINE op == call[w].op
           row == [op EXCEPT !.state = "Quarantined", !.srcHash = disk[Source(op)],
                             !.dstHash = staging[op.id]]
<1>1. /\ pc[w] = "verify" /\ op \in Operation /\ Identified(op) /\ call[w] \in Call
      /\ disk[Source(op)] \in Content \cup {None}
      /\ staging[op.id] \in Content \cup {None}
      /\ UNCHANGED abandoned
  BY RunningCall DEF Verify
<1>2. pc[w] \in Executing /\ pc[w] \notin Committing
  BY <1>1 DEF Executing, Uncommitted, Committing
<1>3. \/ Finish(w, To(op, "Quarantined"))
      \/ Finish(w, row)
      \/ Goto(w, "commit") /\ UNCHANGED ops
  BY DEF Verify
<1>4. CASE Finish(w, To(op, "Quarantined"))
  BY <1>1, <1>2, <1>4, EndsAs, StateNames, ExecutingNames
<1>5. CASE Finish(w, row)
  <2>1. row \in Operation /\ row.state = "Quarantined" /\ SameOperation(row, op)
    <3>1. row \in Operation /\ Identified(row)
      BY <1>1, StateNames DEF Operation, Identified, Located
    <3>2. row.state = "Quarantined" /\ row.id = op.id /\ row.media = op.media
          /\ row.event = op.event
      BY <1>1 DEF Operation
    <3> HIDE DEF row
    <3> QED
      BY <3>1, <3>2 DEF SameOperation
  <2> HIDE DEF row
  <2> QED
    BY <1>1, <1>2, <1>5, <2>1, ExecutingNames DEF Ends, KeepsDestination
<1>6. CASE Goto(w, "commit") /\ UNCHANGED ops
  BY <1>1, <1>2, <1>6, ExecutingNames DEF Goto, Goes
<1> QED
  BY <1>3, <1>4, <1>5, <1>6

LEMMA CommitShape == Placed => \A w \in Worker : Commit(w) => Goes(w) \/ Saves(w) \/ Ends(w)
<1> SUFFICES ASSUME Placed, NEW w \in Worker, Commit(w) PROVE Goes(w) \/ Saves(w) \/ Ends(w)
  OBVIOUS
<1> DEFINE op == call[w].op
<1>1. pc[w] = "commit" /\ op \in Operation /\ call[w] \in Call /\ UNCHANGED abandoned
  BY RunningCall DEF Commit
<1>2. pc[w] \in Executing /\ pc[w] \in Uncommitted /\ pc[w] \notin Committing
  BY <1>1 DEF Executing, Uncommitted, Committing
<1>3. \/ Finish(w, To(op, "Quarantined"))
      \/ \E p \in Destination :
           \/ Adopt(w, p)
           \/ Continue(w, "move", [call[w] EXCEPT !.target = p]) /\ UNCHANGED ops
  BY DEF Commit
<1>4. CASE Finish(w, To(op, "Quarantined"))
  BY <1>1, <1>2, <1>4, EndsAs, StateNames, ExecutingNames
<1>5. ASSUME NEW p \in Destination, Adopt(w, p) PROVE Saves(w) \/ Ends(w)
  BY <1>1, <1>2, <1>5, AdoptShape
<1>6. ASSUME NEW p \in Destination,
             Continue(w, "move", [call[w] EXCEPT !.target = p]), UNCHANGED ops
      PROVE  Goes(w)
  <2>1. [call[w] EXCEPT !.target = p] \in Call /\ [call[w] EXCEPT !.target = p].op = op
    BY <1>1 DEF Call
  <2> QED
    BY <1>1, <1>2, <1>6, <2>1, ExecutingNames DEF Goes
<1> QED
  BY <1>3, <1>4, <1>5, <1>6

LEMMA CheckShape == Placed => \A w \in Worker : CheckDestination(w) => Saves(w) \/ Ends(w)
<1> SUFFICES ASSUME Placed, NEW w \in Worker, CheckDestination(w) PROVE Saves(w) \/ Ends(w)
  OBVIOUS
<1> DEFINE op == call[w].op
           a == [op EXCEPT !.state = "Quarantined", !.dest = call[w].target]
           b == [op EXCEPT !.state = "Quarantined", !.dest = call[w].target,
                           !.dstHash = disk[call[w].target]]
           c == [op EXCEPT !.state = "DestinationCommitted", !.dest = call[w].target,
                           !.srcHash = call[w].hash, !.dstHash = disk[call[w].target]]
<1>1. /\ pc[w] = "moved" /\ op \in Operation /\ Identified(op)
      /\ call[w].hash \in Content \cup {None}
      /\ call[w].target \in Destination
      /\ disk[call[w].target] \in Content \cup {None}
      /\ UNCHANGED abandoned
  BY RunningCall DEF CheckDestination
<1>2. pc[w] \in Executing /\ pc[w] \notin Committing
  BY <1>1 DEF Executing, Uncommitted, Committing
<1>3. Finish(w, a) \/ Finish(w, b) \/ Save(w, c, "committed")
  BY DEF CheckDestination
<1>4. a \in Operation /\ a.state = "Quarantined" /\ SameOperation(a, op)
  <2>1. a \in Operation /\ Identified(a)
    BY <1>1, StateNames DEF Operation, Identified, Located
  <2>2. a.state = "Quarantined" /\ a.id = op.id /\ a.media = op.media
        /\ a.event = op.event
    BY <1>1 DEF Operation
  <2> HIDE DEF a
  <2> QED
    BY <2>1, <2>2 DEF SameOperation
<1>5. b \in Operation /\ b.state = "Quarantined" /\ SameOperation(b, op)
  <2>1. b \in Operation /\ Identified(b)
    BY <1>1, StateNames DEF Operation, Identified, Located
  <2>2. b.state = "Quarantined" /\ b.id = op.id /\ b.media = op.media
        /\ b.event = op.event
    BY <1>1 DEF Operation
  <2> HIDE DEF b
  <2> QED
    BY <2>1, <2>2 DEF SameOperation
<1>6. c \in Operation /\ c.state = "DestinationCommitted" /\ SameOperation(c, op)
  <2>1. c \in Operation /\ Identified(c)
    BY <1>1, StateNames DEF Operation, Identified, Located
  <2>2. c.state = "DestinationCommitted" /\ c.id = op.id /\ c.media = op.media
        /\ c.event = op.event
    BY <1>1 DEF Operation
  <2> HIDE DEF c
  <2> QED
    BY <2>1, <2>2 DEF SameOperation
<1> HIDE DEF a, b, c
<1>7. CASE Finish(w, a)
  BY <1>1, <1>2, <1>4, <1>7, ExecutingNames DEF Ends, KeepsDestination
<1>8. CASE Finish(w, b)
  BY <1>1, <1>2, <1>5, <1>8, ExecutingNames DEF Ends, KeepsDestination
<1>9. CASE Save(w, c, "committed")
  BY <1>1, <1>2, <1>6, <1>9, ExecutingNames DEF Saves, KeepsDestination, Finishing
<1> QED
  BY <1>3, <1>7, <1>8, <1>9

LEMMA AdmitShape ==
  Placed =>
    \A w \in Worker, m \in Media, e \in Event, via \in {"coordinator", "direct"} :
      /\ pc[w] \notin Executing
      /\ Admit(w, m, e, via)
      /\ UNCHANGED <<ops, abandoned>>
      => Enters(w)
<1> SUFFICES ASSUME Placed, NEW w \in Worker, NEW m \in Media, NEW e \in Event,
                    NEW via \in {"coordinator", "direct"}, pc[w] \notin Executing,
                    Admit(w, m, e, via), UNCHANGED <<ops, abandoned>>
             PROVE  Enters(w)
  OBVIOUS
<1>1. disk[SourcePath[m]] \in Content
  BY DEF Admit, Admissible, Placed, FilesTyped
<1>2. PICK p \in Desired[m] :
        Continue(w, "admitted",
          [via |-> via, hash |-> None, target |-> None, size |-> Length[disk[SourcePath[m]]],
           op |-> [NoOperation EXCEPT !.media = m, !.event = e,
                                      !.state = "TransferPending", !.dest = p]])
  BY DEF Admit
<1> DEFINE op == [NoOperation EXCEPT !.media = m, !.event = e,
                                     !.state = "TransferPending", !.dest = p]
<1> DEFINE c == [via |-> via, hash |-> None, target |-> None,
                 size |-> Length[disk[SourcePath[m]]], op |-> op]
<1>3. op \in Operation
  BY StateNames DEF NoOperation, Operation
<1>4. c \in Call /\ c.op = op
  BY <1>1, <1>3 DEF Call
<1>6. op.state = "TransferPending" /\ disk[Source(op)] # None
  BY <1>1 DEF NoOperation, Source
<1>5. Continue(w, "admitted", c)
  BY <1>2
<1> HIDE DEF c, op
<1> QED
  BY <1>4, <1>5, <1>6, PcNames, ExecutingNames DEF Enters

\* Every step of a call has one of the shapes, and leaves the settings, the
\* events and recovery alone.
LEMMA ExecuteShape ==
  Placed => \A w \in Worker : Execute(w) => CallStep(w) /\ UNCHANGED <<config, recover>>
<1> SUFFICES ASSUME Placed, NEW w \in Worker, Execute(w)
             PROVE  CallStep(w) /\ UNCHANGED <<config, recover>>
  OBVIOUS
<1> DEFINE op == call[w].op
<1>0. call[w] \in Call
  BY CallAt DEF Placed
<1>r. CASE Record(w)
  BY <1>r DEF Record, CallStep, Inserts
<1>h. CASE HashSource(w)
  <2>1. pc[w] = "hash" /\ disk[Source(op)] \in Content \cup {None}
    BY <1>h, RunningCall DEF HashSource
  <2>2. /\ [call[w] EXCEPT !.hash = disk[Source(op)]] \in Call
        /\ [call[w] EXCEPT !.hash = disk[Source(op)]].op = op
    BY <1>0, <2>1 DEF Call
  <2>3. Goes(w)
    BY <1>h, <2>1, <2>2, ExecutingNames DEF HashSource, Goes
  <2> QED
    BY <1>h, <2>3 DEF HashSource, CallStep
<1>res. CASE Resolve(w)
  BY <1>res, ResolveShape DEF Resolve, CallStep
<1>c. CASE Copy(w)
  <2>1. Goes(w)
    BY <1>c, <1>0, ExecutingNames DEF Copy, Goto, Goes
  <2> QED
    BY <1>c, <2>1 DEF Copy, CallStep
<1>s. CASE StartVerifying(w)
  <2>1. Saves(w)
    BY <1>s, SavesAs, ExecutingNames DEF StartVerifying, InFlight
  <2> QED
    BY <1>s, <2>1 DEF StartVerifying, CallStep
<1>v. CASE Verify(w)
  BY <1>v, VerifyShape DEF Verify, CallStep
<1>co. CASE Commit(w)
  BY <1>co, CommitShape DEF Commit, CallStep
<1>m. CASE Move(w)
  <2>1. Goes(w)
    BY <1>m, <1>0, ExecutingNames DEF Move, Goto, Goes
  <2> QED
    BY <1>m, <2>1 DEF Move, CallStep
<1>cd. CASE CheckDestination(w)
  BY <1>cd, CheckShape DEF CheckDestination, CallStep
<1>se. CASE Settle(w)
  <2>1. pc[w] = "committed" /\ UNCHANGED abandoned
    BY <1>se DEF Settle
  <2>2. \/ /\ policy[op.event].mode = "SafeMove"
           /\ Save(w, To(op, "SourceFinalizePending"), "finalize")
        \/ Finish(w, To(op, "Completed"))
    BY <1>se DEF Settle
  <2>3. CASE /\ policy[op.event].mode = "SafeMove"
             /\ Save(w, To(op, "SourceFinalizePending"), "finalize")
    BY <2>1, <2>3, SavesAs, ExecutingNames, <1>se DEF Finishing, CallStep, Settle
  <2>4. CASE Finish(w, To(op, "Completed"))
    BY <2>1, <2>4, EndsAs, ExecutingNames, StateNames, <1>se DEF CallStep, Settle
  <2> QED
    BY <2>2, <2>3, <2>4
<1>rel. CASE Release(w)
  <2>1. Goes(w)
    BY <1>rel, <1>0, ExecutingNames DEF Release, Goto, Goes
  <2> QED
    BY <1>rel, <2>1 DEF Release, CallStep
<1>cm. CASE Complete(w)
  <2>1. Ends(w)
    BY <1>cm, EndsAs, ExecutingNames, StateNames DEF Complete
  <2> QED
    BY <1>cm, <2>1 DEF Complete, CallStep
<1>f. CASE Fail(w)
  <2>1. pc[w] \in Executing /\ pc[w] \notin Committing
    BY <1>f, ExecutingNames DEF Fail, Uncommitted
  <2>2. Ends(w)
    BY <1>f, <2>1, EndsAs, ExecutingNames, StateNames DEF Fail
  <2> QED
    BY <1>f, <2>2 DEF Fail, CallStep
<1>ff. CASE FinalizeFails(w)
  <2>1. Ends(w)
    BY <1>ff, EndsAs, ExecutingNames, StateNames DEF FinalizeFails
  <2> QED
    BY <1>ff, <2>1 DEF FinalizeFails, CallStep
<1>af. CASE AdoptionForgotten(w)
  <2> DEFINE row == [op EXCEPT !.state = "RetryPending", !.dstHash = None]
  <2>0. /\ pc[w] \in Executing /\ Finish(w, row) /\ UNCHANGED <<disk, abandoned>>
        /\ disk[Source(op)] = None => op.media \in forgotten'
    BY <1>af, ExecutingNames DEF AdoptionForgotten, files
  <2>1. op \in Operation
    BY CallAt DEF Placed
  <2>2. row \in Operation
    BY <2>1, StateNames DEF Operation
  <2>3. row.id = op.id /\ row.media = op.media /\ row.event = op.event
        /\ row.state = "RetryPending"
    BY <2>1 DEF Operation
  <2> HIDE DEF row
  <2>4. Ends(w)
    BY <2>0, <2>2, <2>3, ExecutingNames DEF Ends, KeepsDestination, Forgets, SameOperation
  <2> QED
    BY <1>af, <2>4 DEF AdoptionForgotten, CallStep
<1>eg. CASE EventGone(w)
  BY <1>eg DEF EventGone, Drop, CallStep
<1>su. CASE Supersede(w)
  BY <1>su DEF Supersede, CallStep
<1>ed. CASE ExecuteDirect(w)
  <2>1. pc[w] \notin Executing /\ UNCHANGED <<ops, abandoned>>
    BY <1>ed, ExecutingNames DEF ExecuteDirect
  <2>2. CASE Return(w)
    BY <1>ed, <2>1, <2>2, NoCallType, ExecutingNames, PcNames
       DEF Return, Enters, CallStep, ExecuteDirect
  <2>3. CASE Admit(w, op.media, op.event, "direct")
    <3>1. op.media \in Media /\ op.event \in Event
      BY <2>3 DEF Admit, Admissible
    <3>2. Enters(w)
      BY <2>1, <2>3, <3>1, AdmitShape
    <3> QED
      BY <1>ed, <3>2 DEF CallStep, ExecuteDirect
  <2> QED
    BY <1>ed, <2>2, <2>3 DEF ExecuteDirect
<1> QED
  BY <1>r, <1>h, <1>res, <1>c, <1>s, <1>v, <1>co, <1>m, <1>cd, <1>se, <1>rel, <1>cm, <1>f,
     <1>ff, <1>af, <1>eg, <1>su, <1>ed DEF Execute

-----------------------------------------------------------------------------
(* Who owns a row in flight.                                               *)

RowsNamed == \A o \in OpId : ops[o].state # "Absent" => ops[o].id = o

\* A running call has a row, and no two of them have the same one.
CallsRecorded == \A w \in Worker : pc[w] \in Executing => ops[call[w].op.id].state # "Absent"

CallsApart ==
  \A v, w \in Worker :
    pc[v] \in Executing /\ pc[w] \in Executing /\ call[v].op.id = call[w].op.id => v = w

\* An admitted call is about to insert a pending row.
AdmittedPending == \A w \in Worker : pc[w] = "admitted" => call[w].op.state = "TransferPending"

\* Until startup recovery has ended nothing else runs ...
StartupQuiet == ~up => rpc # "idle" /\ \A w \in Worker : pc[w] = "idle"

\* ... and it has every unsettled row before it.
StartupPending ==
  ~up /\ rpc # "list" =>
    \A o \in OpId : ops[o].state \in Unsettled => \E r \in todo : r.id = o

Owned ==
  /\ RowsNamed
  /\ CallsRecorded
  /\ CallsApart
  /\ AdmittedPending
  /\ StartupQuiet
  /\ StartupPending
  /\ InFlightOwned

\* A step of a call that leaves one row `op` behind and moves to pc `next`.
LEMMA WriteOwned ==
  Placed /\ Owned =>
    \A w \in Worker, op \in Operation, next \in WorkerPc, c \in Call :
      /\ up
      /\ UNCHANGED recover
      /\ abandoned \subseteq abandoned'
      /\ op.id \in OpId
      /\ op.state # "Absent"
      /\ ops' = [ops EXCEPT ![op.id] = op]
      /\ Continue(w, next, c)
      /\ pc[w] \in Executing => op.id = call[w].op.id
      /\ next \in Executing => /\ c.op.id = op.id
                               /\ pc[w] \in Executing \/ ops[op.id].state = "Absent"
      /\ op.state \in Unsettled => next \in Executing
      /\ next # "admitted"
      => Owned'
<1> SUFFICES ASSUME Placed, Owned,
                    NEW w \in Worker, NEW op \in Operation, NEW next \in WorkerPc, NEW c \in Call,
                    up, UNCHANGED recover, abandoned \subseteq abandoned',
                    op.id \in OpId, op.state # "Absent",
                    ops' = [ops EXCEPT ![op.id] = op],
                    Continue(w, next, c),
                    pc[w] \in Executing => op.id = call[w].op.id,
                    next \in Executing => /\ c.op.id = op.id
                                          /\ pc[w] \in Executing \/ ops[op.id].state = "Absent",
                    op.state \in Unsettled => next \in Executing,
                    next # "admitted"
             PROVE  Owned'
  OBVIOUS
<1>1. \A o \in OpId : ops'[o] = IF o = op.id THEN op ELSE ops[o]
  BY DEF Placed, RowsPlaced
<1>2. \A v \in Worker : /\ pc'[v] = IF v = w THEN next ELSE pc[v]
                        /\ call'[v] = IF v = w THEN c ELSE call[v]
  BY DEF Continue, Placed, CallsPlaced
<1>3. \A v \in Worker : pc[v] \in Executing => call[v].op.id \in OpId
  BY RunningCall, ExecutingNames
<1>4. up'
  BY DEF recover
<1>5. RowsNamed'
  BY <1>1 DEF Owned, RowsNamed
<1>6. CallsRecorded'
  BY <1>1, <1>2, <1>3 DEF Owned, CallsRecorded
<1>7. CallsApart'
  <2>1. ASSUME NEW v \in Worker, v # w, pc[v] \in Executing, next \in Executing
        PROVE  call[v].op.id # c.op.id
    <3>1. CASE pc[w] \in Executing
      BY <2>1, <3>1 DEF Owned, CallsApart
    <3>2. CASE pc[w] \notin Executing
      BY <2>1, <3>2 DEF Owned, CallsRecorded
    <3> QED
      BY <3>1, <3>2
  <2> QED
    BY <1>2, <2>1 DEF Owned, CallsApart
<1>a. AdmittedPending'
  BY <1>2 DEF Owned, AdmittedPending
<1>8. StartupQuiet' /\ StartupPending'
  BY <1>4 DEF StartupQuiet, StartupPending
<1>9. InFlightOwned'
  <2> SUFFICES ASSUME NEW o \in OpId, ops'[o].state \in Unsettled
               PROVE  o \in abandoned' \/ \E v \in Worker : pc'[v] \in Executing /\ call'[v].op.id = o
    BY DEF InFlightOwned, Unsettled
  <2>1. CASE o = op.id
    <3>1. pc'[w] \in Executing /\ call'[w].op.id = o
      BY <1>1, <1>2, <2>1
    <3> QED
      BY <3>1
  <2>2. CASE o # op.id
    <3>1. ops[o].state \in Unsettled /\ up
      BY <1>1, <2>2
    <3>2. o \in abandoned \/ \E v \in Worker : pc[v] \in Executing /\ call[v].op.id = o
      BY <3>1 DEF Owned, InFlightOwned, Unsettled
    <3>3. ASSUME NEW v \in Worker, pc[v] \in Executing, call[v].op.id = o
          PROVE  pc'[v] \in Executing /\ call'[v].op.id = o
      BY <1>2, <2>2, <3>3
    <3> QED
      BY <3>2, <3>3
  <2> QED
    BY <2>1, <2>2
<1> QED
  BY <1>5, <1>6, <1>7, <1>a, <1>8, <1>9 DEF Owned

\* A step of a call that writes no row.
LEMMA KeepOwned ==
  Placed /\ Owned =>
    \A w \in Worker, next \in WorkerPc, c \in Call :
      /\ up
      /\ UNCHANGED <<ops, recover>>
      /\ abandoned \subseteq abandoned'
      /\ Continue(w, next, c)
      /\ next \in Executing => pc[w] \in Executing /\ c.op.id = call[w].op.id
      /\ pc[w] \in Executing /\ next \notin Executing => call[w].op.id \in abandoned'
      /\ next = "admitted" => c.op.state = "TransferPending"
      => Owned'
<1> SUFFICES ASSUME Placed, Owned,
                    NEW w \in Worker, NEW next \in WorkerPc, NEW c \in Call,
                    up, UNCHANGED <<ops, recover>>, abandoned \subseteq abandoned',
                    Continue(w, next, c),
                    next \in Executing => pc[w] \in Executing /\ c.op.id = call[w].op.id,
                    pc[w] \in Executing /\ next \notin Executing => call[w].op.id \in abandoned',
                    next = "admitted" => c.op.state = "TransferPending"
             PROVE  Owned'
  OBVIOUS
<1>2. \A v \in Worker : /\ pc'[v] = IF v = w THEN next ELSE pc[v]
                        /\ call'[v] = IF v = w THEN c ELSE call[v]
  BY DEF Continue, Placed, CallsPlaced
<1>4. up'
  BY DEF recover
<1>5. RowsNamed'
  BY DEF Owned, RowsNamed
<1>6. CallsRecorded'
  BY <1>2 DEF Owned, CallsRecorded
<1>7. CallsApart'
  BY <1>2 DEF Owned, CallsApart
<1>a. AdmittedPending'
  BY <1>2 DEF Owned, AdmittedPending
<1>8. StartupQuiet' /\ StartupPending'
  BY <1>4 DEF StartupQuiet, StartupPending
<1>9. InFlightOwned'
  <2> SUFFICES ASSUME NEW o \in OpId, ops[o].state \in Unsettled
               PROVE  o \in abandoned' \/ \E v \in Worker : pc'[v] \in Executing /\ call'[v].op.id = o
    BY DEF InFlightOwned, Unsettled
  <2>1. o \in abandoned \/ \E v \in Worker : pc[v] \in Executing /\ call[v].op.id = o
    BY DEF Owned, InFlightOwned, Unsettled
  <2>2. ASSUME NEW v \in Worker, pc[v] \in Executing, call[v].op.id = o
        PROVE  o \in abandoned' \/ (pc'[v] \in Executing /\ call'[v].op.id = o)
    BY <1>2, <2>2
  <2> QED
    BY <2>1, <2>2
<1> QED
  BY <1>5, <1>6, <1>7, <1>a, <1>8, <1>9 DEF Owned

LEMMA CallStepOwned ==
  Placed /\ Owned =>
    \A w \in Worker :
      /\ CallStep(w)
      /\ UNCHANGED recover
      /\ up \/ pc[w] # "idle"
      => Owned'
<1> SUFFICES ASSUME Placed, Owned, NEW w \in Worker, CallStep(w), UNCHANGED recover,
                    up \/ pc[w] # "idle"
             PROVE  Owned'
  OBVIOUS
<1>0. up
  BY DEF Owned, StartupQuiet
<1>o. /\ call[w] \in Call
      /\ call[w].op \in Operation
      /\ pc[w] \notin {"idle", "admitted"} => call[w].op.id \in OpId
  BY CallAt, RunningCall DEF Placed
<1>i. "idle" \in WorkerPc \ Executing /\ NoCall \in Call /\ "direct" \in WorkerPc \ Executing
  BY NoCallType, PcNames, ExecutingNames
<1>1. CASE Enters(w)
  BY <1>0, <1>1, KeepOwned DEF Enters
<1>2. CASE Inserts(w)
  <2>1. PICK o \in OpId : /\ ops[o].state = "Absent"
                          /\ Save(w, [call[w].op EXCEPT !.id = o], "hash")
    BY <1>2 DEF Inserts
  <2> DEFINE op == [call[w].op EXCEPT !.id = o]
             c  == [call[w] EXCEPT !.op = op]
  <2>2. op \in Operation /\ op.id = o /\ op.state = call[w].op.state
    BY <1>o DEF Operation
  <2>3. c \in Call /\ c.op = op
    BY <1>o, <2>2 DEF Call
  <2>4. ops' = [ops EXCEPT ![op.id] = op] /\ Continue(w, "hash", c)
    BY <2>1 DEF Save, Upsert
  <2>5. call[w].op.state = "TransferPending"
    BY <1>2 DEF Inserts, Owned, AdmittedPending
  <2>6. pc[w] = "admitted" /\ UNCHANGED abandoned
    BY <1>2 DEF Inserts
  <2> HIDE DEF op, c
  <2> QED
    BY <1>0, <2>1, <2>2, <2>3, <2>4, <2>5, <2>6, WriteOwned, ExecutingNames
<1>3. CASE Goes(w)
  BY <1>0, <1>3, KeepOwned, ExecutingNames DEF Goes
<1>4. CASE Saves(w)
  <2>1. PICK op \in Operation, next \in Executing :
          /\ SameOperation(op, call[w].op)
          /\ op.state \in InFlight \cup Finishing
          /\ Save(w, op, next)
    BY <1>4 DEF Saves
  <2> DEFINE c == [call[w] EXCEPT !.op = op]
  <2>2. c \in Call /\ c.op = op
    BY <1>o DEF Call
  <2>3. ops' = [ops EXCEPT ![op.id] = op] /\ Continue(w, next, c)
    BY <2>1 DEF Save, Upsert
  <2>4. op.id = call[w].op.id /\ op.id \in OpId /\ op.state # "Absent"
    BY <1>4, <1>o, <2>1, ExecutingNames DEF Saves, SameOperation, InFlight, Finishing
  <2> HIDE DEF c
  <2> QED
    BY <1>0, <1>4, <2>1, <2>2, <2>3, <2>4, WriteOwned, ExecutingNames DEF Saves
<1>5. CASE Ends(w)
  <2>1. PICK op \in Operation : /\ SameOperation(op, call[w].op)
                                /\ op.state \notin Unsettled \cup {"Absent"}
                                /\ Finish(w, op)
    BY <1>5 DEF Ends
  <2>2. ops' = [ops EXCEPT ![op.id] = op] /\ Continue(w, "idle", NoCall)
    BY <2>1 DEF Finish, Upsert, Return
  <2>3. op.id = call[w].op.id /\ op.id \in OpId
    BY <1>5, <1>o, <2>1, ExecutingNames DEF Ends, SameOperation
  <2> QED
    BY <1>0, <1>5, <1>i, <2>1, <2>2, <2>3, WriteOwned DEF Ends
<1>6. CASE pc[w] # "idle" /\ Drop(w)
  <2>1. pc[w] \in Executing => call[w].op.id \in abandoned'
    BY <1>6, <1>o, ExecutingNames DEF Drop
  <2>2. Continue(w, "idle", NoCall) /\ UNCHANGED ops /\ abandoned \subseteq abandoned'
    BY <1>6 DEF Drop, Return
  <2> QED
    BY <1>0, <1>i, <2>1, <2>2, KeepOwned
<1>7. CASE Supersede(w)
  <2> DEFINE op == To(call[w].op, "Failed")
             c  == [call[w] EXCEPT !.op = op]
  <2>1. pc[w] = "supersede" /\ Save(w, op, "direct") /\ UNCHANGED abandoned
    BY <1>7 DEF Supersede
  <2>0. call[w].op \in Operation /\ call[w].op.id \in OpId /\ "Failed" \in OperationState
    BY <2>1, RunningCall, StateNames
  <2>2. op \in Operation /\ op.state = "Failed" /\ op.id \in OpId
    BY <2>0, ToFields
  <2>3. c \in Call
    BY <1>o, <2>2 DEF Call
  <2>4. ops' = [ops EXCEPT ![op.id] = op] /\ Continue(w, "direct", c)
    BY <2>1 DEF Save, Upsert
  <2> HIDE DEF op, c
  <2> QED
    BY <1>0, <1>i, <2>1, <2>2, <2>3, <2>4, WriteOwned, ExecutingNames
<1> QED
  BY <1>1, <1>2, <1>3, <1>4, <1>5, <1>6, <1>7 DEF CallStep

\* A step that only settles rows, while the calls stay.
LEMMA SettleOwned ==
  /\ Placed /\ Owned /\ UNCHANGED <<calls, abandoned>>
  /\ \A o \in OpId :
       \/ ops'[o].state = ops[o].state /\ ops'[o].id = ops[o].id
       \/ ops'[o].state \notin Unsettled \cup {"Absent"} /\ ops'[o].id = o
  /\ StartupQuiet' /\ StartupPending'
  /\ up' => up \/ \A o \in OpId : ops'[o].state \notin Unsettled
  => Owned'
<1> SUFFICES ASSUME Placed, Owned, UNCHANGED <<calls, abandoned>>,
                    \A o \in OpId :
                      \/ ops'[o].state = ops[o].state /\ ops'[o].id = ops[o].id
                      \/ ops'[o].state \notin Unsettled \cup {"Absent"} /\ ops'[o].id = o,
                    StartupQuiet', StartupPending',
                    up' => up \/ \A o \in OpId : ops'[o].state \notin Unsettled
             PROVE  Owned'
  OBVIOUS
<1>0. UNCHANGED <<pc, call, abandoned>>
  BY DEF calls
<1>1. RowsNamed'
  BY DEF Owned, RowsNamed
<1>2. CallsRecorded'
  <2>1. \A w \in Worker : pc[w] \in Executing => call[w].op.id \in OpId
    BY RunningCall, ExecutingNames
  <2> QED
    BY <1>0, <2>1 DEF Owned, CallsRecorded
<1>3. CallsApart' /\ AdmittedPending'
  BY <1>0 DEF Owned, CallsApart, AdmittedPending
<1>4. InFlightOwned'
  <2> SUFFICES ASSUME NEW o \in OpId, up', ops'[o].state \in Unsettled
               PROVE  o \in abandoned \/ \E v \in Worker : pc[v] \in Executing /\ call[v].op.id = o
    BY <1>0 DEF InFlightOwned, Unsettled
  <2>1. up /\ ops[o].state \in Unsettled
    OBVIOUS
  <2> QED
    BY <2>1 DEF Owned, InFlightOwned, Unsettled
<1> QED
  BY <1>1, <1>2, <1>3, <1>4 DEF Owned

\* A row of the table is written back in a settled state.
LEMMA RewriteRow ==
  Placed =>
    \A op \in Operation, s \in OperationState \ (Unsettled \cup {"Absent"}) :
      op.id \in OpId /\ Upsert(To(op, s)) =>
        /\ ops' = [ops EXCEPT ![op.id] = To(op, s)]
        /\ ops'[op.id] = To(op, s)
        /\ \A o \in OpId :
             \/ o # op.id /\ ops'[o] = ops[o]
             \/ o = op.id /\ ops'[o].state = s /\ ops'[o].id = o
<1> SUFFICES ASSUME Placed,
                    NEW op \in Operation, NEW s \in OperationState \ (Unsettled \cup {"Absent"}),
                    op.id \in OpId, Upsert(To(op, s))
             PROVE  /\ ops' = [ops EXCEPT ![op.id] = To(op, s)]
                    /\ ops'[op.id] = To(op, s)
                    /\ \A o \in OpId :
                         \/ o # op.id /\ ops'[o] = ops[o]
                         \/ o = op.id /\ ops'[o].state = s /\ ops'[o].id = o
  OBVIOUS
<1>1. To(op, s).id = op.id /\ To(op, s).state = s
  BY ToFields
<1>2. ops' = [ops EXCEPT ![op.id] = To(op, s)]
  BY <1>1 DEF Upsert
<1> QED
  BY <1>1, <1>2 DEF Placed, RowsPlaced

LEMMA UserOwned == Placed /\ Owned /\ User => Owned'
<1> SUFFICES ASSUME Placed, Owned, User PROVE Owned'
  OBVIOUS
<1> DEFINE Read(o) == [NoCall EXCEPT !.via = "direct", !.op = ops[o]]
<1>n. /\ "supersede" \in WorkerPc \ Executing
      /\ \A o \in OpId : Read(o) \in Call
  BY NoCallType, PcNames, ExecutingNames DEF Call, Placed, RowsPlaced
<1> HIDE DEF Read
<1>1. ASSUME NEW w \in Worker, NEW o \in OpId, Retry(w, o) \/ RouteAgain(w, o) PROVE Owned'
  <2>1. /\ up /\ pc[w] \notin Executing /\ Continue(w, "supersede", Read(o))
        /\ UNCHANGED <<ops, recover, abandoned>>
    BY <1>1, ExecutingNames DEF Retry, RouteAgain, Read
  <2> QED
    BY <1>n, <2>1, KeepOwned
<1>2. ASSUME NEW o \in OpId, Dismiss(o) PROVE Owned'
  <2>1. ops[o] \in Operation /\ ops[o].id = o /\ Upsert(To(ops[o], "Ignored"))
    BY <1>2 DEF Dismiss, Placed, RowsPlaced, Owned, RowsNamed
  <2>0. "Ignored" \in OperationState \ (Unsettled \cup {"Absent"})
    BY ExecutingNames, StateNames
  <2>2. \A q \in OpId : \/ q # o /\ ops'[q] = ops[q]
                        \/ q = o /\ ops'[q].state = "Ignored" /\ ops'[q].id = q
    <3> DEFINE row == ops[o]
    <3>1. row \in Operation /\ row.id = o /\ Upsert(To(row, "Ignored"))
      BY <2>1
    <3> HIDE DEF row
    <3> QED
      BY <2>0, <3>1, RewriteRow
  <2>3. up /\ UNCHANGED <<calls, abandoned, up, rpc, todo>>
    BY <1>2 DEF Dismiss, recover
  <2> QED
    BY <2>2, <2>3, SettleOwned, ExecutingNames DEF StartupQuiet, StartupPending
<1>3. ASSUME NEW e \in Event, SupersedeEvent(e) PROVE Owned'
  <2>1. \A o \in OpId :
          \/ ops'[o] = ops[o]
          \/ ops'[o].state = "Failed" /\ ops[o].state # "Absent" /\ ops'[o].id = ops[o].id
    <3>1. SUFFICES ASSUME NEW o \in OpId, ops'[o] # ops[o]
                   PROVE  /\ ops'[o].state = "Failed" /\ ops[o].state # "Absent"
                          /\ ops'[o].id = ops[o].id
      OBVIOUS
    <3>2. ops[o] \in Operation
      BY DEF Placed, RowsPlaced
    <3>3. ops'[o] = To(ops[o], "Failed") /\ ops[o].state \in {"Completed", "Ignored"}
      BY <1>3, <3>1 DEF SupersedeEvent
    <3>4. To(ops[o], "Failed").state = "Failed" /\ To(ops[o], "Failed").id = ops[o].id
      BY <3>2, ToFields, StateNames
    <3> QED
      BY <3>3, <3>4
  <2>2. up /\ UNCHANGED <<calls, abandoned, up, rpc, todo>>
    BY <1>3 DEF SupersedeEvent, recover
  <2> QED
    BY <2>1, <2>2, SettleOwned, ExecutingNames DEF StartupQuiet, StartupPending, Owned, RowsNamed
<1>4. ASSUME NEW e \in Event, DeleteEvent(e) PROVE Owned'
  <2>1. \A o \in OpId : ops'[o].state = ops[o].state /\ ops'[o].id = ops[o].id
    BY <1>4 DEF DeleteEvent, Placed, RowsPlaced, Operation
  <2>2. up /\ UNCHANGED <<calls, abandoned, up, rpc, todo>>
    BY <1>4 DEF DeleteEvent, recover
  <2> QED
    BY <2>1, <2>2, SettleOwned DEF StartupQuiet, StartupPending
<1>5. ASSUME NEW w \in Worker, Cancel(w) PROVE Owned'
  BY <1>5, CallStepOwned DEF Cancel, CallStep, Drop
<1> QED
  BY <1>1, <1>2, <1>3, <1>4, <1>5 DEF User

\* Recovery writes a row it listed back and goes on.
LEMMA ResolvedOwned ==
  Placed /\ Owned =>
    \A r \in Operation, s \in OperationState \ (Unsettled \cup {"Absent"}), next \in RecoverPc :
      /\ rpc # "list"
      /\ next # "idle"
      /\ Identified(r)
      /\ Upsert(To(r, s))
      /\ todo' = todo \ {r}
      /\ rpc' = next
      /\ UNCHANGED <<calls, abandoned, up>>
      => Owned'
<1> SUFFICES ASSUME Placed, Owned,
                    NEW r \in Operation, NEW s \in OperationState \ (Unsettled \cup {"Absent"}),
                    NEW next \in RecoverPc, rpc # "list", next # "idle", Identified(r),
                    Upsert(To(r, s)), todo' = todo \ {r}, rpc' = next,
                    UNCHANGED <<calls, abandoned, up>>
             PROVE  Owned'
  OBVIOUS
<1>1. \A o \in OpId : \/ o # r.id /\ ops'[o] = ops[o]
                      \/ o = r.id /\ ops'[o].state = s /\ ops'[o].id = o
  BY RewriteRow DEF Identified
<1>2. StartupQuiet'
  BY DEF Owned, StartupQuiet, calls
<1>3. StartupPending'
  <2> SUFFICES ASSUME ~up, NEW o \in OpId, ops'[o].state \in Unsettled
               PROVE  \E q \in todo' : q.id = o
    BY DEF StartupPending
  <2>1. o # r.id /\ ops[o].state \in Unsettled
    BY <1>1
  <2>2. PICK q \in todo : q.id = o
    BY <2>1 DEF Owned, StartupPending
  <2> QED
    BY <2>1, <2>2
<1> QED
  BY <1>1, <1>2, <1>3, SettleOwned

LEMMA RecoverOwned == Placed /\ Owned /\ (Recover \/ RequestRecovery) => Owned'
<1> SUFFICES ASSUME Placed, Owned, Recover \/ RequestRecovery PROVE Owned'
  OBVIOUS
<1>0. \A r \in todo : r \in Operation /\ Identified(r)
  BY DEF Placed, RecoveryPlaced
<1>i. rpc \in {"delete", "complete"} => item \in Operation /\ Identified(item)
  BY DEF Placed, RecoveryPlaced
<1>s. /\ {"RetryPending", "Quarantined", "Completed", "SourceFinalizePending"}
           \subseteq OperationState \ (Unsettled \cup {"Absent"})
      /\ "scan" \in RecoverPc /\ "delete" \in RecoverPc
  BY StateNames, ExecutingNames DEF RecoverPc
<1>r. ASSUME NEW r \in Operation, Identified(r), rpc # "list",
             NEW s \in {"RetryPending", "Quarantined", "Completed", "SourceFinalizePending"},
             Resolved(r, s)
      PROVE  Owned'
  BY <1>r, <1>s, ResolvedOwned DEF Resolved
<1>1. CASE RecoverList
  <2>1. StartupQuiet'
    BY <1>1 DEF RecoverList, Owned, StartupQuiet, calls
  <2>2. StartupPending'
    BY <1>1 DEF RecoverList, Owned, RowsNamed, StartupPending, ListIncomplete, Unsettled, InFlight,
       Finished
  <2> QED
    BY <1>1, <2>1, <2>2, SettleOwned DEF RecoverList
<1>2. CASE RecoverDelete
  <2>1. StartupQuiet' /\ StartupPending'
    BY <1>2 DEF RecoverDelete, Owned, StartupQuiet, StartupPending, calls
  <2> QED
    BY <1>2, <2>1, SettleOwned DEF RecoverDelete
<1>3. CASE RecoverComplete
  BY <1>3, <1>i, <1>r DEF RecoverComplete
<1>4. CASE RecoverFails
  BY <1>4, <1>0, <1>i, <1>r DEF RecoverFails
<1>5. CASE RecoverEnd
  <2>1. up' /\ UNCHANGED <<ops, calls, abandoned>>
    BY <1>5 DEF RecoverEnd
  <2>2. up \/ \A o \in OpId : ops'[o].state \notin Unsettled
    BY <1>5 DEF RecoverEnd, Owned, StartupPending
  <2> QED
    BY <2>1, <2>2, SettleOwned DEF StartupQuiet, StartupPending
<1>6. ASSUME NEW r \in todo, RecoverUncommitted(r) PROVE Owned'
  BY <1>0, <1>6, <1>r DEF RecoverUncommitted
<1>7. ASSUME NEW r \in todo, RecoverCommitted(r) PROVE Owned'
  <2>1. rpc # "list"
    BY <1>7 DEF RecoverCommitted
  <2>2. CASE \E s \in {"Quarantined", "Completed"} : Resolved(r, s)
    BY <1>0, <1>r, <2>1, <2>2
  <2>3. CASE /\ Upsert(To(r, "SourceFinalizePending"))
             /\ todo' = todo \ {r}
             /\ rpc' = "delete"
             /\ UNCHANGED <<calls, up, abandoned>>
    BY <1>0, <1>s, <2>1, <2>3, ResolvedOwned
  <2> QED
    BY <1>7, <2>2, <2>3 DEF RecoverCommitted
<1>8. CASE RequestRecovery
  <2>1. up /\ up' /\ UNCHANGED <<ops, calls, abandoned>>
    BY <1>8 DEF RequestRecovery
  <2> QED
    BY <2>1, SettleOwned DEF StartupQuiet, StartupPending
<1> QED
  BY <1>1, <1>2, <1>3, <1>4, <1>5, <1>6, <1>7, <1>8 DEF Recover

LEMMA NextOwned == Placed /\ Owned /\ [SyncNext]_vars => Owned'
<1> SUFFICES ASSUME Placed, Owned, [SyncNext]_vars PROVE Owned'
  OBVIOUS
<1>1. ASSUME NEW w \in Worker, NEW m \in Media, NEW e \in Event, Begin(w, m, e) PROVE Owned'
  <2>1. Enters(w)
    BY <1>1, AdmitShape, ExecutingNames DEF Begin
  <2> QED
    BY <1>1, <2>1, CallStepOwned DEF Begin, CallStep
<1>2. ASSUME NEW w \in Worker, Execute(w) PROVE Owned'
  <2>1. pc[w] # "idle"
    BY <1>2 DEF Execute, Record, HashSource, Resolve, Copy, StartVerifying, Verify, Commit, Move,
       CheckDestination, Settle, Release, Complete, Fail, FinalizeFails, AdoptionForgotten,
       EventGone, Supersede, ExecuteDirect, Uncommitted
  <2> QED
    BY <1>2, <2>1, ExecuteShape, CallStepOwned
<1>3. CASE Crash
  <2>1. \A w \in Worker : pc'[w] = "idle"
    BY <1>3 DEF Crash
  <2>2. ~up' /\ rpc' = "list" /\ UNCHANGED ops
    BY <1>3 DEF Crash
  <2> QED
    BY <2>1, <2>2, ExecutingNames DEF Owned, RowsNamed, CallsRecorded, CallsApart, AdmittedPending,
       StartupQuiet, StartupPending, InFlightOwned
<1>4. ASSUME UNCHANGED <<ops, calls, recover, abandoned>> PROVE Owned'
  <2>1. UNCHANGED <<up, rpc, todo, pc>>
    BY <1>4 DEF recover, calls
  <2>2. StartupQuiet' /\ StartupPending'
    BY <1>4, <2>1 DEF Owned, StartupQuiet, StartupPending
  <2> QED
    BY <1>4, <2>1, <2>2, SettleOwned
<1>5. ASSUME NEW m \in Media, Sync(m) PROVE Owned'
  BY <1>4, <1>5 DEF Sync
<1>6. CASE UNCHANGED vars
  BY <1>4, <1>6 DEF vars
<1> QED
  BY <1>1, <1>2, <1>3, <1>5, <1>6, UserOwned, RecoverOwned DEF SyncNext, Next, Unattended

LEMMA InitOwned == Init => Owned
<1> SUFFICES ASSUME Init PROVE Owned
  OBVIOUS
<1>1. /\ \A o \in OpId : ops[o].state = "Absent"
      /\ \A w \in Worker : pc[w] = "idle"
      /\ ~up /\ rpc = "list"
  BY DEF Init, NoOperation
<1> QED
  BY <1>1, ExecutingNames DEF Owned, RowsNamed, CallsRecorded, CallsApart, AdmittedPending,
     StartupQuiet, StartupPending, InFlightOwned

\* Whatever interleaves, is cancelled, requested or crashes: while the services
\* run, a row in flight belongs to a running call or to one that was cancelled
\* or lost its event.
THEOREM InFlightIsOwned == SyncSpec => []InFlightOwned
<1>1. SyncSpec => []Owned
  BY InitOwned, NextOwned, PlacedHolds, PTL DEF SyncSpec
<1>2. Owned => InFlightOwned
  BY DEF Owned
<1> QED
  BY <1>1, <1>2, PTL

\* Startup recovery lets the services begin only when nothing is in flight and
\* nothing is merely committed, whatever the crash left.
THEOREM StartupSettlesRows == SyncSpec => StartupReconciles
<1>1. SyncSpec => []Owned
  BY InitOwned, NextOwned, PlacedHolds, PTL DEF SyncSpec
<1>2. Placed /\ Owned /\ [SyncNext]_vars =>
        [~up /\ up' => \A o \in OpId : ops'[o].state \notin InFlight \cup {"DestinationCommitted"}]_vars
  <2> SUFFICES ASSUME Placed, Owned, [SyncNext]_vars, ~up, up', NEW o \in OpId
               PROVE  ops'[o].state \notin InFlight \cup {"DestinationCommitted"}
    OBVIOUS
  <2>1. Owned'
    BY NextOwned
  <2>2. RecoverEnd
    <3>1. ASSUME UNCHANGED recover PROVE FALSE
      BY <3>1 DEF recover
    <3>2. ASSUME NEW w \in Worker, Execute(w) PROVE FALSE
      BY <3>1, <3>2, ExecuteShape
    <3>3. ASSUME User PROVE FALSE
      BY <3>1, <3>3 DEF User, Retry, RouteAgain, Dismiss, SupersedeEvent, DeleteEvent, Cancel, Drop
    <3>4. ASSUME NEW w \in Worker, NEW m \in Media, NEW e \in Event, Begin(w, m, e) PROVE FALSE
      BY <3>1, <3>4 DEF Begin
    <3>5. ASSUME NEW m \in Media, Sync(m) PROVE FALSE
      BY <3>1, <3>5 DEF Sync
    <3>6. ASSUME UNCHANGED vars PROVE FALSE
      BY <3>1, <3>6 DEF vars
    <3>7. ASSUME Crash \/ RequestRecovery PROVE FALSE
      BY <3>7 DEF Crash, RequestRecovery
    <3>8. Recover
      BY <3>2, <3>3, <3>4, <3>5, <3>6, <3>7 DEF SyncNext, Next, Unattended
    <3> QED
      BY <3>8 DEF Recover, RecoverList, RecoverDelete, RecoverComplete, RecoverFails,
         RecoverUncommitted, RecoverCommitted, Resolved
  <2> QED
    BY <2>2 DEF RecoverEnd, Owned, StartupPending, Unsettled
<1> QED
  BY <1>1, <1>2, PlacedHolds, PTL DEF SyncSpec, StartupReconciles

-----------------------------------------------------------------------------
(* The table says what the calls and startup recovery believe.  A recovery *)
(* requested while the services run rewrites the rows of running calls, so *)
(* this holds for UnattendedSpec.                                          *)

\* Both name the same file of the same media, with the same hash.
SameCopy(a, b) == a.media = b.media /\ a.dest = b.dest /\ a.dstHash = b.dstHash

\* With the given rows, the row of call c at pc p is the call's own snapshot, up
\* to an event deleted since; before a retry it still names the same copy.
Mirrors(rows, p, c) ==
  /\ p \in Executing =>
       /\ rows[c.op.id].state = c.op.state
       /\ rows[c.op.id].event \in {c.op.event, None}
       /\ SameCopy(rows[c.op.id], c.op)
       /\ c.op.state \in InFlight \cup Finishing
       /\ p \in Committing \/ c.op.state \in InFlight
  /\ p = "supersede" => /\ rows[c.op.id].state # "Absent"
                        /\ SameCopy(rows[c.op.id], c.op)

CallsMirrored == \A w \in Worker : Mirrors(ops, pc[w], call[w])

\* A retry never takes the row of a running call.
SupersededApart ==
  \A v, w \in Worker :
    pc[v] = "supersede" /\ pc[w] \in Executing => call[v].op.id # call[w].op.id

\* A source is about to be released only under Safe Move, and the call says so.
Announced ==
  \A w \in Worker : pc[w] = "finalize" =>
    /\ call[w].op.state = "SourceFinalizePending"
    /\ policy[call[w].op.event].mode = "SafeMove"

\* Recovery runs at startup, on rows nobody else writes.
RecoveryCurrent ==
  /\ up => rpc = "idle"
  /\ ~up => \A r \in todo : /\ ops[r.id] = r
                            /\ r.state \in InFlight \cup Finishing \cup {"RetryPending"}
  /\ ~up /\ rpc \in {"delete", "complete"} =>
       ops[item.id] = item /\ item.state = "SourceFinalizePending"
  /\ ~up /\ rpc = "delete" => policy[item.event].mode = "SafeMove"

Mirrored == CallsMirrored /\ SupersededApart /\ Announced /\ RecoveryCurrent

\* A call at w writes op as its row and moves to pc next with variables c: the
\* row is its own, fresh, or no running call's and the same copy as before.
WritesRow(w, op, next, c) ==
  /\ ops' = [ops EXCEPT ![op.id] = op]
  /\ op.state # "Absent"
  /\ Continue(w, next, c)
  /\ pc[w] \in Executing => op.id = call[w].op.id
  /\ pc[w] \notin Executing =>
       \/ ops[op.id].state = "Absent"
       \/ /\ \A v \in Worker : pc[v] \in Executing => call[v].op.id # op.id
          /\ SameCopy(op, ops[op.id])
  /\ next # "supersede"
  /\ next \in Executing => /\ c.op = op
                           /\ op.state \in InFlight \cup Finishing
                           /\ next \in Committing \/ op.state \in InFlight
                           /\ pc[w] \in Executing \/ ops[op.id].state = "Absent"
  /\ next = "finalize" => /\ op.state = "SourceFinalizePending"
                          /\ policy[op.event].mode = "SafeMove"

LEMMA WriteMirrored ==
  Placed /\ Owned /\ Mirrored =>
    \A w \in Worker, op \in Operation, next \in WorkerPc, c \in Call :
      /\ up
      /\ UNCHANGED <<config, recover>>
      /\ op.id \in OpId
      /\ WritesRow(w, op, next, c)
      => Mirrored'
<1> SUFFICES ASSUME Placed, Owned, Mirrored,
                    NEW w \in Worker, NEW op \in Operation, NEW next \in WorkerPc, NEW c \in Call,
                    up, UNCHANGED <<config, recover>>, op.id \in OpId, WritesRow(w, op, next, c)
             PROVE  Mirrored'
  OBVIOUS
<1> USE DEF WritesRow
<1>1. \A o \in OpId : ops'[o] = IF o = op.id THEN op ELSE ops[o]
  BY DEF Placed, RowsPlaced
<1>2. \A v \in Worker : /\ pc'[v] = IF v = w THEN next ELSE pc[v]
                        /\ call'[v] = IF v = w THEN c ELSE call[v]
  BY DEF Continue, Placed, CallsPlaced
<1>3. \A v \in Worker : pc[v] \in Executing \cup {"supersede"} => call[v].op.id \in OpId
  BY RunningCall, ExecutingNames
<1>4. UNCHANGED <<policy, up, rpc>>
  BY DEF config, recover
<1>5. ASSUME NEW v \in Worker PROVE Mirrors(ops', pc'[v], call'[v])
  <2>1. CASE v = w
    BY <1>1, <1>2, <2>1 DEF Mirrors, SameCopy
  <2>2. CASE v # w
    <3>0. Mirrors(ops, pc[v], call[v]) /\ pc'[v] = pc[v] /\ call'[v] = call[v]
      BY <1>2, <2>2 DEF Mirrored, CallsMirrored
    <3>1. CASE pc[v] \in Executing
      <4>1. call[v].op.id # op.id
        BY <2>2, <3>1 DEF Owned, CallsApart, CallsRecorded
      <4>2. ops'[call[v].op.id] = ops[call[v].op.id]
        BY <1>1, <1>3, <3>1, <4>1
      <4> QED
        BY <3>0, <4>2 DEF Mirrors
    <3>2. CASE pc[v] = "supersede"
      <4>1. CASE call[v].op.id # op.id
        <5>1. ops'[call[v].op.id] = ops[call[v].op.id]
          BY <1>1, <1>3, <3>2, <4>1
        <5> QED
          BY <3>0, <5>1 DEF Mirrors
      <4>2. CASE call[v].op.id = op.id
        <5>1. ops'[op.id] = op /\ ops[op.id].state # "Absent" /\ SameCopy(ops[op.id], call[v].op)
          BY <1>1, <3>0, <3>2, <4>2 DEF Mirrors
        <5>2. pc[w] \notin Executing
          BY <3>2, <4>2 DEF Mirrored, SupersededApart
        <5> QED
          BY <3>0, <3>2, <4>2, <5>1, <5>2, ExecutingNames DEF Mirrors, SameCopy
      <4> QED
        BY <4>1, <4>2
    <3>3. CASE pc[v] \notin Executing \cup {"supersede"}
      BY <3>0, <3>3 DEF Mirrors
    <3> QED
      BY <3>1, <3>2, <3>3
  <2> QED
    BY <2>1, <2>2
<1>6. SupersededApart'
  <2> SUFFICES ASSUME NEW v \in Worker, NEW x \in Worker, pc'[v] = "supersede", pc'[x] \in Executing
               PROVE  call'[v].op.id # call'[x].op.id
    BY DEF SupersededApart
  <2>0. v # w /\ pc[v] = "supersede" /\ call'[v] = call[v]
    BY <1>2
  <2>1. CASE x # w
    BY <1>2, <2>0, <2>1 DEF Mirrored, SupersededApart
  <2>2. CASE x = w
    <3>1. call'[x].op.id = op.id /\ (pc[w] \in Executing \/ ops[op.id].state = "Absent")
      BY <1>2, <2>2
    <3>2. ops[call[v].op.id].state # "Absent"
      BY <2>0 DEF Mirrored, CallsMirrored, Mirrors
    <3> QED
      BY <2>0, <3>1, <3>2 DEF Mirrored, SupersededApart
  <2> QED
    BY <2>1, <2>2
<1>7. Announced'
  BY <1>2, <1>4, ExecutingNames DEF Mirrored, Announced
<1>8. RecoveryCurrent'
  BY <1>4 DEF Mirrored, RecoveryCurrent
<1> QED
  BY <1>5, <1>6, <1>7, <1>8 DEF Mirrored, CallsMirrored

\* A step of a call that writes no row.
LEMMA KeepMirrored ==
  Placed /\ Owned /\ Mirrored =>
    \A w \in Worker, next \in WorkerPc, c \in Call :
      /\ up
      /\ UNCHANGED <<ops, config, recover>>
      /\ Continue(w, next, c)
      /\ next \in Executing =>
           /\ pc[w] \in Executing /\ c.op = call[w].op
           /\ next \in Committing \/ pc[w] \notin Committing
      /\ next = "supersede" =>
           \E o \in OpId : /\ c.op = ops[o]
                           /\ ops[o].state \notin InFlight \cup Finishing \cup {"Absent"}
      /\ next # "finalize"
      => Mirrored'
<1> SUFFICES ASSUME Placed, Owned, Mirrored,
                    NEW w \in Worker, NEW next \in WorkerPc, NEW c \in Call,
                    up, UNCHANGED <<ops, config, recover>>, Continue(w, next, c),
                    next \in Executing =>
                      /\ pc[w] \in Executing /\ c.op = call[w].op
                      /\ next \in Committing \/ pc[w] \notin Committing,
                    next = "supersede" =>
                      \E o \in OpId : /\ c.op = ops[o]
                                      /\ ops[o].state \notin InFlight \cup Finishing \cup {"Absent"},
                    next # "finalize"
             PROVE  Mirrored'
  OBVIOUS
<1>2. \A v \in Worker : /\ pc'[v] = IF v = w THEN next ELSE pc[v]
                        /\ call'[v] = IF v = w THEN c ELSE call[v]
  BY DEF Continue, Placed, CallsPlaced
<1>4. UNCHANGED <<policy, up, rpc>>
  BY DEF config, recover
<1>n. "supersede" \notin Executing
  BY ExecutingNames
<1>s. next = "supersede" =>
        /\ ops[c.op.id] = c.op
        /\ c.op.state \notin InFlight \cup Finishing \cup {"Absent"}
  BY DEF Owned, RowsNamed
<1>5. ASSUME NEW v \in Worker PROVE Mirrors(ops, pc'[v], call'[v])
  <2>1. CASE v = w
    <3>1. CASE next \in Executing
      BY <1>2, <1>n, <2>1, <3>1 DEF Mirrored, CallsMirrored, Mirrors
    <3>2. CASE next \notin Executing
      BY <1>2, <1>s, <2>1, <3>2 DEF Mirrors, SameCopy
    <3> QED
      BY <3>1, <3>2
  <2>2. CASE v # w
    BY <1>2, <2>2 DEF Mirrored, CallsMirrored
  <2> QED
    BY <2>1, <2>2
<1>6. SupersededApart'
  <2> SUFFICES ASSUME NEW v \in Worker, NEW x \in Worker, pc'[v] = "supersede", pc'[x] \in Executing
               PROVE  call'[v].op.id # call'[x].op.id
    BY DEF SupersededApart
  <2>0. pc[x] \in Executing /\ call'[x].op = call[x].op
    BY <1>2, <1>n
  <2>1. CASE v # w
    BY <1>2, <2>0, <2>1 DEF Mirrored, SupersededApart
  <2>2. CASE v = w
    <3>1. ops[call'[v].op.id].state \notin InFlight \cup Finishing
      BY <1>2, <1>s, <2>2
    <3>2. ops[call[x].op.id].state \in InFlight \cup Finishing
      BY <2>0 DEF Mirrored, CallsMirrored, Mirrors
    <3> QED
      BY <2>0, <3>1, <3>2
  <2> QED
    BY <2>1, <2>2
<1>7. Announced'
  BY <1>2, <1>4, ExecutingNames DEF Mirrored, Announced
<1>8. RecoveryCurrent'
  BY <1>4 DEF Mirrored, RecoveryCurrent
<1> QED
  BY <1>5, <1>6, <1>7, <1>8 DEF Mirrored, CallsMirrored

LEMMA CallStepMirrored ==
  Placed /\ Owned /\ Mirrored =>
    \A w \in Worker :
      /\ CallStep(w)
      /\ UNCHANGED <<config, recover>>
      /\ up \/ pc[w] # "idle"
      => Mirrored'
<1> SUFFICES ASSUME Placed, Owned, Mirrored, NEW w \in Worker, CallStep(w),
                    UNCHANGED <<config, recover>>, up \/ pc[w] # "idle"
             PROVE  Mirrored'
  OBVIOUS
<1>0. up
  BY DEF Owned, StartupQuiet
<1>o. /\ call[w] \in Call
      /\ call[w].op \in Operation
      /\ pc[w] \notin {"idle", "admitted"} => call[w].op.id \in OpId
  BY CallAt, RunningCall DEF Placed
<1>i. "idle" \in WorkerPc \ Executing /\ NoCall \in Call /\ "direct" \in WorkerPc \ Executing
  BY NoCallType, PcNames, ExecutingNames
<1>1. CASE Enters(w)
  <2>1. PICK next \in WorkerPc \ Executing, c \in Call :
          next # "supersede" /\ Continue(w, next, c)
    BY <1>1 DEF Enters
  <2>2. next # "finalize"
    BY ExecutingNames
  <2> QED
    BY <1>0, <1>1, <2>1, <2>2, KeepMirrored DEF Enters
<1>2. CASE Inserts(w)
  <2>1. PICK o \in OpId : /\ ops[o].state = "Absent"
                          /\ Save(w, [call[w].op EXCEPT !.id = o], "hash")
    BY <1>2 DEF Inserts
  <2> DEFINE op == [call[w].op EXCEPT !.id = o]
             c  == [call[w] EXCEPT !.op = op]
  <2>2. op \in Operation /\ op.id = o /\ op.state = call[w].op.state
    BY <1>o DEF Operation
  <2>3. c \in Call /\ c.op = op
    BY <1>o, <2>2 DEF Call
  <2>4. ops' = [ops EXCEPT ![op.id] = op] /\ Continue(w, "hash", c)
    BY <2>1 DEF Save, Upsert
  <2>5. pc[w] = "admitted" /\ op.state = "TransferPending"
    BY <1>2, <2>2 DEF Inserts, Owned, AdmittedPending
  <2> HIDE DEF op, c
  <2>6. WritesRow(w, op, "hash", c)
    BY <2>1, <2>2, <2>3, <2>4, <2>5, ExecutingNames DEF WritesRow, InFlight
  <2> QED
    BY <1>0, <2>2, <2>3, <2>6, WriteMirrored, PcNames
<1>3. CASE Goes(w)
  <2>1. PICK next \in Executing \ {"finalize"}, c \in Call :
          /\ c.op = call[w].op
          /\ next \in Committing \/ pc[w] \notin Committing
          /\ Continue(w, next, c)
    BY <1>3 DEF Goes
  <2>2. next \in WorkerPc /\ next # "supersede"
    BY ExecutingNames
  <2> QED
    BY <1>0, <1>3, <2>1, <2>2, KeepMirrored DEF Goes
<1>4. CASE Saves(w)
  <2>1. PICK op \in Operation, next \in Executing :
          /\ SameOperation(op, call[w].op)
          /\ op.state \in InFlight \cup Finishing
          /\ next \in Committing \/ op.state \in InFlight
          /\ next = "finalize" => /\ op.state = "SourceFinalizePending"
                                  /\ policy[op.event].mode = "SafeMove"
          /\ Save(w, op, next)
    BY <1>4 DEF Saves
  <2> DEFINE c == [call[w] EXCEPT !.op = op]
  <2>2. c \in Call /\ c.op = op
    BY <1>o DEF Call
  <2>3. ops' = [ops EXCEPT ![op.id] = op] /\ Continue(w, next, c)
    BY <2>1 DEF Save, Upsert
  <2>4. /\ op.id = call[w].op.id /\ op.id \in OpId /\ op.state # "Absent"
        /\ pc[w] \in Executing /\ next \in WorkerPc /\ next # "supersede"
    BY <1>4, <1>o, <2>1, ExecutingNames DEF Saves, SameOperation, InFlight, Finishing
  <2> HIDE DEF c
  <2>5. WritesRow(w, op, next, c)
    BY <2>1, <2>2, <2>3, <2>4 DEF WritesRow
  <2> QED
    BY <1>0, <2>2, <2>4, <2>5, WriteMirrored
<1>5. CASE Ends(w)
  <2>1. PICK op \in Operation : /\ SameOperation(op, call[w].op)
                                /\ op.state \notin Unsettled \cup {"Absent"}
                                /\ Finish(w, op)
    BY <1>5 DEF Ends
  <2>2. ops' = [ops EXCEPT ![op.id] = op] /\ Continue(w, "idle", NoCall)
    BY <2>1 DEF Finish, Upsert, Return
  <2>3. op.id = call[w].op.id /\ op.id \in OpId /\ pc[w] \in Executing
    BY <1>5, <1>o, <2>1, ExecutingNames DEF Ends, SameOperation
  <2>4. WritesRow(w, op, "idle", NoCall)
    BY <1>i, <2>1, <2>2, <2>3 DEF WritesRow
  <2> QED
    BY <1>0, <1>i, <2>3, <2>4, WriteMirrored
<1>6. CASE pc[w] # "idle" /\ Drop(w)
  BY <1>0, <1>6, <1>i, KeepMirrored DEF Drop, Return
<1>7. CASE Supersede(w)
  <2> DEFINE op == To(call[w].op, "Failed")
             c  == [call[w] EXCEPT !.op = op]
  <2>1. pc[w] = "supersede" /\ Save(w, op, "direct")
    BY <1>7 DEF Supersede
  <2>2. /\ op \in Operation /\ op.state = "Failed" /\ op.id = call[w].op.id /\ op.id \in OpId
        /\ SameCopy(op, call[w].op)
    <3>1. call[w].op \in Operation /\ call[w].op.id \in OpId /\ "Failed" \in OperationState
      BY <1>o, <2>1, StateNames
    <3> QED
      BY <3>1, ToFields DEF SameCopy
  <2>3. c \in Call
    BY <1>o, <2>2 DEF Call
  <2>4. ops' = [ops EXCEPT ![op.id] = op] /\ Continue(w, "direct", c)
    BY <2>1 DEF Save, Upsert
  <2> HIDE DEF op, c
  <2>5. /\ SameCopy(op, ops[op.id])
        /\ \A v \in Worker : pc[v] \in Executing => call[v].op.id # op.id
    BY <2>1, <2>2 DEF Mirrored, CallsMirrored, SupersededApart, Mirrors, SameCopy
  <2>6. WritesRow(w, op, "direct", c)
    BY <1>i, <2>1, <2>2, <2>4, <2>5, ExecutingNames DEF WritesRow
  <2> QED
    BY <1>0, <1>i, <2>2, <2>3, <2>6, WriteMirrored
<1> QED
  BY <1>1, <1>2, <1>3, <1>4, <1>5, <1>6, <1>7 DEF CallStep

\* A user's request settles rows that no running call has, or takes their event.
LEMMA RowsMirrored ==
  /\ Placed /\ Owned /\ Mirrored
  /\ up /\ UNCHANGED <<calls, policy, up, rpc>>
  /\ \A o \in OpId :
       /\ SameCopy(ops'[o], ops[o])
       /\ ops'[o].event \in {ops[o].event, None}
       /\ \/ ops'[o].state = ops[o].state
          \/ /\ ops[o].state \notin InFlight \cup Finishing
             /\ ops'[o].state # "Absent"
  => Mirrored'
<1> SUFFICES ASSUME Placed, Owned, Mirrored, up, UNCHANGED <<calls, policy, up, rpc>>,
                    \A o \in OpId :
                      /\ SameCopy(ops'[o], ops[o])
                      /\ ops'[o].event \in {ops[o].event, None}
                      /\ \/ ops'[o].state = ops[o].state
                         \/ /\ ops[o].state \notin InFlight \cup Finishing
                            /\ ops'[o].state # "Absent"
             PROVE  Mirrored'
  OBVIOUS
<1>1. UNCHANGED <<pc, call>>
  BY DEF calls
<1>2. ASSUME NEW w \in Worker PROVE Mirrors(ops', pc[w], call[w])
  <2>1. Mirrors(ops, pc[w], call[w])
    BY DEF Mirrored, CallsMirrored
  <2>2. pc[w] \in Executing \cup {"supersede"} => call[w].op.id \in OpId
    BY RunningCall, ExecutingNames
  <2> QED
    BY <2>1, <2>2 DEF Mirrors, SameCopy
<1>3. SupersededApart' /\ Announced'
  BY <1>1 DEF Mirrored, SupersededApart, Announced
<1>4. RecoveryCurrent'
  BY DEF Mirrored, RecoveryCurrent
<1> QED
  BY <1>1, <1>2, <1>3, <1>4 DEF Mirrored, CallsMirrored

LEMMA UserMirrored == Placed /\ Owned /\ Mirrored /\ User => Mirrored'
<1> SUFFICES ASSUME Placed, Owned, Mirrored, User PROVE Mirrored'
  OBVIOUS
<1> DEFINE Read(o) == [NoCall EXCEPT !.via = "direct", !.op = ops[o]]
<1>n. /\ "supersede" \in WorkerPc \ Executing
      /\ \A o \in OpId : Read(o) \in Call /\ Read(o).op = ops[o]
  BY NoCallType, PcNames, ExecutingNames DEF Call, Placed, RowsPlaced
<1> HIDE DEF Read
<1>1. ASSUME NEW w \in Worker, NEW o \in OpId, Retry(w, o) \/ RouteAgain(w, o) PROVE Mirrored'
  <2>1. /\ up /\ Continue(w, "supersede", Read(o))
        /\ UNCHANGED <<ops, config, recover>>
    BY <1>1 DEF Retry, RouteAgain, Read
  <2>2. ops[o].state \notin InFlight \cup Finishing \cup {"Absent"}
    BY <1>1 DEF Retry, RouteAgain, Waiting, InFlight, Finishing
  <2> QED
    BY <1>n, <2>1, <2>2, KeepMirrored
<1>2. ASSUME NEW o \in OpId, Dismiss(o) PROVE Mirrored'
  <2> DEFINE row == ops[o]
  <2>1. /\ row \in Operation /\ row.id = o /\ row.state = "Quarantined"
        /\ Upsert(To(row, "Ignored"))
    <3>1. ops[o] \in Operation /\ ops[o].state = "Quarantined"
      BY <1>2 DEF Dismiss, Placed, RowsPlaced
    <3>2. ops[o].id = o
      BY <3>1 DEF Owned, RowsNamed
    <3> QED
      BY <1>2, <3>1, <3>2 DEF Dismiss
  <2> HIDE DEF row
  <2>0. "Ignored" \in OperationState \ (Unsettled \cup {"Absent"})
    BY ExecutingNames, StateNames
  <2>2. \A q \in OpId : \/ ops'[q] = ops[q]
                        \/ q = o /\ ops'[q] = To(row, "Ignored")
    BY <2>0, <2>1, RewriteRow
  <2>3. /\ SameCopy(To(row, "Ignored"), row) /\ To(row, "Ignored").event = row.event
        /\ To(row, "Ignored").state = "Ignored"
    BY <2>1, ToFields, StateNames DEF SameCopy
  <2>4. up /\ UNCHANGED <<calls, policy, up, rpc>>
    BY <1>2 DEF Dismiss, recover, config
  <2>5. \A q \in OpId :
          /\ SameCopy(ops'[q], ops[q])
          /\ ops'[q].event \in {ops[q].event, None}
          /\ \/ ops'[q].state = ops[q].state
             \/ /\ ops[q].state \notin InFlight \cup Finishing
                /\ ops'[q].state # "Absent"
    BY <2>1, <2>2, <2>3 DEF row, SameCopy, InFlight, Finishing
  <2> QED
    BY <2>4, <2>5, RowsMirrored
<1>3. ASSUME NEW e \in Event, SupersedeEvent(e) PROVE Mirrored'
  <2>1. \A o \in OpId :
          /\ SameCopy(ops'[o], ops[o])
          /\ ops'[o].event \in {ops[o].event, None}
          /\ \/ ops'[o].state = ops[o].state
             \/ /\ ops[o].state \notin InFlight \cup Finishing
                /\ ops'[o].state # "Absent"
    <3> SUFFICES ASSUME NEW o \in OpId, ops'[o] # ops[o]
                 PROVE  /\ SameCopy(ops'[o], ops[o])
                        /\ ops'[o].event = ops[o].event
                        /\ ops[o].state \notin InFlight \cup Finishing
                        /\ ops'[o].state # "Absent"
      BY DEF SameCopy
    <3>1. ops[o] \in Operation
      BY DEF Placed, RowsPlaced
    <3>2. ops'[o] = To(ops[o], "Failed") /\ ops[o].state \in {"Completed", "Ignored"}
      BY <1>3 DEF SupersedeEvent
    <3>3. /\ SameCopy(To(ops[o], "Failed"), ops[o]) /\ To(ops[o], "Failed").event = ops[o].event
          /\ To(ops[o], "Failed").state = "Failed"
      BY <3>1, ToFields, StateNames DEF SameCopy
    <3> QED
      BY <3>2, <3>3 DEF InFlight, Finishing
  <2>2. up /\ UNCHANGED <<calls, policy, up, rpc>>
    BY <1>3 DEF SupersedeEvent, recover, config
  <2> QED
    BY <2>1, <2>2, RowsMirrored
<1>4. ASSUME NEW e \in Event, DeleteEvent(e) PROVE Mirrored'
  <2>1. \A o \in OpId :
          /\ SameCopy(ops'[o], ops[o])
          /\ ops'[o].event \in {ops[o].event, None}
          /\ ops'[o].state = ops[o].state
    BY <1>4 DEF DeleteEvent, Placed, RowsPlaced, Operation, SameCopy
  <2>2. up /\ UNCHANGED <<calls, policy, up, rpc>>
    BY <1>4 DEF DeleteEvent, recover
  <2> QED
    BY <2>1, <2>2, RowsMirrored
<1>5. ASSUME NEW w \in Worker, Cancel(w) PROVE Mirrored'
  BY <1>5, CallStepMirrored DEF Cancel, CallStep, Drop
<1> QED
  BY <1>1, <1>2, <1>3, <1>4, <1>5 DEF User

\* Startup recovery writes a row it listed back.
LEMMA ResolvedCurrent ==
  Placed /\ Owned /\ Mirrored =>
    \A r \in Operation, s \in OperationState \ (Unsettled \cup {"Absent"}) :
      /\ ~up /\ ~up'
      /\ Identified(r)
      /\ ops[r.id] = r
      /\ Upsert(To(r, s))
      /\ todo' = todo \ {r}
      => /\ \A q \in todo' : ops'[q.id] = q
         /\ ops'[To(r, s).id] = To(r, s)
<1> SUFFICES ASSUME Placed, Owned, Mirrored,
                    NEW r \in Operation, NEW s \in OperationState \ (Unsettled \cup {"Absent"}),
                    ~up, ~up', Identified(r),
                    ops[r.id] = r,
                    Upsert(To(r, s)), todo' = todo \ {r}
             PROVE  /\ \A q \in todo' : ops'[q.id] = q
                    /\ ops'[To(r, s).id] = To(r, s)
  OBVIOUS
<1>1. /\ ops'[r.id] = To(r, s)
      /\ \A o \in OpId : o # r.id => ops'[o] = ops[o]
  BY RewriteRow DEF Identified
<1>2. To(r, s).id = r.id
  BY ToFields
<1>4. ASSUME NEW q \in todo' PROVE ops'[q.id] = q
  <2>1. q \in todo /\ q # r /\ ops[q.id] = q /\ q.id \in OpId
    BY DEF Mirrored, RecoveryCurrent, Placed, RecoveryPlaced, Identified
  <2>2. q.id # r.id
    BY <2>1
  <2> QED
    BY <1>1, <2>1, <2>2
<1> QED
  BY <1>1, <1>2, <1>4

\* While nothing else runs, the calls have nothing to mirror.
LEMMA QuietMirrored ==
  (\A w \in Worker : pc'[w] = "idle") /\ RecoveryCurrent' => Mirrored'
  BY ExecutingNames DEF Mirrored, CallsMirrored, SupersededApart, Announced, Mirrors

LEMMA RecoverMirrored == Placed /\ Owned /\ Mirrored /\ Recover => Mirrored'
<1> SUFFICES ASSUME Placed, Owned, Mirrored, Recover PROVE Mirrored'
  OBVIOUS
<1>q. ~up /\ rpc # "idle"
  <2>1. rpc # "idle"
    BY DEF Recover, RecoverList, RecoverDelete, RecoverComplete, RecoverFails, RecoverEnd,
       RecoverUncommitted, RecoverCommitted
  <2> QED
    BY <2>1 DEF Mirrored, RecoveryCurrent
<1>c. \A w \in Worker : pc[w] = "idle"
  BY <1>q DEF Owned, StartupQuiet
<1>k. UNCHANGED pc /\ UNCHANGED policy
  BY DEF Recover, RecoverList, RecoverDelete, RecoverComplete, RecoverFails, RecoverEnd,
     RecoverUncommitted, RecoverCommitted, Resolved, calls, config
<1> SUFFICES RecoveryCurrent'
  BY <1>c, <1>k, QuietMirrored
<1>0. \A r \in todo : /\ r \in Operation /\ Identified(r) /\ ops[r.id] = r
                      /\ r.state \in InFlight \cup Finishing \cup {"RetryPending"}
  BY <1>q DEF Placed, RecoveryPlaced, Mirrored, RecoveryCurrent
<1>i. rpc \in {"delete", "complete"} =>
        item \in Operation /\ Identified(item) /\ ops[item.id] = item
  BY <1>q DEF Placed, RecoveryPlaced, Mirrored, RecoveryCurrent
<1>s. {"RetryPending", "Quarantined", "Completed", "SourceFinalizePending"}
         \subseteq OperationState \ (Unsettled \cup {"Absent"})
  BY StateNames, ExecutingNames
<1>r. ASSUME NEW r \in Operation, Identified(r),
             ops[r.id] = r,
             NEW s \in {"RetryPending", "Quarantined", "Completed", "SourceFinalizePending"},
             Resolved(r, s)
      PROVE  RecoveryCurrent'
  <2>1. ~up' /\ Upsert(To(r, s)) /\ todo' = todo \ {r} /\ rpc' = "scan"
    BY <1>q, <1>r DEF Resolved
  <2>2. \A q \in todo' : ops'[q.id] = q
    BY <1>q, <1>r, <1>s, <2>1, ResolvedCurrent
  <2> QED
    BY <1>0, <2>1, <2>2 DEF RecoveryCurrent
<1>t. ASSUME NEW r \in todo,
             NEW s \in {"RetryPending", "Quarantined", "Completed", "SourceFinalizePending"},
             Resolved(r, s)
      PROVE  RecoveryCurrent'
  <2>1. r \in Operation /\ Identified(r) /\ ops[r.id] = r
    BY <1>0
  <2> QED
    BY <1>r, <1>t, <2>1
<1>1. CASE RecoverList
  <2>1. \A r \in ListIncomplete(ops) :
          /\ ops[r.id] = r
          /\ r.state \in InFlight \cup Finishing \cup {"RetryPending"}
    BY DEF ListIncomplete, Owned, RowsNamed, Placed, RowsPlaced, Operation, OperationState,
       Finished, Waiting
  <2> QED
    BY <1>1, <1>q, <2>1 DEF RecoverList, RecoveryCurrent
<1>2. CASE RecoverDelete
  BY <1>2, <1>q DEF RecoverDelete, Mirrored, RecoveryCurrent
<1>3. CASE RecoverComplete
  BY <1>3, <1>i, <1>r DEF RecoverComplete
<1>4. CASE RecoverFails
  <2>1. CASE /\ rpc \in {"delete", "complete"}
             /\ Resolved(item, "SourceFinalizePending")
    BY <1>i, <1>r, <2>1
  <2>2. CASE \E r \in todo : Resolved(r, "SourceFinalizePending")
    BY <1>t, <2>2
  <2> QED
    BY <1>4, <2>1, <2>2 DEF RecoverFails
<1>5. CASE RecoverEnd
  BY <1>5 DEF RecoverEnd, RecoveryCurrent
<1>6. ASSUME NEW r \in todo, RecoverUncommitted(r) PROVE RecoveryCurrent'
  BY <1>6, <1>t DEF RecoverUncommitted
<1>7. ASSUME NEW r \in todo, RecoverCommitted(r) PROVE RecoveryCurrent'
  <2>1. CASE \E s \in {"Quarantined", "Completed"} : Resolved(r, s)
    BY <1>t, <2>1
  <2>2. CASE /\ policy[r.event].mode = "SafeMove"
             /\ Upsert(To(r, "SourceFinalizePending"))
             /\ todo' = todo \ {r}
             /\ item' = To(r, "SourceFinalizePending")
             /\ rpc' = "delete"
             /\ UNCHANGED up
    <3> DEFINE s == "SourceFinalizePending"
    <3>0. /\ s \in OperationState \ (Unsettled \cup {"Absent"})
          /\ r \in Operation /\ Identified(r) /\ ops[r.id] = r /\ ~up /\ ~up'
          /\ Upsert(To(r, s)) /\ todo' = todo \ {r} /\ item' = To(r, s)
      BY <1>0, <1>q, <1>s, <2>2
    <3> HIDE DEF s
    <3>1. /\ \A q \in todo' : ops'[q.id] = q
          /\ ops'[item'.id] = item'
      BY <3>0, ResolvedCurrent
    <3>2. item'.state = "SourceFinalizePending" /\ item'.event = r.event
      <4>1. r \in Operation /\ item' = To(r, "SourceFinalizePending")
        BY <1>0, <2>2
      <4> QED
        BY <4>1, ToFields, StateNames
    <3>3. \A q \in todo' : q.state \in InFlight \cup Finishing \cup {"RetryPending"}
      BY <1>0, <2>2
    <3> QED
      BY <1>k, <1>q, <2>2, <3>1, <3>2, <3>3 DEF RecoveryCurrent
  <2> QED
    BY <1>7, <2>1, <2>2 DEF RecoverCommitted
<1> QED
  BY <1>1, <1>2, <1>3, <1>4, <1>5, <1>6, <1>7 DEF Recover

\* A step of a call runs while the services do.
LEMMA ExecuteRuns == \A w \in Worker : Execute(w) => pc[w] # "idle"
  BY DEF Execute, Record, HashSource, Resolve, Copy, StartVerifying, Verify, Commit, Move,
     CheckDestination, Settle, Release, Complete, Fail, FinalizeFails, AdoptionForgotten,
     EventGone, Supersede, ExecuteDirect, Uncommitted

LEMMA NextMirrored == Placed /\ Owned /\ Mirrored /\ [Unattended]_vars => Mirrored'
<1> SUFFICES ASSUME Placed, Owned, Mirrored, [Unattended]_vars PROVE Mirrored'
  OBVIOUS
<1>1. ASSUME NEW w \in Worker, NEW m \in Media, NEW e \in Event, Begin(w, m, e) PROVE Mirrored'
  <2>1. Enters(w)
    BY <1>1, AdmitShape, ExecutingNames DEF Begin
  <2> QED
    BY <1>1, <2>1, CallStepMirrored DEF Begin, CallStep
<1>2. ASSUME NEW w \in Worker, Execute(w) PROVE Mirrored'
  BY <1>2, ExecuteRuns, ExecuteShape, CallStepMirrored
<1>3. CASE Crash
  <2>1. (\A w \in Worker : pc'[w] = "idle") /\ ~up' /\ rpc' = "list" /\ todo' = {}
    BY <1>3 DEF Crash
  <2>2. RecoveryCurrent'
    BY <2>1 DEF RecoveryCurrent
  <2> QED
    BY <2>1, <2>2, QuietMirrored
<1>4. CASE UNCHANGED vars
  BY <1>4 DEF vars, config, calls, recover, Mirrored, CallsMirrored, Mirrors, SupersededApart,
     Announced, RecoveryCurrent, SameCopy
<1> QED
  BY <1>1, <1>2, <1>3, <1>4, UserMirrored, RecoverMirrored DEF Unattended

LEMMA InitMirrored == Init => Mirrored
  BY ExecutingNames DEF Init, Mirrored, CallsMirrored, Mirrors, SupersededApart, Announced,
     RecoveryCurrent

\* Without a sync client and without requested recoveries.
LEMMA UnattendedIsSync == UnattendedSpec => SyncSpec
<1>1. [Unattended]_vars => [SyncNext]_vars
  BY DEF SyncNext, Next
<1> QED
  BY <1>1, PTL DEF UnattendedSpec, SyncSpec

LEMMA OwnedHolds == SyncSpec => []Owned
  BY InitOwned, NextOwned, PlacedHolds, PTL DEF SyncSpec

LEMMA MirroredHolds == UnattendedSpec => []Mirrored
<1>1. UnattendedSpec => []Placed /\ []Owned
  BY UnattendedIsSync, PlacedHolds, OwnedHolds, PTL
<1> QED
  BY <1>1, InitMirrored, NextMirrored, PTL DEF UnattendedSpec

\* While a call runs, its row says what the call believes, whatever other calls,
\* users, startup recovery and crashes do: the destructive steps of the engine
\* never rest on memory alone.
THEOREM TransitionsArePersisted == UnattendedSpec => []TransitionsPersisted
<1>1. Mirrored => TransitionsPersisted
  BY DEF Mirrored, CallsMirrored, Mirrors, SameCopy, TransitionsPersisted
<1> QED
  BY <1>1, MirroredHolds, PTL

-----------------------------------------------------------------------------
(* What was verified is what is moved, and the refinement.                 *)

\* Between the last check of a staging file and its move nothing touches it.
Staged ==
  \A w \in Worker : pc[w] \in {"commit", "move"} => staging[call[w].op.id] = call[w].hash

\* A step of a call leaves the other calls alone, and other staging files.
LEMMA ExecuteFrame ==
  Placed =>
    \A w \in Worker : Execute(w) =>
      /\ \A v \in Worker \ {w} : pc'[v] = pc[v] /\ call'[v] = call[v]
      /\ \/ UNCHANGED staging
         \/ /\ pc[w] \in Executing \cup {"supersede"}
            /\ \A o \in OpId : o # call[w].op.id => staging'[o] = staging[o]
<1> SUFFICES ASSUME Placed, NEW w \in Worker, Execute(w)
             PROVE  /\ \A v \in Worker \ {w} : pc'[v] = pc[v] /\ call'[v] = call[v]
                    /\ \/ UNCHANGED staging
                       \/ /\ pc[w] \in Executing \cup {"supersede"}
                          /\ \A o \in OpId : o # call[w].op.id => staging'[o] = staging[o]
  OBVIOUS
<1>1. \E next \in WorkerPc, c \in Call : Continue(w, next, c)
  <2>1. CallStep(w)
    BY ExecuteShape
  <2>2. call[w] \in Call
    BY CallAt DEF Placed
  <2>3. CASE Enters(w) \/ Goes(w)
    BY <2>3, ExecutingNames DEF Enters, Goes
  <2>4. \A op \in Operation : [call[w] EXCEPT !.op = op] \in Call
    BY <2>2 DEF Call
  <2>5. CASE Inserts(w)
    <3>0. call[w].op \in Operation
      BY CallAt DEF Placed
    <3>1. \A o \in OpId : [call[w].op EXCEPT !.id = o] \in Operation
      BY <3>0 DEF Operation
    <3> QED
      BY <2>4, <2>5, <3>1, ExecutingNames DEF Inserts, Save
  <2>6. CASE Saves(w)
    BY <2>4, <2>6, ExecutingNames DEF Saves, Save
  <2>7. CASE Ends(w) \/ Drop(w)
    BY <2>7, NoCallType, PcNames DEF Ends, Drop, Finish, Return
  <2>8. CASE Supersede(w)
    <3>1. To(call[w].op, "Failed") \in Operation
      BY ToFields, StateNames, CallAt DEF Placed
    <3> QED
      BY <2>4, <2>8, <3>1, PcNames DEF Supersede, Save
  <2> QED
    BY <2>1, <2>3, <2>5, <2>6, <2>7, <2>8 DEF CallStep
<1>2. \A v \in Worker \ {w} : pc'[v] = pc[v] /\ call'[v] = call[v]
  BY <1>1 DEF Continue, Placed, CallsPlaced
<1>3. \/ UNCHANGED staging
      \/ /\ pc[w] \in {"copying", "commit", "move", "supersede"}
         /\ \E bytes : staging' = [staging EXCEPT ![call[w].op.id] = bytes]
  <2>1. CASE Copy(w) \/ Commit(w) \/ Move(w) \/ Fail(w) \/ Supersede(w)
    BY <2>1 DEF Copy, Commit, Move, Fail, Supersede
  <2>2. CASE ~(Copy(w) \/ Commit(w) \/ Move(w) \/ Fail(w) \/ Supersede(w))
    BY <2>2 DEF Execute, Record, HashSource, Resolve, StartVerifying, Verify, CheckDestination,
       Settle, Release, Complete, FinalizeFails, AdoptionForgotten, EventGone, Drop,
       ExecuteDirect, files
  <2> QED
    BY <2>1, <2>2
<1>4. \/ UNCHANGED staging
      \/ /\ pc[w] \in Executing \cup {"supersede"}
         /\ \A o \in OpId : o # call[w].op.id => staging'[o] = staging[o]
  BY <1>3, ExecutingNames DEF Placed, FilesTyped
<1> QED
  BY <1>2, <1>4

\* Only a successful verification and the choice of the name lead to the move.
LEMMA MoveApproach ==
  Placed =>
    \A w \in Worker :
      Execute(w) /\ pc'[w] \in {"commit", "move"} =>
        /\ UNCHANGED staging
        /\ call'[w].op = call[w].op /\ call'[w].hash = call[w].hash
        /\ \/ pc[w] = "verify" /\ staging[call[w].op.id] = call[w].hash
           \/ pc[w] = "commit"
<1> SUFFICES ASSUME Placed, NEW w \in Worker, Execute(w), pc'[w] \in {"commit", "move"}
             PROVE  /\ UNCHANGED staging
                    /\ call'[w].op = call[w].op /\ call'[w].hash = call[w].hash
                    /\ \/ pc[w] = "verify" /\ staging[call[w].op.id] = call[w].hash
                       \/ pc[w] = "commit"
  OBVIOUS
<1>0. /\ \A next, c : Continue(w, next, c) => pc'[w] = next /\ call'[w] = c
      /\ call[w] \in Call
  BY DEF Continue, Placed, CallsPlaced
<1>1. \A op, next : Save(w, op, next) => pc'[w] = next
  BY <1>0 DEF Save
<1>2. \A op : Finish(w, op) => pc'[w] = "idle"
  BY <1>0 DEF Finish, Return
<1>3. Return(w) => pc'[w] = "idle"
  BY <1>0 DEF Return
<1>4. \A next : Goto(w, next) => pc'[w] = next /\ call'[w] = call[w]
  BY <1>0 DEF Goto
<1>5. \A p : Adopt(w, p) => pc'[w] \in {"committed", "idle"}
  BY <1>1, <1>2 DEF Adopt
<1>6. \A m, e, via : Admit(w, m, e, via) => pc'[w] = "admitted"
  BY <1>0 DEF Admit
<1>v. CASE Verify(w)
  BY <1>v, <1>2, <1>4 DEF Verify, files
<1>c. CASE Commit(w)
  <2>1. ~Finish(w, To(call[w].op, "Quarantined")) /\ \A p : ~Adopt(w, p)
    BY <1>2, <1>5
  <2>2. PICK p \in Destination : Continue(w, "move", [call[w] EXCEPT !.target = p])
                                 /\ UNCHANGED staging
    BY <1>c, <2>1 DEF Commit
  <2>3. [call[w] EXCEPT !.target = p].op = call[w].op
        /\ [call[w] EXCEPT !.target = p].hash = call[w].hash
    BY <1>0 DEF Call
  <2> QED
    BY <1>0, <1>c, <2>2, <2>3 DEF Commit
<1>o. CASE ~Verify(w) /\ ~Commit(w)
  <2>1. ~Record(w) /\ ~StartVerifying(w) /\ ~Supersede(w)
    BY <1>1 DEF Record, StartVerifying, Supersede
  <2>2. ~HashSource(w) /\ ~Copy(w) /\ ~Move(w) /\ ~Release(w)
    BY <1>0, <1>4 DEF HashSource, Copy, Move, Release
  <2>3. ~Resolve(w)
    BY <1>1, <1>2, <1>5 DEF Resolve
  <2>4. ~CheckDestination(w) /\ ~Settle(w)
    BY <1>1, <1>2 DEF CheckDestination, Settle
  <2>5. ~Complete(w) /\ ~Fail(w) /\ ~FinalizeFails(w) /\ ~AdoptionForgotten(w)
    BY <1>2 DEF Complete, Fail, FinalizeFails, AdoptionForgotten
  <2>6. ~EventGone(w)
    BY <1>3 DEF EventGone, Drop
  <2>7. ~ExecuteDirect(w)
    BY <1>3, <1>6 DEF ExecuteDirect
  <2> QED
    BY <1>o, <2>1, <2>2, <2>3, <2>4, <2>5, <2>6, <2>7 DEF Execute
<1> QED
  BY <1>v, <1>c, <1>o

LEMMA NextStaged == Placed /\ Owned /\ Mirrored /\ Staged /\ [Unattended]_vars => Staged'
<1> SUFFICES ASSUME Placed, Owned, Mirrored, Staged, [Unattended]_vars,
                    NEW v \in Worker, pc'[v] \in {"commit", "move"}
             PROVE  staging'[call'[v].op.id] = call'[v].hash
  BY DEF Staged
<1>k. ASSUME pc'[v] = pc[v], call'[v] = call[v], staging'[call[v].op.id] = staging[call[v].op.id]
      PROVE  staging'[call'[v].op.id] = call'[v].hash
  BY <1>k DEF Staged
<1>1. ASSUME NEW w \in Worker, Execute(w) PROVE staging'[call'[v].op.id] = call'[v].hash
  <2>1. CASE w = v
    BY <1>1, <2>1, MoveApproach DEF Staged
  <2>2. CASE w # v
    <3>1. pc'[v] = pc[v] /\ call'[v] = call[v] /\ pc[v] \in Executing
      BY <1>1, <2>2, ExecuteFrame, ExecutingNames
    <3>2. call[v].op.id \in OpId
      BY <3>1, RunningCall, ExecutingNames
    <3>3. pc[w] \in Executing \cup {"supersede"} => call[w].op.id # call[v].op.id
      BY <2>2, <3>1 DEF Owned, CallsApart, Mirrored, SupersededApart
    <3>4. staging'[call[v].op.id] = staging[call[v].op.id]
      BY <1>1, <3>2, <3>3, ExecuteFrame
    <3> QED
      BY <1>k, <3>1, <3>4
  <2> QED
    BY <2>1, <2>2
<1>2. ASSUME NEW w \in Worker, NEW next \in {"admitted", "supersede", "idle"}, NEW c,
             Continue(w, next, c), UNCHANGED staging
      PROVE  staging'[call'[v].op.id] = call'[v].hash
  <2>1. w # v
    BY <1>2 DEF Continue, Placed, CallsPlaced
  <2>2. pc'[v] = pc[v] /\ call'[v] = call[v]
    BY <1>2, <2>1 DEF Continue, Placed, CallsPlaced
  <2> QED
    BY <1>2, <1>k, <2>2
<1>3. ASSUME NEW w \in Worker, NEW m \in Media, NEW e \in Event, Begin(w, m, e)
      PROVE  staging'[call'[v].op.id] = call'[v].hash
  BY <1>2, <1>3 DEF Begin, Admit, files
<1>4. CASE User
  <2>1. ASSUME NEW w \in Worker, NEW o \in OpId, Retry(w, o) \/ RouteAgain(w, o)
        PROVE  staging'[call'[v].op.id] = call'[v].hash
    BY <1>2, <2>1 DEF Retry, RouteAgain, files
  <2>2. ASSUME NEW w \in Worker, Cancel(w) PROVE staging'[call'[v].op.id] = call'[v].hash
    BY <1>2, <2>2 DEF Cancel, Drop, Return, files
  <2>3. CASE UNCHANGED <<files, calls>>
    BY <1>k, <2>3 DEF files, calls
  <2> QED
    BY <1>4, <2>1, <2>2, <2>3 DEF User, Dismiss, SupersedeEvent, DeleteEvent
<1>5. CASE Recover
  <2>1. UNCHANGED calls /\ UNCHANGED staging
    BY <1>5 DEF Recover, RecoverList, RecoverDelete, RecoverComplete, RecoverFails, RecoverEnd,
       RecoverUncommitted, RecoverCommitted, Resolved, files
  <2> QED
    BY <1>k, <2>1 DEF calls
<1>6. CASE Crash
  BY <1>6 DEF Crash
<1>7. CASE UNCHANGED vars
  BY <1>k, <1>7 DEF vars, files, calls
<1> QED
  BY <1>1, <1>3, <1>4, <1>5, <1>6, <1>7 DEF Unattended

LEMMA StagedHolds == UnattendedSpec => []Staged
<1>1. Init => Staged
  BY DEF Init, Staged
<1>2. UnattendedSpec => []Placed /\ []Owned
  BY UnattendedIsSync, PlacedHolds, OwnedHolds, PTL
<1> QED
  BY <1>1, <1>2, MirroredHolds, NextStaged, PTL DEF UnattendedSpec

\* Nobody rewrites sources in UnattendedSpec.
Calm == syncs = 0

LEMMA CalmHolds == UnattendedSpec => []Calm
<1>1. Init => Calm
  BY DEF Init, Calm
<1>2. Calm /\ [Unattended]_vars => Calm'
  <2>1. [Unattended]_vars => [Next]_vars
    BY DEF Next
  <2> QED
    BY <2>1, NextRemembers DEF Calm, Remembers
<1> QED
  BY <1>1, <1>2, PTL DEF UnattendedSpec

\* Everything known of UnattendedSpec.
Known == Placed /\ Claimed /\ Owned /\ Mirrored /\ Staged /\ Calm

LEMMA KnownHolds == UnattendedSpec => []Known
<1>1. UnattendedSpec => []Placed /\ []Claimed /\ []Owned
  BY UnattendedIsSync, PlacedHolds, ClaimedHolds, OwnedHolds, PTL
<1> QED
  BY <1>1, MirroredHolds, StagedHolds, CalmHolds, PTL DEF Known

\* A step that takes a source file away.
LEMMA ReleaseSteps ==
  Known /\ [Unattended]_vars =>
    \A m \in Media :
      disk[SourcePath[m]] # None /\ disk'[SourcePath[m]] = None =>
        \/ RecoverDelete /\ item.media = m
        \/ \E w \in Worker : Release(w) /\ call[w].op.media = m
<1> SUFFICES ASSUME Known, [Unattended]_vars, NEW m \in Media,
                    disk[SourcePath[m]] # None, disk'[SourcePath[m]] = None
             PROVE  \/ RecoverDelete /\ item.media = m
                    \/ \E w \in Worker : Release(w) /\ call[w].op.media = m
  OBVIOUS
<1>0. disk \in [Path -> Content \cup {None}]
  BY DEF Known, Placed, FilesTyped
<1>1. \/ \E w \in Worker : Move(w) \/ Release(w)
      \/ RecoverDelete
      \/ \E x \in Media : Sync(x)
  <2>1. [Unattended]_vars => [SyncNext]_vars
    BY DEF SyncNext, Next
  <2> QED
    BY <2>1, DiskSteps
<1>2. ASSUME NEW w \in Worker, Move(w) PROVE FALSE
  BY <1>0, <1>2 DEF Move
<1>3. ASSUME NEW x \in Media, Sync(x) PROVE FALSE
  BY <1>0, <1>3 DEF Sync
<1>4. ASSUME NEW w \in Worker, Release(w) PROVE call[w].op.media = m
  <2>1. Located(call[w].op) /\ Source(call[w].op) \in Path
    BY <1>4, RunningCall DEF Release, Known, Identified
  <2> QED
    BY <1>0, <1>4, <2>1 DEF Release, DeleteSource, Source, Located
<1>5. ASSUME RecoverDelete PROVE item.media = m
  <2>1. Located(item)
    BY <1>5 DEF RecoverDelete, Known, Placed, RecoveryPlaced, Identified
  <2> QED
    BY <1>0, <1>5, <2>1 DEF RecoverDelete, DeleteSource, Source, Located
<1> QED
  BY <1>1, <1>2, <1>3, <1>4, <1>5

\* An operation that claims its destination holds the bytes its source still has.
LEMMA ClaimBacks ==
  ASSUME DisjointShares
  PROVE  Known =>
           \A op : /\ Located(op) /\ HasCommittedDestination(op)
                   /\ ClaimOn(disk, syncs, exposed, op)
                   /\ disk[SourcePath[op.media]] # None
                   => /\ op.dest # SourcePath[op.media]
                      /\ disk[op.dest] = disk[SourcePath[op.media]]
<1> SUFFICES ASSUME Known, NEW op, Located(op), HasCommittedDestination(op),
                    ClaimOn(disk, syncs, exposed, op), disk[SourcePath[op.media]] # None
             PROVE  op.dest # SourcePath[op.media] /\ disk[op.dest] = disk[SourcePath[op.media]]
  OBVIOUS
<1>1. /\ op.media \in Media /\ op.dest \in Lasting /\ SourcePath[op.media] \notin Lasting
      /\ \A b : Genuine(disk, exposed, op.media, b) => b = origin[op.media]
  BY Disjoint DEF Located, DisjointShares
<1>2. disk[op.dest] = op.dstHash /\ Genuine(disk, exposed, op.media, op.dstHash)
  BY <1>1 DEF ClaimOn, Known, Calm
<1>3. Genuine(disk, exposed, op.media, disk[SourcePath[op.media]])
  BY <1>1 DEF Known, Calm, Claimed, SourcesKept
<1> QED
  BY <1>1, <1>2, <1>3

\* Whoever takes a source away, a row of it says SourceFinalizePending first.
LEMMA ReleaseNamed ==
  Known /\ [Unattended]_vars =>
    \A m \in Media :
      disk[SourcePath[m]] # None /\ disk'[SourcePath[m]] = None =>
        \E o \in OpId : /\ ops[o].media = m
                        /\ ops[o].state = "SourceFinalizePending"
                        /\ ops[o].event # None => policy[ops[o].event].mode = "SafeMove"
<1> SUFFICES ASSUME Known, [Unattended]_vars, NEW m \in Media,
                    disk[SourcePath[m]] # None, disk'[SourcePath[m]] = None
             PROVE  \E o \in OpId :
                      /\ ops[o].media = m
                      /\ ops[o].state = "SourceFinalizePending"
                      /\ ops[o].event # None => policy[ops[o].event].mode = "SafeMove"
  OBVIOUS
<1>1. ASSUME NEW w \in Worker, Release(w), call[w].op.media = m
      PROVE  \E o \in OpId : /\ ops[o].media = m
                             /\ ops[o].state = "SourceFinalizePending"
                             /\ ops[o].event # None => policy[ops[o].event].mode = "SafeMove"
  <2>1. pc[w] = "finalize" /\ pc[w] \in Executing /\ call[w].op.id \in OpId
    BY <1>1, RunningCall, ExecutingNames DEF Release, Known
  <2>2. /\ ops[call[w].op.id].media = m
        /\ ops[call[w].op.id].state = call[w].op.state
        /\ ops[call[w].op.id].event \in {call[w].op.event, None}
    BY <1>1, <2>1 DEF Known, Mirrored, CallsMirrored, Mirrors, SameCopy
  <2>3. /\ call[w].op.state = "SourceFinalizePending"
        /\ policy[call[w].op.event].mode = "SafeMove"
    BY <2>1 DEF Known, Mirrored, Announced
  <2> QED
    BY <2>1, <2>2, <2>3
<1>2. ASSUME RecoverDelete, item.media = m
      PROVE  \E o \in OpId : /\ ops[o].media = m
                             /\ ops[o].state = "SourceFinalizePending"
                             /\ ops[o].event # None => policy[ops[o].event].mode = "SafeMove"
  <2>1. rpc = "delete" /\ ~up /\ item.id \in OpId
    BY <1>2 DEF RecoverDelete, Known, Mirrored, RecoveryCurrent, Placed, RecoveryPlaced, Identified
  <2> QED
    BY <1>2, <2>1 DEF Known, Mirrored, RecoveryCurrent
<1> QED
  BY <1>1, <1>2, ReleaseSteps

\* Whoever takes a source away, a call or startup recovery, the table says so
\* first, under Safe Move, and a row there names another file with the same bytes.
THEOREM ReleasesAreBacked == ASSUME DisjointShares PROVE UnattendedSpec => ReleaseIsBacked
<1>1. Known /\ [Unattended]_vars =>
        [\A m \in Media :
           disk[SourcePath[m]] # None /\ disk'[SourcePath[m]] = None =>
             \E o \in OpId : /\ ops[o].media = m
                             /\ ops[o].state = "SourceFinalizePending"
                             /\ ops[o].event # None => policy[ops[o].event].mode = "SafeMove"
                             /\ ops[o].dest # SourcePath[m]
                             /\ disk[ops[o].dest] = disk[SourcePath[m]]]_vars
  <2> SUFFICES ASSUME Known, [Unattended]_vars, NEW m \in Media,
                      disk[SourcePath[m]] # None, disk'[SourcePath[m]] = None
               PROVE  \E o \in OpId :
                        /\ ops[o].media = m
                        /\ ops[o].state = "SourceFinalizePending"
                        /\ ops[o].event # None => policy[ops[o].event].mode = "SafeMove"
                        /\ ops[o].dest # SourcePath[m]
                        /\ disk[ops[o].dest] = disk[SourcePath[m]]
    OBVIOUS
  <2>1. PICK o \in OpId : /\ ops[o].media = m
                          /\ ops[o].state = "SourceFinalizePending"
                          /\ ops[o].event # None => policy[ops[o].event].mode = "SafeMove"
    BY ReleaseNamed
  <2>2. /\ ClaimOn(disk, syncs, exposed, ops[o])
        /\ Located(ops[o]) /\ HasCommittedDestination(ops[o])
    BY <2>1 DEF Known, Claimed, RowsClaimed, Placed, RowsPlaced, Identified, HasCommittedDestination,
       Finishing
  <2> QED
    BY <2>1, <2>2, ClaimBacks
<1> QED
  BY <1>1, KnownHolds, PTL DEF UnattendedSpec, ReleaseIsBacked

-----------------------------------------------------------------------------
(* The refinement.                                                         *)

LEMMA InitVerified == ASSUME DisjointShares PROVE Init => Verified!Init
<1> SUFFICES ASSUME Init PROVE Verified!Init
  OBVIOUS
<1>1. ASSUME NEW m \in Media PROVE disk[SourcePath[m]] = origin[m]
  <2>1. CASE m \in Present
    <3>1. (CHOOSE x \in Present : SourcePath[x] = SourcePath[m]) = m
      BY <2>1
    <3> QED
      BY <2>1, <3>1 DEF Init
  <2>2. CASE m \notin Present
    <3>1. ~\E x \in Present : SourcePath[x] = SourcePath[m]
      BY <2>2
    <3> QED
      BY <2>2, <3>1 DEF Init
  <2> QED
    BY <2>1, <2>2
<1>2. ASSUME NEW d \in Destination PROVE disk[d] = None
  <2>1. ~\E x \in Present : SourcePath[x] = d
    BY DEF DisjointShares
  <2> QED
    BY <2>1 DEF Init
<1>3. origin \in [Media -> Content \cup {None}]
  BY DEF Init
<1>4. [m \in Media |-> disk[SourcePath[m]]] = origin
  BY <1>1, <1>3
<1>5. [d \in Destination |-> disk[d]] = [d \in Destination |-> None]
  BY <1>2
<1> QED
  BY <1>3, <1>4, <1>5 DEF Verified!Init

\* The move of a verified staging file stores the bytes the source came with.
LEMMA MoveStores ==
  ASSUME DisjointShares
  PROVE  Known /\ [Unattended]_vars =>
           \A w \in Worker : Move(w) => Verified!Store(call[w].op.media, call[w].target)
<1> SUFFICES ASSUME Known, [Unattended]_vars, NEW w \in Worker, Move(w)
             PROVE  Verified!Store(call[w].op.media, call[w].target)
  OBVIOUS
<1> DEFINE m == call[w].op.media
           t == call[w].target
<1>1. pc[w] = "move" /\ m \in Media /\ t \in Destination /\ disk[t] = None
  BY RunningCall DEF Move, Known, Identified, Located
<1>2. staging[call[w].op.id] = origin[m] /\ origin[m] # None
  <2>1. staging[call[w].op.id] = call[w].hash
    BY <1>1 DEF Known, Staged
  <2>2. call[w].hash # None /\ Genuine(disk, exposed, m, call[w].hash)
    BY <1>1 DEF Known, Claimed, CallsClaimed, CallClaimed, Hashed, Uncommitted, Calm
  <2> QED
    BY <1>1, <2>1, <2>2, Disjoint
<1>3. disk' = [disk EXCEPT ![t] = origin[m]] /\ UNCHANGED origin
  BY <1>2 DEF Move, bounds, history
<1>4. disk \in [Path -> Content \cup {None}]
  BY DEF Known, Placed, FilesTyped
<1>5. [d \in Destination |-> disk'[d]] = [[d \in Destination |-> disk[d]] EXCEPT ![t] = origin[m]]
  BY <1>1, <1>3, <1>4
<1>6. [x \in Media |-> disk'[SourcePath[x]]] = [x \in Media |-> disk[SourcePath[x]]]
  BY <1>1, <1>3, <1>4 DEF DisjointShares
<1>7. [d \in Destination |-> disk[d]][t] = None
  BY <1>1
<1> QED
  BY <1>2, <1>3, <1>5, <1>6, <1>7 DEF Verified!Store

\* A release of a source backed by an operation's claim is an abstract release,
\* or nothing if the source was gone already.
LEMMA DeleteReleases ==
  ASSUME DisjointShares
  PROVE  Known =>
           \A op : /\ Located(op) /\ HasCommittedDestination(op)
                   /\ ClaimOn(disk, syncs, exposed, op)
                   /\ disk' = [disk EXCEPT ![Source(op)] = None]
                   /\ UNCHANGED origin
                   => \/ Verified!Release(op.media)
                      \/ UNCHANGED <<origin, [m \in Media |-> disk[SourcePath[m]]],
                                     [d \in Destination |-> disk[d]]>>
<1> SUFFICES ASSUME Known, NEW op, Located(op), HasCommittedDestination(op),
                    ClaimOn(disk, syncs, exposed, op),
                    disk' = [disk EXCEPT ![Source(op)] = None], UNCHANGED origin
             PROVE  \/ Verified!Release(op.media)
                    \/ UNCHANGED <<origin, [m \in Media |-> disk[SourcePath[m]]],
                                   [d \in Destination |-> disk[d]]>>
  OBVIOUS
<1> DEFINE s == op.media
<1>1. s \in Media /\ op.dest \in Destination /\ Source(op) = SourcePath[s] /\ SourcePath[s] \in Path
  BY DEF Located, Source
<1>2. disk \in [Path -> Content \cup {None}]
  BY DEF Known, Placed, FilesTyped
<1>3. [d \in Destination |-> disk'[d]] = [d \in Destination |-> disk[d]]
  BY <1>1, <1>2 DEF DisjointShares
<1>4. \A m \in Media : disk'[SourcePath[m]] = IF m = s THEN None ELSE disk[SourcePath[m]]
  BY <1>1, <1>2
<1>5. CASE disk[SourcePath[s]] # None
  <2>1. disk[op.dest] = disk[SourcePath[s]]
    BY <1>5, ClaimBacks
  <2>2. [m \in Media |-> disk'[SourcePath[m]]]
          = [[m \in Media |-> disk[SourcePath[m]]] EXCEPT ![s] = None]
    BY <1>1, <1>4
  <2>3. [m \in Media |-> disk[SourcePath[m]]][s] = disk[SourcePath[s]]
        /\ [d \in Destination |-> disk[d]][op.dest] = disk[op.dest]
    BY <1>1
  <2> QED
    BY <1>1, <1>3, <1>5, <2>1, <2>2, <2>3 DEF Verified!Release
<1>6. CASE disk[SourcePath[s]] = None
  <2>1. [m \in Media |-> disk'[SourcePath[m]]] = [m \in Media |-> disk[SourcePath[m]]]
    BY <1>4, <1>6
  <2> QED
    BY <1>3, <2>1
<1> QED
  BY <1>5, <1>6

LEMMA NextVerified ==
  ASSUME DisjointShares
  PROVE  Known /\ [Unattended]_vars =>
           [Verified!Next]_<<origin, [m \in Media |-> disk[SourcePath[m]]],
                             [d \in Destination |-> disk[d]]>>
<1> DEFINE seen == <<origin, [m \in Media |-> disk[SourcePath[m]]], [d \in Destination |-> disk[d]]>>
<1> SUFFICES ASSUME Known, [Unattended]_vars PROVE [Verified!Next]_seen
  OBVIOUS
<1>0. [SyncNext]_vars /\ UNCHANGED <<origin, syncs>>
  <2>1. [Next]_vars /\ [SyncNext]_vars
    BY DEF SyncNext, Next
  <2> QED
    BY <2>1, NextRemembers DEF Remembers
<1>1. CASE UNCHANGED disk
  BY <1>0, <1>1
<1>2. ASSUME NEW w \in Worker, Move(w) PROVE Verified!Next
  <2>1. call[w].op.media \in Media /\ call[w].target \in Destination
    BY <1>2, RunningCall DEF Move, Known, Identified, Located
  <2>2. Verified!Store(call[w].op.media, call[w].target)
    BY <1>2, MoveStores, Zenon
  <2> QED
    BY <2>1, <2>2, Zenon DEF Verified!Next, Verified!Store
<1>3. ASSUME NEW op, Located(op), HasCommittedDestination(op), ClaimOn(disk, syncs, exposed, op),
             disk' = [disk EXCEPT ![Source(op)] = None]
      PROVE  [Verified!Next]_seen
  BY <1>0, <1>3, DeleteReleases DEF Verified!Next, Located
<1>4. ASSUME NEW w \in Worker, Release(w) PROVE [Verified!Next]_seen
  <2>1. Located(call[w].op)
    BY <1>4, RunningCall DEF Release, Known, Identified
  <2>2. HasCommittedDestination(call[w].op) /\ ClaimOn(disk, syncs, exposed, call[w].op)
    BY <1>4 DEF Release, Known, Claimed, CallsClaimed, CallClaimed, Committing
  <2> QED
    BY <1>3, <1>4, <2>1, <2>2 DEF Release, DeleteSource
<1>5. ASSUME RecoverDelete PROVE [Verified!Next]_seen
  <2>1. Located(item) /\ HasCommittedDestination(item) /\ ClaimOn(disk, syncs, exposed, item)
    BY <1>5 DEF RecoverDelete, Known, Claimed, RecoveryClaimed, Placed, RecoveryPlaced, Identified
  <2> QED
    BY <1>3, <1>5, <2>1 DEF RecoverDelete, DeleteSource
<1>6. ASSUME NEW m \in Media, Sync(m) PROVE FALSE
  BY <1>0, <1>6 DEF Sync, Known, Calm
<1> QED
  BY <1>0, <1>1, <1>2, <1>4, <1>5, <1>6, DiskSteps

\* With all its interleavings, adoptions, retries, recoveries and crashes the
\* engine is, seen from the shares, the abstract verified move: it stores only
\* the exact bytes of a source, only under free names, replaces nothing, and
\* releases a source only while a destination holds its bytes.
THEOREM EngineImplementsVerifiedMove ==
  ASSUME DisjointShares PROVE UnattendedSpec => ImplementsVerifiedMove
<1>1. UnattendedSpec => []Known
  BY KnownHolds
<1>2. Init => Verified!Init
  BY InitVerified
<1>3. Known /\ [Unattended]_vars =>
        [Verified!Next]_<<origin, [m \in Media |-> disk[SourcePath[m]]],
                          [d \in Destination |-> disk[d]]>>
  BY NextVerified
<1> QED
  BY <1>1, <1>2, <1>3, PTL DEF UnattendedSpec, ImplementsVerifiedMove, Verified!Spec

-----------------------------------------------------------------------------
(* A source that is gone is stored, and a row says where.                  *)

\* The states of a row that has found or stored its copy, or was superseded.
Archived == Finishing \cup Finished \cup {"Quarantined"}

\* What any step leaves of a row: its media, and once it is archived its copy.
RowKept(row, next) ==
  /\ next.state # "Absent"
  /\ next.media = row.media
  /\ row.state \in Archived => next.state \in Archived /\ SameCopy(next, row)

\* A committed call forgets the copy its row has on record.
RowForgotten(q) ==
  \E w \in Worker :
    /\ pc[w] \in Committing
    /\ ops[q].state # "Absent" /\ SameCopy(ops[q], call[w].op)
    /\ ops'[q].media = ops[q].media
    /\ Forgets(w, ops'[q])

\* A row stays, a call inserts it, or a call forgets what it says.
RowStep(q) ==
  \/ ops'[q].state = ops[q].state /\ SameCopy(ops'[q], ops[q])
  \/ ops[q].state # "Absent" /\ RowKept(ops[q], ops'[q])
  \/ /\ ops[q].state = "Absent" /\ ops'[q].state \notin Archived
     /\ \E w \in Worker : pc[w] = "admitted" /\ ops'[q].media = call[w].op.media
  \/ RowForgotten(q)

\* A call writes its own row.
LEMMA OwnRowKept ==
  Placed /\ Owned /\ Mirrored =>
    \A w \in Worker, op \in Operation :
      /\ pc[w] \in Executing
      /\ op.state # "Absent"
      /\ SameOperation(op, call[w].op)
      /\ KeepsDestination(w, op)
      /\ Upsert(op)
      => \A q \in OpId : RowStep(q)
<1> SUFFICES ASSUME Placed, Owned, Mirrored,
                    NEW w \in Worker, NEW op \in Operation,
                    pc[w] \in Executing, op.state # "Absent",
                    SameOperation(op, call[w].op), KeepsDestination(w, op), Upsert(op),
                    NEW q \in OpId
             PROVE  RowStep(q)
  OBVIOUS
<1> DEFINE own == call[w].op
<1>1. op.id = own.id /\ op.media = own.media /\ own.id \in OpId
  BY RunningCall, ExecutingNames DEF SameOperation
<1>2. ops'[q] = IF q = own.id THEN op ELSE ops[q]
  BY <1>1 DEF Upsert, Placed, RowsPlaced
<1>3. CASE q # own.id
  BY <1>2, <1>3 DEF RowStep, SameCopy
<1>4. CASE q = own.id
  <2>1. /\ ops[q].state = own.state
        /\ SameCopy(ops[q], own)
        /\ pc[w] \in Committing \/ own.state \in InFlight
        /\ ops[q].state # "Absent"
    BY <1>4 DEF Mirrored, CallsMirrored, Mirrors, Owned, CallsRecorded
  <2>2. ops[q].state \in Archived => pc[w] \in Committing
    BY <2>1 DEF Archived, InFlight, Finishing, Finished
  <2>3. CASE pc[w] \in Committing /\ Forgets(w, op)
    <3>1. ops'[q] = op /\ op.media = ops[q].media
      BY <1>1, <1>2, <1>4, <2>1 DEF SameCopy
    <3> QED
      BY <2>1, <2>3, <3>1 DEF RowStep, RowForgotten, Forgets
  <2>4. CASE ~(pc[w] \in Committing /\ Forgets(w, op))
    <3>1. pc[w] \in Committing => op.state \in Archived /\ SameCopy(op, own)
      BY <1>1, <2>4 DEF KeepsDestination, SameCopy, Archived, Finishing, Finished
    <3> QED
      BY <1>1, <1>2, <1>4, <2>1, <2>2, <3>1 DEF RowStep, RowKept, SameCopy
  <2> QED
    BY <2>3, <2>4
<1> QED
  BY <1>3, <1>4

LEMMA ExecuteRowStep ==
  Placed /\ Owned /\ Mirrored =>
    \A w \in Worker : CallStep(w) => \A q \in OpId : RowStep(q)
<1> SUFFICES ASSUME Placed, Owned, Mirrored, NEW w \in Worker, CallStep(w)
             PROVE  \A q \in OpId : RowStep(q)
  OBVIOUS
<1>1. CASE UNCHANGED ops
  BY <1>1 DEF RowStep, SameCopy
<1>2. CASE Inserts(w)
  <2> DEFINE Row(o) == [call[w].op EXCEPT !.id = o]
  <2>1. PICK o \in OpId : ops[o].state = "Absent" /\ Save(w, Row(o), "hash")
    BY <1>2 DEF Inserts
  <2>2. call[w].op \in Operation /\ call[w].op.state = "TransferPending" /\ pc[w] = "admitted"
    BY <1>2, CallAt DEF Inserts, Placed, Owned, AdmittedPending
  <2>3. /\ Row(o).id = o /\ Row(o).state = "TransferPending"
        /\ Row(o).media = call[w].op.media
    BY <2>2 DEF Operation
  <2> HIDE DEF Row
  <2>4. ops' = [ops EXCEPT ![o] = Row(o)]
    BY <2>1, <2>3 DEF Save, Upsert
  <2>5. "TransferPending" \notin Archived
    BY DEF Archived, Finishing, Finished
  <2> QED
    BY <2>1, <2>2, <2>3, <2>4, <2>5 DEF RowStep, SameCopy, Placed, RowsPlaced
<1>3. CASE Saves(w)
  <2>1. PICK op \in Operation, next \in Executing :
          /\ SameOperation(op, call[w].op)
          /\ op.state \in InFlight \cup Finishing
          /\ KeepsDestination(w, op)
          /\ Save(w, op, next)
    BY <1>3 DEF Saves
  <2>2. op.state # "Absent" /\ Upsert(op) /\ pc[w] \in Executing
    BY <1>3, <2>1 DEF InFlight, Finishing, Save, Saves
  <2> QED
    BY <2>1, <2>2, OwnRowKept
<1>4. CASE Ends(w)
  <2>1. PICK op \in Operation :
          /\ SameOperation(op, call[w].op)
          /\ op.state \notin Unsettled \cup {"Absent"}
          /\ KeepsDestination(w, op)
          /\ Finish(w, op)
    BY <1>4 DEF Ends
  <2> QED
    BY <1>4, <2>1, OwnRowKept DEF Ends, Finish
<1>5. CASE Supersede(w)
  <2> DEFINE own == call[w].op
             row == To(own, "Failed")
  <2>0. pc[w] = "supersede" /\ Upsert(row)
    BY <1>5 DEF Supersede, Save
  <2>1. own \in Operation /\ own.id \in OpId
    BY <2>0, RunningCall
  <2>2. /\ row.id = own.id /\ row.state = "Failed" /\ SameCopy(row, own)
    BY <2>1, ToFields, StateNames DEF SameCopy
  <2>3. ops[own.id].state # "Absent" /\ SameCopy(ops[own.id], own)
    BY <2>0 DEF Mirrored, CallsMirrored, Mirrors
  <2> HIDE DEF row
  <2>4. ops' = [ops EXCEPT ![own.id] = row]
    BY <2>0, <2>2 DEF Upsert
  <2>5. "Failed" \in Archived
    BY DEF Archived, Finished
  <2>6. RowKept(ops[own.id], row)
    BY <2>2, <2>3, <2>5 DEF RowKept, SameCopy
  <2> QED
    BY <2>1, <2>3, <2>4, <2>6 DEF RowStep, SameCopy, Placed, RowsPlaced
<1> QED
  BY <1>1, <1>2, <1>3, <1>4, <1>5 DEF CallStep, Enters, Goes, Drop

LEMMA UserRowStep == Placed /\ Owned /\ User => \A q \in OpId : RowStep(q)
<1> SUFFICES ASSUME Placed, Owned, User, NEW q \in OpId PROVE RowStep(q)
  OBVIOUS
<1>0. ops[q] \in Operation /\ ops \in [OpId -> Operation]
  BY DEF Placed, RowsPlaced
<1>1. CASE UNCHANGED ops
  BY <1>1 DEF RowStep, SameCopy
<1>s. ASSUME NEW s \in {"Ignored", "Failed"}, ops'[q] = To(ops[q], s), ops[q].state # "Absent"
      PROVE  RowStep(q)
  <2>1. s \in OperationState /\ s \in Archived /\ s # "Absent"
    BY StateNames DEF Archived, Finished
  <2> QED
    BY <1>0, <1>s, <2>1, ToFields DEF RowStep, RowKept, SameCopy
<1>2. ASSUME NEW o \in OpId, Dismiss(o) PROVE RowStep(q)
  <2>1. ops[o].state = "Quarantined" /\ ops[o].id = o /\ ops[o] \in Operation
    BY <1>2 DEF Dismiss, Placed, RowsPlaced, Owned, RowsNamed
  <2>2. "Ignored" \in OperationState
    BY StateNames
  <2>3. ops' = [ops EXCEPT ![o] = To(ops[o], "Ignored")]
    BY <1>2, <2>1, <2>2, ToFields DEF Dismiss, Upsert
  <2>4. CASE q = o
    <3>1. ops'[q] = To(ops[q], "Ignored") /\ ops[q].state # "Absent"
      BY <1>0, <2>1, <2>3, <2>4
    <3> QED
      BY <1>s, <3>1
  <2>5. CASE q # o
    BY <1>0, <2>3, <2>5 DEF RowStep, SameCopy
  <2> QED
    BY <2>4, <2>5
<1>3. ASSUME NEW e \in Event, SupersedeEvent(e) PROVE RowStep(q)
  <2>1. \/ ops'[q] = ops[q]
        \/ ops'[q] = To(ops[q], "Failed") /\ ops[q].state \in {"Completed", "Ignored"}
    BY <1>3 DEF SupersedeEvent
  <2> QED
    BY <1>s, <2>1 DEF RowStep, SameCopy
<1>4. ASSUME NEW e \in Event, DeleteEvent(e) PROVE RowStep(q)
  <2>1. ops'[q] = ops[q] \/ (ops'[q] = [ops[q] EXCEPT !.event = None] /\ ops[q].event = e)
    BY <1>4 DEF DeleteEvent
  <2> QED
    BY <1>0, <2>1 DEF RowStep, RowKept, SameCopy, Operation
<1> QED
  BY <1>1, <1>2, <1>3, <1>4 DEF User, Retry, RouteAgain, Cancel, Drop
\* Startup recovery writes rows back as it listed them, in another state.
LEMMA RecoverRowStep ==
  Placed /\ Owned /\ Mirrored /\ Recover => \A q \in OpId : RowStep(q)
<1> SUFFICES ASSUME Placed, Owned, Mirrored, Recover, NEW q \in OpId PROVE RowStep(q)
  OBVIOUS
<1>q. ~up
  <2>1. rpc # "idle"
    BY DEF Recover, RecoverList, RecoverDelete, RecoverComplete, RecoverFails, RecoverEnd,
       RecoverUncommitted, RecoverCommitted
  <2> QED
    BY <2>1 DEF Mirrored, RecoveryCurrent
<1>0. \A r \in todo : /\ r \in Operation /\ Identified(r) /\ ops[r.id] = r
                      /\ r.state \in InFlight \cup Finishing \cup {"RetryPending"}
  BY <1>q DEF Placed, RecoveryPlaced, Mirrored, RecoveryCurrent
<1>i. rpc \in {"delete", "complete"} =>
        /\ item \in Operation /\ Identified(item) /\ ops[item.id] = item
        /\ item.state = "SourceFinalizePending"
  BY <1>q DEF Placed, RecoveryPlaced, Mirrored, RecoveryCurrent
<1>1. CASE UNCHANGED ops
  BY <1>1 DEF RowStep, SameCopy
<1>w. ASSUME NEW r \in Operation, Identified(r), ops[r.id] = r, r.state # "Absent",
             NEW s \in {"RetryPending", "Quarantined", "Completed", "SourceFinalizePending"},
             r.state \in Archived => s # "RetryPending",
             Upsert(To(r, s))
      PROVE  RowStep(q)
  <2>1. s \in OperationState /\ s # "Absent" /\ (r.state \in Archived => s \in Archived)
    BY <1>w, StateNames DEF Archived, Finishing, Finished
  <2>2. ops' = [ops EXCEPT ![r.id] = To(r, s)] /\ r.id \in OpId
    BY <1>w, <2>1, ToFields DEF Upsert, Identified
  <2>3. RowKept(r, To(r, s))
    BY <2>1, ToFields DEF RowKept, SameCopy
  <2> QED
    BY <1>w, <2>2, <2>3 DEF RowStep, SameCopy, Placed, RowsPlaced
<1>2. ASSUME NEW s \in {"Completed", "SourceFinalizePending"}, rpc \in {"delete", "complete"},
             Upsert(To(item, s))
      PROVE  RowStep(q)
  BY <1>2, <1>i, <1>w
<1>3. ASSUME NEW r \in todo, HasCommittedDestination(r),
             NEW s \in {"Quarantined", "Completed", "SourceFinalizePending"}, Upsert(To(r, s))
      PROVE  RowStep(q)
  <2>1. r.state # "Absent"
    BY <1>0 DEF InFlight, Finishing
  <2> QED
    BY <1>0, <1>3, <1>w, <2>1
<1>4. ASSUME NEW r \in todo, RecoverUncommitted(r) PROVE RowStep(q)
  <2>1. r.state # "Absent" /\ r.state \notin Archived /\ Upsert(To(r, "RetryPending"))
    BY <1>0, <1>4 DEF RecoverUncommitted, Resolved, HasCommittedDestination, InFlight, Finishing,
       Finished, Archived
  <2> QED
    BY <1>0, <1>w, <2>1
<1>5. ASSUME NEW r \in todo, RecoverCommitted(r) PROVE RowStep(q)
  BY <1>3, <1>5 DEF RecoverCommitted, Resolved
<1>6. CASE RecoverComplete
  BY <1>2, <1>6 DEF RecoverComplete, Resolved
<1>7. CASE RecoverFails
  BY <1>2, <1>3, <1>7 DEF RecoverFails, Resolved
<1> QED
  BY <1>1, <1>4, <1>5, <1>6, <1>7 DEF Recover, RecoverList, RecoverDelete, RecoverEnd

LEMMA NextRowStep ==
  Placed /\ Owned /\ Mirrored /\ [Unattended]_vars =>
    \A q \in OpId : RowStep(q)
<1> SUFFICES ASSUME Placed, Owned, Mirrored, [Unattended]_vars
             PROVE  \A q \in OpId : RowStep(q)
  OBVIOUS
<1>1. CASE UNCHANGED ops
  BY <1>1 DEF RowStep, SameCopy
<1>2. ASSUME NEW w \in Worker, Execute(w) PROVE \A q \in OpId : RowStep(q)
  BY <1>2, ExecuteShape, ExecuteRowStep
<1> QED
  BY <1>1, <1>2, UserRowStep, RecoverRowStep DEF Unattended, Begin, Crash, vars

\* The media of every row and of every call came with a file.
RowsOriginal  == \A o \in OpId : ops[o].state # "Absent" => origin[ops[o].media] # None
CallsOriginal == \A w \in Worker : pc[w] # "idle" => origin[call[w].op.media] # None

\* The media of a call is the one it had, that of a row it reads, or one whose
\* source it has seen.
CallMediaStep(v) ==
  pc'[v] # "idle" =>
    \/ pc[v] # "idle" /\ call'[v].op.media = call[v].op.media
    \/ \E o \in OpId : ops[o].state # "Absent" /\ call'[v].op.media = ops[o].media
    \/ disk[Source(call'[v].op)] # None

LEMMA CallStepMedia ==
  Placed => \A w \in Worker : CallStep(w) => \A v \in Worker : CallMediaStep(v)
<1> SUFFICES ASSUME Placed, NEW w \in Worker, CallStep(w), NEW v \in Worker, pc'[v] # "idle"
             PROVE  \/ pc[v] # "idle" /\ call'[v].op.media = call[v].op.media
                    \/ disk[Source(call'[v].op)] # None
  BY DEF CallMediaStep
<1>0. \A next, c : Continue(w, next, c) =>
        /\ v = w => pc'[v] = next /\ call'[v] = c
        /\ v # w => pc'[v] = pc[v] /\ call'[v] = call[v]
  BY DEF Continue, Placed, CallsPlaced
<1>s. ASSUME NEW op \in Operation, NEW next, op.media = call[w].op.media, pc[w] # "idle",
             Continue(w, next, [call[w] EXCEPT !.op = op])
      PROVE  pc[v] # "idle" /\ call'[v].op.media = call[v].op.media
  <2>1. [call[w] EXCEPT !.op = op].op = op
    BY CallAt DEF Placed, Call
  <2> QED
    BY <1>0, <1>s, <2>1
<1>f. ASSUME Return(w) PROVE pc[v] # "idle" /\ call'[v].op.media = call[v].op.media
  BY <1>0, <1>f DEF Return
<1>1. CASE Enters(w)
  BY <1>0, <1>1 DEF Enters
<1>2. CASE Inserts(w)
  <2>1. PICK o \in OpId : Save(w, [call[w].op EXCEPT !.id = o], "hash")
    BY <1>2 DEF Inserts
  <2>2. call[w].op \in Operation
    BY CallAt DEF Placed
  <2>3. /\ [call[w].op EXCEPT !.id = o] \in Operation
        /\ [call[w].op EXCEPT !.id = o].media = call[w].op.media
    BY <2>2 DEF Operation
  <2> QED
    BY <1>2, <1>s, <2>1, <2>3 DEF Inserts, Save
<1>3. CASE Goes(w)
  BY <1>0, <1>3, ExecutingNames DEF Goes
<1>4. CASE Saves(w)
  BY <1>4, <1>s, ExecutingNames DEF Saves, Save, SameOperation
<1>5. CASE Ends(w)
  BY <1>5, <1>f DEF Ends, Finish
<1>6. CASE Drop(w)
  BY <1>6, <1>f DEF Drop
<1>7. CASE Supersede(w)
  <2>1. call[w].op \in Operation /\ "Failed" \in OperationState
    BY CallAt, StateNames DEF Placed
  <2>2. To(call[w].op, "Failed") \in Operation
        /\ To(call[w].op, "Failed").media = call[w].op.media
    BY <2>1, ToFields
  <2> QED
    BY <1>7, <1>s, <2>2 DEF Supersede, Save
<1> QED
  BY <1>1, <1>2, <1>3, <1>4, <1>5, <1>6, <1>7 DEF CallStep
LEMMA NextMedia ==
  Placed /\ [Unattended]_vars => \A v \in Worker : CallMediaStep(v)
<1> SUFFICES ASSUME Placed, [Unattended]_vars, NEW v \in Worker PROVE CallMediaStep(v)
  OBVIOUS
<1>1. ASSUME NEW w \in Worker, NEW m \in Media, NEW e \in Event, Begin(w, m, e)
      PROVE  CallMediaStep(v)
  <2>1. Enters(w)
    BY <1>1, AdmitShape, ExecutingNames DEF Begin
  <2> QED
    BY <2>1, CallStepMedia DEF CallStep
<1>2. ASSUME NEW w \in Worker, Execute(w) PROVE CallMediaStep(v)
  BY <1>2, ExecuteShape, CallStepMedia
<1>3. CASE UNCHANGED calls
  BY <1>3 DEF calls, CallMediaStep
<1>4. ASSUME NEW w \in Worker, NEW o \in OpId, ops[o].state # "Absent",
             Continue(w, "supersede", [NoCall EXCEPT !.via = "direct", !.op = ops[o]])
      PROVE  CallMediaStep(v)
  <2>1. [NoCall EXCEPT !.via = "direct", !.op = ops[o]].op = ops[o]
    BY DEF NoCall
  <2> QED
    BY <1>4, <2>1 DEF Continue, CallMediaStep, Placed, CallsPlaced
<1>5. ASSUME User PROVE CallMediaStep(v)
  <2>1. ASSUME NEW w \in Worker, NEW o \in OpId, Retry(w, o) \/ RouteAgain(w, o)
        PROVE  CallMediaStep(v)
    BY <1>4, <2>1 DEF Retry, RouteAgain, Waiting
  <2>2. ASSUME NEW w \in Worker, Cancel(w) PROVE CallMediaStep(v)
    BY <2>2, CallStepMedia DEF Cancel, CallStep
  <2> QED
    BY <1>3, <1>5, <2>1, <2>2 DEF User, Dismiss, SupersedeEvent, DeleteEvent
<1>6. CASE Recover
  BY <1>3, <1>6 DEF Recover, RecoverList, RecoverDelete, RecoverComplete, RecoverFails, RecoverEnd,
     RecoverUncommitted, RecoverCommitted, Resolved
<1>7. CASE Crash
  BY <1>7 DEF Crash, CallMediaStep
<1> QED
  BY <1>1, <1>2, <1>3, <1>5, <1>6, <1>7 DEF Unattended, vars

\* Row q of media m is archived and the file it names holds the bytes on record.
StoresCopy(q, m) ==
  /\ ops[q].media = m
  /\ ops[q].state \in Archived
  /\ ops[q].dest \in Destination
  /\ ops[q].dstHash # None
  /\ disk[ops[q].dest] = ops[q].dstHash

\* The copy of m was forgotten but is there.
ForgottenStored(m) == m \in forgotten /\ \E p \in Destination : disk[p] = origin[m]

\* A source that is gone is stored, and a row says where, or said so once.
ReleasedStored ==
  \A m \in Media : disk[SourcePath[m]] = None /\ origin[m] # None =>
    (\E q \in OpId : StoresCopy(q, m)) \/ ForgottenStored(m)

Traceable == RowsOriginal /\ CallsOriginal /\ ReleasedStored

LEMMA NextTraceable ==
  ASSUME DisjointShares
  PROVE  Known /\ Traceable /\ [Unattended]_vars => Traceable'
<1> SUFFICES ASSUME Known, Traceable, [Unattended]_vars PROVE Traceable'
  OBVIOUS
<1>0. \A q \in OpId : RowStep(q)
  BY NextRowStep DEF Known
<1>k. Keeps /\ Placed' /\ forgotten \subseteq forgotten'
  <2>1. [Unattended]_vars => [SyncNext]_vars /\ [Next]_vars
    BY DEF SyncNext, Next
  <2> QED
    BY <2>1, NextKeeps, NextPlaced, NextRemembers DEF Known, Remembers
<1>1. RowsOriginal'
  BY <1>0, <1>k, ExecutingNames DEF Keeps, Traceable, RowsOriginal, CallsOriginal, RowStep, RowKept,
     RowForgotten, SameCopy
<1>2. CallsOriginal'
  <2> SUFFICES ASSUME NEW v \in Worker, pc'[v] # "idle" PROVE origin[call'[v].op.media] # None
    BY <1>k DEF CallsOriginal, Keeps
  <2>1. call'[v].op.media \in Media
    BY <1>k DEF Placed, CallsPlaced, CallPlaced, Located
  <2>2. CallMediaStep(v)
    BY NextMedia DEF Known
  <2>3. disk[Source(call'[v].op)] # None => origin[call'[v].op.media] # None
    BY <2>1, Disjoint DEF Known, Calm, Claimed, SourcesKept, Source
  <2> QED
    BY <2>2, <2>3 DEF CallMediaStep, Traceable, RowsOriginal, CallsOriginal
<1>s. Lasting = Destination /\ UNCHANGED origin
  BY <1>k, Disjoint DEF Keeps
<1>3. ASSUME NEW m \in Media, NEW q \in OpId, StoresCopy(q, m), disk'[SourcePath[m]] = None
      PROVE  StoresCopy(q, m)' \/ ForgottenStored(m)'
  <2>1. CASE RowForgotten(q)
    <3>1. PICK w \in Worker : /\ pc[w] \in Committing
                              /\ SameCopy(ops[q], call[w].op)
                              /\ Forgets(w, ops'[q])
      BY <2>1 DEF RowForgotten
    <3>2. /\ call[w].op.media = m /\ disk[call[w].op.dest] = call[w].op.dstHash
          /\ call[w].op.dest \in Destination
      BY <1>3, <3>1 DEF StoresCopy, SameCopy
    <3>3. call[w].op.dstHash = origin[m]
      <4>1. Genuine(disk, exposed, m, call[w].op.dstHash)
        BY <3>1, <3>2 DEF Known, Calm, Claimed, CallsClaimed, CallClaimed, ClaimOn, Committing
      <4> QED
        BY <4>1, Disjoint
    <3>4. m \in forgotten' /\ UNCHANGED disk
      BY <1>3, <3>1, <3>2 DEF Forgets, Source
    <3> QED
      BY <1>s, <3>2, <3>3, <3>4 DEF ForgottenStored
  <2>2. CASE ~RowForgotten(q)
    <3>1. ops'[q].state \in Archived /\ SameCopy(ops'[q], ops[q])
      BY <1>0, <1>3, <2>2 DEF StoresCopy, RowStep, RowKept, Archived, Finishing, Finished
    <3> QED
      BY <1>3, <1>k, <1>s, <3>1 DEF StoresCopy, SameCopy, Keeps
  <2> QED
    BY <2>1, <2>2
<1>4. ASSUME NEW m \in Media, disk'[SourcePath[m]] = None, origin[m] # None
      PROVE  (\E q \in OpId : StoresCopy(q, m)) \/ ForgottenStored(m)
  <2>1. CASE disk[SourcePath[m]] = None
    BY <1>4, <2>1 DEF Traceable, ReleasedStored
  <2>2. CASE disk[SourcePath[m]] # None
    <3>1. PICK q \in OpId : ops[q].media = m /\ ops[q].state = "SourceFinalizePending"
      BY <1>4, <2>2, ReleaseNamed
    <3>2. Located(ops[q]) /\ HasCommittedDestination(ops[q]) /\ ClaimOn(disk, syncs, exposed, ops[q])
      BY <3>1 DEF Known, Claimed, RowsClaimed, Placed, RowsPlaced, Identified,
         HasCommittedDestination, Finishing
    <3> QED
      BY <1>s, <3>1, <3>2 DEF StoresCopy, ClaimOn, Located, Archived, Finishing
  <2> QED
    BY <2>1, <2>2
<1>5. ASSUME NEW m \in Media, ForgottenStored(m), origin[m] # None PROVE ForgottenStored(m)'
  BY <1>5, <1>k, <1>s DEF ForgottenStored, Keeps
<1>6. ReleasedStored'
  <2> SUFFICES ASSUME NEW m \in Media, disk'[SourcePath[m]] = None, origin[m] # None
               PROVE  (\E q \in OpId : StoresCopy(q, m)') \/ ForgottenStored(m)'
    BY <1>s DEF ReleasedStored
  <2> QED
    BY <1>3, <1>4, <1>5
<1> QED
  BY <1>1, <1>2, <1>6 DEF Traceable

LEMMA InitTraceable == ASSUME DisjointShares PROVE Init => Traceable
<1> SUFFICES ASSUME Init PROVE Traceable
  OBVIOUS
<1>1. RowsOriginal /\ CallsOriginal
  BY DEF Init, RowsOriginal, CallsOriginal, NoOperation
<1>2. ASSUME NEW m \in Media, origin[m] # None PROVE disk[SourcePath[m]] # None
  <2>1. m \in Present
    BY <1>2 DEF Init
  <2>2. (CHOOSE x \in Present : SourcePath[x] = SourcePath[m]) = m
    BY <2>1
  <2> QED
    BY <1>2, <2>1, <2>2 DEF Init
<1> QED
  BY <1>1, <1>2 DEF Traceable, ReleasedStored

\* A row that says its operation has not committed still has its source, or
\* another row of the same media names a file with the bytes it records, or the
\* copy was adopted and forgotten and a destination holds it, if no folder is both
\* a source and a destination.
THEOREM UncommittedHasSource ==
  ASSUME DisjointShares
  PROVE  UnattendedSpec => []UncommittedKeepsSource
<1>1. Known /\ Traceable => UncommittedKeepsSource
  <2> SUFFICES ASSUME Known, Traceable, NEW o \in OpId,
                      ops[o].state \in InFlight \cup {"RetryPending"},
                      disk[Source(ops[o])] = None
               PROVE  \/ \E q \in OpId \ {o} : /\ ops[q].media = ops[o].media
                                               /\ ops[q].dstHash # None
                                               /\ disk[ops[q].dest] = ops[q].dstHash
                      \/ ForgottenStored(ops[o].media)
    BY DEF UncommittedKeepsSource, ForgottenStored
  <2>1. ops[o].state # "Absent" /\ ops[o].state \notin Archived
    BY DEF InFlight, Archived, Finishing, Finished
  <2>2. ops[o].media \in Media /\ origin[ops[o].media] # None
    BY <2>1 DEF Known, Placed, RowsPlaced, Identified, Located, Traceable, RowsOriginal
  <2>3. (\E q \in OpId : StoresCopy(q, ops[o].media)) \/ ForgottenStored(ops[o].media)
    BY <2>2 DEF Traceable, ReleasedStored, Source
  <2> QED
    BY <2>1, <2>3 DEF StoresCopy
<1>2. Init => Traceable
  BY InitTraceable
<1>3. Known /\ Traceable /\ [Unattended]_vars => Traceable'
  BY NextTraceable
<1> QED
  BY <1>1, <1>2, <1>3, KnownHolds, PTL DEF UnattendedSpec
=============================================================================
