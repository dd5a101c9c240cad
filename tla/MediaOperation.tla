--------------------------- MODULE MediaOperation ---------------------------
(***************************************************************************)
(* The persisted operation record, the states it moves through and the     *)
(* queries the operation repository answers.  A record is what the table   *)
(* `operations` holds and what the services pass around as an immutable    *)
(* snapshot; retry counts, error texts and timestamps are left out, because *)
(* no decision in the code reads them.  A SHA-256 is the content itself    *)
(* (no collisions), and None stands for a null column or a missing file.   *)
(***************************************************************************)
CONSTANTS Media,    \* indexed media files
          Event,    \* event rows
          Path,     \* absolute paths of all shares, one flat namespace
          Content,  \* file contents; the hash of a file is its content
          OpId,     \* operation identifiers (Guid.NewGuid)
          None      \* null / no such file

ASSUME NoneAssumption ==
  /\ None \notin Path
  /\ None \notin Content
  /\ None \notin Event
  /\ None \notin Media
  /\ None \notin OpId

InFlight  == {"TransferPending", "Copying", "Verifying"}
Finishing == {"DestinationCommitted", "SourceFinalizePending"}
Finished  == {"Completed", "Ignored", "Failed"}
Waiting   == {"RetryPending", "Quarantined"}

\* "Absent" is the row that does not exist yet.
OperationState == {"Absent"} \cup InFlight \cup Finishing \cup Finished \cup Waiting

Operation == [id      : OpId \cup {None},
              media   : Media \cup {None},
              event   : Event \cup {None},
              state   : OperationState,
              dest    : Path \cup {None},
              srcHash : Content \cup {None},
              dstHash : Content \cup {None}]

NoOperation == [id |-> None, media |-> None, event |-> None, state |-> "Absent",
                dest |-> None, srcHash |-> None, dstHash |-> None]

\* Transition(source, state): a fresh snapshot in another state, all else kept.
To(op, state) == [op EXCEPT !.state = state]

HasCommittedDestination(op) == op.state \in Finishing \cup {"Completed"}

\* GetIncompleteByMediaFileAsync: Quarantined blocks a media file as much as
\* an operation that is still running.
Incomplete(ops, m) ==
  {o \in OpId : ops[o].media = m /\ ops[o].state \notin Finished \cup {"Absent"}}

\* Faulty variant: rows before the commit are left out.
ListCommitted(ops) == {ops[o] : o \in {i \in OpId : ops[i].state \in Finishing}}

\* ListIncompleteAsync: what recovery looks at, as full rows.
ListIncomplete(ops) ==
  {ops[o] : o \in {i \in OpId :
     ops[i].state \notin Finished \cup {"Absent", "Quarantined"}}}

\* FindByDestinationHashAsync: rows of other media whose state is taken to
\* prove that the bytes reached a destination.
FindByDestinationHash(ops, hash, excluded) ==
  {o \in OpId : /\ ops[o].dstHash = hash
                /\ ops[o].media # excluded
                /\ ops[o].state \in Finishing \cup Finished}
=============================================================================
