-------------------------- MODULE RoutedRename --------------------------
(***************************************************************************)
(* Renaming what an event has stored: RenameAsync walks the rows listed    *)
(* at its start, gives each file the name the rules of today render if     *)
(* that name is free and the bytes are those on record, moves it and then  *)
(* writes the row.  Nothing keeps two calls apart, nor a call and the      *)
(* transfers of a cycle that begins after the endpoint looked; a call ends *)
(* with its client, and with the process.                                  *)
(***************************************************************************)
EXTENDS Integers, SequencesExt

CONSTANTS Call,        \* concurrent requests
          Op,          \* operations of the event
          Path,        \* files of the destination share
          Content,     \* bytes
          ContentOf,   \* [Op -> Content]
          Candidates,  \* [Op -> Seq(Path)], the names a numbered template renders
          Stored,      \* operations completed at the start, under StoredAt
          StoredAt,    \* [Stored -> Path]
          Free,        \* no file at a path
          MaxActs      \* bound on transfers, damage, cancellations, supersessions

Junk == "junk"   \* what a damaged or replaced file holds

ASSUME OpAssumption == Op # {} /\ Stored \subseteq Op /\ ContentOf \in [Op -> Content]
ASSUME CandidatesAssumption == Candidates \in [Op -> Seq(Path)] /\ \A o \in Op : Candidates[o] # <<>>
ASSUME StoredAtAssumption ==
  /\ StoredAt \in [Stored -> Path]
  /\ \A o1, o2 \in Stored : o1 # o2 => StoredAt[o1] # StoredAt[o2]
ASSUME MaxActsAssumption == MaxActs \in Nat
ASSUME FreeAssumption == Free \notin Content \cup {Junk}

VARIABLES
  disk,      \* [Path -> Content, Junk or Free]
  row,       \* the operations table
  call,      \* [Call -> locals of RenameAsync]
  acts,
  stranded,  \* history: rows whose file was moved without them
  disputed,  \* history: rows whose file two calls had in hand at once
  damaged,   \* history: contents that were damaged on disk
  meddled    \* history: calls whose file something else changed after its hash

vars == <<disk, row, call, acts, stranded, disputed, damaged, meddled>>

Row == [state : {"none", "completed", "superseded"}, dest : Path]
Step == {"idle", "pick", "hash", "move", "upsert"}
Locals == [at : Step, list : [Op -> Row], todo : SUBSET Op, op : Op, target : Path,
           planned : SUBSET Path, dry : BOOLEAN, read : Content \cup {Junk, Free}]
Unlisted == [o \in Op |-> [state |-> "none", dest |-> Head(Candidates[o])]]
Idle == [at |-> "idle", list |-> Unlisted, todo |-> {}, op |-> CHOOSE o \in Op : TRUE,
         target |-> CHOOSE p \in Path : TRUE, planned |-> {}, dry |-> FALSE, read |-> Free]

TypeOK ==
  /\ disk \in [Path -> Content \cup {Junk, Free}]
  /\ row \in [Op -> Row]
  /\ call \in [Call -> Locals]
  /\ \A c \in Call : call[c].at \in {"move", "upsert"}
                       => call[c].target \in call[c].planned /\ ~call[c].dry
  /\ acts \in 0..MaxActs
  /\ stranded \subseteq Op /\ disputed \subseteq Op /\ damaged \subseteq Content
  /\ meddled \subseteq Call

Init ==
  /\ row = [o \in Op |-> IF o \in Stored THEN [state |-> "completed", dest |-> StoredAt[o]]
                         ELSE Unlisted[o]]
  /\ disk = [p \in Path |-> IF \E o \in Stored : StoredAt[o] = p
                            THEN ContentOf[CHOOSE o \in Stored : StoredAt[o] = p] ELSE Free]
  /\ call = [c \in Call |-> Idle]
  /\ acts = 0
  /\ stranded = {} /\ disputed = {} /\ damaged = {} /\ meddled = {}

-----------------------------------------------------------------------------
(* RenameAsync.                                                            *)

Current(c) == call[c].list[call[c].op].dest

\* ListCompletedByEventAsync: the rows as they are now, for the whole call.
Begin(c) ==
  /\ call[c].at = "idle" /\ acts < MaxActs
  /\ \E dry \in BOOLEAN :
       call' = [call EXCEPT ![c] = [Idle EXCEPT !.at = "pick", !.list = row, !.dry = dry,
                  !.todo = {o \in Op : row[o].state = "completed"}]]
  /\ acts' = acts + 1
  /\ UNCHANGED <<disk, row, stranded, disputed, damaged, meddled>>

\* The operations for which a call but c has the file p in hand.
InHand(c, p) ==
  {call[other].op : other \in {d \in Call \ {c} :
             /\ call[d].at \in {"hash", "move", "upsert"}
             /\ p = IF call[d].at = "upsert" THEN call[d].target ELSE Current(d)}}

\* The names nobody has.
FreeNames == {q \in Path : disk[q] = Free}

\* p is the first usable one of a numbered template's names; the last stands for
\* the name given when none is.
FirstOf(o, p, usable) ==
  \/ \E i \in DOMAIN Candidates[o] :
       /\ p = Candidates[o][i] /\ p \in usable
       /\ \A j \in 1..(i - 1) : Candidates[o][j] \notin usable
  \/ /\ p = Last(Candidates[o])
     /\ ToSet(Candidates[o]) \cap usable = {}

\* Faulty variant: the file's own name counts as taken.
RendersAnew(o, own, p) == FirstOf(o, p, FreeNames)

\* Resolve: a name is usable when it is free or the file's own.
Renders(o, own, p) == FirstOf(o, p, FreeNames \cup {own})

\* The next row: its file is gone, has its name, or cannot have it, or its bytes
\* are to be read.
Examine(c, o) ==
  /\ call[c].at = "pick" /\ o \in call[c].todo
  /\ LET own == call[c].list[o].dest
     IN \E target \in {p \in Path : Renders(o, own, p)} :
        \/ /\ disk[own] = Free \/ target = own \/ disk[target] # Free
           /\ call' = [call EXCEPT ![c].todo = @ \ {o}]
           /\ UNCHANGED disputed
        \/ /\ disk[own] # Free /\ target # own /\ disk[target] = Free
           /\ call' = [call EXCEPT ![c].todo = @ \ {o}, ![c].at = "hash", ![c].op = o,
                         ![c].target = target]
           /\ disputed' = IF InHand(c, own) = {} THEN disputed
                          ELSE disputed \cup InHand(c, own) \cup {o}
  /\ UNCHANGED <<disk, row, acts, stranded, damaged, meddled>>

\* Faulty variant: the bytes are not compared with the record.
HashUncompared(c) ==
  /\ call[c].at = "hash"
  /\ \/ /\ disk[Current(c)] # Free /\ call[c].target \notin call[c].planned
        /\ call' = [call EXCEPT ![c].planned = @ \cup {call[c].target},
                      ![c].at = IF call[c].dry THEN "pick" ELSE "move"]
        /\ meddled' = meddled \ {c}
     \/ /\ ~(disk[Current(c)] # Free /\ call[c].target \notin call[c].planned)
        /\ call' = [call EXCEPT ![c].at = "pick"]
        /\ UNCHANGED meddled
  /\ UNCHANGED <<disk, row, acts, stranded, disputed, damaged>>

\* The bytes decide: unreadable, different from the record, or a name this call
\* has given away already, and the file keeps its name.
Hash(c) ==
  /\ call[c].at = "hash"
  /\ LET earned == disk[Current(c)] = ContentOf[call[c].op] /\ call[c].target \notin call[c].planned
     IN \/ /\ earned
           /\ call' = [call EXCEPT ![c].planned = @ \cup {call[c].target},
                         ![c].at = IF call[c].dry THEN "pick" ELSE "move"]
           /\ meddled' = meddled \ {c}
        \/ /\ ~earned
           /\ call' = [call EXCEPT ![c].at = "pick"]
           /\ UNCHANGED meddled
  /\ UNCHANGED <<disk, row, acts, stranded, disputed, damaged>>

\* Rows that lose their file when p is moved for o: those that name it, and
\* those whose call has put it there and not yet written so.
Sharing(o, p) ==
  {other \in Op \ {o} : row[other].state # "none" /\ row[other].dest = p
                          /\ disk[p] = ContentOf[other]}
  \cup {call[d].op : d \in {d \in Call : call[d].at = "upsert" /\ call[d].target = p}}

\* The calls that have compared the bytes of p and are about to move it.
Relying(p) == {c \in Call : call[c].at = "move" /\ Current(c) = p}

\* Faulty variant: the move replaces what is there.
MoveOverwriting(c) ==
  /\ call[c].at = "move"
  /\ LET from == Current(c)
         to == call[c].target
     IN \/ /\ disk[from] = Free
           /\ call' = [call EXCEPT ![c].at = "pick"]
           /\ UNCHANGED <<disk, stranded, meddled>>
        \/ /\ disk[from] # Free
           /\ disk' = [disk EXCEPT ![to] = disk[from], ![from] = Free]
           /\ stranded' = stranded \cup Sharing(call[c].op, from)
           /\ meddled' = meddled \cup (Relying(from) \ {c})
           /\ call' = [call EXCEPT ![c].at = "upsert", ![c].read = disk[from]]
  /\ UNCHANGED <<row, acts, disputed, damaged>>

\* MoveFile throws when the file is gone or the name was taken since.
Move(c) ==
  /\ call[c].at = "move"
  /\ LET from == Current(c)
         to == call[c].target
     IN \/ /\ disk[from] = Free \/ disk[to] # Free
           /\ call' = [call EXCEPT ![c].at = "pick"]
           /\ UNCHANGED <<disk, stranded, meddled>>
        \/ /\ disk[from] # Free /\ disk[to] = Free
           /\ disk' = [disk EXCEPT ![to] = disk[from], ![from] = Free]
           /\ stranded' = stranded \cup Sharing(call[c].op, from)
           /\ meddled' = meddled \cup (Relying(from) \ {c})
           /\ call' = [call EXCEPT ![c].at = "upsert", ![c].read = disk[from]]
  /\ UNCHANGED <<row, acts, disputed, damaged>>

\* Faulty variant: the row keeps its path.
UpsertOldPath(c) ==
  /\ call[c].at = "upsert"
  /\ row' = [row EXCEPT ![call[c].op] = call[c].list[call[c].op]]
  /\ call' = [call EXCEPT ![c].at = "pick"]
  /\ UNCHANGED <<disk, acts, stranded, disputed, damaged, meddled>>

\* The file is there: the row, as it was listed, with its new path.
Upsert(c) ==
  /\ call[c].at = "upsert"
  /\ call' = [call EXCEPT ![c].at = "pick"]
  /\ \/ /\ disk[call[c].target] # Free
        /\ row' = [row EXCEPT ![call[c].op] =
             [call[c].list[call[c].op] EXCEPT !.dest = call[c].target]]
        /\ UNCHANGED stranded
     \/ /\ disk[call[c].target] = Free
        /\ stranded' = stranded \cup {call[c].op}
        /\ UNCHANGED row
  /\ UNCHANGED <<disk, acts, disputed, damaged, meddled>>

Finish(c) ==
  /\ call[c].at = "pick" /\ call[c].todo = {}
  /\ call' = [call EXCEPT ![c] = Idle]
  /\ UNCHANGED <<disk, row, acts, stranded, disputed, damaged, meddled>>

\* The client goes, or the process ends: after the move nothing writes the row.
Cancel(c) ==
  /\ call[c].at # "idle" /\ acts < MaxActs
  /\ call' = [call EXCEPT ![c] = Idle]
  /\ stranded' = IF call[c].at = "upsert" THEN stranded \cup {call[c].op} ELSE stranded
  /\ acts' = acts + 1
  /\ UNCHANGED <<disk, row, disputed, damaged, meddled>>

-----------------------------------------------------------------------------
(* What else writes the share and the table meanwhile.                     *)

\* A transfer commits under the first free name ...
Store(o) ==
  /\ row[o].state = "none" /\ acts < MaxActs
  /\ \E p \in ToSet(Candidates[o]) :
       /\ disk[p] = Free
       /\ disk' = [disk EXCEPT ![p] = ContentOf[o]]
       /\ row' = [row EXCEPT ![o] = [state |-> "completed", dest |-> p]]
  /\ acts' = acts + 1
  /\ UNCHANGED <<call, stranded, disputed, damaged, meddled>>

\* ... or finds its bytes stored and takes that copy for its own.
Adopt(o) ==
  /\ row[o].state = "none" /\ acts < MaxActs
  /\ \E p \in Path :
       /\ disk[p] = ContentOf[o]
       /\ row' = [row EXCEPT ![o] = [state |-> "completed", dest |-> p]]
  /\ acts' = acts + 1
  /\ UNCHANGED <<disk, call, stranded, disputed, damaged, meddled>>

\* Route again: the row is superseded, the file stays.
Supersede(o) ==
  /\ row[o].state = "completed" /\ acts < MaxActs
  /\ row' = [row EXCEPT ![o].state = "superseded"]
  /\ acts' = acts + 1
  /\ UNCHANGED <<disk, call, stranded, disputed, damaged, meddled>>

\* A stored file is damaged or replaced.
Damage(p) ==
  /\ disk[p] \in Content /\ acts < MaxActs
  /\ disk' = [disk EXCEPT ![p] = Junk]
  /\ damaged' = damaged \cup {disk[p]}
  /\ meddled' = meddled \cup Relying(p)
  /\ acts' = acts + 1
  /\ UNCHANGED <<row, call, stranded, disputed>>

RenameAsync(c) ==
  \/ Hash(c) \/ Move(c) \/ Upsert(c) \/ Finish(c) \/ \E o \in Op : Examine(c, o)

Next ==
  \/ \E c \in Call : Begin(c) \/ RenameAsync(c) \/ Cancel(c)
  \/ \E o \in Op : Store(o) \/ Adopt(o) \/ Supersede(o)
  \/ \E p \in Path : Damage(p)

Spec == Init /\ [][Next]_vars

-----------------------------------------------------------------------------
(* Properties.                                                             *)

\* "Nothing is overwritten": the bytes of every row stay on the share, whatever
\* takes a name between the look at it and the move.
BytesKept ==
  \A o \in Op : row[o].state # "none" /\ ContentOf[o] \notin damaged
                  => \E p \in Path : disk[p] = ContentOf[o]

\* "the operation history follows each file to its new name": a row names its
\* bytes, but between a move and the write that follows it, and for rows that a
\* client's going, a shared copy or a second call left behind.
RowsFollow ==
  \A o \in Op : row[o].state # "none" /\ ContentOf[o] \notin damaged /\ o \notin stranded \cup disputed
     => \/ disk[row[o].dest] = ContentOf[o]
        \/ \E c \in Call : call[c].at = "upsert" /\ call[c].op = o

\* A renamed file has earned the record it carries over, however calls, transfers
\* and damage overlap: what was moved is the bytes on record.  Whatever happened to
\* the file before its bytes were compared, the comparison catches; what is left is
\* the window after it, in which the file may be damaged, or moved away by another
\* call and its name taken by a transfer.
NameEarned ==
  \A c \in Call : call[c].at = "upsert" =>
     call[c].read = ContentOf[call[c].op] \/ c \in meddled

\* Among the names a template renders for o, p comes before q.
Earlier(o, p, q) ==
  \E i \in DOMAIN Candidates[o] :
    /\ Candidates[o][i] = p
    /\ \A j \in 1..i : Candidates[o][j] # q

\* A numbered name settles: the name a call writes into a row comes before the
\* one it listed, so that repeated calls end, however they overlap with each
\* other and with transfers.
NamesSettle ==
  [][\A c \in Call : call[c].at = "upsert" /\ call'[c].at = "pick" /\ row' # row
       => Earlier(call[c].op, row'[call[c].op].dest, Current(c))]_vars
=============================================================================
