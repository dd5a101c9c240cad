----------------------- MODULE RoutedRenameProofs -----------------------
(***************************************************************************)
(* For any number of calls, operations, files and names: the variables of  *)
(* RoutedRename keep their types, and no bytes of a row are lost, whatever *)
(* overlaps.  The second needs that a call only writes rows that exist:    *)
(* what it listed as completed never falls back to "none".  Then: what a   *)
(* call carries over to a new name is the bytes on record, a row names its *)
(* file, and names only step forward.                                      *)
(***************************************************************************)
EXTENDS RoutedRename, TLAPS

\* What a call holds of the table is of rows that are still there.
Listed ==
  \A c \in Call :
    /\ \A o \in Op : call[c].list[o].state # "none" => row[o].state # "none"
    /\ \A o \in call[c].todo : call[c].list[o].state = "completed"
    /\ call[c].at \in {"hash", "move", "upsert"} => call[c].list[call[c].op].state = "completed"

Inv == TypeOK /\ Listed /\ BytesKept

\* The values Init names are of their types.
LEMMA IdleTyped == Unlisted \in [Op -> Row] /\ Idle \in Locals
<1>1. ASSUME NEW o \in Op PROVE Head(Candidates[o]) \in Path
  BY <1>1, CandidatesAssumption
<1>2. Unlisted \in [Op -> Row]
  BY <1>1 DEF Unlisted, Row
<1>3. (CHOOSE o \in Op : TRUE) \in Op
  BY OpAssumption
<1>4. PICK o \in Op : TRUE
  BY OpAssumption
<1>5. Head(Candidates[o]) \in Path
  BY <1>1
<1>6. (CHOOSE p \in Path : TRUE) \in Path
  BY <1>5
<1> QED
  BY <1>2, <1>3, <1>6 DEF Idle, Locals, Step

LEMMA InitInv == Init => Inv
<1> SUFFICES ASSUME Init PROVE Inv
  OBVIOUS
<1>1. TypeOK
  <2>1. disk \in [Path -> Content \cup {Junk, Free}]
    <3>1. ASSUME NEW p \in Path, \E o \in Stored : StoredAt[o] = p
          PROVE  ContentOf[CHOOSE o \in Stored : StoredAt[o] = p] \in Content
      BY <3>1, OpAssumption
    <3> QED
      BY <3>1 DEF Init
  <2>2. row \in [Op -> Row]
    BY IdleTyped, StoredAtAssumption DEF Init, Row
  <2>3. call \in [Call -> Locals]
    BY IdleTyped DEF Init
  <2>4. \A c \in Call : call[c].at = "idle"
    BY DEF Init, Idle
  <2> QED
    BY <2>1, <2>2, <2>3, <2>4, MaxActsAssumption DEF Init, TypeOK
<1>2. Listed
  BY DEF Init, Listed, Idle, Unlisted
<1>3. BytesKept
  <2> SUFFICES ASSUME NEW o \in Op, row[o].state # "none"
               PROVE  \E p \in Path : disk[p] = ContentOf[o]
    BY DEF BytesKept
  <2>1. o \in Stored
    BY DEF Init, Unlisted
  <2>2. StoredAt[o] \in Path
    BY <2>1, StoredAtAssumption
  <2>3. (CHOOSE other \in Stored : StoredAt[other] = StoredAt[o]) = o
    BY <2>1, StoredAtAssumption
  <2>4. disk[StoredAt[o]] = ContentOf[o]
    BY <2>1, <2>2, <2>3 DEF Init
  <2> QED
    BY <2>2, <2>4
<1> QED
  BY <1>1, <1>2, <1>3 DEF Inv

\* A call is at one step with one record of locals; the others keep theirs.
LEMMA CallWritten ==
  ASSUME call \in [Call -> Locals], NEW c \in Call, NEW r \in Locals,
         call' = [call EXCEPT ![c] = r]
  PROVE  /\ call' \in [Call -> Locals]
         /\ call'[c] = r
         /\ \A d \in Call \ {c} : call'[d] = call[d]
  OBVIOUS

LEMMA AtWritten ==
  ASSUME NEW r \in Locals, NEW s \in Step
  PROVE  /\ [r EXCEPT !.at = s] \in Locals
         /\ [r EXCEPT !.at = s].at = s
         /\ [r EXCEPT !.at = s].list = r.list
         /\ [r EXCEPT !.at = s].todo = r.todo /\ [r EXCEPT !.at = s].op = r.op
         /\ [r EXCEPT !.at = s].target = r.target /\ [r EXCEPT !.at = s].planned = r.planned
         /\ [r EXCEPT !.at = s].dry = r.dry
  BY DEF Locals

LEMMA ReadWritten ==
  ASSUME NEW r \in Locals, NEW x \in Content \cup {Junk, Free}
  PROVE  [r EXCEPT !.at = "upsert", !.read = x] \in Locals
  BY DEF Locals, Step

LEMMA LookWritten ==
  ASSUME NEW r \in Locals, NEW o \in Op, NEW p \in Path
  PROVE  /\ [r EXCEPT !.todo = @ \ {o}] \in Locals
         /\ [r EXCEPT !.todo = @ \ {o}, !.at = "hash", !.op = o, !.target = p] \in Locals
  BY DEF Locals, Step

LEMMA NameWritten ==
  ASSUME NEW r \in Locals, NEW s \in Step
  PROVE  [r EXCEPT !.planned = @ \cup {r.target}, !.at = s] \in Locals
  BY DEF Locals

LEMMA ListWritten ==
  ASSUME NEW list \in [Op -> Row], NEW dry \in BOOLEAN
  PROVE  [Idle EXCEPT !.at = "pick", !.list = list, !.dry = dry,
                      !.todo = {o \in Op : list[o].state = "completed"}] \in Locals
  BY IdleTyped DEF Locals, Step

LEMMA NamesOnShare == \A o \in Op : ToSet(Candidates[o]) \subseteq Path
  BY CandidatesAssumption DEF ToSet

\* Looking at a row, hashing its file and giving up write no file and no row.
LocalsOf(c) ==
  /\ call'[c] \in Locals
  /\ call' = [call EXCEPT ![c] = call'[c]]
  /\ \A o \in Op : call'[c].list[o].state # "none" => row[o].state # "none"
  /\ \A o \in call'[c].todo : call'[c].list[o].state = "completed"
  /\ call'[c].at \in {"hash", "move", "upsert"}
       => call'[c].list[call'[c].op].state = "completed"
  /\ call'[c].at \in {"move", "upsert"}
       => call'[c].target \in call'[c].planned /\ ~call'[c].dry

LEMMA IdleAgain ==
  ASSUME Inv, NEW c \in Call, call' = [call EXCEPT ![c] = Idle]
  PROVE  LocalsOf(c)
  BY IdleTyped DEF LocalsOf, Inv, TypeOK, Idle, Unlisted

LEMMA BeginLocals ==
  ASSUME Inv, NEW c \in Call, Begin(c)
  PROVE  LocalsOf(c)
<1>1. PICK dry \in BOOLEAN :
        call' = [call EXCEPT ![c] = [Idle EXCEPT !.at = "pick", !.list = row, !.dry = dry,
                  !.todo = {o \in Op : row[o].state = "completed"}]]
  BY DEF Begin
<1> DEFINE r == [Idle EXCEPT !.at = "pick", !.list = row, !.dry = dry,
                  !.todo = {o \in Op : row[o].state = "completed"}]
<1>2. r \in Locals
  BY ListWritten DEF Inv, TypeOK
<1>3. r.at = "pick" /\ r.list = row /\ r.todo = {o \in Op : row[o].state = "completed"}
  BY DEF Idle
<1>4. call'[c] = r
  BY <1>1 DEF Inv, TypeOK
<1> HIDE DEF r
<1> QED
  BY <1>1, <1>2, <1>3, <1>4 DEF LocalsOf, r

LEMMA HashLocals ==
  ASSUME Inv, NEW c \in Call, Hash(c)
  PROVE  LocalsOf(c)
<1> DEFINE s == IF call[c].dry THEN "pick" ELSE "move"
           r == [call[c] EXCEPT !.planned = @ \cup {call[c].target}, !.at = s]
<1>1. call[c] \in Locals /\ s \in Step /\ "pick" \in Step
  BY DEF Inv, TypeOK, Step
<1>2. CASE call' = [call EXCEPT ![c].planned = @ \cup {call[c].target}, ![c].at = s]
  <2>1. r \in Locals
    BY <1>1, NameWritten
  <2>2. call'[c] = r /\ call' = [call EXCEPT ![c] = r]
    BY <1>2 DEF Inv, TypeOK
  <2>3. /\ r.at = s /\ r.list = call[c].list /\ r.todo = call[c].todo /\ r.op = call[c].op
        /\ r.dry = call[c].dry /\ r.target \in r.planned
    BY <1>1 DEF Locals
  <2>4. call[c].at = "hash"
    BY DEF Hash
  <2> HIDE DEF r
  <2> QED
    BY <2>1, <2>2, <2>3, <2>4 DEF LocalsOf, Inv, Listed
<1>3. CASE call' = [call EXCEPT ![c].at = "pick"]
  <2> DEFINE q == [call[c] EXCEPT !.at = "pick"]
  <2>1. q \in Locals /\ q.at = "pick" /\ q.list = call[c].list /\ q.todo = call[c].todo
    BY <1>1, AtWritten
  <2>2. call'[c] = q /\ call' = [call EXCEPT ![c] = q]
    BY <1>3 DEF Inv, TypeOK
  <2> HIDE DEF q
  <2> QED
    BY <2>1, <2>2 DEF LocalsOf, Inv, Listed
<1> QED
  BY <1>2, <1>3 DEF Hash

LEMMA ExamineLocals ==
  ASSUME Inv, NEW c \in Call, NEW o \in Op, Examine(c, o)
  PROVE  LocalsOf(c)
<1>1. call[c] \in Locals /\ o \in call[c].todo /\ call[c].at = "pick"
  BY DEF Inv, TypeOK, Examine
<1>2. PICK p \in Path :
        \/ call' = [call EXCEPT ![c].todo = @ \ {o}]
        \/ call' = [call EXCEPT ![c].todo = @ \ {o}, ![c].at = "hash", ![c].op = o,
                                ![c].target = p]
  BY DEF Examine
<1>3. CASE call' = [call EXCEPT ![c].todo = @ \ {o}]
  <2> DEFINE q == [call[c] EXCEPT !.todo = @ \ {o}]
  <2>1. q \in Locals /\ q.at = "pick" /\ q.list = call[c].list /\ q.todo \subseteq call[c].todo
    BY <1>1, LookWritten DEF Locals
  <2>2. call'[c] = q /\ call' = [call EXCEPT ![c] = q]
    BY <1>3 DEF Inv, TypeOK
  <2> HIDE DEF q
  <2> QED
    BY <2>1, <2>2 DEF LocalsOf, Inv, Listed
<1>4. CASE call' = [call EXCEPT ![c].todo = @ \ {o}, ![c].at = "hash", ![c].op = o,
                                ![c].target = p]
  <2> DEFINE q == [call[c] EXCEPT !.todo = @ \ {o}, !.at = "hash", !.op = o, !.target = p]
  <2>1. /\ q \in Locals /\ q.at = "hash" /\ q.op = o
        /\ q.list = call[c].list /\ q.todo \subseteq call[c].todo
    BY <1>1, LookWritten DEF Locals
  <2>2. call'[c] = q /\ call' = [call EXCEPT ![c] = q]
    BY <1>4 DEF Inv, TypeOK
  <2> HIDE DEF q
  <2> QED
    BY <1>1, <2>1, <2>2 DEF LocalsOf, Inv, Listed
<1> QED
  BY <1>2, <1>3, <1>4

LEMMA LookInv ==
  ASSUME Inv, NEW c \in Call,
         \/ Begin(c) \/ Hash(c) \/ Finish(c) \/ Cancel(c)
         \/ \E o \in Op : Examine(c, o)
  PROVE  Inv'
<1>1. LocalsOf(c)
  BY BeginLocals, HashLocals, ExamineLocals, IdleAgain DEF Finish, Cancel
<1>2. UNCHANGED <<disk, row, damaged>>
  BY DEF Begin, Hash, Finish, Cancel, Examine
<1>3. acts' = acts \/ (acts < MaxActs /\ acts' = acts + 1)
  BY DEF Begin, Hash, Finish, Cancel, Examine
<1>4. acts' \in 0..MaxActs
  BY <1>3, MaxActsAssumption DEF Inv, TypeOK
<1>5. stranded' \subseteq Op /\ disputed' \subseteq Op
  <2>1. ASSUME NEW p PROVE InHand(c, p) \subseteq Op
    BY DEF InHand, Inv, TypeOK, Locals
  <2>2. call[c].op \in Op
    BY DEF Inv, TypeOK, Locals
  <2>3. CASE Begin(c) \/ Hash(c) \/ Finish(c) \/ Cancel(c)
    BY <2>2, <2>3 DEF Inv, TypeOK, Begin, Hash, Finish, Cancel
  <2>4. CASE \E o \in Op : Examine(c, o)
    BY <2>1, <2>4 DEF Inv, TypeOK, Examine
  <2> QED
    BY <2>3, <2>4
<1>6. meddled' \subseteq Call
  BY DEF Begin, Hash, Finish, Cancel, Examine, Inv, TypeOK
<1>7. TypeOK'
  BY <1>1, <1>2, <1>4, <1>5, <1>6 DEF LocalsOf, Inv, TypeOK
<1>8. Listed'
  BY <1>1, <1>2 DEF LocalsOf, Inv, TypeOK, Listed
<1>9. BytesKept'
  BY <1>2 DEF Inv, BytesKept
<1> QED
  BY <1>7, <1>8, <1>9 DEF Inv

LEMMA MoveLocals ==
  ASSUME Inv, NEW c \in Call, Move(c)
  PROVE  LocalsOf(c)
<1> DEFINE r == [call[c] EXCEPT !.at = "upsert", !.read = disk[Current(c)]]
           q == [call[c] EXCEPT !.at = "pick"]
<1>1. /\ call[c] \in Locals /\ "pick" \in Step
      /\ disk[Current(c)] \in Content \cup {Junk, Free} /\ call[c].at = "move"
  <2>1. Current(c) \in Path
    BY DEF Inv, TypeOK, Current, Locals, Row
  <2> QED
    BY <2>1 DEF Inv, TypeOK, Step, Move
<1>2. r \in Locals /\ q \in Locals
  BY <1>1, ReadWritten, AtWritten
<1>3. /\ r.at = "upsert" /\ r.list = call[c].list /\ r.todo = call[c].todo /\ r.op = call[c].op
      /\ r.target = call[c].target /\ r.planned = call[c].planned /\ r.dry = call[c].dry
  BY <1>1 DEF Locals
<1>4. q.at = "pick" /\ q.list = call[c].list /\ q.todo = call[c].todo
  BY <1>1, AtWritten
<1>5. call' = [call EXCEPT ![c] = r] \/ call' = [call EXCEPT ![c] = q]
  BY DEF Move, Inv, TypeOK
<1>6. (call'[c] = r /\ call' = [call EXCEPT ![c] = r])
         \/ (call'[c] = q /\ call' = [call EXCEPT ![c] = q])
  BY <1>5 DEF Inv, TypeOK
<1> HIDE DEF r, q
<1> QED
  BY <1>1, <1>2, <1>3, <1>4, <1>6 DEF LocalsOf, Inv, TypeOK, Listed

\* The move takes the bytes along, and only to a name nothing has.
LEMMA MoveInv ==
  ASSUME Inv, NEW c \in Call, Move(c)
  PROVE  Inv'
<1> DEFINE from == Current(c)
           to == call[c].target
<1>1. from \in Path /\ to \in Path
  BY DEF Inv, TypeOK, Current, Locals, Row
<1>2. LocalsOf(c)
  BY MoveLocals
<1>3. TypeOK'
  <2>1. disk' \in [Path -> Content \cup {Junk, Free}]
    BY <1>1 DEF Move, Inv, TypeOK
  <2>2. call' \in [Call -> Locals]
    BY <1>2 DEF LocalsOf, Inv, TypeOK
  <2>3. \A d \in Call : call'[d].at \in {"move", "upsert"}
                          => call'[d].target \in call'[d].planned /\ ~call'[d].dry
    BY <1>2 DEF LocalsOf, Inv, TypeOK
  <2>4. stranded' \subseteq Op
    <3>1. Sharing(call[c].op, from) \subseteq Op
      BY DEF Inv, TypeOK, Sharing, Locals
    <3> QED
      BY <3>1 DEF Move, Inv, TypeOK
  <2>5. meddled' \subseteq Call
    BY DEF Move, Relying, Inv, TypeOK
  <2> QED
    BY <2>1, <2>2, <2>3, <2>4, <2>5 DEF Move, Inv, TypeOK
<1>4. Listed'
  BY <1>2 DEF LocalsOf, Move, Inv, TypeOK, Listed
<1>5. BytesKept'
  <2>1. ASSUME NEW p \in Path, disk[p] # Free PROVE \E q \in Path : disk'[q] = disk[p]
    <3>1. CASE p = from /\ disk[to] = Free
      BY <1>1, <2>1, <3>1 DEF Move, Inv, TypeOK
    <3>2. CASE p # from \/ disk[to] # Free
      BY <1>1, <2>1, <3>2 DEF Move, Inv, TypeOK
    <3> QED
      BY <3>1, <3>2
  <2> QED
    BY <2>1, OpAssumption, FreeAssumption DEF Move, Inv, BytesKept
<1> QED
  BY <1>3, <1>4, <1>5 DEF Inv

\* The row written existed when it was listed, and so it does now.
LEMMA UpsertInv ==
  ASSUME Inv, NEW c \in Call, Upsert(c)
  PROVE  Inv'
<1>1. call[c].op \in Op /\ call[c].list[call[c].op] \in Row /\ call[c].target \in Path
  BY DEF Inv, TypeOK, Locals
<1>2. call[c].list[call[c].op].state = "completed" /\ row[call[c].op].state # "none"
  BY <1>1 DEF Upsert, Inv, Listed
<1>3. TypeOK'
  <2>1. row' \in [Op -> Row]
    BY <1>1 DEF Upsert, Inv, TypeOK, Row
  <2>2. call[c] \in Locals /\ "pick" \in Step
    BY DEF Inv, TypeOK, Step
  <2>3. [call[c] EXCEPT !.at = "pick"] \in Locals
    BY <2>2, AtWritten
  <2>4. call' \in [Call -> Locals]
    BY <2>3 DEF Upsert, Inv, TypeOK
  <2>5. \A d \in Call : call'[d].at \in {"move", "upsert"}
                          => call'[d].target \in call'[d].planned /\ ~call'[d].dry
    BY <2>2, AtWritten DEF Upsert, Inv, TypeOK
  <2> QED
    BY <1>1, <2>1, <2>4, <2>5 DEF Upsert, Inv, TypeOK
<1>4. \A o \in Op : row'[o].state # "none" <=> row[o].state # "none"
  BY <1>1, <1>2 DEF Upsert, Inv, TypeOK, Row
<1>5. Listed'
  BY <1>4 DEF Upsert, Inv, TypeOK, Listed, Locals
<1>6. BytesKept'
  BY <1>4 DEF Upsert, Inv, BytesKept
<1> QED
  BY <1>3, <1>5, <1>6 DEF Inv

\* Transfers bring bytes, damage is on record, and rows never go away.
LEMMA OthersInv ==
  ASSUME Inv,
         \/ \E o \in Op : Store(o) \/ Adopt(o) \/ Supersede(o)
         \/ \E p \in Path : Damage(p)
  PROVE  Inv'
<1>1. ASSUME NEW o \in Op, Store(o) PROVE Inv'
  <2>1. PICK p \in Path : /\ disk[p] = Free
                          /\ disk' = [disk EXCEPT ![p] = ContentOf[o]]
                          /\ row' = [row EXCEPT ![o] = [state |-> "completed", dest |-> p]]
    BY <1>1, NamesOnShare DEF Store
  <2>2. TypeOK'
    <3>1. ContentOf[o] \in Content /\ [state |-> "completed", dest |-> p] \in Row
      BY OpAssumption DEF Row
    <3> QED
      BY <1>1, <2>1, <3>1, MaxActsAssumption DEF Store, Inv, TypeOK
  <2>3. Listed'
    BY <1>1, <2>1 DEF Store, Inv, TypeOK, Listed, Locals
  <2>4. BytesKept'
    <3>1. disk'[p] = ContentOf[o]
      BY <2>1 DEF Inv, TypeOK
    <3>2. \A q \in Path : disk[q] # Free => disk'[q] = disk[q]
      BY <2>1 DEF Inv, TypeOK
    <3>3. \A other \in Op \ {o} : row'[other] = row[other]
      BY <2>1 DEF Inv, TypeOK
    <3>4. \A other \in Op : ContentOf[other] # Free
      BY OpAssumption, FreeAssumption
    <3> QED
      BY <1>1, <3>1, <3>2, <3>3, <3>4 DEF Store, Inv, BytesKept
  <2> QED
    BY <2>2, <2>3, <2>4 DEF Inv
<1>2. ASSUME NEW o \in Op, Adopt(o) PROVE Inv'
  <2>1. TypeOK'
    BY <1>2, MaxActsAssumption DEF Adopt, Inv, TypeOK, Row
  <2>2. Listed'
    BY <1>2 DEF Adopt, Inv, TypeOK, Listed, Locals
  <2>3. BytesKept'
    BY <1>2 DEF Adopt, Inv, TypeOK, BytesKept
  <2> QED
    BY <2>1, <2>2, <2>3 DEF Inv
<1>3. ASSUME NEW o \in Op, Supersede(o) PROVE Inv'
  <2>1. \A other \in Op : row'[other].state # "none" <=> row[other].state # "none"
    BY <1>3 DEF Supersede, Inv, TypeOK, Row
  <2>2. TypeOK'
    BY <1>3, MaxActsAssumption DEF Supersede, Inv, TypeOK, Row
  <2> QED
    BY <1>3, <2>1, <2>2 DEF Supersede, Inv, Listed, BytesKept
<1>4. ASSUME NEW p \in Path, Damage(p) PROVE Inv'
  <2>1. TypeOK'
    BY <1>4, MaxActsAssumption DEF Damage, Relying, Inv, TypeOK
  <2>2. BytesKept'
    BY <1>4 DEF Damage, Inv, TypeOK, BytesKept
  <2> QED
    BY <1>4, <2>1, <2>2 DEF Damage, Inv, Listed
<1> QED
  BY <1>1, <1>2, <1>3, <1>4

LEMMA StepInv == Inv /\ [Next]_vars => Inv'
<1> SUFFICES ASSUME Inv, [Next]_vars PROVE Inv'
  OBVIOUS
<1>1. CASE UNCHANGED vars
  BY <1>1 DEF vars, Inv, TypeOK, Listed, BytesKept
<1>2. CASE Next
  BY <1>2, LookInv, MoveInv, UpsertInv, OthersInv DEF Next, RenameAsync
<1> QED
  BY <1>1, <1>2

\* RenameAsync and what runs beside it keep the types of the share, of the table
\* and of each call's locals.
THEOREM Typing == Spec => []TypeOK
<1>1. Inv => TypeOK
  BY DEF Inv
<1> QED
  BY InitInv, StepInv, <1>1, PTL DEF Spec

\* No call of RenameAsync, however many overlap with each other and with
\* transfers, makes the bytes of a row disappear from the share.
THEOREM NoBytesLost == Spec => []BytesKept
<1>1. Inv => BytesKept
  BY DEF Inv
<1> QED
  BY InitInv, StepInv, <1>1, PTL DEF Spec

-----------------------------------------------------------------------------
(* What a call carries over to a new name.                                 *)

\* Two calls about to move the same file are on record as disputing it.
Disputes ==
  \A c, d \in Call :
    c # d /\ call[c].at \in {"hash", "move"} /\ call[d].at \in {"hash", "move"}
      /\ Current(c) = Current(d) => call[c].op \in disputed

\* Between its hash and its move, a file keeps its bytes unless that is on record.
StillEarned ==
  \A c \in Call : call[c].at = "move" =>
     disk[Current(c)] = ContentOf[call[c].op] \/ c \in meddled

\* What can be on record is damage, or another call that has the file in hand too.
Undisturbed ==
  \A c \in Call : call[c].at = "move" /\ call[c].op \notin disputed =>
     disk[Current(c)] = ContentOf[call[c].op] \/ ContentOf[call[c].op] \in damaged

NameInv == Inv /\ Disputes /\ StillEarned /\ Undisturbed /\ NameEarned

\* What a step of one call leaves alone in the others.
LEMMA OneCall ==
  ASSUME Inv, NEW c \in Call, Begin(c) \/ RenameAsync(c) \/ Cancel(c)
  PROVE  /\ \A d \in Call \ {c} : call'[d] = call[d]
         /\ disputed \subseteq disputed' /\ damaged' = damaged
         /\ meddled \ {c} \subseteq meddled'
  BY DEF Inv, TypeOK, Begin, RenameAsync, Hash, Move, Upsert, Finish, Cancel, Examine

\* How a call comes to have a file in hand, and with which bytes.
LEMMA InHandSteps ==
  ASSUME Inv, NEW c \in Call, Begin(c) \/ RenameAsync(c) \/ Cancel(c),
         call'[c].at \in {"hash", "move", "upsert"}
  PROVE  \/ /\ call'[c].at = "hash" /\ disk' = disk
            /\ \E o \in Op : /\ call'[c].op = o /\ Current(c)' = call[c].list[o].dest
                             /\ \A d \in Call \ {c} :
                                  call[d].at \in {"hash", "move"} /\ Current(d) = Current(c)'
                                    => o \in disputed' /\ call[d].op \in disputed'
         \/ /\ call'[c].at = "move" /\ call[c].at = "hash" /\ disk' = disk
            /\ meddled' = meddled \ {c}
            /\ call'[c].op = call[c].op /\ Current(c)' = Current(c)
            /\ disk[Current(c)] = ContentOf[call[c].op]
         \/ /\ call'[c].at = "upsert" /\ call[c].at = "move"
            /\ call'[c].op = call[c].op /\ Current(c)' = Current(c)
            /\ call'[c].read = disk[Current(c)] /\ (c \in meddled => c \in meddled')
<1>1. call[c] \in Locals
  BY DEF Inv, TypeOK
<1>2. CASE Begin(c) \/ Finish(c) \/ Cancel(c) \/ Upsert(c)
  <2>1. ASSUME NEW dry PROVE [Idle EXCEPT !.at = "pick", !.list = row, !.dry = dry,
                  !.todo = {o \in Op : row[o].state = "completed"}].at = "pick"
    BY DEF Idle
  <2>2. Idle.at = "idle" /\ [call[c] EXCEPT !.at = "pick"].at = "pick"
    BY <1>1 DEF Idle, Locals
  <2> QED
    BY <1>2, <2>1, <2>2 DEF Begin, Finish, Cancel, Upsert, Inv, TypeOK
<1>3. CASE Hash(c)
  <2>1. call'[c].at = "move" /\ call'[c].op = call[c].op /\ call'[c].list = call[c].list
    BY <1>1, <1>3 DEF Hash, Inv, TypeOK, Locals
  <2>2. disk[Current(c)] = ContentOf[call[c].op] /\ meddled' = meddled \ {c}
    BY <1>1, <1>3 DEF Hash, Inv, TypeOK, Locals
  <2> QED
    BY <1>3, <2>1, <2>2 DEF Hash, Current
<1>4. CASE Move(c)
  <2>1. call'[c].at = "upsert" /\ call'[c].op = call[c].op /\ call'[c].list = call[c].list
           /\ call'[c].read = disk[Current(c)] /\ meddled \subseteq meddled'
    BY <1>1, <1>4 DEF Move, Inv, TypeOK, Locals
  <2> QED
    BY <1>4, <2>1 DEF Move, Current
<1>5. ASSUME NEW o \in Op, Examine(c, o)
      PROVE  /\ call'[c].at = "hash" /\ disk' = disk
             /\ call'[c].op = o /\ Current(c)' = call[c].list[o].dest
             /\ \A d \in Call \ {c} :
                  call[d].at \in {"hash", "move"} /\ Current(d) = Current(c)'
                    => o \in disputed' /\ call[d].op \in disputed'
  <2> DEFINE own == call[c].list[o].dest
  <2>1. /\ call'[c].at = "hash" /\ call'[c].op = o /\ call'[c].list = call[c].list
        /\ disputed' = IF InHand(c, own) = {} THEN disputed
                       ELSE disputed \cup InHand(c, own) \cup {o}
    BY <1>1, <1>5 DEF Examine, Inv, TypeOK, Locals
  <2>2. Current(c)' = own
    BY <2>1 DEF Current
  <2>3. ASSUME NEW d \in Call \ {c}, call[d].at \in {"hash", "move"}, Current(d) = own
        PROVE  call[d].op \in InHand(c, own)
    BY <2>3 DEF InHand
  <2> QED
    BY <1>5, <2>1, <2>2, <2>3 DEF Examine
<1> QED
  BY <1>2, <1>3, <1>4, <1>5 DEF RenameAsync

LEMMA NameInit == Init => NameInv
  BY InitInv DEF Init, NameInv, Disputes, StillEarned, Undisturbed, NameEarned, Idle

\* A call's own step: Examine records the dispute, Hash reads the bytes.
LEMMA NameOwn ==
  ASSUME NameInv, NEW c \in Call, Begin(c) \/ RenameAsync(c) \/ Cancel(c)
  PROVE  Disputes' /\ StillEarned' /\ Undisturbed' /\ NameEarned'
<1>1. /\ \A d \in Call \ {c} : call'[d] = call[d]
      /\ disputed \subseteq disputed' /\ damaged' = damaged
      /\ meddled \ {c} \subseteq meddled'
  BY OneCall DEF NameInv
<1>2. \A d \in Call \ {c} : Current(d)' = Current(d)
  BY <1>1 DEF Current
<1>3. Disputes'
  <2> SUFFICES ASSUME NEW d \in Call \ {c},
                      call'[c].at \in {"hash", "move"}, call'[d].at \in {"hash", "move"},
                      Current(c)' = Current(d)'
               PROVE  call'[c].op \in disputed' /\ call'[d].op \in disputed'
    BY <1>1, <1>2 DEF Disputes, NameInv
  <2> QED
    BY <1>1, <1>2, InHandSteps DEF Disputes, NameInv
<1>4. ASSUME NEW d \in Call \ {c}, call[d].at = "move", call[d].op \notin disputed
      PROVE  disk'[Current(d)] = disk[Current(d)] \/ disk[Current(d)] = Free
  <2>1. CASE Move(c)
    <3>1. Current(c) # Current(d)
      BY <1>4, <2>1 DEF Move, Disputes, NameInv
    <3>2. Current(c) \in Path /\ Current(d) \in Path /\ call[c].target \in Path
      BY DEF NameInv, Inv, TypeOK, Locals, Current, Row
    <3>3. disk \in [Path -> Content \cup {Junk, Free}]
      BY DEF NameInv, Inv, TypeOK
    <3> QED
      BY <2>1, <3>1, <3>2, <3>3 DEF Move
  <2>2. CASE ~Move(c)
    BY <2>2 DEF Begin, RenameAsync, Hash, Upsert, Finish, Cancel, Examine
  <2> QED
    BY <2>1, <2>2
<1>5. \A o \in Op : ContentOf[o] # Free
  BY OpAssumption, FreeAssumption
<1>6. \A d \in Call : call[d].op \in Op
  BY DEF NameInv, Inv, TypeOK, Locals
<1>7. Undisturbed'
  BY <1>1, <1>2, <1>4, <1>5, <1>6, InHandSteps DEF Undisturbed, NameInv
<1>8. ASSUME NEW d \in Call \ {c}, call[d].at = "move", disk[Current(d)] = ContentOf[call[d].op]
      PROVE  disk'[Current(d)] = disk[Current(d)] \/ d \in meddled'
  <2>1. disk[Current(d)] # Free
    BY <1>5, <1>6, <1>8
  <2>2. CASE Move(c)
    <3>1. Current(c) = Current(d) => d \in Relying(Current(c)) \ {c}
      BY <1>8 DEF Relying
    <3>2. Current(c) \in Path /\ Current(d) \in Path /\ call[c].target \in Path
      BY DEF NameInv, Inv, TypeOK, Locals, Current, Row
    <3>3. disk \in [Path -> Content \cup {Junk, Free}]
      BY DEF NameInv, Inv, TypeOK
    <3> QED
      BY <2>1, <2>2, <3>1, <3>2, <3>3 DEF Move
  <2>3. CASE ~Move(c)
    BY <2>3 DEF Begin, RenameAsync, Hash, Upsert, Finish, Cancel, Examine
  <2> QED
    BY <2>2, <2>3
<1>9. StillEarned'
  BY <1>1, <1>2, <1>8, InHandSteps DEF StillEarned, NameInv
<1>10. NameEarned'
  BY <1>1, InHandSteps DEF NameEarned, StillEarned, NameInv
<1> QED
  BY <1>3, <1>7, <1>9, <1>10

\* Transfers write free names, and damage is on record.
LEMMA NameOthers ==
  ASSUME NameInv,
         \/ \E o \in Op : Store(o) \/ Adopt(o) \/ Supersede(o)
         \/ \E p \in Path : Damage(p)
  PROVE  Disputes' /\ StillEarned' /\ Undisturbed' /\ NameEarned'
<1>1. /\ call' = call /\ disputed' = disputed /\ damaged \subseteq damaged'
      /\ meddled \subseteq meddled'
  BY DEF Store, Adopt, Supersede, Damage
<1>2. \A c \in Call : Current(c)' = Current(c)
  BY <1>1 DEF Current
<1>3. \A p \in Path : disk'[p] = disk[p] \/ disk[p] = Free \/ disk[p] \in damaged'
  <2>1. ASSUME NEW q \in Path, Damage(q) PROVE disk[q] \in damaged' /\ \A p \in Path \ {q} : disk'[p] = disk[p]
    BY <2>1 DEF Damage, NameInv, Inv, TypeOK
  <2>2. ASSUME NEW o \in Op, Store(o) PROVE \A p \in Path : disk'[p] = disk[p] \/ disk[p] = Free
    BY <2>2, NamesOnShare DEF Store, NameInv, Inv, TypeOK
  <2> QED
    BY <2>1, <2>2 DEF Adopt, Supersede
<1>4. \A o \in Op : ContentOf[o] # Free
  BY OpAssumption, FreeAssumption
<1>5. \A c \in Call : call[c].op \in Op /\ Current(c) \in Path
  BY DEF NameInv, Inv, TypeOK, Locals, Current, Row
<1>6. Disputes' /\ NameEarned'
  BY <1>1, <1>2 DEF Disputes, NameEarned, NameInv
<1>7. Undisturbed'
  BY <1>1, <1>2, <1>3, <1>4, <1>5 DEF Undisturbed, NameInv
<1>8. ASSUME NEW c \in Call, call[c].at = "move", disk[Current(c)] = ContentOf[call[c].op]
      PROVE  disk'[Current(c)] = disk[Current(c)] \/ c \in meddled'
  <2>1. disk[Current(c)] # Free
    BY <1>4, <1>5, <1>8
  <2>2. ASSUME NEW q \in Path, Damage(q) 
        PROVE  disk'[Current(c)] = disk[Current(c)] \/ c \in meddled'
    BY <1>5, <1>8, <2>2 DEF Damage, Relying, NameInv, Inv, TypeOK
  <2>3. ASSUME NEW o \in Op, Store(o) PROVE disk'[Current(c)] = disk[Current(c)]
    BY <1>5, <2>1, <2>3, NamesOnShare DEF Store, NameInv, Inv, TypeOK
  <2> QED
    BY <2>2, <2>3 DEF Adopt, Supersede
<1>9. StillEarned'
  BY <1>1, <1>2, <1>8 DEF StillEarned, NameInv
<1> QED
  BY <1>6, <1>7, <1>9

LEMMA NameStep == NameInv /\ [Next]_vars => NameInv'
<1> SUFFICES ASSUME NameInv, [Next]_vars PROVE NameInv'
  OBVIOUS
<1>1. Inv'
  BY StepInv DEF NameInv
<1>2. CASE UNCHANGED vars
  BY <1>1, <1>2 DEF vars, NameInv, Disputes, StillEarned, Undisturbed, NameEarned, Current
<1>3. CASE Next
  BY <1>1, <1>3, NameOwn, NameOthers DEF Next, NameInv
<1> QED
  BY <1>2, <1>3

\* For any number of overlapping calls, transfers and damaged files: what RenameAsync
\* carries over to a new name is the bytes its row records, unless the file was
\* damaged or moved away by another call after they were compared.
THEOREM NamesAreEarned == Spec => []NameEarned
<1>1. NameInv => NameEarned
  BY DEF NameInv
<1> QED
  BY NameInit, NameStep, <1>1, PTL DEF Spec

-----------------------------------------------------------------------------
(* Rows and their files.                                                   *)

\* What a call has moved is where it put it, until its row says so.
Carried ==
  \A c \in Call :
    call[c].at = "upsert" /\ call[c].op \notin stranded \cup disputed
      /\ ContentOf[call[c].op] \notin damaged
        => disk[call[c].target] = ContentOf[call[c].op]

FollowInv == NameInv /\ Carried /\ RowsFollow

LEMMA FollowInit == Init => FollowInv
<1> SUFFICES ASSUME Init PROVE FollowInv
  OBVIOUS
<1>1. NameInv
  BY NameInit
<1>2. Carried
  BY DEF Init, Carried, Idle
<1>3. RowsFollow
  <2> SUFFICES ASSUME NEW o \in Op, row[o].state # "none"
               PROVE  disk[row[o].dest] = ContentOf[o]
    BY DEF RowsFollow
  <2>1. o \in Stored /\ row[o].dest = StoredAt[o]
    BY DEF Init, Unlisted
  <2>2. StoredAt[o] \in Path
    BY <2>1, StoredAtAssumption
  <2>3. (CHOOSE other \in Stored : StoredAt[other] = StoredAt[o]) = o
    BY <2>1, StoredAtAssumption
  <2> QED
    BY <2>1, <2>2, <2>3 DEF Init
<1> QED
  BY <1>1, <1>2, <1>3 DEF FollowInv

\* Steps that write neither files nor rows: a call that leaves "upsert" this way
\* leaves its row behind.
LEMMA FollowLook ==
  ASSUME FollowInv, NEW c \in Call,
         \/ Begin(c) \/ Hash(c) \/ Finish(c) \/ Cancel(c)
         \/ \E o \in Op : Examine(c, o)
  PROVE  Carried' /\ RowsFollow'
<1>1. UNCHANGED <<disk, row, damaged>> /\ stranded \subseteq stranded'
  BY DEF Begin, Hash, Finish, Cancel, Examine
<1>2. /\ \A d \in Call \ {c} : call'[d] = call[d]
      /\ disputed \subseteq disputed'
  BY OneCall DEF FollowInv, NameInv, RenameAsync
<1>3. call'[c].at # "upsert"
  <2> SUFFICES ASSUME call'[c].at = "upsert" PROVE FALSE
    OBVIOUS
  <2>1. call[c].at = "move"
    BY InHandSteps DEF FollowInv, NameInv, RenameAsync
  <2>2. Cancel(c)
    BY <2>1 DEF Begin, Hash, Finish, Examine
  <2>3. call'[c] = Idle
    BY <2>2 DEF Cancel, FollowInv, NameInv, Inv, TypeOK
  <2> QED
    BY <2>3 DEF Idle
<1>4. call[c].at = "upsert" => call[c].op \in stranded'
  BY DEF Begin, Hash, Finish, Cancel, Examine
<1>5. Carried'
  BY <1>1, <1>2, <1>3 DEF Carried, FollowInv
<1>6. RowsFollow'
  BY <1>1, <1>2, <1>4 DEF RowsFollow, FollowInv
<1> QED
  BY <1>5, <1>6

\* A move takes along the bytes of the row it is for; every other row of these
\* bytes is left behind, and so is the row of a call that has just put them there.
LEMMA FollowMove ==
  ASSUME FollowInv, NEW c \in Call, Move(c)
  PROVE  Carried' /\ RowsFollow'
<1> DEFINE from == Current(c)
           to == call[c].target
<1>1. /\ from \in Path /\ to \in Path /\ call[c] \in Locals
      /\ disk \in [Path -> Content \cup {Junk, Free}]
  BY DEF FollowInv, NameInv, Inv, TypeOK, Current, Locals, Row
<1>2. /\ \A d \in Call \ {c} : call'[d] = call[d]
      /\ UNCHANGED <<row, disputed, damaged>> /\ call[c].at = "move"
      /\ stranded \subseteq stranded'
  BY OneCall DEF FollowInv, NameInv, RenameAsync, Move
<1>3. \A o \in Op : ContentOf[o] # Free
  BY OpAssumption, FreeAssumption
<1>4. \A d \in Call : call[d].op \in Op /\ call[d].target \in Path
  BY DEF FollowInv, NameInv, Inv, TypeOK, Locals
<1>5. \A o \in Op : row[o].dest \in Path
  BY DEF FollowInv, NameInv, Inv, TypeOK, Row
<1>6. CASE disk[from] = Free \/ disk[to] # Free
  <2>1. call' = [call EXCEPT ![c].at = "pick"] /\ UNCHANGED <<disk, stranded>>
    BY <1>6 DEF Move
  <2>2. call'[c].at = "pick"
    BY <1>1, <2>1 DEF FollowInv, NameInv, Inv, TypeOK, Locals
  <2>3. Carried'
    BY <1>2, <2>1, <2>2 DEF Carried, FollowInv
  <2>4. RowsFollow'
    BY <1>2, <2>1 DEF RowsFollow, FollowInv
  <2> QED
    BY <2>3, <2>4
<1>7. CASE disk[from] # Free /\ disk[to] = Free
  <2>1. /\ disk' = [disk EXCEPT ![to] = disk[from], ![from] = Free]
        /\ stranded' = stranded \cup Sharing(call[c].op, from)
        /\ call' = [call EXCEPT ![c].at = "upsert", ![c].read = disk[from]]
    BY <1>7 DEF Move
  <2>2. /\ call'[c].at = "upsert" /\ call'[c].op = call[c].op
        /\ call'[c].target = call[c].target
    BY <1>1, <2>1 DEF FollowInv, NameInv, Inv, TypeOK, Locals
  <2>3. /\ from # to /\ disk'[to] = disk[from]
        /\ \A p \in Path \ {from, to} : disk'[p] = disk[p]
    BY <1>1, <1>7, <2>1
  <2>4. Carried'
    <3> SUFFICES ASSUME NEW d \in Call, call'[d].at = "upsert",
                        call'[d].op \notin stranded' \cup disputed',
                        ContentOf[call'[d].op] \notin damaged'
                 PROVE  disk'[call'[d].target] = ContentOf[call'[d].op]
      BY DEF Carried
    <3>1. CASE d = c
      BY <1>2, <2>2, <2>3, <3>1 DEF FollowInv, NameInv, Undisturbed
    <3>2. CASE d # c
      <4>1. /\ call'[d] = call[d] /\ disk[call[d].target] = ContentOf[call[d].op]
        BY <1>2, <3>2 DEF FollowInv, Carried
      <4>2. call[d].target # from
        <5> HIDE DEF from
        <5>0. stranded' = stranded \cup Sharing(call[c].op, from)
          BY <2>1
        <5>1. call[d].at = "upsert" /\ call[d].op \notin Sharing(call[c].op, from)
          BY <4>1, <5>0
        <5>2. ASSUME call[d].target = from PROVE call[d].op \in Sharing(call[c].op, from)
          <6>1. d \in {e \in Call : call[e].at = "upsert" /\ call[e].target = from}
            BY <5>1, <5>2
          <6>2. call[d].op \in {call[e].op : e \in {g \in Call : call[g].at = "upsert" /\ call[g].target = from}}
            BY <6>1
          <6> QED
            BY <6>2 DEF Sharing
        <5> QED
          BY <5>1, <5>2
      <4>3. call[d].target # to
        BY <1>3, <1>4, <1>7, <4>1
      <4> QED
        BY <1>4, <2>3, <4>1, <4>2, <4>3
    <3> QED
      BY <3>1, <3>2
  <2>5. RowsFollow'
    <3> SUFFICES ASSUME NEW o \in Op, row'[o].state # "none",
                        ContentOf[o] \notin damaged', o \notin stranded' \cup disputed'
                 PROVE  \/ disk'[row'[o].dest] = ContentOf[o]
                        \/ \E d \in Call : call'[d].at = "upsert" /\ call'[d].op = o
      BY DEF RowsFollow
    <3>1. CASE o = call[c].op
      BY <2>2, <3>1
    <3>2. CASE \E d \in Call : call[d].at = "upsert" /\ call[d].op = o
      BY <1>2, <3>2
    <3>3. CASE o # call[c].op /\ ~\E d \in Call : call[d].at = "upsert" /\ call[d].op = o
      <4>1. disk[row[o].dest] = ContentOf[o]
        BY <1>2, <3>3 DEF FollowInv, RowsFollow
      <4>2. row[o].dest # from
        BY <1>2, <2>1, <3>3, <4>1 DEF Sharing
      <4>3. row[o].dest # to
        BY <1>3, <1>7, <4>1
      <4> QED
        BY <1>2, <1>5, <2>3, <4>1, <4>2, <4>3
    <3> QED
      BY <3>1, <3>2, <3>3
  <2> QED
    BY <2>4, <2>5
<1> QED
  BY <1>6, <1>7

\* The row a call writes names the file it moved, or the call found none.
LEMMA FollowUpsert ==
  ASSUME FollowInv, NEW c \in Call, Upsert(c)
  PROVE  Carried' /\ RowsFollow'
<1>1. /\ \A d \in Call \ {c} : call'[d] = call[d]
      /\ UNCHANGED <<disk, disputed, damaged>> /\ stranded \subseteq stranded'
      /\ call[c].at = "upsert" /\ call[c] \in Locals
  BY OneCall DEF FollowInv, NameInv, RenameAsync, Upsert, Inv, TypeOK
<1>2. call'[c].at = "pick"
  BY <1>1 DEF Upsert, FollowInv, NameInv, Inv, TypeOK, Locals
<1>3. Carried'
  BY <1>1, <1>2 DEF Carried, FollowInv
<1>4. RowsFollow'
  <2> SUFFICES ASSUME NEW o \in Op, row'[o].state # "none",
                      ContentOf[o] \notin damaged', o \notin stranded' \cup disputed'
               PROVE  \/ disk'[row'[o].dest] = ContentOf[o]
                      \/ \E d \in Call : call'[d].at = "upsert" /\ call'[d].op = o
    BY DEF RowsFollow
  <2>1. call[c].op \in Op /\ call[c].list[call[c].op] \in Row /\ call[c].target \in Path
    BY <1>1 DEF Locals
  <2>2. CASE o = call[c].op
    <3>1. disk[call[c].target] # Free
      BY <2>2 DEF Upsert
    <3>2. row'[o].dest = call[c].target
      BY <2>1, <2>2, <3>1 DEF Upsert, FollowInv, NameInv, Inv, TypeOK, Row
    <3>3. disk[call[c].target] = ContentOf[o]
      BY <1>1, <2>2 DEF FollowInv, Carried
    <3> QED
      BY <1>1, <3>2, <3>3
  <2>3. CASE o # call[c].op
    <3>1. row'[o] = row[o]
      BY <2>1, <2>3 DEF Upsert, FollowInv, NameInv, Inv, TypeOK
    <3> QED
      BY <1>1, <2>3, <3>1 DEF FollowInv, RowsFollow
  <2> QED
    BY <2>2, <2>3
<1> QED
  BY <1>3, <1>4

\* A transfer names the bytes it wrote or found; a superseded row keeps its name.
LEMMA FollowOthers ==
  ASSUME FollowInv,
         \/ \E o \in Op : Store(o) \/ Adopt(o) \/ Supersede(o)
         \/ \E p \in Path : Damage(p)
  PROVE  Carried' /\ RowsFollow'
<1>1. /\ UNCHANGED <<call, stranded, disputed>> /\ damaged \subseteq damaged'
  BY DEF Store, Adopt, Supersede, Damage
<1>2. \A p \in Path : disk'[p] = disk[p] \/ disk[p] = Free \/ disk[p] \in damaged'
  <2>1. ASSUME NEW q \in Path, Damage(q)
        PROVE  disk[q] \in damaged' /\ \A p \in Path \ {q} : disk'[p] = disk[p]
    BY <2>1 DEF Damage, FollowInv, NameInv, Inv, TypeOK
  <2>2. ASSUME NEW o \in Op, Store(o)
        PROVE  \A p \in Path : disk'[p] = disk[p] \/ disk[p] = Free
    BY <2>2, NamesOnShare DEF Store, FollowInv, NameInv, Inv, TypeOK
  <2> QED
    BY <2>1, <2>2 DEF Adopt, Supersede
<1>3. \A o \in Op : ContentOf[o] # Free
  BY OpAssumption, FreeAssumption
<1>4. \A c \in Call : call[c].op \in Op /\ call[c].target \in Path
  BY DEF FollowInv, NameInv, Inv, TypeOK, Locals
<1>5. \A o \in Op : row[o].dest \in Path
  BY DEF FollowInv, NameInv, Inv, TypeOK, Row
<1>6. \A o \in Op : \/ row'[o].dest = row[o].dest /\ (row'[o].state # "none" => row[o].state # "none")
                    \/ disk'[row'[o].dest] = ContentOf[o]
  <2>1. ASSUME NEW o \in Op, Store(o) PROVE disk'[row'[o].dest] = ContentOf[o] /\ \A q \in Op \ {o} : row'[q] = row[q]
    BY <2>1, NamesOnShare DEF Store, FollowInv, NameInv, Inv, TypeOK
  <2>2. ASSUME NEW o \in Op, Adopt(o) PROVE disk'[row'[o].dest] = ContentOf[o] /\ \A q \in Op \ {o} : row'[q] = row[q]
    BY <2>2 DEF Adopt, FollowInv, NameInv, Inv, TypeOK
  <2>3. ASSUME NEW o \in Op, Supersede(o)
        PROVE  row[o].state # "none" /\ \A q \in Op : row'[q].dest = row[q].dest /\ (q # o => row'[q] = row[q])
    BY <2>3 DEF Supersede, FollowInv, NameInv, Inv, TypeOK, Row
  <2> QED
    BY <2>1, <2>2, <2>3 DEF Damage
<1>7. Carried'
  BY <1>1, <1>2, <1>3, <1>4 DEF Carried, FollowInv
<1>8. RowsFollow'
  BY <1>1, <1>2, <1>3, <1>5, <1>6 DEF RowsFollow, FollowInv
<1> QED
  BY <1>7, <1>8

LEMMA FollowStep == FollowInv /\ [Next]_vars => FollowInv'
<1> SUFFICES ASSUME FollowInv, [Next]_vars PROVE FollowInv'
  OBVIOUS
<1>1. NameInv'
  BY NameStep DEF FollowInv
<1>2. CASE UNCHANGED vars
  BY <1>1, <1>2 DEF vars, FollowInv, Carried, RowsFollow
<1>3. CASE Next
  BY <1>1, <1>3, FollowLook, FollowMove, FollowUpsert, FollowOthers DEF Next, RenameAsync, FollowInv
<1> QED
  BY <1>2, <1>3

\* For any number of overlapping calls: the history follows each file to its new
\* name, but between a move and its write, and for the rows a client's going, a
\* shared copy or a second call left behind.
THEOREM RowsFollowFiles == Spec => []RowsFollow
<1>1. FollowInv => RowsFollow
  BY DEF FollowInv
<1> QED
  BY FollowInit, FollowStep, <1>1, PTL DEF Spec

-----------------------------------------------------------------------------
(* Numbered names.                                                         *)

\* What a call has chosen for a file comes before the name it listed.
Aimed ==
  \A c \in Call : call[c].at \in {"hash", "move", "upsert"}
                    => Earlier(call[c].op, call[c].target, Current(c))

AimInv == Inv /\ Aimed

\* The first name that is free or the file's own, when it is not the own one and
\* is free, comes before the own one.
LEMMA FirstIsEarlier ==
  ASSUME NEW o \in Op, NEW own \in Path, NEW p \in FreeNames, p # own, Renders(o, own, p)
  PROVE  Earlier(o, p, own)
<1> DEFINE usable == FreeNames \cup {own}
<1>1. Candidates[o] \in Seq(Path) /\ Candidates[o] # <<>>
  BY CandidatesAssumption
<1>2. ~(p = Last(Candidates[o]) /\ ToSet(Candidates[o]) \cap usable = {})
  <2>1. Last(Candidates[o]) \in ToSet(Candidates[o])
    BY <1>1 DEF Last, ToSet
  <2> QED
    BY <2>1
<1>3. PICK i \in DOMAIN Candidates[o] :
        /\ p = Candidates[o][i]
        /\ \A j \in 1..(i - 1) : Candidates[o][j] \notin usable
  BY <1>2 DEF Renders, FirstOf
<1>4. i \in Nat
  BY <1>1
<1>5. ASSUME NEW j \in 1..i PROVE Candidates[o][j] # own
  <2>1. CASE j = i
    BY <1>3, <2>1
  <2>2. CASE j # i
    BY <1>3, <1>4, <2>2
  <2> QED
    BY <2>1, <2>2
<1> QED
  BY <1>3, <1>5 DEF Earlier

LEMMA AimInit == Init => AimInv
  BY InitInv DEF Init, AimInv, Aimed, Idle

\* A call aims when it looks at a row, and keeps its aim until it lets go.
LEMMA AimOwn ==
  ASSUME AimInv, NEW c \in Call, Begin(c) \/ RenameAsync(c) \/ Cancel(c)
  PROVE  Aimed'
<1>1. \A d \in Call \ {c} : call'[d] = call[d]
  BY OneCall DEF AimInv
<1>2. call[c] \in Locals
  BY DEF AimInv, Inv, TypeOK
<1>3. ASSUME call'[c].at \in {"hash", "move", "upsert"}
      PROVE  Earlier(call'[c].op, call'[c].target, Current(c)')
  <2>1. CASE Hash(c) \/ Move(c)
    <3>1. /\ call[c].at \in {"hash", "move"} /\ call'[c].op = call[c].op
          /\ call'[c].target = call[c].target /\ call'[c].list = call[c].list
      BY <1>2, <2>1 DEF Hash, Move, AimInv, Inv, TypeOK, Locals
    <3> QED
      BY <3>1 DEF AimInv, Aimed, Current
  <2>2. ASSUME NEW o \in Op, Examine(c, o)
        PROVE  Earlier(call'[c].op, call'[c].target, Current(c)')
    <3> DEFINE own == call[c].list[o].dest
    <3>1. own \in Path
      BY <1>2 DEF Locals, Row
    <3>2. PICK target \in Path :
            /\ Renders(o, own, target)
            /\ \/ call' = [call EXCEPT ![c].todo = @ \ {o}]
               \/ /\ target # own /\ disk[target] = Free
                  /\ call' = [call EXCEPT ![c].todo = @ \ {o}, ![c].at = "hash",
                                ![c].op = o, ![c].target = target]
      BY <2>2 DEF Examine
    <3>3. call[c].at = "pick"
      BY <2>2 DEF Examine
    <3>4. /\ target # own /\ disk[target] = Free
          /\ call' = [call EXCEPT ![c].todo = @ \ {o}, ![c].at = "hash",
                                  ![c].op = o, ![c].target = target]
      <4>1. call' # [call EXCEPT ![c].todo = @ \ {o}]
        BY <1>2, <1>3, <3>3 DEF AimInv, Inv, TypeOK, Locals
      <4> QED
        BY <3>2, <4>1
    <3>5. call'[c].op = o /\ call'[c].target = target /\ call'[c].list = call[c].list
      BY <1>2, <3>4 DEF AimInv, Inv, TypeOK, Locals
    <3>6. Earlier(o, target, own)
      BY <3>1, <3>2, <3>4, FirstIsEarlier DEF FreeNames
    <3> QED
      BY <3>5, <3>6 DEF Current
  <2>3. CASE Begin(c) \/ Finish(c) \/ Cancel(c) \/ Upsert(c)
    <3>1. call'[c].at \in {"hash", "move"} \/ (call'[c].at = "upsert" /\ call[c].at = "move")
      BY <1>3, InHandSteps DEF AimInv
    <3>2. ASSUME NEW dry PROVE [Idle EXCEPT !.at = "pick", !.list = row, !.dry = dry,
                    !.todo = {o \in Op : row[o].state = "completed"}].at = "pick"
      BY DEF Idle
    <3>3. Idle.at = "idle" /\ [call[c] EXCEPT !.at = "pick"].at = "pick"
      BY <1>2 DEF Idle, Locals
    <3>4. call'[c].at \in {"idle", "pick"}
      <4>1. CASE Begin(c)
        BY <3>2, <4>1 DEF Begin, AimInv, Inv, TypeOK
      <4>2. CASE Finish(c) \/ Cancel(c) \/ Upsert(c)
        BY <3>3, <4>2 DEF Finish, Cancel, Upsert, AimInv, Inv, TypeOK
      <4> QED
        BY <2>3, <4>1, <4>2
    <3> QED
      BY <3>1, <3>4
  <2> QED
    BY <2>1, <2>2, <2>3 DEF RenameAsync
<1>4. \A d \in Call \ {c} : Current(d)' = Current(d)
  BY <1>1 DEF Current
<1> QED
  BY <1>1, <1>3, <1>4 DEF AimInv, Aimed

LEMMA AimStep == AimInv /\ [Next]_vars => AimInv'
<1> SUFFICES ASSUME AimInv, [Next]_vars PROVE AimInv'
  OBVIOUS
<1>1. Inv'
  BY StepInv DEF AimInv
<1>2. CASE call' = call
  BY <1>1, <1>2 DEF AimInv, Aimed, Current
<1>3. CASE \E c \in Call : Begin(c) \/ RenameAsync(c) \/ Cancel(c)
  BY <1>1, <1>3, AimOwn DEF AimInv
<1> QED
  BY <1>2, <1>3 DEF vars, Next, Store, Adopt, Supersede, Damage

\* Only the write of a row takes a call from its move back to its rows.
LEMMA RowWritten ==
  ASSUME AimInv, [Next]_vars, NEW c \in Call,
         call[c].at = "upsert", call'[c].at = "pick", row' # row
  PROVE  row'[call[c].op].dest = call[c].target
<1>1. call[c] \in Locals /\ call[c].op \in Op /\ call[c].list[call[c].op] \in Row
  BY DEF AimInv, Inv, TypeOK, Locals
<1>2. ASSUME NEW d \in Call, Begin(d) \/ RenameAsync(d) \/ Cancel(d)
      PROVE  d = c
  <2>1. \A e \in Call \ {d} : call'[e] = call[e]
    BY <1>2, OneCall DEF AimInv
  <2> QED
    BY <2>1
<1>3. Begin(c) \/ RenameAsync(c) \/ Cancel(c)
  <2>1. call' # call
    OBVIOUS
  <2> QED
    BY <1>2, <2>1 DEF vars, Next, Store, Adopt, Supersede, Damage
<1>4. Upsert(c)
  BY <1>3 DEF RenameAsync, Begin, Hash, Move, Finish, Cancel, Examine
<1>5. row' = [row EXCEPT ![call[c].op] = [call[c].list[call[c].op] EXCEPT !.dest = call[c].target]]
  BY <1>4 DEF Upsert
<1> QED
  BY <1>1, <1>5 DEF AimInv, Inv, TypeOK, Row

\* For any number of overlapping calls and any numbering: a call only ever gives
\* a file a name that comes before the one it listed.
THEOREM NamesStepForward == Spec => NamesSettle
<1>1. AimInv /\ [Next]_vars
        => [\A c \in Call : call[c].at = "upsert" /\ call'[c].at = "pick" /\ row' # row
              => Earlier(call[c].op, row'[call[c].op].dest, Current(c))]_vars
  <2> SUFFICES ASSUME AimInv, [Next]_vars, NEW c \in Call,
                      call[c].at = "upsert", call'[c].at = "pick", row' # row
               PROVE  Earlier(call[c].op, row'[call[c].op].dest, Current(c))
    OBVIOUS
  <2>1. Earlier(call[c].op, call[c].target, Current(c))
    BY DEF AimInv, Aimed
  <2> QED
    BY <2>1, RowWritten
<1> QED
  BY AimInit, AimStep, <1>1, PTL DEF Spec, NamesSettle
=============================================================================
