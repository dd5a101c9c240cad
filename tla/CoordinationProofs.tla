-------------------------- MODULE CoordinationProofs --------------------------
(***************************************************************************)
(* The two primitives by which concurrent callers meet the transfers.      *)
(*                                                                         *)
(* For any number of writers, shares, paths and events: no wake-up of the  *)
(* routing worker is lost and no request is discarded.                     *)
(*                                                                         *)
(* For any number of callers, media files and gates: a permit is neither   *)
(* lost nor doubled, and no caller waits at a gate whose permit is free.   *)
(***************************************************************************)
EXTENDS AutomationWakeSignal, TransferCoordinator, TLAPS

-----------------------------------------------------------------------------
(* AutomationWakeSignal                                                    *)

\* The state variables keep their types.
THEOREM WakeTyping == WakeSpec => []WakeTypeOK
<1>1. WakeInit => WakeTypeOK
  BY DEF WakeInit, WakeTypeOK, Ask
<1>2. WakeTypeOK /\ [WakeNext]_wakeVars => WakeTypeOK'
  <2> SUFFICES ASSUME WakeTypeOK, [WakeNext]_wakeVars PROVE WakeTypeOK'
    OBVIOUS
  <2> USE DEF WakeTypeOK
  <2>1. ASSUME NEW w \in Writer, Wake(w) PROVE WakeTypeOK'
    BY <2>1 DEF Wake, Ask
  <2>2. ASSUME NEW w \in Writer, NEW e \in Event, WakeForBackfill(w, e) PROVE WakeTypeOK'
    BY <2>2 DEF WakeForBackfill, Ask
  <2>3. ASSUME NEW w \in Writer, NEW s \in Share, NEW f \in File, WakeForPath(w, s, f)
        PROVE WakeTypeOK'
    <3>1. [kind |-> "path", share |-> s, file |-> f] \in Ask
      BY DEF Ask
    <3>2. owed' \subseteq Ask
      BY <2>3, <3>1 DEF WakeForPath
    <3>3. paths' \in [Share -> SUBSET File] /\ fullRequested' \in BOOLEAN
      BY <2>3 DEF WakeForPath
    <3>4. signalling' \subseteq Writer /\ UNCHANGED <<backfills, token, reader>>
      BY <2>3 DEF WakeForPath
    <3> QED
      BY <3>2, <3>3, <3>4
  <2>4. ASSUME NEW w \in Writer, TryWrite(w) PROVE WakeTypeOK'
    BY <2>4 DEF TryWrite, pending
  <2>5. CASE Read
    BY <2>5 DEF Read, ReadToken, Drain, DrainEnd, Take, pending
  <2>6. CASE Timeout
    BY <2>6 DEF Timeout, pending
  <2>7. CASE UNCHANGED wakeVars
    BY <2>7 DEF wakeVars, pending
  <2> QED
    BY <2>1, <2>2, <2>3, <2>4, <2>5, <2>6, <2>7 DEF WakeNext, Write
<1> QED
  BY <1>1, <1>2, PTL DEF WakeSpec

\* Pending work is always announced: in the channel, by a writer about to write
\* it, or by a reader about to take the work (WaitAsync never sleeps on it).
THEOREM NoLostWakeup == WakeSpec => []WorkAnnounced
<1> USE DEF WorkAnnounced, HasWork
<1>1. WakeInit => WorkAnnounced
  BY DEF WakeInit
<1>2. WakeTypeOK /\ WorkAnnounced /\ [WakeNext]_wakeVars => WorkAnnounced'
  <2> SUFFICES ASSUME WakeTypeOK, WorkAnnounced, [WakeNext]_wakeVars PROVE WorkAnnounced'
    OBVIOUS
  <2>1. ASSUME NEW w \in Writer, Write(w) PROVE WorkAnnounced'
    BY <2>1 DEF Write, Wake, WakeForBackfill, WakeForPath
  <2>2. ASSUME NEW w \in Writer, TryWrite(w) PROVE WorkAnnounced'
    BY <2>2 DEF TryWrite, pending
  <2>3. CASE ReadToken \/ Drain \/ DrainEnd \/ Timeout
    BY <2>3 DEF ReadToken, Drain, DrainEnd, Timeout, pending
  <2>4. CASE Take
    BY <2>4 DEF Take
  <2>5. CASE UNCHANGED wakeVars
    BY <2>5 DEF wakeVars, pending
  <2> QED
    BY <2>1, <2>2, <2>3, <2>4, <2>5 DEF WakeNext, Read
<1> QED
  BY <1>1, <1>2, WakeTyping, PTL DEF WakeSpec

\* A coalesced wake never discards a changed path, an event or a full walk: what
\* no request has covered yet is still pending when the next one is taken.
THEOREM NoRequestDiscarded == WakeSpec => []NothingDiscarded
<1> USE DEF NothingDiscarded, CoversAsk
<1>1. WakeInit => NothingDiscarded
  BY DEF WakeInit
<1>2. WakeTypeOK /\ NothingDiscarded /\ [WakeNext]_wakeVars => NothingDiscarded'
  <2> SUFFICES ASSUME WakeTypeOK, NothingDiscarded, [WakeNext]_wakeVars,
                      NEW a \in owed'
               PROVE  CoversAsk(a)'
    OBVIOUS
  <2> USE DEF WakeTypeOK
  <2>1. ASSUME NEW w \in Writer, Wake(w) PROVE CoversAsk(a)'
    BY <2>1 DEF Wake
  <2>2. ASSUME NEW w \in Writer, NEW e \in Event, WakeForBackfill(w, e)
        PROVE  CoversAsk(a)'
    BY <2>2 DEF WakeForBackfill
  <2>3. ASSUME NEW w \in Writer, NEW s \in Share, NEW f \in File, WakeForPath(w, s, f)
        PROVE  CoversAsk(a)'
    <3>1. CASE a = [kind |-> "path", share |-> s, file |-> f]
      BY <2>3, <3>1 DEF WakeForPath
    <3>2. CASE a \in owed
      <4>1. CoversAsk(a) /\ a \in Ask
        BY <3>2
      <4>2. a.kind = "path" => a.share \in Share
        BY <4>1 DEF Ask
      <4> QED
        BY <2>3, <4>1, <4>2 DEF WakeForPath
    <3> QED
      BY <2>3, <3>1, <3>2 DEF WakeForPath
  <2>4. ASSUME NEW w \in Writer, TryWrite(w) PROVE CoversAsk(a)'
    BY <2>4 DEF TryWrite, pending
  <2>5. CASE ReadToken \/ Drain \/ DrainEnd \/ Timeout
    BY <2>5 DEF ReadToken, Drain, DrainEnd, Timeout, pending
  <2>6. CASE Take
    <3>1. a \in owed /\ ~CoversAsk(a)
      BY <2>6 DEF Take
    <3> QED
      BY <3>1
  <2>7. CASE UNCHANGED wakeVars
    BY <2>7 DEF wakeVars, pending
  <2> QED
    BY <2>1, <2>2, <2>3, <2>4, <2>5, <2>6, <2>7 DEF WakeNext, Read, Write
<1> QED
  BY <1>1, <1>2, WakeTyping, PTL DEF WakeSpec

-----------------------------------------------------------------------------
(* TransferCoordinator                                                     *)

\* A call in progress has its gate.
HasGate == \A c \in Caller : pc[c] # "idle" => gate[c] \in Gate

\* The inductive invariant: that a permit stays in 0..1 rests on OnePermit, and
\* that the head of a queue may be given it on QueueWaits.
PermitInv == TypeOK /\ HasGate /\ OnePermit /\ QueueWaits

\* The queue without a caller: still a queue, of callers that were in it.
LEMMA WithoutQueue ==
  ASSUME NEW q \in Seq(Caller), NEW c \in Caller,
         \A i, j \in DOMAIN q : q[i] = q[j] => i = j
  PROVE  /\ Without(q, c) \in Seq(Caller)
         /\ Without(q, c) # <<>> => q # <<>>
         /\ \A i \in DOMAIN Without(q, c) :
              Without(q, c)[i] # c /\ \E k \in DOMAIN q : Without(q, c)[i] = q[k]
         /\ \A i, j \in DOMAIN Without(q, c) :
              Without(q, c)[i] = Without(q, c)[j] => i = j
<1>1. CASE \A i \in DOMAIN q : q[i] # c
  BY <1>1 DEF Without
<1>2. ASSUME NEW n \in DOMAIN q, q[n] = c
      PROVE  /\ Without(q, c) \in Seq(Caller)
             /\ Without(q, c) # <<>> => q # <<>>
             /\ \A i \in DOMAIN Without(q, c) :
                  Without(q, c)[i] # c /\ \E k \in DOMAIN q : Without(q, c)[i] = q[k]
             /\ \A i, j \in DOMAIN Without(q, c) :
                  Without(q, c)[i] = Without(q, c)[j] => i = j
  <2> DEFINE i0 == CHOOSE k \in DOMAIN q : q[k] = c
             r  == [k \in 1..(Len(q) - 1) |-> IF k < i0 THEN q[k] ELSE q[k + 1]]
  <2>1. Without(q, c) = r
    BY <1>2 DEF Without
  <2>2. i0 \in DOMAIN q /\ q[i0] = c
    BY <1>2
  <2> HIDE DEF i0
  <2>3. /\ Len(q) \in Nat /\ DOMAIN q = 1..Len(q) /\ i0 \in 1..Len(q)
        /\ DOMAIN r = 1..(Len(q) - 1)
    BY <2>2
  <2>4. \A k \in DOMAIN r :
          LET s == IF k < i0 THEN k ELSE k + 1
          IN  s \in DOMAIN q /\ s # i0 /\ r[k] = q[s]
    BY <2>3
  <2>5. r \in Seq(Caller)
    <3>1. \A k \in 1..(Len(q) - 1) : r[k] \in Caller
      BY <2>3, <2>4
    <3>2. Len(q) - 1 \in Nat
      BY <2>3
    <3> QED
      BY <3>1, <3>2
  <2>6. \A k \in DOMAIN r : r[k] # c /\ \E l \in DOMAIN q : r[k] = q[l]
    BY <2>2, <2>4
  <2>7. ASSUME NEW i \in DOMAIN r, NEW j \in DOMAIN r, r[i] = r[j] PROVE i = j
    <3> DEFINE si == IF i < i0 THEN i ELSE i + 1
               sj == IF j < i0 THEN j ELSE j + 1
    <3>1. si = sj
      BY <2>4, <2>7
    <3> QED
      BY <3>1, <2>3
  <2> HIDE DEF r
  <2> QED
    BY <2>1, <2>5, <2>6, <2>7, <2>3
<1> QED
  BY <1>1, <1>2

\* A step that only moves one call on, outside the hand-over of a permit.
LEMMA LocalStep ==
  ASSUME PermitInv, NEW c \in Caller, NEW next \in CallerPc,
         pc[c] \notin {"idle", "waiting"}, next # "idle",
         pc[c] \in Holding <=> next \in Holding,
         Step(c, next)
  PROVE  PermitInv'
<1> USE DEF PermitInv, Step
<1>1. TypeOK'
  BY DEF TypeOK
<1>2. HasGate'
  BY DEF TypeOK, HasGate
<1>3. \A d \in Caller : pc'[d] \in Holding <=> pc[d] \in Holding
  BY DEF TypeOK
<1>4. OnePermit'
  BY <1>3 DEF TypeOK, OnePermit
<1>5. QueueWaits'
  BY DEF TypeOK, QueueWaits
<1> QED
  BY <1>1, <1>2, <1>4, <1>5

\* A call without a permit that leaves, and is in no queue afterwards.
LEMMA LeaveStep ==
  ASSUME PermitInv, NEW c \in Caller,
         pc[c] \notin Holding \cup {"waiting"},
         Leave(c), UNCHANGED <<permits, queue>>,
         mediaLocks' \in [Media -> Gate \cup {None}]
  PROVE  PermitInv'
<1> USE DEF PermitInv, Leave
<1>1. TypeOK'
  BY DEF TypeOK, CallerPc
<1>2. HasGate'
  BY DEF TypeOK, HasGate
<1>3. \A d \in Caller : pc'[d] \in Holding <=> pc[d] \in Holding
  BY DEF TypeOK, Holding
<1>4. \A d \in Caller : pc[d] \in Holding => gate'[d] = gate[d]
  BY DEF TypeOK, Holding
<1>5. OnePermit'
  BY <1>3, <1>4 DEF TypeOK, OnePermit
<1>6. QueueWaits'
  BY DEF TypeOK, QueueWaits
<1> QED
  BY <1>1, <1>2, <1>5, <1>6

\* A call fetches a gate, known or new.
LEMMA GetOrAddStep ==
  ASSUME PermitInv, NEW c \in Caller, NEW m \in Media, GetOrAdd(c, m)
  PROVE  PermitInv'
<1> USE DEF PermitInv, GetOrAdd
<1>1. gate'[c] \in Gate /\ gate' = [gate EXCEPT ![c] = gate'[c]]
  BY DEF TypeOK
<1>2. TypeOK'
  BY <1>1 DEF TypeOK, CallerPc
<1>3. HasGate'
  BY <1>1 DEF TypeOK, HasGate
<1>4. \A d \in Caller : /\ pc'[d] \in Holding <=> pc[d] \in Holding
                        /\ pc[d] \in Holding => gate'[d] = gate[d]
  BY <1>1 DEF TypeOK, Holding
<1>5. OnePermit'
  BY <1>4 DEF TypeOK, OnePermit
<1>6. QueueWaits'
  BY <1>1 DEF TypeOK, QueueWaits
<1> QED
  BY <1>2, <1>3, <1>5, <1>6

\* A call takes the free permit, or joins the queue.
LEMMA WaitStep ==
  ASSUME PermitInv, NEW c \in Caller, Wait(c)
  PROVE  PermitInv'
<1> DEFINE g == gate[c]
<1>1. g \in Gate /\ pc[c] = "fetched" /\ UNCHANGED <<mediaLocks, media, gate>>
  BY DEF Wait, PermitInv, HasGate
<1>2. CASE permits[g] > 0
  <2>1. /\ permits[g] = 1
        /\ permits' = [permits EXCEPT ![g] = 0]
        /\ pc' = [pc EXCEPT ![c] = "check"] /\ UNCHANGED queue
    BY <1>1, <1>2 DEF Wait, PermitInv, TypeOK
  <2>2. queue[g] = <<>>
    BY <2>1, <1>1 DEF PermitInv, QueueWaits
  <2>3. \A d \in Caller : gate[d] = g => pc[d] \notin Holding
    BY <2>1, <1>1 DEF PermitInv, OnePermit
  <2>4. TypeOK' /\ HasGate'
    BY <1>1, <2>1 DEF PermitInv, TypeOK, HasGate, CallerPc
  <2>5. OnePermit'
    BY <1>1, <2>1, <2>3 DEF PermitInv, TypeOK, OnePermit, Holding
  <2>6. QueueWaits'
    BY <1>1, <2>1, <2>2 DEF PermitInv, TypeOK, QueueWaits
  <2> QED
    BY <2>4, <2>5, <2>6 DEF PermitInv
<1>3. CASE permits[g] = 0
  <2>1. /\ queue' = [queue EXCEPT ![g] = Append(queue[g], c)]
        /\ pc' = [pc EXCEPT ![c] = "waiting"] /\ UNCHANGED permits
    BY <1>1, <1>3 DEF Wait
  <2>2. queue[g] \in Seq(Caller) /\ Append(queue[g], c) \in Seq(Caller)
    BY <1>1 DEF PermitInv, TypeOK
  <2>3. TypeOK' /\ HasGate'
    BY <1>1, <2>1, <2>2 DEF PermitInv, TypeOK, HasGate, CallerPc
  <2>4. OnePermit'
    <3>1. \A d \in Caller : pc'[d] \in Holding <=> pc[d] \in Holding
      BY <1>1, <2>1 DEF PermitInv, TypeOK, Holding
    <3>2. permits' = permits /\ gate' = gate
      BY <1>1, <2>1
    <3> QED
      BY <3>1, <3>2 DEF PermitInv, OnePermit
  <2>5. ASSUME NEW h \in Gate
        PROVE  /\ queue'[h] # <<>> => permits'[h] = 0
               /\ \A i, j \in DOMAIN queue'[h] :
                    /\ pc'[queue'[h][i]] = "waiting" /\ gate'[queue'[h][i]] = h
                    /\ queue'[h][i] = queue'[h][j] => i = j
    <3>1. CASE h = g
      <4>1. \A i \in DOMAIN queue[g] : queue[g][i] \in Caller /\ queue[g][i] # c
        BY <1>1, <2>2 DEF PermitInv, QueueWaits
      <4>2. DOMAIN queue'[g] = 1..(Len(queue[g]) + 1) /\ DOMAIN queue[g] = 1..Len(queue[g])
            /\ Len(queue[g]) \in Nat
        BY <1>1, <2>1, <2>2 DEF PermitInv, TypeOK
      <4>3. \A i \in DOMAIN queue'[g] :
              queue'[g][i] = IF i = Len(queue[g]) + 1 THEN c ELSE queue[g][i]
        BY <1>1, <2>1, <2>2, <4>2 DEF PermitInv, TypeOK
      <4>4. \A i \in DOMAIN queue'[g] : pc'[queue'[g][i]] = "waiting" /\ gate'[queue'[g][i]] = g
        <5>1. \A i \in DOMAIN queue[g] : pc[queue[g][i]] = "waiting" /\ gate[queue[g][i]] = g
          BY <1>1 DEF PermitInv, QueueWaits
        <5>2. /\ \A d \in Caller : pc'[d] = IF d = c THEN "waiting" ELSE pc[d]
              /\ gate' = gate
          BY <1>1, <2>1 DEF PermitInv, TypeOK
        <5> TAKE i \in DOMAIN queue'[g]
        <5>3. CASE i = Len(queue[g]) + 1
          BY <5>2, <5>3, <4>3
        <5>4. CASE i # Len(queue[g]) + 1
          <6>1. i \in DOMAIN queue[g]
            BY <5>4, <4>2
          <6> QED
            BY <5>1, <5>2, <5>4, <6>1, <4>1, <4>3
        <5> QED
          BY <5>3, <5>4
      <4>5. \A i, j \in DOMAIN queue'[g] : queue'[g][i] = queue'[g][j] => i = j
        BY <1>1, <4>1, <4>2, <4>3 DEF PermitInv, QueueWaits
      <4> QED
        BY <1>3, <2>1, <3>1, <4>4, <4>5
    <3>2. CASE h # g
      BY <1>1, <2>1, <3>2 DEF PermitInv, TypeOK, QueueWaits
    <3> QED
      BY <3>1, <3>2
  <2>6. QueueWaits'
    BY <2>5 DEF QueueWaits
  <2> QED
    BY <2>3, <2>4, <2>6 DEF PermitInv
<1> QED
  BY <1>1, <1>2, <1>3 DEF PermitInv, TypeOK

\* A call gives up: it is taken out of the queue and holds no permit.
LEMMA CancelStep ==
  ASSUME PermitInv, NEW c \in Caller, Cancel(c)
  PROVE  PermitInv'
<1> DEFINE g == gate[c]
           q == queue[g]
<1>1. /\ g \in Gate /\ pc[c] \in {"fetched", "waiting"}
      /\ queue' = [queue EXCEPT ![g] = Without(q, c)]
      /\ pc' = [pc EXCEPT ![c] = "idle"]
      /\ media' = [media EXCEPT ![c] = None]
      /\ gate' = [gate EXCEPT ![c] = None]
      /\ UNCHANGED <<mediaLocks, permits>>
  BY DEF Cancel, Leave, PermitInv, HasGate
<1>2. q \in Seq(Caller) /\ \A i, j \in DOMAIN q : q[i] = q[j] => i = j
  BY <1>1 DEF PermitInv, TypeOK, QueueWaits
<1>3. /\ Without(q, c) \in Seq(Caller)
      /\ Without(q, c) # <<>> => q # <<>>
      /\ \A i \in DOMAIN Without(q, c) :
           Without(q, c)[i] # c /\ \E k \in DOMAIN q : Without(q, c)[i] = q[k]
      /\ \A i, j \in DOMAIN Without(q, c) :
           Without(q, c)[i] = Without(q, c)[j] => i = j
  BY <1>2, WithoutQueue
<1>4. TypeOK' /\ HasGate'
  BY <1>1, <1>3 DEF PermitInv, TypeOK, HasGate, CallerPc
<1>5. OnePermit'
  <2>1. \A d \in Caller : pc'[d] \in Holding <=> pc[d] \in Holding
    BY <1>1 DEF PermitInv, TypeOK, Holding
  <2>2. \A d \in Caller : pc[d] \in Holding => gate'[d] = gate[d]
    BY <1>1 DEF PermitInv, TypeOK, Holding
  <2>3. permits' = permits
    BY <1>1
  <2> QED
    BY <2>1, <2>2, <2>3 DEF PermitInv, OnePermit
<1>6. ASSUME NEW h \in Gate
      PROVE  /\ queue'[h] # <<>> => permits'[h] = 0
             /\ \A i, j \in DOMAIN queue'[h] :
                  /\ pc'[queue'[h][i]] = "waiting" /\ gate'[queue'[h][i]] = h
                  /\ queue'[h][i] = queue'[h][j] => i = j
  <2>1. CASE h = g
    <3>1. queue'[h] = Without(q, c)
      BY <1>1, <2>1 DEF PermitInv, TypeOK
    <3>2. \A k \in DOMAIN q : q[k] \in Caller /\ pc[q[k]] = "waiting" /\ gate[q[k]] = g
      BY <1>1, <1>2 DEF PermitInv, QueueWaits
    <3>3. \A i \in DOMAIN queue'[h] :
            pc'[queue'[h][i]] = "waiting" /\ gate'[queue'[h][i]] = h
      <4> TAKE i \in DOMAIN queue'[h]
      <4>1. PICK k \in DOMAIN q : queue'[h][i] = q[k] /\ q[k] # c
        BY <1>3, <3>1
      <4> QED
        BY <1>1, <2>1, <3>2, <4>1 DEF PermitInv, TypeOK
    <3>4. \A i, j \in DOMAIN queue'[h] : queue'[h][i] = queue'[h][j] => i = j
      BY <1>3, <3>1
    <3>5. queue'[h] # <<>> => permits'[h] = 0
      BY <1>1, <1>3, <2>1, <3>1 DEF PermitInv, QueueWaits
    <3> QED
      BY <3>3, <3>4, <3>5
  <2>2. CASE h # g
    BY <1>1, <2>2 DEF PermitInv, TypeOK, QueueWaits
  <2> QED
    BY <2>1, <2>2
<1>7. QueueWaits'
  BY <1>6 DEF QueueWaits
<1> QED
  BY <1>4, <1>5, <1>7 DEF PermitInv

\* A call gives its permit to the head of the queue, or back to the gate.
LEMMA ReleaseStep ==
  ASSUME PermitInv, NEW c \in Caller, Release(c)
  PROVE  PermitInv'
<1> DEFINE g == gate[c]
           q == queue[g]
<1>1. /\ g \in Gate /\ pc[c] = "release" /\ pc[c] \in Holding
      /\ UNCHANGED <<mediaLocks, media, gate>>
  BY DEF Release, PermitInv, HasGate, Holding
<1>2. permits[g] = 0 /\ \A d \in Caller : gate[d] = g /\ pc[d] \in Holding => d = c
  BY <1>1 DEF PermitInv, TypeOK, OnePermit
<1>3. q \in Seq(Caller)
  BY <1>1 DEF PermitInv, TypeOK
<1>4. CASE q # <<>>
  <2> DEFINE h == Head(q)
  <2>1. /\ pc' = [pc EXCEPT ![c] = "released", ![h] = "check"]
        /\ queue' = [queue EXCEPT ![g] = Tail(q)] /\ UNCHANGED permits
    BY <1>4 DEF Release
  <2>2. /\ h = q[1] /\ h \in Caller /\ 1 \in DOMAIN q /\ Tail(q) \in Seq(Caller)
        /\ DOMAIN Tail(q) = 1..(Len(q) - 1) /\ DOMAIN q = 1..Len(q)
        /\ Len(q) \in Nat
        /\ \A i \in DOMAIN Tail(q) : Tail(q)[i] = q[i + 1] /\ i + 1 \in DOMAIN q
    BY <1>3, <1>4
  <2>3. h # c /\ pc[h] = "waiting" /\ gate[h] = g
    BY <1>1, <2>2 DEF PermitInv, QueueWaits
  <2>4. TypeOK' /\ HasGate'
    BY <1>1, <2>1, <2>2, <2>3 DEF PermitInv, TypeOK, HasGate, CallerPc
  <2>5. \A d \in Caller : pc'[d] \in Holding <=> d = h \/ (d # c /\ pc[d] \in Holding)
    BY <1>1, <2>1, <2>3, <2>4 DEF PermitInv, TypeOK, Holding
  <2>6. OnePermit'
    <3>1. ASSUME NEW k \in Gate
          PROVE  /\ permits[k] = 1 <=> \A d \in Caller : gate[d] = k => pc'[d] \notin Holding
                 /\ \A d, e \in Caller :
                      gate[d] = k /\ gate[e] = k /\ {pc'[d], pc'[e]} \subseteq Holding => d = e
      <4>1. CASE k = g
        BY <1>2, <2>2, <2>3, <2>5, <4>1
      <4>2. CASE k # g
        BY <1>1, <2>3, <2>5, <4>2 DEF PermitInv, OnePermit
      <4> QED
        BY <4>1, <4>2
    <3>2. permits' = permits /\ gate' = gate
      BY <1>1, <2>1
    <3> QED
      BY <3>1, <3>2 DEF OnePermit
  <2>7. ASSUME NEW k \in Gate
        PROVE  /\ queue'[k] # <<>> => permits'[k] = 0
               /\ \A i, j \in DOMAIN queue'[k] :
                    /\ pc'[queue'[k][i]] = "waiting" /\ gate'[queue'[k][i]] = k
                    /\ queue'[k][i] = queue'[k][j] => i = j
    <3>1. CASE k = g
      <4>1. queue'[k] = Tail(q)
        BY <1>1, <2>1, <3>1 DEF PermitInv, TypeOK
      <4>2. \A i \in DOMAIN Tail(q) : /\ Tail(q)[i] \in Caller \ {c, h}
                                     /\ pc[Tail(q)[i]] = "waiting" /\ gate[Tail(q)[i]] = g
        BY <1>1, <1>3, <2>2 DEF PermitInv, QueueWaits
      <4>3. \A i \in DOMAIN Tail(q) : pc'[Tail(q)[i]] = "waiting"
        BY <2>1, <4>2 DEF PermitInv, TypeOK
      <4>4. \A i, j \in DOMAIN Tail(q) : Tail(q)[i] = Tail(q)[j] => i = j
        BY <1>1, <2>2 DEF PermitInv, QueueWaits
      <4>5. permits'[k] = 0 /\ gate' = gate
        BY <1>1, <1>2, <2>1, <3>1
      <4> HIDE DEF g, q
      <4> QED
        BY <3>1, <4>1, <4>2, <4>3, <4>4, <4>5
    <3>2. CASE k # g
      <4>1. queue'[k] = queue[k] /\ queue[k] \in Seq(Caller)
        BY <2>1, <3>2 DEF PermitInv, TypeOK
      <4>2. \A i \in DOMAIN queue[k] : queue[k][i] \notin {c, h}
        BY <1>1, <2>3, <3>2 DEF PermitInv, QueueWaits
      <4>3. \A i \in DOMAIN queue[k] : pc'[queue[k][i]] = "waiting"
        BY <2>1, <4>1, <4>2 DEF PermitInv, TypeOK, QueueWaits
      <4>4. permits' = permits /\ gate' = gate
        BY <1>1, <2>1
      <4> QED
        BY <4>1, <4>3, <4>4 DEF PermitInv, QueueWaits
    <3> QED
      BY <3>1, <3>2
  <2>8. QueueWaits'
    BY <2>7 DEF QueueWaits
  <2> QED
    BY <2>4, <2>6, <2>8 DEF PermitInv
<1>5. CASE q = <<>>
  <2>1. /\ permits' = [permits EXCEPT ![g] = 1]
        /\ pc' = [pc EXCEPT ![c] = "released"] /\ UNCHANGED queue
    BY <1>2, <1>5 DEF Release
  <2>2. TypeOK' /\ HasGate'
    BY <1>1, <2>1 DEF PermitInv, TypeOK, HasGate, CallerPc
  <2>3. \A d \in Caller : pc'[d] \in Holding <=> d # c /\ pc[d] \in Holding
    BY <2>1 DEF PermitInv, TypeOK, Holding
  <2>4. OnePermit'
    <3>1. ASSUME NEW k \in Gate
          PROVE  /\ permits'[k] = 1 <=> \A d \in Caller : gate[d] = k => pc'[d] \notin Holding
                 /\ \A d, e \in Caller :
                      gate[d] = k /\ gate[e] = k /\ {pc'[d], pc'[e]} \subseteq Holding => d = e
      <4>1. CASE k = g
        BY <1>1, <1>2, <2>1, <2>3, <4>1 DEF PermitInv, TypeOK
      <4>2. CASE k # g
        BY <1>1, <2>1, <2>3, <4>2 DEF PermitInv, TypeOK, OnePermit
      <4> QED
        BY <4>1, <4>2
    <3> QED
      BY <1>1, <3>1 DEF OnePermit
  <2>5. QueueWaits'
    BY <1>1, <1>5, <2>1 DEF PermitInv, TypeOK, QueueWaits
  <2> QED
    BY <2>2, <2>4, <2>5 DEF PermitInv
<1> QED
  BY <1>4, <1>5

\* The permits and the queues of all gates stay as they should.
THEOREM PermitsKept == Spec => []PermitInv
<1>1. Init => PermitInv
  BY DEF Init, PermitInv, TypeOK, HasGate, OnePermit, QueueWaits, CallerPc, Holding
<1>2. PermitInv /\ [Next]_vars => PermitInv'
  <2> SUFFICES ASSUME PermitInv, [Next]_vars PROVE PermitInv'
    OBVIOUS
  <2>1. ASSUME NEW c \in Caller, NEW m \in Media, GetOrAdd(c, m) PROVE PermitInv'
    BY <2>1, GetOrAddStep
  <2>2. ASSUME NEW c \in Caller, Wait(c) PROVE PermitInv'
    BY <2>2, WaitStep
  <2>3. ASSUME NEW c \in Caller, CheckIncomplete(c) \/ Insert(c) \/ EndTransfer(c)
        PROVE  PermitInv'
    <3>1. PICK next \in {"admitted", "running", "release"} :
            Step(c, next) /\ pc[c] \in {"check", "admitted", "running"}
      BY <2>3 DEF CheckIncomplete, Insert, EndTransfer
    <3> QED
      BY <3>1, LocalStep DEF CallerPc, Holding
  <2>4. ASSUME NEW c \in Caller, Release(c) PROVE PermitInv'
    BY <2>4, ReleaseStep
  <2>5. ASSUME NEW c \in Caller, CheckCount(c) PROVE PermitInv'
    <3>1. CASE Step(c, "remove")
      BY <2>5, <3>1, LocalStep DEF CheckCount, CallerPc, Holding
    <3>2. CASE Leave(c) /\ UNCHANGED <<mediaLocks, permits, queue>>
      BY <2>5, <3>2, LeaveStep DEF CheckCount, Holding, PermitInv, TypeOK
    <3> QED
      BY <2>5, <3>1, <3>2 DEF CheckCount
  <2>6. ASSUME NEW c \in Caller, TryRemove(c) PROVE PermitInv'
    <3>1. mediaLocks' \in [Media -> Gate \cup {None}]
      BY <2>6 DEF TryRemove, PermitInv, TypeOK
    <3> QED
      BY <2>6, <3>1, LeaveStep DEF TryRemove, Holding
  <2>7. ASSUME NEW c \in Caller, Cancel(c) PROVE PermitInv'
    BY <2>7, CancelStep
  <2>8. CASE UNCHANGED vars
    BY <2>8 DEF vars, PermitInv, TypeOK, HasGate, OnePermit, QueueWaits
  <2> QED
    BY <2>1, <2>2, <2>3, <2>4, <2>5, <2>6, <2>7, <2>8 DEF Next, Call
<1> QED
  BY <1>1, <1>2, PTL DEF Spec

\* The gates, the dictionary, the queues and the calls keep their types.
THEOREM Typing == Spec => []TypeOK
<1>1. PermitInv => TypeOK
  BY DEF PermitInv
<1> QED
  BY <1>1, PermitsKept, PTL

\* The permit of a gate is at the gate or with exactly one call of
\* ExecuteOnceAsync, whatever is cancelled, refused or thrown.
THEOREM PermitIsOne == Spec => []OnePermit
<1>1. PermitInv => OnePermit
  BY DEF PermitInv
<1> QED
  BY <1>1, PermitsKept, PTL

\* Nobody is queued at a gate that is free, and Release never hands the permit
\* to a call that has given up.
THEOREM QueueIsOfWaiters == Spec => []QueueWaits
<1>1. PermitInv => QueueWaits
  BY DEF PermitInv
<1> QED
  BY <1>1, PermitsKept, PTL
=============================================================================
