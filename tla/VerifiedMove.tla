---------------------------- MODULE VerifiedMove ----------------------------
(***************************************************************************)
(* What the safe file engine promises, seen from the shares alone.  A file *)
(* appears at a destination name all at once, under a free name and with   *)
(* the exact bytes of some source file; nothing at a destination is ever   *)
(* replaced or removed; and a source file goes away only while a           *)
(* destination holds the same bytes.                                       *)
(***************************************************************************)
CONSTANTS Media, Destination, Content, None

VARIABLES original,  \* [Media -> Content or None], the bytes each file came with
          source,    \* [Media -> Content or None], the source shares
          stored     \* [Destination -> Content or None], the destination shares

Init ==
  /\ original \in [Media -> Content \cup {None}]
  /\ source = original
  /\ stored = [d \in Destination |-> None]

Store(m, d) ==
  /\ original[m] # None
  /\ stored[d] = None
  /\ stored' = [stored EXCEPT ![d] = original[m]]
  /\ UNCHANGED <<original, source>>

Release(m) ==
  /\ source[m] # None
  /\ \E d \in Destination : stored[d] = source[m]
  /\ source' = [source EXCEPT ![m] = None]
  /\ UNCHANGED <<original, stored>>

Next == \E m \in Media : Release(m) \/ \E d \in Destination : Store(m, d)

Spec == Init /\ [][Next]_<<original, source, stored>>
=============================================================================
