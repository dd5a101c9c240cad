------------------------- MODULE MCRoutedRename -------------------------
(* Two stored files whose names step aside for each other, a transfer of new *)
(* bytes and one of bytes that are stored already.                           *)
EXTENDS RoutedRename
CONSTANTS a, b, new, twin, A, B, N, c1, c2
MCContentOf == (a :> A) @@ (b :> B) @@ (new :> N) @@ (twin :> A)
MCCandidates == (a :> <<"p2", "p3">>) @@ (b :> <<"p4">>) @@ (new :> <<"p1", "p2">>) @@ (twin :> <<"p3">>)
MCStoredAt == (a :> "p1") @@ (b :> "p2")
=============================================================================
