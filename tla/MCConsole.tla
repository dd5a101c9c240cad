----------------------------- MODULE MCConsole -----------------------------
(* Two handlers under way at once, the first of them the first load.       *)
EXTENDS Console, TLC

CONSTANTS s1, s2
MCSlot == {s1, s2}
Symmetry == Permutations(MCSlot)
=============================================================================
