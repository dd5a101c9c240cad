-------------------------- MODULE MCRuntimeSettings --------------------------
(* Two tabs, two overlapping requests, a deployment that starts in Dry Run.   *)
EXTENDS RuntimeSettings, TLC

CONSTANTS t1, t2, s1, s2, p1, r1, r2

MCTab == {t1, t2}
MCSlot == {s1, s2}
MCDefaults == [dryRun |-> TRUE, plain |-> p1, retention |-> r1]
Symmetric == Permutations(MCTab) \cup Permutations(MCSlot)
=============================================================================
