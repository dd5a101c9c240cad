---------------------- MODULE MCAutomationWakeSignal ----------------------
(* Instances of AutomationWakeSignal for TLC.                              *)
EXTENDS AutomationWakeSignal, TLC

Symmetry == Permutations(Writer) \cup Permutations(Share) \cup Permutations(File)
=============================================================================
