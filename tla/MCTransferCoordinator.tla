----------------------- MODULE MCTransferCoordinator -----------------------
(* Instances of TransferCoordinator for TLC.                               *)
EXTENDS TransferCoordinator, TLC

Symmetry == Permutations(Caller) \cup Permutations(Media) \cup Permutations(Gate)
=============================================================================
