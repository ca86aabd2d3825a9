------------------------- MODULE MCContractLifecycle -------------------------
(* Instances of ContractLifecycle for TLC.                                 *)
EXTENDS ContractLifecycle, TLC

Symmetry == Permutations(Runs) \cup Permutations(Deletes)
=============================================================================
