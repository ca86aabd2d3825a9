--------------------------- MODULE MCModuleGrants ---------------------------
(* Instances of ModuleGrants for TLC.                                      *)
EXTENDS ModuleGrants, TLC

Symmetry == Permutations(Workers) \cup Permutations(Admins)
=============================================================================
