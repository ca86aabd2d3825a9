----------------------------- MODULE MCIdiomCache -----------------------------
(* Instances of IdiomCache for TLC.                                          *)
EXTENDS IdiomCache, TLC

Symmetry == Permutations(Writers) \cup Permutations(Scanners)
=============================================================================
