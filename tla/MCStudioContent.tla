--------------------------- MODULE MCStudioContent ---------------------------
(* Instances of StudioContent for TLC.                                     *)
EXTENDS StudioContent, TLC

CONSTANTS u1, u2, i1, i2, i3

\* Two seeded issue types share a unit, the third has one of its own.
TwoUnits == i1 :> u1 @@ i2 :> u1 @@ i3 :> u2

Symmetry == Permutations(Workers)
=============================================================================
