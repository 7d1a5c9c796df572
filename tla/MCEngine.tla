------------------------------ MODULE MCEngine ------------------------------
(* Instances of Engine for TLC. *)
EXTENDS Engine, TLC

CONSTANTS p1, p2

OnePath == {p1}
TwoPaths == {p1, p2}

Alike == Permutations(Paths)
=============================================================================
