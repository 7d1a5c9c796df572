------------------------------ MODULE MCMounts ------------------------------
(* Instances of Mounts for TLC: two files. *)
EXTENDS Mounts, TLC

CONSTANTS f1, f2, P, Q

TwoFiles == {f1, f2}
OnePoint == {P}
TwoPoints == {P, Q}

Alike == Permutations(Files)
=============================================================================
