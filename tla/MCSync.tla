------------------------------- MODULE MCSync -------------------------------
(* Instances of Sync for TLC: two devices that are alike, one or two notes. *)
EXTENDS Sync, TLC

CONSTANTS d1, d2, p1, p2

OnePath == {p1}
TwoPaths == {p1, p2}
TwoDevices == {d1, d2}

Alike == Permutations(Devices) \cup Permutations(Paths)
=============================================================================
