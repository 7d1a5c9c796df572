------------------------------ MODULE MCSwitch ------------------------------
(* Instances of Switch for TLC: two vaults, two notes. *)
EXTENDS Switch, TLC

CONSTANTS A, B, p1, p2

TwoVaults == {A, B}
TwoPaths == {p1, p2}
OnePath == {p1}

=============================================================================
