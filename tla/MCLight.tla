------------------------------ MODULE MCLight ------------------------------
(* Two notes; two edits let a note be saved again while its upload runs.    *)
EXTENDS Light
=============================================================================
