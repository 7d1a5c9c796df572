------------------------------ MODULE MCConfig ------------------------------
(* The instance: the code of one plugin, the data of another, and the list of
   enabled plugins. *)
EXTENDS Config

CONSTANTS code, data, list, P, R, none

MCFiles == {code, data, list}
MCOwner == [f \in MCFiles |-> IF f = code THEN P ELSE IF f = data THEN R ELSE none]
=============================================================================
