------------------------------ MODULE Decision ------------------------------
(***************************************************************************)
(* The three-way decision every scope makes about a path                   *)
(* (client/src/reconcile.ts, decide): what is here, what both sides last   *)
(* agreed on, what the server has.                                         *)
(***************************************************************************)
CONSTANT NoNote  \* there is no file

Decide(here, agreed, there) ==
    CASE here = there                                  -> "inSync"
      [] here # NoNote /\ there = NoNote               ->
             IF agreed = NoNote THEN "push" ELSE IF agreed = here THEN "deleteLocal" ELSE "keepLocal"
      [] here = NoNote /\ there # NoNote               ->
             IF agreed = NoNote THEN "pull" ELSE IF agreed = there THEN "deleteRemote" ELSE "editWinsPull"
      [] OTHER                                         ->
             IF agreed = NoNote THEN "conflict"
             ELSE IF agreed = here THEN "pull" ELSE IF agreed = there THEN "push" ELSE "merge"
=============================================================================
