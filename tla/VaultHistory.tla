---------------------------- MODULE VaultHistory ----------------------------
(***************************************************************************)
(* A vault together with what its devices may remember of it.  A device    *)
(* keeps the version the vault last reported and trusts `history_floor':   *)
(* a file it holds that is not listed and has no tombstone was deleted     *)
(* below the floor or never reached the server.  The two history variables *)
(* record the facts those beliefs are about, so that they can be compared  *)
(* with what the vault still says after crashes and rebuilds.              *)
(***************************************************************************)
EXTENDS Vault

VARIABLES
    seen,  \* the newest version any device can have been told
    gone   \* path -> version of the deletion that was the last change to it, or 0

historyVars == <<vars, seen, gone>>

\* changes() answers every device while the vault is ready.
Observed == IF state' = "Ok" /\ pc' = "idle" THEN MaxOf(seen, idxVersion') ELSE seen

\* A request that became durable in this step is the path's last change.
Recorded(p) ==
    CASE pc = "idle" /\ pc' = "hwm" /\ op'.path = p /\ op'.kind = "delete" -> version'
      [] pc = "idle" /\ pc' = "hwm" /\ op'.path = p /\ op'.kind = "commit" -> 0
      [] OTHER -> gone[p]

HistoryInit ==
    /\ Init
    /\ seen = 0
    /\ gone = NoTombs

HistoryNext ==
    /\ Next
    /\ seen' = Observed
    /\ gone' = [p \in Paths |-> Recorded(p)]

HistorySpec == HistoryInit /\ [][HistoryNext]_historyVars

-----------------------------------------------------------------------------

\* The version never drops below one a device has synced to, a quarantined index
\* included: write_version_hwm keeps it outside the index for that.
NoRewind == Serving => seen <= idxVersion

\* history_floor: above it deletion history is complete.  Every deletion newer than
\* the floor still has its tombstone, whatever rebuilds and prunes came between.
HistoryComplete ==
    Serving => \A p \in Paths : gone[p] > idxFloor /\ files[p] = NoRow
                                  => tombs[p] = gone[p]
=============================================================================
