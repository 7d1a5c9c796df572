---------------------------- MODULE VaultPromise ----------------------------
(***************************************************************************)
(* What a vault promises the devices that sync with it as long as its      *)
(* index file survives: a durable map from paths to versioned contents     *)
(* whose listed files change only by a commit or a delete.  There is no    *)
(* crash, no mirror, no chunk store and no rebuild here; Vault is shown to *)
(* implement this with all of them.                                        *)
(***************************************************************************)
EXTENDS Integers

CONSTANTS Paths, Contents, NoContent

VARIABLES
    files,  \* path -> [content, version]
    tombs,  \* path -> version of the deletion, 0 for none
    top,    \* the version changes() reports
    floor   \* deletion history is complete from here on

promiseVars == <<files, tombs, top, floor>>

Absent == [content |-> NoContent, version |-> 0]

PromiseInit ==
    /\ files = [p \in Paths |-> Absent]
    /\ tombs = [p \in Paths |-> 0]
    /\ top = 1
    /\ floor = 1

\* A new version of p becomes the newest change of the vault.
Put(p, c) ==
    /\ files' = [files EXCEPT ![p] = [content |-> c, version |-> top + 1]]
    /\ tombs' = [tombs EXCEPT ![p] = 0]
    /\ top' = top + 1
    /\ UNCHANGED floor

Remove(p) ==
    /\ files[p] # Absent
    /\ files' = [files EXCEPT ![p] = Absent]
    /\ tombs' = [tombs EXCEPT ![p] = top + 1]
    /\ top' = top + 1
    /\ UNCHANGED floor

\* A rebuild may list files found on the host's disk under names that were neither
\* listed nor deleted, as new changes.  It alters nothing that is listed and
\* revives nothing that was deleted.
Ingest ==
    /\ \A p \in Paths :
        \/ files'[p] = files[p]
        \/ /\ files[p] = Absent
           /\ tombs[p] = 0
           /\ files'[p].version > top
           /\ files'[p].version <= top'
    /\ UNCHANGED <<tombs, floor>>

\* The floor moves up only where there is no deletion to forget.
Rebase ==
    /\ \A p \in Paths : tombs[p] = 0
    /\ floor' = top
    /\ UNCHANGED <<files, tombs, top>>

PromiseNext ==
    \/ \E p \in Paths, c \in Contents : Put(p, c)
    \/ \E p \in Paths : Remove(p)
    \/ Ingest
    \/ Rebase

PromiseSpec == PromiseInit /\ [][PromiseNext]_promiseVars
=============================================================================
