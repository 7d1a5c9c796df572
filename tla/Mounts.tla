------------------------------ MODULE Mounts ------------------------------
(***************************************************************************)
(* Composed vaults: a folder of a source vault mounted into the vault of a *)
(* device (client/src/mountsync.ts, mountengine.ts, mountfsm.ts, mountio.ts*)
(* and their callers in main.ts), next to the primary scope the folder     *)
(* belongs to while no mount claims it.                                    *)
(*                                                                         *)
(* A note is the set of the edits in it.  One file of a pass is one step   *)
(* (Sync splits it at its calls); the pass itself is split at its guard,   *)
(* its listing and its files.  The source's own peers write to it at any   *)
(* time.                                                                   *)
(***************************************************************************)
EXTENDS Naturals, FiniteSets, FiniteSetsExt

CONSTANTS
    Files, Points,
    Kinds,        \* whose source: "own" or "shared"
    BulkMin,      \* BULK_DELETE_MIN
    PushFloor,    \* SHARED_PUSH_FLOOR
    MaxFails,     \* MAX_MOUNT_FAILS
    MaxRetries,   \* MAX_PULL_RETRIES
    RacyMoves,    \* the awkward moments at which the user or a peer may act
    FaultKinds,
    MaxFaults,    \* bound: how many faults
    MaxEdits,     \* bound: how many edits, of the user and of peers
    MaxDeletes,   \* bound: how many deletions, of the user and of peers
    MaxMoves,     \* bound: how many commands on the mount but adding it, and answers
    MaxEvents     \* bound: how many of all of these

ASSUME MountsAssumption ==
    /\ IsFiniteSet(Files) /\ Points # {}
    /\ Kinds \subseteq {"own", "shared"}
    /\ {BulkMin, PushFloor, MaxFails, MaxRetries, MaxFaults, MaxEdits, MaxDeletes, MaxMoves, MaxEvents} \subseteq Nat
    /\ BulkMin # 0
    /\ RacyMoves \subseteq {"changeInEcho", "editWhileKeeping", "deleteMidPass", "removeMidPass",
                            "mountMidPush", "peerReusesName"}

VARIABLES
    local, kept,             \* the folder; the edits in copies and in the keeper folder
    unsent,                  \* edits made here that no server has
    deleted, discarded,      \* files the user deleted; the edits in those of the primary
    source, top, floor,      \* the source's rows, its version and its history floor
    mount,                   \* settings.mounts: on, dir, point and the kind of its source
    store,                   \* mountStateStore, by mount point
    disk, unsaved,           \* data.json; a base the keeper dropped is not in it
    scope, pass,             \* the entry of mountScopes; the pass that runs
    tries, givenUp,          \* retryBudget; files that failed and that no pass is to come back for
    roEdits, held,           \* roMountEdits, pendingBulkPushes
    keeping, echo,           \* files keepRoMountEdits is about to remove; self-writes
    pbase, pserver, ptaking, \* the primary scope: its base, its server, a push in flight
    faults, edits, deletes, moves

folder  == <<local, kept, unsent, deleted, discarded>>
remote  == <<source, top, floor>>
saved   == <<mount, store, disk, unsaved>>
retries == <<tries, givenUp>>
reviews == <<roEdits, held, keeping>>
primary == <<pbase, pserver, ptaking>>
bounds  == <<faults, edits, deletes, moves>>
vars    == <<folder, remote, saved, scope, pass, retries, reviews, echo, primary, bounds>>

Decision == INSTANCE Decision WITH NoNote <- {}

NoFile   == "none"
NoBase   == [f \in Files |-> {}]
Runtime  == [base : [Files -> SUBSET (1 .. MaxEdits)], cursor : Nat, floor : Nat]
NoState  == [base |-> NoBase, cursor |-> 0, floor |-> 0]
Row      == [note : SUBSET (1 .. MaxEdits), version : Nat, tomb : BOOLEAN]
NoRow    == [note |-> {}, version |-> 0, tomb |-> FALSE]
NoTries  == [f \in Files |-> [version |-> 0, count |-> 0]]
NoScope  == [state |-> "none", fails |-> 0, force |-> FALSE, rt |-> NoState]
NoPass   == [step |-> "none", full |-> FALSE, dir |-> "pull", orphan |-> FALSE, rt |-> NoState,
             rows |-> [f \in Files |-> NoRow], top |-> 0, floor |-> 0, todo |-> {}, listed |-> {},
             hold |-> FALSE, failed |-> {}, removed |-> {}, ro |-> {}, held |-> {},
             conflict |-> FALSE]

Room  == faults + edits + deletes + moves < MaxEvents
Spend == faults < MaxFaults /\ Room /\ faults' = faults + 1
Erase == deletes < MaxDeletes /\ Room /\ deletes' = deletes + 1
Move  == moves < MaxMoves /\ Room /\ moves' = moves + 1
Tracked(rt) == {f \in Files : rt.base[f] # {}}

\* mountMachine, the part that is not an unmount: detached mounts at once.
Machine(s, e) ==
    CASE e = "fail"                                                   -> "failed"
      [] e = "localGone" /\ s \in {"mounting", "syncing", "diverged", "offline"} -> "localGone"
      [] e = "mount" /\ s \in {"detached", "localGone"}                -> "mounting"
      [] e = "reset" /\ s = "failed"                                  -> "detached"
      [] e = "syncStart" /\ s = "live"                                -> "syncing"
      [] e = "syncSettled" /\ s \in {"mounting", "syncing", "diverged", "offline"} -> "live"
      [] e = "conflict" /\ s \in {"mounting", "syncing", "diverged", "offline"}  -> "diverged"
      [] e = "disconnect" /\ s \in {"mounting", "syncing", "diverged", "offline"} -> "offline"
      [] OTHER                                                        -> s

\* Mutant: a change in the folder does not force a full pass.
NudgedLazily(S) ==
    \E late \in {TRUE} \cup {~(S \subseteq echo)} :
        /\ echo' = IF late THEN {} ELSE echo
        /\ scope' = scope

\* nudgeMountForLocalPath: a change asks for a full pass, unless it is taken for the echo of a
\* pull, which it is within SELF_WRITE_WINDOW_MS of one.
Nudged(S) ==
    \E late \in {TRUE} \cup {~(S \subseteq echo)} :
        /\ echo' = IF late THEN {} ELSE echo
        /\ scope' = IF late /\ mount.on /\ scope # NoScope THEN [scope EXCEPT !.force = TRUE] ELSE scope

-----------------------------------------------------------------------------
(* The user's folder *)

Edit(f) ==
    /\ edits < MaxEdits /\ Room /\ edits' = edits + 1
    /\ f \in keeping => "editWhileKeeping" \in RacyMoves
    /\ local' = [local EXCEPT ![f] = @ \cup {edits'}]
    /\ unsent' = unsent \cup {edits'}
    /\ Nudged({f})
    /\ UNCHANGED <<retries, kept, deleted, discarded, remote, saved, pass, reviews, primary, faults, deletes, moves>>

Delete(S) ==
    /\ Erase
    /\ pass # NoPass \/ keeping # {} => "deleteMidPass" \in RacyMoves
    /\ S # {} /\ \A f \in S : local[f] # {}
    /\ local' = [f \in Files |-> IF f \in S THEN {} ELSE local[f]]
    /\ unsent' = unsent \ UNION {local[f] : f \in S}
    /\ deleted' = deleted \cup S
    /\ discarded' = discarded \cup IF mount.on THEN {} ELSE UNION {local[f] : f \in S}
    /\ Nudged(S)
    /\ UNCHANGED <<retries, kept, remote, saved, pass, reviews, primary, faults, edits, moves>>

-----------------------------------------------------------------------------
(* Commands on the mount; saveSettings saves what they leave behind. *)

SaveAll == disk' = [mount |-> mount', store |-> store', pbase |-> pbase'] /\ unsaved' = FALSE

\* The scope is replaced; a pass that runs keeps the old one, and reports to nobody.
Dropped == pass' = IF pass = NoPass THEN NoPass ELSE [pass EXCEPT !.orphan = TRUE]

NoReviews == roEdits' = {} /\ held' = {} /\ UNCHANGED keeping

\* Mutant: the primary keeps its base of a mounted folder.
ForgottenNever == UNCHANGED pbase

\* addMount and removeMount: the primary forgets what it knew of the folder.
Forgotten == pbase' = NoBase

AddMount(dir) ==
    /\ ~mount.on /\ pass = NoPass
    /\ ptaking.file # NoFile => "mountMidPush" \in RacyMoves
    /\ mount' = [mount EXCEPT !.on = TRUE, !.dir = dir]
    /\ Forgotten
    /\ UNCHANGED store
    /\ SaveAll
    /\ deleted' = {}
    /\ UNCHANGED <<retries, local, kept, unsent, discarded, remote, scope, pass, reviews, echo, pserver, ptaking, bounds>>

RemoveMount ==
    /\ Move /\ mount.on /\ keeping = {}
    /\ pass # NoPass => "removeMidPass" \in RacyMoves
    /\ mount' = [mount EXCEPT !.on = FALSE]
    /\ scope' = NoScope /\ Dropped /\ NoReviews
    /\ store' = [store EXCEPT ![mount.point] = NoState]
    /\ Forgotten
    /\ SaveAll
    /\ deleted' = {}
    /\ tries' = NoTries /\ UNCHANGED givenUp
    /\ UNCHANGED <<local, kept, unsent, discarded, remote, echo, pserver, ptaking, faults, edits, deletes>>

UpdateMountDirection ==
    /\ Move /\ mount.on
    /\ mount' = [mount EXCEPT !.dir = IF @ = "pull" THEN "sync" ELSE "pull"]
    /\ scope' = NoScope /\ Dropped
    /\ roEdits' = {}
    /\ UNCHANGED <<store, pbase>>
    /\ SaveAll
    /\ tries' = NoTries /\ UNCHANGED givenUp
    /\ UNCHANGED <<folder, remote, held, keeping, echo, pserver, ptaking, faults, edits, deletes>>

ReinstateMount ==
    /\ Move /\ mount.on /\ scope.state = "localGone"
    /\ scope' = NoScope /\ Dropped /\ NoReviews
    /\ store' = [store EXCEPT ![mount.point] = NoState]
    /\ UNCHANGED <<mount, pbase>>
    /\ SaveAll
    /\ deleted' = {}
    /\ tries' = NoTries /\ UNCHANGED givenUp
    /\ UNCHANGED <<local, kept, unsent, discarded, remote, echo, pserver, ptaking, faults, edits, deletes>>

\* followMountPointRename: the folder moves and takes its mount along, under a new key.  A
\* pass that runs would go on in the old place; such a rename is left out.
FollowMountPointRename(q) ==
    /\ Move /\ mount.on /\ q # mount.point /\ keeping = {} /\ pass = NoPass
    /\ mount' = [mount EXCEPT !.point = q]
    /\ scope' = NoScope
    /\ UNCHANGED <<store, pbase>>
    /\ SaveAll
    /\ tries' = NoTries /\ UNCHANGED givenUp
    /\ UNCHANGED <<folder, remote, pass, reviews, echo, pserver, ptaking, faults, edits, deletes>>

\* persist, because something else was to be saved as well; of use while
\* a crash may come, and between passes, as a pass changes nothing of it before its end
Persist ==
    /\ faults < MaxFaults /\ Room /\ pass = NoPass /\ disk # [mount |-> mount, store |-> store, pbase |-> pbase]
    /\ UNCHANGED <<mount, store, pbase>>
    /\ SaveAll
    /\ UNCHANGED <<retries, folder, remote, scope, pass, reviews, echo, pserver, ptaking, bounds>>

\* loadSettings: the state of a mount that is not configured is dropped.
Loaded(d) == [q \in Points |-> IF d.mount.on /\ q = d.mount.point THEN d.store[q] ELSE NoState]

\* The app is killed and started again with what data.json holds.
Crash ==
    /\ "crash" \in FaultKinds /\ Spend
    /\ unsaved => "crashUnsaved" \in FaultKinds
    /\ mount' = disk.mount /\ store' = Loaded(disk) /\ pbase' = disk.pbase
    /\ scope' = NoScope /\ pass' = NoPass
    /\ roEdits' = {} /\ held' = {} /\ keeping' = {} /\ echo' = {} /\ ptaking' = [file |-> NoFile, note |-> {}]
    /\ unsaved' = FALSE
    /\ tries' = NoTries /\ UNCHANGED givenUp
    /\ UNCHANGED <<folder, remote, disk, pserver, edits, deletes, moves>>

-----------------------------------------------------------------------------
(* The source vault *)

Written(f, note) ==
    /\ top' = top + 1
    /\ source' = [source EXCEPT ![f] = [note |-> note, version |-> top + 1, tomb |-> note = {}]]
    /\ UNCHANGED floor

\* The user kept f out of the source (keepBulkPushes): a base of it holds an edit no server has.
LocalOnly(f) ==
    \E rt \in {scope.rt, pass.rt} \cup {store[q] : q \in Points} \cup {disk.store[q] : q \in Points} :
        rt.base[f] \cap unsent # {}

PeerEdit(f) ==
    /\ edits < MaxEdits /\ Room /\ edits' = edits + 1
    /\ LocalOnly(f) => "peerReusesName" \in RacyMoves
    /\ Written(f, source[f].note \cup {edits'})
    /\ UNCHANGED <<retries, folder, saved, scope, pass, reviews, echo, primary, faults, deletes, moves>>

PeerDelete(f) ==
    /\ Erase /\ source[f].note # {}
    /\ Written(f, {})
    /\ UNCHANGED <<retries, folder, saved, scope, pass, reviews, echo, primary, faults, edits, moves>>

\* The source is reindexed or its history pruned: tombstones are gone, the floor rises.
SourceReset ==
    /\ "reset" \in FaultKinds /\ Spend
    /\ source' = [f \in Files |-> IF source[f].tomb THEN NoRow ELSE source[f]]
    /\ top' = top + 1 /\ floor' = top + 1
    /\ UNCHANGED <<retries, folder, saved, scope, pass, reviews, echo, primary, edits, deletes, moves>>

-----------------------------------------------------------------------------
(* A pass: reconcileMounts, reconcileMountScope, pollMount *)

\* runMountExclusive is free.  rebuildMountScopes restores a scope from the store; a failed
\* one is tried again after a while; localGone waits for the user.
Ready ==
    LET built == IF scope = NoScope
                 THEN [NoScope EXCEPT !.state = "detached", !.rt = store[mount.point]] ELSE scope
        state == Machine(Machine(built.state, "reset"), "mount") IN
    [built EXCEPT !.state = IF built.state = "localGone" THEN @ ELSE state,
                  !.fails = IF built.state = "failed" THEN 0 ELSE @]

\* reconcileMountScope up to the answer of changes(cursor): nothing new, a delta of what is
\* newer, or a full pass; an advanced floor means that deletions may be missing from a delta.
\* (A version that went backwards is a reset as well; no version of the source does here.)
\* The files a pass will come to again are not given up any more.
Begin ==
    /\ pass = NoPass /\ keeping = {} /\ mount.on /\ Ready.state # "localGone"
    /\ LET rt    == Ready.rt
           full  == Ready.state \in {"mounting", "offline"} \/ Ready.force
           reset == rt.floor # 0 /\ floor > rt.floor
           mode  == IF full \/ reset THEN "full" ELSE IF top = rt.cursor THEN "noop" ELSE "delta"
           todo  == IF mode = "delta" THEN {f \in Files : source[f].version > rt.cursor} ELSE {} IN
       /\ scope' = [Ready EXCEPT !.state = Machine(@, "syncStart"), !.force = FALSE]
       /\ pass' = [NoPass EXCEPT !.step = IF mode = "full" THEN "guard" ELSE "apply",
                      !.full = full, !.dir = mount.dir, !.rt = rt, !.rows = source, !.top = top, !.floor = floor,
                      !.todo = todo]
       /\ store' = IF Ready.state = "live" THEN [store EXCEPT ![mount.point] = rt] ELSE store
       /\ givenUp' = IF mode = "full" THEN {} ELSE givenUp \ todo
    /\ UNCHANGED <<tries, folder, remote, mount, disk, unsaved, reviews, echo, primary, bounds>>

\* Mutant: no deletion is too large.
MassLocalDeletionNever == FALSE

\* massLocalDeletion: all the mount had, or BulkMin of it, is gone from the folder.
MassLocalDeletion ==
    LET absent == {f \in Tracked(pass.rt) : local[f] = {}} IN
    absent # {} /\ (absent = Tracked(pass.rt) \/ Cardinality(absent) >= BulkMin)

Guard ==
    /\ pass.step = "guard"
    /\ IF MassLocalDeletion
       THEN /\ pass' = NoPass
            /\ IF pass.orphan THEN UNCHANGED <<scope, store>>
               ELSE /\ scope' = [scope EXCEPT !.state = Machine(@, "localGone"), !.rt = pass.rt]
                    /\ store' = [store EXCEPT ![mount.point] = pass.rt]
       ELSE pass' = [pass EXCEPT !.step = "list"] /\ UNCHANGED <<scope, store>>
    /\ UNCHANGED <<retries, folder, remote, mount, disk, unsaved, reviews, echo, primary, bounds>>

\* reconcileAll: changes(0), then the listing; computeBulkPushHold counts what is new here.
List ==
    /\ pass.step = "list"
    /\ LET listed == {f \in Files : local[f] # {}}
           new    == {f \in listed \ Tracked(pass.rt) : source[f].note = {} /\ ~source[f].tomb} IN
       pass' = [pass EXCEPT !.step = "apply", !.rows = source, !.top = top, !.listed = listed,
                            !.todo = listed \cup Tracked(pass.rt) \cup {f \in Files : source[f].note # {}},
                            !.hold = mount.kind = "shared" /\ Cardinality(new) > PushFloor]
    /\ UNCHANGED <<retries, folder, remote, saved, scope, reviews, echo, primary, bounds>>

\* Mutant: a read-only mount pulls over a changed note.
FinalizeOverwrites(action, row) ==
    LET ro == pass.dir = "pull"  shared == mount.kind = "shared" IN
    CASE action = "inSync"                      -> "agree"
      [] action \in {"pull", "editWinsPull"}    -> "pull"
      [] action = "deleteLocal" /\ row.tomb     -> "remove"
      [] action = "deleteLocal" /\ ~row.tomb    -> IF ro \/ shared THEN "keep" ELSE "push"
      [] action = "deleteRemote"                -> IF ro THEN "report" ELSE "tombstone"
      [] action \in {"push", "keepLocal"} /\ ro -> "report"
      [] action = "keepLocal" /\ ~ro            -> IF shared THEN "keep" ELSE "push"
      [] action = "push" /\ ~ro                 ->
             IF shared /\ row.note = {} /\ row.tomb THEN "keep"
             ELSE IF shared /\ row.note = {} /\ pass.hold THEN "hold" ELSE "push"
      [] action \in {"merge", "conflict"}       -> IF ro THEN "pull" ELSE action

\* finalize: what is done about a file.  A shared source gets nothing back that it lacks,
\* a read-only one nothing at all.
Finalize(action, row) ==
    LET ro == pass.dir = "pull"  shared == mount.kind = "shared" IN
    CASE action = "inSync"                      -> "agree"
      [] action \in {"pull", "editWinsPull"}    -> "pull"
      [] action = "deleteLocal" /\ row.tomb     -> "remove"
      [] action = "deleteLocal" /\ ~row.tomb    -> IF ro \/ shared THEN "keep" ELSE "push"
      [] action = "deleteRemote"                -> IF ro THEN "report" ELSE "tombstone"
      [] action \in {"push", "keepLocal"} /\ ro -> "report"
      [] action = "keepLocal" /\ ~ro            -> IF shared THEN "keep" ELSE "push"
      [] action = "push" /\ ~ro                 ->
             IF shared /\ row.note = {} /\ row.tomb THEN "keep"
             ELSE IF shared /\ row.note = {} /\ pass.hold THEN "hold" ELSE "push"
      [] action \in {"merge", "conflict"}       -> IF ro THEN "copy" ELSE action

\* The commit or deletion names the version it replaces.
Unmoved(f) == IF pass.rows[f].note = {} THEN source[f].note = {} ELSE source[f] = pass.rows[f]

Outcome(f) ==
    Finalize(Decision!Decide(local[f], pass.rt.base[f], pass.rows[f].note), pass.rows[f])

Through(f, base) == [pass EXCEPT !.todo = @ \ {f}, !.rt.base[f] = base]

\* holdForRetry: how often f has failed at this version, and whether the cursor waits no more.
Count(f) == IF tries[f].version = pass.rows[f].version THEN tries[f].count + 1 ELSE 1

Spent(f) == pass.rows[f].version = 0 \/ Count(f) >= MaxRetries

\* isolatedPass: the pass goes on without f.
Failed(f) ==
    [pass EXCEPT !.todo = @ \ {f},
                 !.failed = IF Spent(f) THEN @ ELSE @ \cup {pass.rows[f].version}]

Retried(f) ==
    /\ tries' = IF pass.orphan \/ pass.rows[f].version = 0 THEN tries
                ELSE [tries EXCEPT ![f] = [version |-> pass.rows[f].version,
                                           count |-> IF Spent(f) THEN MaxRetries ELSE Count(f)]]
    /\ givenUp' = IF Spent(f) THEN givenUp \cup {f} ELSE givenUp

\* A self-write; it matters only if the user may act within its window.
Writes(f, note) ==
    /\ local' = [local EXCEPT ![f] = note]
    /\ echo' = IF "changeInEcho" \in RacyMoves THEN echo \cup {f} ELSE echo
    /\ deleted' = deleted \ {f}

Apply(f) ==
    /\ pass.step = "apply" /\ f \in pass.todo
    /\ f \in pass.listed /\ pass.rt.base[f] # {} => local[f] # {}
    /\ LET out == Outcome(f)  row == pass.rows[f] IN
       \/ /\ out = "agree"
          /\ pass' = Through(f, local[f])
          /\ UNCHANGED <<folder, remote, echo>>
       \/ /\ out \in {"keep", "report", "hold"}
          /\ pass' = [Through(f, pass.rt.base[f])
                        EXCEPT !.ro = IF out = "report" THEN @ \cup {f} ELSE @,
                               !.held = IF out = "hold" THEN @ \cup {f} ELSE @]
          /\ UNCHANGED <<folder, remote, echo>>
       \/ /\ out = "push" /\ Unmoved(f)
          /\ Written(f, local[f])
          /\ unsent' = unsent \ local[f]
          /\ pass' = Through(f, local[f])
          /\ UNCHANGED <<local, kept, deleted, discarded, echo>>
       \/ /\ out = "pull"
          /\ Writes(f, row.note)
          /\ pass' = Through(f, row.note)
          /\ UNCHANGED <<kept, unsent, discarded, remote>>
       \/ /\ out = "remove"
          /\ local' = [local EXCEPT ![f] = {}]
          /\ pass' = Through(f, {})
          /\ UNCHANGED <<kept, unsent, deleted, discarded, remote, echo>>
       \/ /\ out = "tombstone" /\ Unmoved(f)
          /\ Written(f, {})
          /\ pass' = [Through(f, {}) EXCEPT !.removed = @ \cup {f}]
          /\ UNCHANGED <<folder, echo>>
       \/ /\ out = "merge" /\ Unmoved(f)
          /\ Written(f, local[f] \cup row.note)
          /\ Writes(f, local[f] \cup row.note)
          /\ unsent' = unsent \ local[f]
          /\ pass' = Through(f, local[f] \cup row.note)
          /\ UNCHANGED <<kept, discarded>>
       \/ /\ out \in {"copy", "conflict", "merge"}   \* a merge that is not clean
          /\ kept' = kept \cup local[f]
          /\ Writes(f, row.note)
          /\ pass' = [Through(f, row.note) EXCEPT !.conflict = TRUE]
          /\ UNCHANGED <<unsent, discarded, remote>>
    /\ tries' = IF pass.orphan THEN tries ELSE [tries EXCEPT ![f] = NoTries[f]]
    /\ UNCHANGED <<givenUp, saved, scope, reviews, primary, bounds>>

\* The file moved at the source, or it is listed and could not be read: it is left for later.
ApplyRefused(f) ==
    /\ pass.step = "apply" /\ f \in pass.todo
    /\ \/ f \in pass.listed /\ pass.rt.base[f] # {} /\ local[f] = {}
       \/ Outcome(f) \in {"push", "tombstone", "merge"} /\ ~Unmoved(f)
    /\ pass' = Failed(f) /\ Retried(f)
    /\ UNCHANGED <<folder, remote, saved, scope, reviews, echo, primary, bounds>>

\* Its transfer fails.
ApplyFails(f) ==
    /\ pass.step = "apply" /\ f \in pass.todo /\ "file" \in FaultKinds /\ Spend
    /\ Outcome(f) \in {"push", "pull", "tombstone", "merge", "copy", "conflict"}
    /\ pass' = Failed(f) /\ Retried(f)
    /\ UNCHANGED <<folder, remote, saved, scope, reviews, echo, primary, edits, deletes, moves>>

\* Mutant: the cursor passes what failed.
SettlePast ==
    /\ pass.step = "apply" /\ pass.todo = {}
    /\ pass' = NoPass
    /\ IF pass.orphan THEN UNCHANGED <<scope, store, roEdits, held>>
       ELSE LET cursor == pass.top
                rt == [pass.rt EXCEPT !.cursor = cursor, !.floor = IF pass.floor > @ THEN pass.floor ELSE @] IN
            /\ scope' = [scope EXCEPT !.rt = rt, !.fails = 0,
                           !.state = Machine(@, IF pass.conflict THEN "conflict" ELSE "syncSettled")]
            /\ store' = [store EXCEPT ![mount.point] = rt]
            /\ roEdits' = (IF pass.full THEN {} ELSE roEdits) \cup pass.ro
            /\ held' = (IF pass.full THEN {} ELSE held) \cup pass.held
    /\ UNCHANGED <<retries, folder, remote, mount, disk, unsaved, keeping, echo, primary, bounds>>

\* advanceCursor, noteHistoryFloor, the reviews, then syncSettled or conflict and onEvent
Settle ==
    /\ pass.step = "apply" /\ pass.todo = {}
    /\ pass' = NoPass
    /\ IF pass.orphan THEN UNCHANGED <<scope, store, roEdits, held>>
       ELSE LET cursor == IF pass.failed = {} THEN pass.top ELSE Min(pass.failed) - 1
                rt == [pass.rt EXCEPT !.cursor = cursor, !.floor = IF pass.floor > @ THEN pass.floor ELSE @] IN
            /\ scope' = [scope EXCEPT !.rt = rt, !.fails = 0,
                           !.state = Machine(@, IF pass.conflict THEN "conflict" ELSE "syncSettled")]
            /\ store' = [store EXCEPT ![mount.point] = rt]
            /\ roEdits' = (IF pass.full THEN {} ELSE roEdits) \cup pass.ro
            /\ held' = (IF pass.full THEN {} ELSE held) \cup pass.held
    /\ UNCHANGED <<retries, folder, remote, mount, disk, unsaved, keeping, echo, primary, bounds>>

\* The source cannot be reached, or is not ready: the pass ends.
PassFails ==
    /\ pass.step \in {"list", "apply"} /\ "conn" \in FaultKinds /\ Spend
    /\ pass' = NoPass
    /\ IF pass.orphan THEN UNCHANGED <<scope, store>>
       ELSE /\ scope' = [scope EXCEPT !.fails = @ + 1, !.rt = pass.rt,
                           !.state = Machine(@, IF scope.fails + 1 >= MaxFails THEN "fail" ELSE "disconnect")]
            /\ store' = [store EXCEPT ![mount.point] = pass.rt]
    /\ UNCHANGED <<retries, folder, remote, mount, disk, unsaved, reviews, echo, primary, edits, deletes, moves>>

-----------------------------------------------------------------------------
(* The user's answers; each holds the mount lock. *)

\* keepRoMountEdits: copies are made and the base drops the files; they are removed then.
KeepRoMountEdits ==
    /\ Move /\ pass = NoPass /\ keeping = {} /\ scope # NoScope
    /\ \E f \in roEdits : local[f] # {}
    /\ LET S == {f \in roEdits : local[f] # {}}
           Drop(rt) == [rt EXCEPT !.base = [f \in Files |-> IF f \in S THEN {} ELSE @[f]]] IN
       /\ kept' = kept \cup UNION {local[f] : f \in S}
       /\ scope' = [scope EXCEPT !.rt = Drop(@), !.force = TRUE]
       /\ store' = [store EXCEPT ![mount.point] = Drop(@)]
       /\ keeping' = S
    /\ roEdits' = {}
    /\ unsaved' = TRUE
    /\ UNCHANGED <<retries, local, unsent, deleted, discarded, remote, mount, disk, pass, held, echo, primary, faults, edits, deletes>>

KeepRemoves ==
    /\ keeping # {} /\ keeping' = {}
    /\ local' = [f \in Files |-> IF f \in keeping THEN {} ELSE local[f]]
    /\ UNCHANGED <<retries, kept, unsent, deleted, discarded, remote, saved, scope, pass, roEdits, held, echo, primary, bounds>>

\* acceptBulkPushes: one file after the other is committed as new.  A file that fails is isolated,
\* and its answer is used up like the others.
AcceptBulkPushes ==
    /\ Move /\ pass = NoPass /\ keeping = {} /\ held # {} /\ scope # NoScope
    /\ LET able == {f \in held : local[f] # {} /\ source[f].note = {}} IN
       \E sent \in SUBSET able :
       /\ IF sent = able THEN UNCHANGED faults
          ELSE "file" \in FaultKinds /\ faults < MaxFaults /\ faults' = faults + 1
       /\ source' = [f \in Files |-> IF f \in sent THEN [note |-> local[f], version |-> top + 1, tomb |-> FALSE]
                                     ELSE source[f]]
       /\ top' = top + 1
       /\ unsent' = unsent \ UNION {local[f] : f \in sent}
       /\ LET rt == [scope.rt EXCEPT !.base = [f \in Files |-> IF f \in sent THEN local[f] ELSE @[f]]] IN
          scope' = [scope EXCEPT !.rt = rt] /\ store' = [store EXCEPT ![mount.point] = rt]
    /\ held' = {}
    /\ UNCHANGED <<retries, local, kept, deleted, discarded, floor, mount, disk, unsaved, pass, roEdits, keeping, echo,
                   primary, edits, deletes>>

\* keepBulkPushes: what the source has not deleted gets a base, as if the source had it.
KeepBulkPushes ==
    /\ Move /\ pass = NoPass /\ keeping = {} /\ held # {} /\ scope # NoScope
    /\ (\E f \in held : source[f].note # {}) => "peerReusesName" \in RacyMoves
    /\ LET S  == {f \in held : local[f] # {} /\ ~source[f].tomb}
           rt == [scope.rt EXCEPT !.base = [f \in Files |-> IF f \in S THEN local[f] ELSE @[f]]] IN
       /\ scope' = [scope EXCEPT !.rt = rt] /\ store' = [store EXCEPT ![mount.point] = rt]
    /\ held' = {}
    /\ UNCHANGED <<retries, folder, remote, mount, disk, unsaved, pass, roEdits, keeping, echo, primary, faults, edits, deletes>>

-----------------------------------------------------------------------------
(* The primary scope, which owns the folder while no mount claims it (claimsLocal) *)

PrimaryPath(f) ==
    /\ ~mount.on /\ ptaking.file = NoFile
    /\ LET act == Decision!Decide(local[f], pbase[f], pserver[f]) IN
       \/ /\ act = "inSync" /\ pbase[f] # local[f]
          /\ pbase' = [pbase EXCEPT ![f] = local[f]]
          /\ UNCHANGED <<folder, pserver, ptaking>>
       \/ /\ act \in {"push", "keepLocal", "deleteLocal", "merge"}
          /\ ptaking' = [file |-> f, note |-> local[f] \cup (IF act = "merge" THEN pserver[f] ELSE {})]
          /\ UNCHANGED <<folder, pbase, pserver>>
       \/ /\ act \in {"pull", "editWinsPull"}
          /\ local' = [local EXCEPT ![f] = pserver[f]]
          /\ pbase' = [pbase EXCEPT ![f] = pserver[f]]
          /\ UNCHANGED <<kept, unsent, deleted, discarded, pserver, ptaking>>
       \/ /\ act = "deleteRemote"
          /\ pserver' = [pserver EXCEPT ![f] = {}]
          /\ pbase' = [pbase EXCEPT ![f] = {}]
          /\ UNCHANGED <<folder, ptaking>>
       \/ /\ act = "conflict"
          /\ kept' = kept \cup local[f]
          /\ local' = [local EXCEPT ![f] = pserver[f]]
          /\ pbase' = [pbase EXCEPT ![f] = pserver[f]]
          /\ UNCHANGED <<unsent, deleted, discarded, pserver, ptaking>>
    /\ UNCHANGED <<retries, remote, saved, scope, pass, reviews, echo, bounds>>

\* The push ends, also when the folder was mounted meanwhile.
PrimaryPushed ==
    /\ ptaking.file # NoFile
    /\ LET f == ptaking.file IN
       /\ pserver' = [pserver EXCEPT ![f] = ptaking.note]
       /\ pbase' = [pbase EXCEPT ![f] = ptaking.note]
    /\ unsent' = unsent \ ptaking.note
    /\ ptaking' = [file |-> NoFile, note |-> {}]
    /\ UNCHANGED <<retries, local, kept, deleted, discarded, remote, saved, scope, pass, reviews, echo, bounds>>

-----------------------------------------------------------------------------
Init ==
    /\ local = NoBase /\ kept = {} /\ unsent = {} /\ deleted = {} /\ discarded = {}
    /\ source = [f \in Files |-> NoRow] /\ top = 1 /\ floor = 1
    /\ mount \in [on : {FALSE}, dir : {"pull"}, point : {CHOOSE q \in Points : TRUE}, kind : Kinds]
    /\ store = [q \in Points |-> NoState]
    /\ disk = [mount |-> mount, store |-> store, pbase |-> NoBase] /\ unsaved = FALSE
    /\ scope = NoScope /\ pass = NoPass /\ tries = NoTries /\ givenUp = {}
    /\ roEdits = {} /\ held = {} /\ keeping = {} /\ echo = {}
    /\ pbase = NoBase /\ pserver = NoBase /\ ptaking = [file |-> NoFile, note |-> {}]
    /\ faults = 0 /\ edits = 0 /\ deletes = 0 /\ moves = 0

PassStep == Guard \/ List \/ Settle \/ \E f \in Files : Apply(f) \/ ApplyRefused(f)

Next ==
    \/ \E f \in Files : Edit(f) \/ PeerEdit(f) \/ PeerDelete(f) \/ ApplyFails(f) \/ PrimaryPath(f)
    \/ \E S \in SUBSET Files : Delete(S)
    \/ \E dir \in {"pull", "sync"} : AddMount(dir)
    \/ RemoveMount \/ UpdateMountDirection \/ ReinstateMount
    \/ \E q \in Points : FollowMountPointRename(q)
    \/ Persist \/ Crash \/ SourceReset
    \/ Begin \/ PassStep \/ PassFails
    \/ KeepRoMountEdits \/ KeepRemoves \/ AcceptBulkPushes \/ KeepBulkPushes
    \/ PrimaryPushed

Spec == Init /\ [][Next]_vars

-----------------------------------------------------------------------------
(* Properties *)

\* The mount's runtime, scope and pass stay in the states of mountfsm.ts and mountengine.ts.
TypeOK ==
    /\ local \in [Files -> SUBSET (1 .. MaxEdits)]
    /\ source \in [Files -> Row]
    /\ {pass.rt, scope.rt} \cup {store[q] : q \in Points} \subseteq Runtime
    /\ scope.state \in {"none", "mounting", "syncing", "live", "diverged", "offline", "failed", "localGone"}
    /\ pass.step \in {"none", "guard", "list", "apply"}
    /\ {roEdits, held, keeping, echo, deleted, givenUp} \subseteq SUBSET Files
    /\ {unsent, kept, discarded} \subseteq SUBSET (1 .. MaxEdits)
    /\ tries \in [Files -> [version : Nat, count : Nat]]

\* No pass deletes at the source what would count as a mass deletion, whatever kind of pass
\* it is and whatever made it run (mountsync.ts: the mass deletion guard).
SourceSpared == Cardinality(pass.removed) < BulkMin

\* An edit of the user that no server has yet is in the folder or in a copy of it, through
\* pulls, conflicts, mounting and unmounting, reviews and crashes (finalize, conflictCopyIfRaced,
\* keepRoMountEdits).
NoEditLost == unsent \subseteq kept \cup UNION {local[f] : f \in Files}

\* A healthy mount that has seen all of its source shows it: every note of the source is
\* here, unless the user deleted it, or it failed as often as the retry budget allows and no
\* pass has come to it since (the cursor in mountengine.ts, holdForRetry).
MountComplete ==
    mount.on /\ pass = NoPass /\ keeping = {} /\ scope.state = "live" /\ ~scope.force /\ scope.rt.cursor = top =>
        \A f \in Files \ givenUp : source[f].note \subseteq local[f] \/ f \in deleted

\* What a mount puts into the folder, or takes from it, never replaces or deletes a note of
\* the primary vault: there a note loses an edit only if the user deletes it (inPrimaryScope,
\* and the base entries main.ts forgets when a folder is mounted).
PrimarySpared == [][\A f \in Files : pserver[f] \subseteq pserver'[f] \cup discarded]_vars

\* An edit in a two-way mount of one's own vault is not forgotten: while the source has not
\* got it there is a pass to come that lists it, unless its transfer failed as often as the
\* retry budget allows, or failed with no version to come back for (nudgeMountForLocalPath,
\* isolatedPass).
NoSilentEdit ==
    /\ mount.on /\ mount.dir = "sync" /\ mount.kind = "own"
    /\ pass = NoPass /\ scope.state = "live" /\ ~scope.force /\ scope.rt.cursor = top
    => \A f \in Files \ givenUp : local[f] \cap unsent \subseteq kept

=============================================================================
