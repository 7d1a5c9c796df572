------------------------------- MODULE Sync -------------------------------
(***************************************************************************)
(* Devices that sync one writable vault (client/src/reconcile.ts, with     *)
(* sync.ts, base.ts and the pass bodies of main.ts) over a server that     *)
(* keeps VaultPromise.                                                     *)
(*                                                                         *)
(* A note is the set of edits in it; {} is no file.  An edit is a number   *)
(* given out once, so equality of notes stands for equality of hashes, and *)
(* an edit that is nowhere any more is a lost one.                         *)
(*                                                                         *)
(* The engine runs one task at a time per device: a full pass, a delta     *)
(* pass, or the event of one path.  A task is split at its awaits; the     *)
(* user, the other devices and the faults move between any two steps.  The *)
(* paths of a pass (up to FILE_CONCURRENCY in flight in the code) are      *)
(* independent, and are taken one at a time in any order.                  *)
(***************************************************************************)
EXTENDS Integers, FiniteSets

CONSTANTS
    Devices,
    Paths,
    HoldAbove,   \* bulkDeleteThreshold of the "count" strategy
    MaxRetries,  \* MAX_PULL_RETRIES
    RacySteps,   \* the local writes that a save of the user may slip in front of
    FaultKinds,  \* the faults this instance may suffer
    MaxFaults,   \* bound: how many of them
    MaxEdits,    \* bound: how many edits users make
    MaxDeletes,  \* bound: how many notes users delete
    MaxChanges   \* bound: how many edits and deletions together

\* The writes that follow a look at the disk with no network wait in between.
LocalWrites == {"write", "remove", "mergeWrite", "conflict"}

ASSUME SyncAssumption ==
    /\ IsFiniteSet(Paths)
    /\ HoldAbove \in Nat
    /\ MaxRetries \in Nat \ {0}
    /\ RacySteps \subseteq LocalWrites
    /\ {MaxFaults, MaxEdits, MaxDeletes, MaxChanges} \subseteq Nat

VARIABLES
    (* The server *)
    files, tombs, top,
    (* A device's disk *)
    local,      \* path -> note
    copies,     \* the conflict copies
    saved,      \* data.json: the base as last persisted
    (* Its plugin's memory *)
    base,       \* path -> note last known in sync
    cursor,     \* state.version
    linked,     \* connected, the first full pass done
    retries,    \* path -> consecutive failures at one server version
    held,       \* deletions that wait for the user's confirmation
    task,       \* the task the engine runs
    (* What the users did *)
    written,    \* how many edits there are
    discarded,  \* edits in notes a user deleted
    deletes,    \* how many notes users deleted
    amiss,      \* paths whose review was answered in vain, until the next full pass
    faults      \* faults so far

server  == <<files, tombs, top>>
disk    == <<local, copies, saved>>
memory  == <<base, cursor, linked, retries, held, task>>
users   == <<written, discarded, deletes>>
vars    == <<server, disk, memory, users, amiss, faults>>

Edits   == 1 .. MaxEdits
Notes   == SUBSET Edits

Server  == INSTANCE VaultPromise WITH
               Contents <- Notes \ {{}}, NoContent <- {}, floor <- 1

-----------------------------------------------------------------------------
(* Tasks *)

Absent     == Server!Absent
NoRows     == [p \in Paths |-> Absent]
NoVersions == [p \in Paths |-> 0]
NoNotes    == [p \in Paths |-> {}]
NoRetry    == [version |-> 0, count |-> 0]

Steps == {"next", "manifest", "pushRead", "commit", "fetch", "probe", "tombstone",
          "mergeFetch", "copyPush"} \cup LocalWrites

Task == [kind   : {"idle", "full", "delta", "event"},
         remote : [Paths -> [content : Notes, version : Nat]], \* what changes() listed
         dels   : [Paths -> Nat],                              \* and its tombstones
         top    : Nat,                                         \* and its version
         listed : [Paths -> Notes],                            \* io.list()
         guard  : BOOLEAN,                                     \* hold removals
         todo   : SUBSET Paths,
         failed : SUBSET Nat,                                  \* versions to retry
         held   : SUBSET Paths,                                \* removals held
         path   : Paths \cup {0},                              \* the path in progress
         step   : Steps,
         seen   : Notes,                                       \* its note when decided
         hand   : Notes]                                       \* the bytes in hand

Idle == [kind |-> "idle", remote |-> NoRows, dels |-> NoVersions, top |-> 0,
         listed |-> NoNotes, guard |-> FALSE, todo |-> {}, failed |-> {},
         held |-> {}, path |-> 0, step |-> "next", seen |-> {}, hand |-> {}]

TypeOK ==
    /\ files \in [Paths -> [content : Notes, version : Nat]]
    /\ tombs \in [Paths -> Nat]
    /\ top \in Nat
    /\ local \in [Devices -> [Paths -> Notes]]
    /\ copies \in [Devices -> SUBSET Notes]
    /\ {saved, base} \subseteq [Devices -> [Paths -> Notes]]
    /\ cursor \in [Devices -> Nat]
    /\ linked \in [Devices -> BOOLEAN]
    /\ retries \in [Devices -> [Paths -> [version : Nat, count : 0 .. MaxRetries]]]
    /\ held \in [Devices -> SUBSET Paths]
    /\ task \in [Devices -> Task]
    /\ written \in 0 .. MaxEdits
    /\ discarded \in Notes
    /\ deletes \in 0 .. MaxDeletes
    /\ amiss \in [Devices -> SUBSET Paths]
    /\ faults \in 0 .. MaxFaults

Init ==
    /\ Server!PromiseInit
    /\ local = [d \in Devices |-> NoNotes]
    /\ copies = [d \in Devices |-> {}]
    /\ saved = [d \in Devices |-> NoNotes]
    /\ base = [d \in Devices |-> NoNotes]
    /\ cursor = [d \in Devices |-> 0]
    /\ linked = [d \in Devices |-> FALSE]
    /\ retries = [d \in Devices |-> [p \in Paths |-> NoRetry]]
    /\ held = [d \in Devices |-> {}]
    /\ task = [d \in Devices |-> Idle]
    /\ written = 0
    /\ discarded = {}
    /\ deletes = 0
    /\ amiss = [d \in Devices |-> {}]
    /\ faults = 0

Fault(kind) ==
    /\ kind \in FaultKinds
    /\ faults < MaxFaults
    /\ faults' = faults + 1

-----------------------------------------------------------------------------
(* The ways a path ends *)

P(d)        == task[d].path
R(d)        == task[d].remote[P(d)]
At(d, step) == task[d].kind # "idle" /\ task[d].step = step

GoTo(d, step, bytes) == task' = [task EXCEPT ![d].step = step, ![d].hand = bytes]
SetBase(d, p, n)     == base' = [base EXCEPT ![d][p] = n]
SetLocal(d, p, n)    == local' = [local EXCEPT ![d][p] = n]

Settled(t, p) == [t EXCEPT !.todo = @ \ {p}, !.path = 0, !.step = "next",
                           !.seen = {}, !.hand = {}]

\* isolatedPass: the path reconciled cleanly, its failure budget is reset.
PathDone(d, p) ==
    /\ task' = [task EXCEPT ![d] = Settled(@, p)]
    /\ retries' = IF task[d].kind = "event" THEN retries
                  ELSE [retries EXCEPT ![d][p] = NoRetry]
    /\ UNCHANGED linked

\* Mutant: a path that is no change holds the cursor at a sentinel.
VersionOfSentinel(t, p) == IF t.remote[p] # Absent THEN t.remote[p].version ELSE t.dels[p] - 1

\* The server version a failure of p holds the cursor at; 0 when p is not a change.
VersionOf(t, p) == IF t.remote[p] # Absent THEN t.remote[p].version ELSE t.dels[p]

\* holdForRetry: count the failures of p at one version, up to MAX_PULL_RETRIES.
Attempts(last, v) ==
    IF last.version # v THEN 1
    ELSE IF last.count < MaxRetries THEN last.count + 1 ELSE MaxRetries

\* isolatedPass: log, skip, and hold the cursor below the change while it has a budget.
PathFailed(d, p) ==
    LET v     == VersionOf(task[d], p)
        count == Attempts(retries[d][p], v)
    IN
    /\ retries' = IF v = 0 THEN retries
                  ELSE [retries EXCEPT ![d][p] = [version |-> v, count |-> count]]
    /\ task' = [task EXCEPT ![d] = [Settled(@, p) EXCEPT
                   !.failed = task[d].failed \cup (IF v # 0 /\ count < MaxRetries THEN {v} ELSE {})]]
    /\ UNCHANGED linked

\* failWith: a task that throws takes the engine offline; it reconnects by a full pass.
Offline(d) ==
    /\ task' = [task EXCEPT ![d] = Idle]
    /\ linked' = [linked EXCEPT ![d] = FALSE]
    /\ UNCHANGED retries

\* A path that throws is isolated in a pass; an event isolates only the server's 409.
PathThrows(d, p) == IF task[d].kind = "event" THEN Offline(d) ELSE PathFailed(d, p)
Conflicted(d)    == IF task[d].kind = "event" THEN PathDone(d, P(d))
                    ELSE PathFailed(d, P(d))

-----------------------------------------------------------------------------
(* Tasks start *)

\* bulkDeleteHold, strategy "count".
BulkDeleteHold(doomed) == Cardinality(doomed) > HoldAbove

InBase(d)     == {p \in Paths : base[d][p] # {}}
OnDevice(d)   == {p \in Paths : local[d][p] # {}}
Listed        == {p \in Paths : files[p] # Absent}
Tombstoned    == {p \in Paths : tombs[p] # 0}

\* Mutant: a full pass leaves out what only the server has.
FullPathsLocal(d) == OnDevice(d) \cup InBase(d)

FullPaths(d) == OnDevice(d) \cup Listed \cup InBase(d)

\* reconcileAll: on connecting, on the slow cadence, and after a history reset.
StartFull(d) ==
    /\ task[d].kind = "idle"
    /\ task' = [task EXCEPT ![d] = [Idle EXCEPT
           !.kind = "full", !.remote = files, !.dels = tombs, !.top = top,
           !.listed = local[d],
           !.guard = BulkDeleteHold(InBase(d) \cap Tombstoned \cap OnDevice(d)),
           !.todo = FullPaths(d)]]
    /\ UNCHANGED <<server, disk, base, cursor, linked, retries, held, users, amiss, faults>>

\* reconcileDelta: a poke or a poll found changes past the cursor.
StartDelta(d) ==
    LET upserted == {p \in Listed : files[p].version > cursor[d]}
        removed  == {p \in Paths : tombs[p] > cursor[d]}
    IN
    /\ task[d].kind = "idle" /\ linked[d]
    /\ upserted # {} \/ removed # {} \/ top # cursor[d]
    /\ task' = [task EXCEPT ![d] = [Idle EXCEPT
           !.kind = "delta", !.top = top,
           !.remote = [p \in Paths |-> IF p \in upserted THEN files[p] ELSE Absent],
           !.dels = [p \in Paths |-> IF p \in removed THEN tombs[p] ELSE 0],
           !.guard = BulkDeleteHold(InBase(d) \cap removed),
           !.todo = upserted \cup removed]]
    /\ UNCHANGED <<server, disk, base, cursor, linked, retries, held, users, amiss, faults>>

\* reconcilePath: the host reported a change of p.  A path of the base that the server
\* does not have needs the whole manifest.
StartEvent(d, p) ==
    /\ task[d].kind = "idle" /\ linked[d]
    /\ p \in OnDevice(d) \cup InBase(d)
    /\ task' = [task EXCEPT ![d] = [Idle EXCEPT
           !.kind = "event", !.remote[p] = files[p], !.todo = {p},
           !.step = IF files[p] = Absent /\ base[d][p] # {} THEN "manifest" ELSE "next"]]
    /\ UNCHANGED <<server, disk, base, cursor, linked, retries, held, users, amiss, faults>>

\* isSuspiciousBulkDelete, with BULK_DELETE_MIN = 6 and BULK_DELETE_RATIO = 1/2.
IsSuspiciousBulkDelete(universe, missing, empty) ==
    universe > 0 /\ (empty \/ (universe >= 6 /\ 2 * missing >= universe))

FetchManifest(d) ==
    /\ At(d, "manifest")
    /\ task' = [task EXCEPT ![d].dels = tombs, ![d].step = "next",
           ![d].guard = IsSuspiciousBulkDelete(Cardinality(InBase(d)),
                            Cardinality(InBase(d) \ Listed), Listed = {})]
    /\ UNCHANGED <<server, disk, base, cursor, linked, retries, held, users, amiss, faults>>

-----------------------------------------------------------------------------
(* One path is examined *)

\* decide, of the three notes of a path.
Decision == INSTANCE Decision WITH NoNote <- {}

\* finalize, for a vault of one's own: the first step of the effect, or the effect
\* itself when it has none.
Finalize(action, tombstone, guard, l, b) ==
    CASE action = "inSync" /\ l # {}                 -> "setBase"
      [] action = "inSync" /\ l = {}                 -> IF b # {} THEN "clearBase" ELSE "noop"
      [] action \in {"push", "keepLocal"}            -> "pushRead"
      [] action \in {"pull", "editWinsPull"}         -> "fetch"
      [] action = "deleteLocal" /\ ~tombstone        -> "pushRead"
      [] action = "deleteLocal" /\ tombstone         -> IF guard THEN "reportGuard" ELSE "remove"
      [] action = "deleteRemote"                     -> "probe"
      [] action \in {"merge", "conflict"}            -> "mergeFetch"

\* reconcileOne, once it holds the local note n: decide, then start the effect.
Decided(d, p, n) ==
    LET t == task[d]
        b == base[d][p]
        e == Finalize(Decision!Decide(n, b, t.remote[p].content), t.dels[p] # 0, t.guard, n, b)
    IN
    \/ e = "noop"        /\ PathDone(d, p) /\ UNCHANGED base
    \/ e = "setBase"     /\ PathDone(d, p) /\ SetBase(d, p, n)
    \/ e = "clearBase"   /\ PathDone(d, p) /\ SetBase(d, p, {})
    \/ e = "reportGuard" /\ task' = [task EXCEPT ![d] = [Settled(@, p) EXCEPT !.held = t.held \cup {p}]]
                         /\ UNCHANGED <<base, retries, linked>>
    \/ e \in Steps       /\ task' = [task EXCEPT ![d].path = p, ![d].step = e, ![d].seen = n]
                         /\ UNCHANGED <<base, retries, linked>>

Due(d, p) == At(d, "next") /\ p \in task[d].todo

\* The note is read, or taken for unchanged by its stat when the server has the path.
Examine(d, p) ==
    /\ Due(d, p)
    /\ \/ Decided(d, p, local[d][p])
       \/ /\ task[d].kind = "full" /\ task[d].remote[p] # Absent
          /\ base[d][p] # {} /\ task[d].listed[p] = base[d][p]
          /\ Decided(d, p, base[d][p])
    /\ UNCHANGED <<server, disk, cursor, held, users, amiss, faults>>

\* The read fails.  With a base and a vault that says "present" the path is skipped;
\* otherwise it counts as absent.  A listing that fails as well reports nothing.
ExamineUnreadable(d, p) ==
    LET present == \/ task[d].kind = "full" /\ task[d].listed[p] # {}
                   \/ task[d].kind = "delta"
                   \/ task[d].kind = "event" /\ task[d].remote[p] # Absent
    IN
    /\ Due(d, p) /\ local[d][p] # {}
    /\ \/ Fault("unreadable") /\ present /\ base[d][p] # {} /\ PathThrows(d, p) /\ UNCHANGED base
       \/ Fault("unreadable") /\ ~(present /\ base[d][p] # {}) /\ Decided(d, p, {})
       \/ Fault("hidden") /\ task[d].kind = "full" /\ Decided(d, p, {})
    /\ UNCHANGED <<server, disk, cursor, held, users, amiss>>

-----------------------------------------------------------------------------
(* Push *)

\* pushFile reads the note again, and what it reads is what it commits.
PushRead(d) ==
    /\ At(d, "pushRead")
    /\ \/ /\ local[d][P(d)] # {}
          /\ GoTo(d, "commit", local[d][P(d)])
          /\ UNCHANGED <<linked, retries>>
       \/ local[d][P(d)] = {} /\ PathThrows(d, P(d))
    /\ UNCHANGED <<server, disk, base, cursor, held, users, amiss, faults>>

\* The server on a commit: the note it has already, or a version that is still
\* the one the client saw.
Committed(p, n, expected) ==
    \/ files[p].content = n /\ UNCHANGED server
    \/ /\ files[p].content # n /\ files[p].version = expected
       /\ Server!Put(p, n)

CommitRefused(p, n, expected) == files[p].content # n /\ files[p].version # expected

Commit(d) ==
    /\ At(d, "commit")
    /\ \/ /\ Committed(P(d), task[d].hand, R(d).version)
          /\ SetBase(d, P(d), task[d].hand)
          /\ PathDone(d, P(d))
       \/ /\ CommitRefused(P(d), task[d].hand, R(d).version)
          /\ Conflicted(d)
          /\ UNCHANGED <<server, base>>
    /\ UNCHANGED <<disk, cursor, held, users, amiss, faults>>

-----------------------------------------------------------------------------
(* Pull *)

\* Mutant: the download is not checked for a racing save.
RacingSaveMissed(d) == {}

\* conflictCopyIfRaced: a local note that is neither the one decided on nor the base
\* raced the download.
RacingSave(d) == {local[d][P(d)]} \ {{}, task[d].seen, base[d][P(d)]}

\* applyPull: the remote note is here; a racing save is copied before the write.
Fetch(d) ==
    /\ At(d, "fetch")
    /\ copies' = [copies EXCEPT ![d] = @ \cup RacingSave(d)]
    /\ GoTo(d, "write", UNION RacingSave(d))
    /\ UNCHANGED <<server, local, saved, base, cursor, linked, retries, held, users, amiss, faults>>

Write(d) ==
    /\ At(d, "write")
    /\ SetLocal(d, P(d), R(d).content)
    /\ SetBase(d, P(d), R(d).content)
    /\ PathDone(d, P(d))
    /\ UNCHANGED <<server, copies, saved, cursor, held, users, amiss, faults>>

\* A local write or removal failed.  applyPull takes its copy of a racing save back, the
\* untouched note being the original; a conflict copy stays, if it came to be.
WriteFails(d) ==
    LET step == task[d].step IN
    /\ task[d].kind # "idle" /\ step \in LocalWrites
    /\ Fault("write")
    /\ \/ step = "write" /\ copies' = [copies EXCEPT ![d] = @ \ {task[d].hand}]
       \/ step = "conflict" /\ copies' = [copies EXCEPT ![d] = @ \cup {task[d].hand}]
       \/ step # "write" /\ UNCHANGED copies
    /\ PathThrows(d, P(d))
    /\ UNCHANGED <<server, local, saved, base, cursor, held, users, amiss>>

-----------------------------------------------------------------------------
(* Deletions *)

RemoveLocal(d) ==
    /\ At(d, "remove")
    /\ SetLocal(d, P(d), {})
    /\ SetBase(d, P(d), {})
    /\ PathDone(d, P(d))
    /\ UNCHANGED <<server, copies, saved, cursor, held, users, amiss, faults>>

\* Mutant: a note missing from the listing is taken for gone.
ProbeTrusting(d) ==
    /\ At(d, "probe")
    /\ GoTo(d, "tombstone", {})
    /\ UNCHANGED <<server, disk, base, cursor, linked, retries, held, users, amiss, faults>>

\* probePresence: only a note that is really gone is tombstoned.
Probe(d) ==
    /\ At(d, "probe")
    /\ \/ local[d][P(d)] # {} /\ PathDone(d, P(d))
       \/ local[d][P(d)] = {} /\ GoTo(d, "tombstone", {}) /\ UNCHANGED <<linked, retries>>
    /\ UNCHANGED <<server, disk, base, cursor, held, users, amiss, faults>>

\* The server on a delete: nothing to delete, or the version the client saw.
Deleted(p, expected) ==
    \/ files[p] = Absent /\ UNCHANGED server
    \/ files[p].version = expected /\ Server!Remove(p)

Tombstone(d) ==
    /\ At(d, "tombstone")
    /\ \/ /\ Deleted(P(d), R(d).version)
          /\ SetBase(d, P(d), {})
          /\ PathDone(d, P(d))
       \/ /\ files[P(d)].version \notin {0, R(d).version}
          /\ Conflicted(d)
          /\ UNCHANGED <<server, base>>
    /\ UNCHANGED <<disk, cursor, held, users, amiss, faults>>

-----------------------------------------------------------------------------
(* Both sides changed *)

\* merge3, when clean: what both kept and what either added.
Merged(b, l, r) == (l \cap r) \cup (l \ b) \cup (r \ b)

\* reconcileMergeOrConflict and planMerge: the note is read again after the download.
MergeFetch(d) ==
    LET b    == base[d][P(d)]
        live == IF local[d][P(d)] # {} THEN local[d][P(d)] ELSE task[d].seen
    IN
    /\ At(d, "mergeFetch")
    /\ \/ live \in {R(d).content, b} /\ GoTo(d, "write", {})
       \/ /\ live \notin {R(d).content, b}
          /\ \/ b # {} /\ GoTo(d, "mergeWrite", Merged(b, live, R(d).content))
             \/ GoTo(d, "conflict", live)
    /\ UNCHANGED <<server, disk, base, cursor, linked, retries, held, users, amiss, faults>>

\* pushBytes: the merge is written, and those bytes are committed.
MergeWrite(d) ==
    /\ At(d, "mergeWrite")
    /\ SetLocal(d, P(d), task[d].hand)
    /\ GoTo(d, "commit", task[d].hand)
    /\ UNCHANGED <<server, copies, saved, base, cursor, linked, retries, held, users, amiss, faults>>

\* The local note becomes a copy, the remote one takes its place.
ConflictCopy(d) ==
    /\ At(d, "conflict")
    /\ copies' = [copies EXCEPT ![d] = @ \cup {task[d].hand}]
    /\ SetLocal(d, P(d), R(d).content)
    /\ GoTo(d, "copyPush", task[d].hand)
    /\ UNCHANGED <<server, saved, base, cursor, linked, retries, held, users, amiss, faults>>

\* The copy is pushed under its own name, which no other device uses.
CopyPush(d) ==
    /\ At(d, "copyPush")
    /\ SetBase(d, P(d), R(d).content)
    /\ PathDone(d, P(d))
    /\ UNCHANGED <<server, disk, cursor, held, users, amiss, faults>>

-----------------------------------------------------------------------------
(* The task ends *)

\* Mutant: the cursor takes the server's version whatever failed.
AdvanceCursorPast(version, failed) == version

Earliest(failed) == CHOOSE v \in failed : \A w \in failed : v <= w

\* advanceCursor: never past the earliest change that failed.
AdvanceCursor(version, failed) ==
    IF failed # {} /\ Earliest(failed) - 1 < version THEN Earliest(failed) - 1 ELSE version

\* Mutant: what a pass held is not put on the review.
PendingBulkDropped(t, pending) == pending

\* setPendingBulk: a full pass saw everything, a delta only adds.
PendingBulk(t, pending) == IF t.kind = "full" THEN t.held ELSE pending \cup t.held

Finish(d) ==
    LET t == task[d] IN
    /\ At(d, "next") /\ t.todo = {}
    /\ task' = [task EXCEPT ![d] = Idle]
    /\ \/ t.kind = "event" /\ UNCHANGED <<cursor, linked, held, amiss>>
       \/ /\ t.kind # "event"
          /\ cursor' = [cursor EXCEPT ![d] = AdvanceCursor(t.top, t.failed)]
          /\ linked' = [linked EXCEPT ![d] = TRUE]
          /\ held' = [held EXCEPT ![d] = PendingBulk(t, @)]
          /\ amiss' = [amiss EXCEPT ![d] = IF t.kind = "full" THEN {} ELSE @]
    /\ UNCHANGED <<server, disk, base, retries, users, faults>>

-----------------------------------------------------------------------------
(* Faults *)

NetworkSteps == {"manifest", "commit", "fetch", "tombstone", "mergeFetch", "copyPush"}

\* isConnectionError aborts the pass.
ConnectionFails(d) ==
    /\ task[d].kind # "idle" /\ task[d].step \in NetworkSteps
    /\ Fault("conn")
    /\ Offline(d)
    /\ UNCHANGED <<server, disk, base, cursor, held, users, amiss>>

\* The server did it, and the answer never came: a reset of the connection, or a
\* timeout, which isConnectionError does not count as one.
ReplyLost(d) ==
    /\ \/ At(d, "commit") /\ Committed(P(d), task[d].hand, R(d).version)
       \/ At(d, "tombstone") /\ Deleted(P(d), R(d).version)
    /\ Fault("lostReply")
    /\ Offline(d) \/ PathThrows(d, P(d))
    /\ UNCHANGED <<disk, base, cursor, held, users, amiss>>

\* A request that times out unserved, a download that fails its hash, a chunk that is
\* missing, a file the server rejects.
TransferFails(d) ==
    /\ task[d].kind # "idle" /\ task[d].step \in NetworkSteps \ {"manifest"}
    /\ Fault("transfer")
    /\ PathThrows(d, P(d))
    /\ UNCHANGED <<server, disk, base, cursor, held, users, amiss>>

\* The debounced save of data.json.  Only Crash reads it: an instance without crashes
\* does without.
Persist(d) ==
    /\ "crash" \in FaultKinds /\ saved[d] # base[d]
    /\ saved' = [saved EXCEPT ![d] = base[d]]
    /\ UNCHANGED <<server, local, copies, memory, users, amiss, faults>>

\* The app dies and starts again: what is not in data.json is gone.
Crash(d) ==
    /\ Fault("crash")
    /\ base' = [base EXCEPT ![d] = saved[d]]
    /\ cursor' = [cursor EXCEPT ![d] = 0]
    /\ linked' = [linked EXCEPT ![d] = FALSE]
    /\ retries' = [retries EXCEPT ![d] = [p \in Paths |-> NoRetry]]
    /\ held' = [held EXCEPT ![d] = {}]
    /\ task' = [task EXCEPT ![d] = Idle]
    /\ UNCHANGED <<server, disk, users, amiss>>

-----------------------------------------------------------------------------
(* Users *)

MaySave(d, p) == P(d) = p => task[d].step \notin LocalWrites \ RacySteps

Edit(d, p) ==
    /\ written < MaxEdits /\ written + deletes < MaxChanges /\ MaySave(d, p)
    /\ written' = written + 1
    /\ SetLocal(d, p, local[d][p] \cup {written + 1})
    /\ UNCHANGED <<server, copies, saved, memory, discarded, deletes, amiss, faults>>

DeleteNote(d, p) ==
    /\ deletes < MaxDeletes /\ written + deletes < MaxChanges /\ MaySave(d, p)
    /\ local[d][p] # {}
    /\ deletes' = deletes + 1
    /\ discarded' = discarded \cup local[d][p]
    /\ SetLocal(d, p, {})
    /\ UNCHANGED <<server, copies, saved, memory, written, amiss, faults>>

\* The review lists a note that the server has again, and the device has it too.
Returned(d) == {p \in held[d] : files[p] # Absent /\ files[p].version <= cursor[d]}

\* acceptBulkDeletions, once the user says yes: the engine's queue runs it between tasks.  A
\* file that cannot be removed keeps its base, and the review forgets it like the others.
AcceptHeld(d) ==
    \E stuck \in SUBSET held[d] :
        LET doomed == held[d] \ stuck
            Cleared(f) == [p \in Paths |-> IF p \in doomed THEN {} ELSE f[p]]
        IN
        /\ task[d].kind = "idle" /\ held[d] # {}
        /\ IF stuck = {} THEN UNCHANGED faults ELSE Fault("write")
        /\ discarded' = discarded \cup UNION {local[d][p] : p \in doomed}
        /\ local' = [local EXCEPT ![d] = Cleared(@)]
        /\ base' = [base EXCEPT ![d] = Cleared(@)]
        /\ held' = [held EXCEPT ![d] = {}]
        /\ amiss' = [amiss EXCEPT ![d] = @ \cup stuck \cup Returned(d)]
        /\ UNCHANGED <<server, copies, saved, cursor, linked, retries, task, written, deletes>>

\* keepBulkDeletions: without a base the next full pass takes the notes for new ones.
KeepHeld(d) ==
    LET kept == held[d] IN
    /\ task[d].kind = "idle" /\ kept # {}
    /\ base' = [base EXCEPT ![d] = [p \in Paths |-> IF p \in kept THEN {} ELSE @[p]]]
    /\ held' = [held EXCEPT ![d] = {}]
    /\ amiss' = [amiss EXCEPT ![d] = @ \cup Returned(d)]
    /\ UNCHANGED <<server, disk, cursor, linked, retries, task, users, faults>>

-----------------------------------------------------------------------------

\* What the engine does by itself once a task runs.
TaskStep(d) ==
    \/ FetchManifest(d)
    \/ \E p \in Paths : Examine(d, p)
    \/ PushRead(d) \/ Commit(d)
    \/ Fetch(d) \/ Write(d)
    \/ RemoveLocal(d) \/ Probe(d) \/ Tombstone(d)
    \/ MergeFetch(d) \/ MergeWrite(d) \/ ConflictCopy(d) \/ CopyPush(d)
    \/ Finish(d)

Next ==
    \E d \in Devices :
        \/ StartFull(d) \/ StartDelta(d)
        \/ \E p \in Paths : StartEvent(d, p) \/ ExamineUnreadable(d, p)
                            \/ Edit(d, p) \/ DeleteNote(d, p)
        \/ TaskStep(d)
        \/ WriteFails(d) \/ ConnectionFails(d) \/ ReplyLost(d) \/ TransferFails(d)
        \/ Persist(d) \/ Crash(d)
        \/ AcceptHeld(d) \/ KeepHeld(d)

Spec == Init /\ [][Next]_vars

\* A task that runs goes on (its awaits are bounded by REQUEST_TIMEOUT_MS), and a full
\* pass comes round: on reconnecting, and every FULL_SCAN_INTERVAL_MS.
Fairness == \A d \in Devices : WF_vars(TaskStep(d)) /\ SF_vars(StartFull(d))

LiveSpec == Spec /\ Fairness

-----------------------------------------------------------------------------
(* Properties *)

\* Nothing a user writes is lost: until a user deletes the note it is in, every edit is
\* on some device, in a conflict copy or on the server (README.md, and the race checks
\* of applyPull and reconcileMergeOrConflict, and the CAS of commit and delete).
NoLostEdit ==
    \A e \in 1 .. written :
        \/ e \in discarded
        \/ \E p \in Paths : e \in files[p].content
        \/ \E d \in Devices : \/ \E p \in Paths : e \in local[d][p]
                              \/ \E n \in copies[d] : e \in n

\* The server never drops an edit that no user deleted: neither a commit over a note that has
\* moved on, nor a tombstone for a note that was only unreadable, missing from a listing or
\* known from a base older than the disk (the CAS of commit and delete, probePresence).
ServerKeeps ==
    [][\A p \in Paths : files[p].content \subseteq files'[p].content \cup discarded]_vars

\* A connected device between tasks has acted on every change below its cursor: it
\* holds it as its base, or the user is asked, or its retries are used up; or else the
\* answer to a review went wrong and no full pass has been there since: the removal the
\* user agreed to failed (applyHeldDeletions), or the note listed had come back.
CursorSound ==
    \A d \in Devices, p \in Paths :
        LET v == IF files[p] # Absent THEN files[p].version ELSE tombs[p] IN
        task[d].kind = "idle" /\ linked[d] /\ v # 0 /\ v <= cursor[d]
            => \/ base[d][p] = files[p].content
               \/ p \in held[d] \cup amiss[d]
               \/ retries[d][p].count = MaxRetries

\* Once the users stop, every device comes to hold what the server holds, unless a
\* deletion waits for an answer.
Converges ==
    <>[](\A d \in Devices, p \in Paths :
            local[d][p] = files[p].content \/ held[d] # {})
=============================================================================
