------------------------------- MODULE Vault -------------------------------
(***************************************************************************)
(* One vault of the sync server (server/src/vault.rs over index_store.rs   *)
(* and chunkstore.rs): the SQLite index, the content-addressed chunk       *)
(* store, the bind-mount mirror, the version high-water sidecar, and the   *)
(* operations that keep the four in step across crashes and lost files.    *)
(*                                                                         *)
(* Every mutating operation holds the vault's write lock, so operations    *)
(* do not interleave; what interleaves with them is a crash.  An operation *)
(* is therefore split exactly at its durable writes: `pc' is the next      *)
(* write of the operation in progress and `op' what it carries.            *)
(***************************************************************************)
EXTENDS Integers, FiniteSets

CONSTANTS
    Paths,       \* vault-relative names, as numbers because reindex sorts them
    UnsafePaths, \* the names among them that safe_rel_path refuses
    Fold,        \* path -> its case-folded form
    Contents,    \* file bodies; equality stands for equality of the SHA-256
    NoContent,   \* "no file here"
    SizeOf,      \* content -> length in bytes
    Chunks,      \* chunk hashes
    ChunksOf,    \* content -> the chunks the (deterministic) chunker cuts it into
    PruneFloors, \* the floors an operator may ask prune_history for
    Forces,      \* the values of reindex's `force' an operator may pass
    FaultKinds,  \* the faults this instance may suffer
    MaxFaults,   \* bound: how many of them
    MaxVersion   \* bound: no operation starts once the version reaches it

ASSUME PathsAssumption ==
    /\ Paths \subseteq Nat \ {0}
    /\ IsFiniteSet(Paths)
    /\ UnsafePaths \subseteq Paths
    /\ Fold \in [Paths -> Paths]

ASSUME ContentsAssumption ==
    /\ NoContent \notin Contents
    /\ SizeOf \in [Contents -> Nat]
    /\ ChunksOf \in [Contents -> (SUBSET Chunks) \ {{}}]

ASSUME BoundsAssumption ==
    /\ PruneFloors \subseteq Nat
    /\ Forces \subseteq BOOLEAN
    /\ MaxFaults \in Nat
    /\ MaxVersion \in Nat \ {0}

VARIABLES
    (* Durable state *)
    files,        \* index: path -> row
    tombs,        \* index: path -> version of its tombstone, 0 for none
    idxVersion,   \* index: meta.version
    idxFloor,     \* index: meta.history_floor
    db,           \* condition of the index file
    hwm,          \* the .version-hwm sidecar
    store,        \* chunk -> age of its blob
    mirror,       \* path -> content of the bind-mount file
    (* The open handle *)
    state,        \* VaultState, or "Closed"
    version,      \* Vault::version
    historyFloor, \* Vault::history_floor
    (* The operation that holds the write lock *)
    pc, op,
    faults        \* faults so far

index   == <<files, tombs, idxVersion, idxFloor, db>>
handle  == <<state, version, historyFloor>>
vars    == <<index, hwm, store, mirror, handle, pc, op, faults>>

-----------------------------------------------------------------------------
(* Data *)

Row     == [content : Contents \cup {NoContent}, version : Nat]
NoRow   == [content |-> NoContent, version |-> 0]
NoFiles == [p \in Paths |-> NoRow]
NoTombs == [p \in Paths |-> 0]

Live(fs)    == {p \in Paths : fs[p] # NoRow}
OnDisk      == {p \in Paths : mirror[p] # NoContent}
ChunksIn(c) == IF c \in Contents THEN ChunksOf[c] ELSE {}
Refs(fs)    == UNION {ChunksIn(fs[p].content) : p \in Paths}
Stored      == {h \in Chunks : store[h] # "absent"}

MaxOf(a, b) == IF a >= b THEN a ELSE b

\* What the operation in progress still has to write.
Op == [kind   : {"none", "commit", "delete", "reindex"},
       path   : Paths \cup {0},
       body   : Contents \cup {NoContent},
       chunks : SUBSET Chunks,
       plan   : [Paths -> Row],
       top    : Nat,
       raise  : BOOLEAN]

NoOp == [kind |-> "none", path |-> 0, body |-> NoContent, chunks |-> {},
         plan |-> NoFiles, top |-> 0, raise |-> FALSE]

TypeOK ==
    /\ files \in [Paths -> Row]
    /\ tombs \in [Paths -> Nat]
    /\ idxVersion \in Nat
    /\ idxFloor \in Nat
    /\ db \in {"ok", "corrupt", "missing"}
    /\ hwm \in Nat
    /\ store \in [Chunks -> {"absent", "young", "old"}]
    /\ mirror \in [Paths -> Contents \cup {NoContent}]
    /\ state \in {"Closed", "Ok", "Corrupt", "DanglingRecovery"}
    /\ version \in Nat
    /\ historyFloor \in Nat
    /\ pc \in {"idle", "hwm", "mirror", "touch", "plan", "forced",
               "publish", "floor", "gc"}
    /\ op \in Op
    /\ faults \in Nat

\* A vault directory that has never been opened.
Init ==
    /\ files = NoFiles
    /\ tombs = NoTombs
    /\ idxVersion = 1
    /\ idxFloor = 1
    /\ db = "ok"
    /\ hwm = 0
    /\ store = [h \in Chunks |-> "absent"]
    /\ mirror = [p \in Paths |-> NoContent]
    /\ state = "Closed"
    /\ version = 0
    /\ historyFloor = 0
    /\ pc = "idle"
    /\ op = NoOp
    /\ faults = 0

Fault(kind) ==
    /\ kind \in FaultKinds
    /\ faults < MaxFaults
    /\ faults' = faults + 1

\* A best-effort write: it happens, or the fault `kind' makes it a logged no-op.
BestEffort(kind, written, unwritten) ==
    \/ written /\ UNCHANGED faults
    \/ unwritten /\ Fault(kind)

Idle    == pc = "idle"
Serving == state = "Ok" /\ Idle        \* ensure_ready under the lock

-----------------------------------------------------------------------------
(* The chunk store *)

\* put: an existing blob is left alone, its age included.
WithBlobs(hs) == [h \in Chunks |->
    IF h \in hs /\ store[h] = "absent" THEN "young" ELSE store[h]]

WithoutBlobs(hs) == [h \in Chunks |-> IF h \in hs THEN "absent" ELSE store[h]]

\* touch: "orphaned now".
Touched(hs) == [h \in Chunks |->
    IF h \in hs /\ store[h] # "absent" THEN "young" ELSE store[h]]

\* Mutant: the sweep looks at the age alone.
SweptByAge(st) == [h \in Chunks |-> IF st[h] = "old" THEN "absent" ELSE st[h]]

\* sweep_orphans: unreferenced blobs older than the TTL.
Swept(st) == [h \in Chunks |->
    IF h \notin Refs(files) /\ st[h] = "old" THEN "absent" ELSE st[h]]

\* put_chunk; the sweep runs when its interval has passed, which any upload may meet.
PutChunk(h) ==
    /\ Idle
    /\ state # "Closed"
    /\ \/ store' = WithBlobs({h})
       \/ state = "Ok" /\ store' = Swept(WithBlobs({h}))
    /\ UNCHANGED <<index, hwm, mirror, handle, pc, op, faults>>

\* ORPHAN_TTL passes for one blob.
Age(h) ==
    /\ store[h] = "young"
    /\ store' = [store EXCEPT ![h] = "old"]
    /\ UNCHANGED <<index, hwm, mirror, handle, pc, op, faults>>

-----------------------------------------------------------------------------
(* commit and delete: request, then the durable writes in program order *)

\* An omitted expected_version always matches (-1 stands for it).
CasMatches(p, expected) == expected \in {-1, files[p].version}

\* Mutant: no case-fold check.
CollidesNever(p) == FALSE

Collides(p) == \E q \in Live(files) : q # p /\ Fold[q] = Fold[p]

CommitAccepted(p, c) ==
    /\ Serving
    /\ p \notin UnsafePaths
    /\ ~Collides(p)
    /\ ChunksOf[c] \subseteq Stored

\* The chunks of the row at p that no row cites once it is replaced.
Dereferenced(p, fs) == ChunksIn(files[p].content) \ Refs(fs)

\* commit up to index.put, the transaction that makes it durable.
Commit(p, c, expected) ==
    LET fs == [files EXCEPT ![p] = [content |-> c, version |-> version + 1]] IN
    /\ CommitAccepted(p, c)
    /\ files[p].content # c
    /\ CasMatches(p, expected)
    /\ version < MaxVersion
    /\ files' = fs
    /\ tombs' = [tombs EXCEPT ![p] = 0]
    /\ idxVersion' = MaxOf(idxVersion, version + 1)
    /\ version' = version + 1
    /\ pc' = "hwm"
    /\ op' = [NoOp EXCEPT !.kind = "commit", !.path = p, !.body = c,
                          !.chunks = Dereferenced(p, fs)]
    /\ UNCHANGED <<idxFloor, db, hwm, store, mirror, state, historyFloor, faults>>

\* The bytes of a bind-mount file are judged by its size alone.
MirrorOk(p, c) == mirror[p] # NoContent /\ SizeOf[mirror[p]] = SizeOf[c]

\* A retry of what is already recorded: no new version, only the mirror is healed.
CommitAgain(p, c) ==
    /\ CommitAccepted(p, c)
    /\ files[p].content = c
    /\ ~MirrorOk(p, c)
    /\ BestEffort("mirrorFail", mirror' = [mirror EXCEPT ![p] = c], UNCHANGED mirror)
    /\ UNCHANGED <<index, hwm, store, handle, pc, op>>

\* delete_checked up to index.delete.
Delete(p, expected) ==
    LET fs == [files EXCEPT ![p] = NoRow] IN
    /\ Serving
    /\ files[p] # NoRow
    /\ CasMatches(p, expected)
    /\ version < MaxVersion
    /\ files' = fs
    /\ tombs' = [tombs EXCEPT ![p] = version + 1]
    /\ idxVersion' = MaxOf(idxVersion, version + 1)
    /\ version' = version + 1
    /\ pc' = "hwm"
    /\ op' = [NoOp EXCEPT !.kind = "delete", !.path = p,
                          !.chunks = Dereferenced(p, fs)]
    /\ UNCHANGED <<idxFloor, db, hwm, store, mirror, state, historyFloor, faults>>

\* Mutant: the sidecar is not rewritten.
WriteHwmSkipped ==
    /\ pc = "hwm"
    /\ pc' = IF op.kind = "reindex" THEN "floor" ELSE "mirror"
    /\ UNCHANGED <<index, hwm, store, mirror, handle, op, faults>>

\* write_version_hwm, shared by all three operations.
WriteHwm ==
    /\ pc = "hwm"
    /\ BestEffort("hwmFail", hwm' = version, UNCHANGED hwm)
    /\ pc' = IF op.kind = "reindex" THEN "floor" ELSE "mirror"
    /\ UNCHANGED <<index, store, mirror, handle, op>>

\* write_mirror of a commit; remove_file of a delete.
WriteMirror ==
    /\ pc = "mirror"
    /\ BestEffort("mirrorFail", mirror' = [mirror EXCEPT ![op.path] = op.body],
                                UNCHANGED mirror)
    /\ pc' = "touch"
    /\ UNCHANGED <<index, hwm, store, handle, op>>

\* The de-referenced blobs are touched, never removed; the request is answered.
TouchAndAnswer ==
    /\ pc = "touch"
    /\ store' = Touched(op.chunks)
    /\ pc' = "idle"
    /\ op' = NoOp
    /\ UNCHANGED <<index, hwm, mirror, handle, faults>>

-----------------------------------------------------------------------------
(* reindex: rebuild the manifest from the mirror *)

WasCorrupt == state = "Corrupt"

\* classify_missing: rows with no file on disk, split by whether the store has them.
MissingRows == Live(files) \ OnDisk
Recovered   == {p \in MissingRows : ChunksIn(files[p].content) \subseteq Stored}
Lost        == MissingRows \ Recovered

\* conflicting_or_unsafe_rels over the names the new manifest would hold.
Unindexable ==
    LET names == OnDisk \cup Recovered IN
    \/ names \cap UnsafePaths # {}
    \/ \E p, q \in names : p # q /\ Fold[p] = Fold[q]

\* Mutant: tombstones are not consulted.
GhostsNone == {}

\* A tombstoned file still on disk: its delete's mirror removal failed.
Ghosts == {p \in OnDisk : tombs[p] # 0 /\ files[p] = NoRow}

\* Mutant: every file is read back from the mirror.
KeptRowsNone == {}

\* Files whose row is trusted over the mirror, and files read back from it.
KeptRows == {p \in OnDisk \ Ghosts :
    ~WasCorrupt /\ files[p] # NoRow /\ ChunksIn(files[p].content) \subseteq Stored}
Rebuilt  == (OnDisk \ Ghosts) \ KeptRows

\* A rebuilt file keeps its version when its bytes are the ones the row records.
Renumbered == {p \in Rebuilt : files[p] = NoRow \/ files[p].content # mirror[p]}

\* Mutant: one version for all files a rebuild renumbers.
RankFlat(S, p) == Cardinality(S)

Rank(S, p) == Cardinality({q \in S : q <= p})

Manifest == [p \in Paths |->
    IF p \in Renumbered
    THEN [content |-> mirror[p], version |-> version + Rank(Renumbered, p)]
    ELSE IF p \in Recovered \cup (OnDisk \ Ghosts) THEN files[p] ELSE NoRow]

\* ReindexStarted: a rebuild that trusts the index gets one attempt.
StateOnceStarted == IF state = "DanglingRecovery" THEN "Corrupt" ELSE state

\* The operator's reindex; only the admin route may force it.
ReindexRequest(force) ==
    /\ Idle
    /\ state # "Closed"
    /\ version < MaxVersion
    /\ pc' = IF force THEN "forced" ELSE "plan"
    /\ op' = [NoOp EXCEPT !.kind = "reindex"]
    /\ UNCHANGED <<index, hwm, store, mirror, handle, faults>>

ReindexAborts == (pc = "plan" /\ Lost # {}) \/ Unindexable

ReindexAbort ==
    /\ pc \in {"plan", "forced"}
    /\ ReindexAborts
    /\ state' = StateOnceStarted
    /\ pc' = "idle"
    /\ op' = NoOp
    /\ UNCHANGED <<index, hwm, store, mirror, version, historyFloor, faults>>

\* The mirror once the recovered files are written back and the ghosts removed,
\* except for those in `failed', which stay as they are.
Rematerialized(failed) == [p \in Paths |->
    CASE p \in Recovered \ failed -> files[p].content
      [] p \in Ghosts \ failed    -> NoContent
      [] OTHER                    -> mirror[p]]

\* Everything before the transaction: the mirror is brought in step (each file best
\* effort) and the chunks of the rebuilt files stored.
ReindexPrepare ==
    /\ pc \in {"plan", "forced"}
    /\ ~ReindexAborts
    /\ op' = [op EXCEPT !.plan = Manifest,
                        !.top = version + Cardinality(Renumbered),
                        !.chunks = Refs(files) \ Refs(Manifest),
                        !.raise = WasCorrupt /\ tombs = NoTombs]
    /\ \/ mirror' = Rematerialized({}) /\ UNCHANGED faults
       \/ /\ Fault("mirrorFail")
          /\ \E failed \in SUBSET (Recovered \cup Ghosts) :
                 failed # {} /\ mirror' = Rematerialized(failed)
    /\ store' = WithBlobs(UNION {ChunksIn(mirror[p]) : p \in Rebuilt})
    /\ state' = StateOnceStarted
    /\ pc' = "publish"
    /\ UNCHANGED <<index, hwm, version, historyFloor>>

\* replace_files: one transaction, tombstones kept.
ReindexPublish ==
    /\ pc = "publish"
    /\ files' = op.plan
    /\ idxVersion' = MaxOf(idxVersion, op.top)
    /\ version' = op.top
    /\ pc' = "hwm"
    /\ UNCHANGED <<tombs, idxFloor, db, hwm, store, mirror, state,
                   historyFloor, op, faults>>

\* Mutant: a rebuild without tombstones leaves the floor where it was.
ReindexFloorKept ==
    /\ pc = "floor"
    /\ pc' = "gc"
    /\ UNCHANGED <<index, hwm, store, mirror, handle, op, faults>>

\* set_history_floor: a statement of its own, after the transaction.
ReindexFloor ==
    /\ pc = "floor"
    /\ IF op.raise
       THEN idxFloor' = op.top /\ historyFloor' = op.top
       ELSE UNCHANGED <<idxFloor, historyFloor>>
    /\ pc' = "gc"
    /\ UNCHANGED <<files, tombs, idxVersion, db, hwm, store, mirror, state,
                   version, op, faults>>

\* ReindexSucceeded, then drop what only the old manifest cited.
ReindexFinish ==
    /\ pc = "gc"
    /\ state' = "Ok"
    /\ store' = WithoutBlobs(op.chunks)
    /\ pc' = "idle"
    /\ op' = NoOp
    /\ UNCHANGED <<index, hwm, mirror, version, historyFloor, faults>>

\* An I/O error in replace_files or set_history_floor: `?' returns it.
ReindexIoError ==
    /\ pc \in {"publish", "floor"}
    /\ Fault("ioFail")
    /\ pc' = "idle"
    /\ op' = NoOp
    /\ UNCHANGED <<index, hwm, store, mirror, handle>>

-----------------------------------------------------------------------------
(* prune_history, open, and what happens to a vault from outside *)

\* Mutant: no upper bound.
ClampLow(v, lo, hi) == IF v < lo THEN lo ELSE v

\* clamp(requested, history_floor, version)
Clamp(v, lo, hi) == IF v < lo THEN lo ELSE IF v > hi THEN hi ELSE v

PruneHistory(requested) ==
    LET floor == Clamp(requested, historyFloor, version) IN
    /\ Idle
    /\ state # "Closed"
    /\ tombs' = [p \in Paths |-> IF tombs[p] < floor THEN 0 ELSE tombs[p]]
    /\ idxFloor' = floor
    /\ historyFloor' = floor
    /\ UNCHANGED <<files, idxVersion, db, hwm, store, mirror, state, version,
                   pc, op, faults>>

\* Vault::open.  A corrupt index is quarantined; it and a missing one are replaced
\* by a fresh empty one.  Then verify_and_gc, or the automatic reindex.
Open ==
    LET fresh    == db # "ok"
        fs       == IF fresh THEN NoFiles ELSE files
        top      == MaxOf(IF fresh THEN 1 ELSE idxVersion, hwm)
        floor    == IF fresh THEN 1 ELSE idxFloor
        corrupt  == db = "corrupt" \/ (fs = NoFiles /\ OnDisk # {})
        dangling == ~(Refs(fs) \subseteq Stored)
    IN
    /\ state = "Closed"
    /\ files' = fs
    /\ tombs' = IF fresh THEN NoTombs ELSE tombs
    /\ idxVersion' = IF fresh THEN 1 ELSE idxVersion
    /\ idxFloor' = floor
    /\ db' = "ok"
    /\ version' = top
    /\ historyFloor' = floor
    /\ IF corrupt \/ dangling
       THEN /\ state' = IF corrupt THEN "Corrupt" ELSE "DanglingRecovery"
            /\ pc' = "plan"
            /\ op' = [NoOp EXCEPT !.kind = "reindex"]
            /\ UNCHANGED store
       ELSE /\ state' = "Ok"
            /\ store' = WithoutBlobs(Chunks \ Refs(fs))
            /\ UNCHANGED <<pc, op>>
    /\ UNCHANGED <<hwm, mirror, faults>>

Down ==
    /\ state' = "Closed"
    /\ version' = 0
    /\ historyFloor' = 0
    /\ pc' = "idle"
    /\ op' = NoOp
    /\ UNCHANGED <<index, hwm, store, mirror>>

\* The handle is dropped: shutdown, or eviction of an idle vault.
Close ==
    /\ Idle
    /\ state # "Closed"
    /\ Down
    /\ UNCHANGED faults

\* The process dies, possibly between two writes of one operation.
Crash ==
    /\ state # "Closed"
    /\ Down
    /\ Fault("crash")

\* The index file is damaged, or is not there any more.
DbDamage(damage) ==
    /\ state = "Closed"
    /\ db = "ok"
    /\ db' = damage
    /\ Fault(IF damage = "corrupt" THEN "dbCorrupt" ELSE "dbMissing")
    /\ UNCHANGED <<files, tombs, idxVersion, idxFloor, hwm, store, mirror,
                   handle, pc, op>>

\* A blob vanishes from the disk.
ChunkDamage(h) ==
    /\ Idle
    /\ store[h] # "absent"
    /\ store' = [store EXCEPT ![h] = "absent"]
    /\ Fault("chunkLost")
    /\ UNCHANGED <<index, hwm, mirror, handle, pc, op>>

\* Somebody edits the bind mount on the host.
HostEdit(p, c) ==
    /\ Idle
    /\ mirror[p] # c
    /\ mirror' = [mirror EXCEPT ![p] = c]
    /\ Fault("hostEdit")
    /\ UNCHANGED <<index, hwm, store, handle, pc, op>>

-----------------------------------------------------------------------------

Request ==
    \/ \E p \in Paths, c \in Contents, e \in -1 .. MaxVersion : Commit(p, c, e)
    \/ \E p \in Paths, c \in Contents : CommitAgain(p, c)
    \/ \E p \in Paths, e \in -1 .. MaxVersion : Delete(p, e)
    \/ \E h \in Chunks : PutChunk(h)
    \/ \E force \in Forces : ReindexRequest(force)
    \/ \E v \in PruneFloors : PruneHistory(v)

Progress ==
    \/ WriteHwm \/ WriteMirror \/ TouchAndAnswer
    \/ ReindexAbort \/ ReindexPrepare \/ ReindexPublish
    \/ ReindexFloor \/ ReindexFinish

Environment ==
    \/ \E h \in Chunks : Age(h)
    \/ Open \/ Close \/ Crash \/ ReindexIoError
    \/ \E damage \in {"corrupt", "missing"} : DbDamage(damage)
    \/ \E h \in Chunks : ChunkDamage(h)
    \/ \E p \in Paths, c \in Contents \cup {NoContent} : HostEdit(p, c)

Next == Request \/ Progress \/ Environment

Spec == Init /\ [][Next]_vars

-----------------------------------------------------------------------------
(* Properties *)

Dangling == Refs(files) \ Stored

\* A row the server hands out can be downloaded: no commit, sweep, startup GC or
\* reindex GC - nor a crash between any two of their writes - makes the index cite a
\* chunk that is not stored.  Only a blob that vanishes from the disk does.
NoNewDangling ==
    [][(\E h \in Chunks : ChunkDamage(h)) \/ Dangling' \subseteq Dangling]_vars

\* No path is both listed and tombstoned in changes(0): put clears the tombstone,
\* reindex drops the ghosts it must not list.
LiveOrDeleted == \A p \in Live(files) : tombs[p] = 0

Versions == {files[p].version : p \in Live(files)}
            \cup {tombs[p] : p \in {q \in Paths : tombs[q] # 0}}

\* A delta cursor orders all changes: no two rows or tombstones carry one version,
\* none is above the version changes() reports, and while the vault is open its
\* own counter is not behind the index's.
VersionsOrdered ==
    /\ \A p, q \in Live(files) : p # q => files[p].version # files[q].version
    /\ \A p, q \in Paths : p # q /\ tombs[p] # 0 => tombs[p] # tombs[q]
    /\ \A p \in Live(files), q \in Paths : files[p].version # tombs[q]
    /\ \A v \in Versions : v <= idxVersion
    /\ state # "Closed" => idxVersion <= version

\* u64::clamp(floor, version) in prune_history panics when floor > version, which
\* would poison the vault's lock; and no tombstone lies below the floor, so that
\* history at or above it is all there.
FloorBelowVersion ==
    /\ state # "Closed" => historyFloor <= version
    /\ \A p \in Paths : tombs[p] # 0 => tombs[p] >= idxFloor

\* No two rows fold to one name on a case-insensitive device.
FoldsDistinct ==
    \A p, q \in Live(files) : p # q => Fold[p] # Fold[q]

Promise == INSTANCE VaultPromise WITH top <- idxVersion, floor <- idxFloor

\* Crashes between any two writes, failed mirror and sidecar writes, operator and
\* automatic reindexes and edits on the host are invisible to the devices: the index
\* behaves as VaultPromise as long as its own file survives.
ImplementsPromise == Promise!PromiseSpec
=============================================================================
