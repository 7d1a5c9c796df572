---------------------------- MODULE VaultProofs ----------------------------
(***************************************************************************)
(* Theorems about Vault, for any set of paths, contents and chunks and any *)
(* number of faults: its invariants under every mix of faults, what its    *)
(* devices remember (VaultHistory), and that it implements VaultPromise.   *)
(***************************************************************************)
EXTENDS VaultHistory, FiniteSetTheorems, TLAPS

-----------------------------------------------------------------------------
(* The ranks that number rebuilt files *)

\* Rank counts from 1 and stays within the set: the versions a reindex hands out
\* lie above the old version and not above max_version.
LEMMA RankBounds ==
    ASSUME NEW S \in SUBSET Paths, NEW p \in S
    PROVE  /\ Cardinality(S) \in Nat
           /\ Rank(S, p) \in Nat
           /\ 1 <= Rank(S, p)
           /\ Rank(S, p) <= Cardinality(S)
<1> DEFINE T == {q \in S : q <= p}
<1>1. IsFiniteSet(S) /\ Cardinality(S) \in Nat
  BY FS_Subset, FS_CardinalityType, PathsAssumption
<1>2. /\ IsFiniteSet(T) /\ Cardinality(T) \in Nat
      /\ Cardinality(T) <= Cardinality(S)
  <2>1. T \subseteq S
    OBVIOUS
  <2> QED
    BY <1>1, <2>1, FS_Subset, FS_CardinalityType
<1>3. Cardinality(T) # 0
  <2>1. p \in T
    BY PathsAssumption
  <2> QED
    BY <1>2, <2>1, FS_EmptySet
<1> QED
  BY <1>1, <1>2, <1>3 DEF Rank

\* Rank separates the members of the set: no two rebuilt files get one version.
LEMMA RankInjective ==
    ASSUME NEW S \in SUBSET Paths, NEW p \in S, NEW q \in S, p # q
    PROVE  Rank(S, p) # Rank(S, q)
<1>1. ASSUME NEW x \in S, NEW y \in S, x < y
      PROVE  Rank(S, x) # Rank(S, y)
  <2> DEFINE X == {z \in S : z <= x}
             Y == {z \in S : z <= y}
  <2>0. S \subseteq Int
    BY PathsAssumption
  <2>1. X \subseteq Y
    <3>1. ASSUME NEW z \in S, z <= x PROVE z <= y
      BY <1>1, <2>0, <3>1
    <3> QED
      BY <3>1
  <2>2. y \in Y /\ y \notin X
    BY <1>1, <2>0
  <2>3. IsFiniteSet(Y)
    BY FS_Subset, PathsAssumption
  <2>4. Cardinality(X) # Cardinality(Y)
    BY <2>1, <2>2, <2>3, FS_Subset
  <2> QED
    BY <2>4 DEF Rank
<1>2. p < q \/ q < p
  BY PathsAssumption
<1> QED
  BY <1>1, <1>2

-----------------------------------------------------------------------------
(* Type correctness *)

\* The stored rows are well formed whatever the rebuild finds.
LEMMA ManifestType ==
    ASSUME TypeOK
    PROVE  /\ Manifest \in [Paths -> Row]
           /\ Cardinality(Renumbered) \in Nat
<1>1. Renumbered \in SUBSET Paths
  BY DEF Renumbered, Rebuilt, OnDisk
<1>2. Cardinality(Renumbered) \in Nat
  BY <1>1, FS_Subset, FS_CardinalityType, PathsAssumption
<1>3. ASSUME NEW p \in Renumbered PROVE Rank(Renumbered, p) \in Nat
  BY <1>1, <1>3, RankBounds
<1>4. Manifest \in [Paths -> Row]
  BY <1>1, <1>3 DEF Manifest, TypeOK, Row, NoRow
<1> QED
  BY <1>2, <1>4

\* The chunk store's operations (put, remove, touch, sweep) yield a chunk store.
LEMMA StoreType ==
    ASSUME TypeOK, NEW hs
    PROVE  /\ WithBlobs(hs) \in [Chunks -> {"absent", "young", "old"}]
           /\ WithoutBlobs(hs) \in [Chunks -> {"absent", "young", "old"}]
           /\ Touched(hs) \in [Chunks -> {"absent", "young", "old"}]
           /\ Swept(WithBlobs(hs)) \in [Chunks -> {"absent", "young", "old"}]
BY DEF TypeOK, WithBlobs, WithoutBlobs, Touched, Swept

\* No operation in progress is a well-formed operation.
LEMMA NoOpType == NoOp \in Op
BY DEF NoOp, Op, NoFiles, NoRow, Row

\* The updates the operations make to what they carry.
LEMMA OpType ==
    ASSUME NEW o \in Op, NEW hs \in SUBSET Chunks
    PROVE  /\ \A p \in Paths, c \in Contents :
                  [o EXCEPT !.kind = "commit", !.path = p, !.body = c, !.chunks = hs] \in Op
           /\ \A p \in Paths :
                  [o EXCEPT !.kind = "delete", !.path = p, !.chunks = hs] \in Op
           /\ [o EXCEPT !.kind = "reindex"] \in Op
           /\ \A plan \in [Paths -> Row], n \in Nat, b \in BOOLEAN :
                  [o EXCEPT !.plan = plan, !.top = n, !.chunks = hs, !.raise = b] \in Op
<1>1. ASSUME NEW p \in Paths, NEW c \in Contents
      PROVE  [o EXCEPT !.kind = "commit", !.path = p, !.body = c, !.chunks = hs] \in Op
  BY DEF Op
<1>2. ASSUME NEW p \in Paths
      PROVE  [o EXCEPT !.kind = "delete", !.path = p, !.chunks = hs] \in Op
  BY DEF Op
<1>3. [o EXCEPT !.kind = "reindex"] \in Op
  BY DEF Op
<1>4. ASSUME NEW plan \in [Paths -> Row], NEW n \in Nat, NEW b \in BOOLEAN
      PROVE  [o EXCEPT !.plan = plan, !.top = n, !.chunks = hs, !.raise = b] \in Op
  BY DEF Op
<1> QED
  BY <1>1, <1>2, <1>3, <1>4

\* Every operation, crash and fault leaves the state well formed.
LEMMA TypeStep == TypeOK /\ [Next]_vars => TypeOK'
<1> SUFFICES ASSUME TypeOK, [Next]_vars PROVE TypeOK'
  OBVIOUS
<1> USE NoOpType
<1>1. ASSUME NEW p \in Paths, NEW c \in Contents, NEW e, Commit(p, c, e)
      PROVE  TypeOK'
  <2> DEFINE fs == [files EXCEPT ![p] = [content |-> c, version |-> version + 1]]
  <2>1. Dereferenced(p, fs) \in SUBSET Chunks
    BY ContentsAssumption DEF Dereferenced, ChunksIn
  <2>2. op' \in Op
    BY <1>1, <2>1, OpType DEF Commit
  <2> QED
    BY <1>1, <2>2 DEF Commit, TypeOK, MaxOf, Row
<1>2. ASSUME NEW p \in Paths, NEW c \in Contents, CommitAgain(p, c)
      PROVE  TypeOK'
  BY <1>2 DEF CommitAgain, BestEffort, Fault, TypeOK, index, handle
<1>3. ASSUME NEW p \in Paths, NEW e, Delete(p, e)
      PROVE  TypeOK'
  <2> DEFINE fs == [files EXCEPT ![p] = NoRow]
  <2>1. Dereferenced(p, fs) \in SUBSET Chunks
    BY ContentsAssumption DEF Dereferenced, ChunksIn
  <2>2. op' \in Op
    BY <1>3, <2>1, OpType DEF Delete
  <2> QED
    BY <1>3, <2>2 DEF Delete, TypeOK, MaxOf, Row, NoRow
<1>4. ASSUME NEW h \in Chunks, PutChunk(h)
      PROVE  TypeOK'
  BY <1>4, StoreType DEF PutChunk, TypeOK, index, handle
<1>5. ASSUME NEW force, ReindexRequest(force)
      PROVE  TypeOK'
  BY <1>5, OpType DEF ReindexRequest, TypeOK, index, handle
<1>6. ASSUME NEW v \in PruneFloors, PruneHistory(v)
      PROVE  TypeOK'
  BY <1>6, BoundsAssumption DEF PruneHistory, Clamp, TypeOK
<1>7. CASE WriteHwm
  BY <1>7 DEF WriteHwm, BestEffort, Fault, TypeOK, index, handle
<1>8. CASE WriteMirror
  BY <1>8 DEF WriteMirror, BestEffort, Fault, TypeOK, index, handle, Op
<1>9. CASE TouchAndAnswer
  BY <1>9, StoreType DEF TouchAndAnswer, TypeOK, index, handle
<1>10. CASE ReindexAbort
  BY <1>10 DEF ReindexAbort, StateOnceStarted, TypeOK, index
<1>11. CASE ReindexPrepare
  <2>1. op' \in Op
    <3>1. Refs(files) \ Refs(Manifest) \in SUBSET Chunks
      BY ContentsAssumption DEF Refs, ChunksIn
    <3>2. (WasCorrupt /\ tombs = NoTombs) \in BOOLEAN
      OBVIOUS
    <3>3. version + Cardinality(Renumbered) \in Nat
      BY ManifestType DEF TypeOK
    <3>4. Manifest \in [Paths -> Row]
      BY ManifestType
    <3>5. op \in Op
      BY DEF TypeOK
    <3> QED
      BY <1>11, <3>1, <3>2, <3>3, <3>4, <3>5, OpType, Zenon DEF ReindexPrepare
  <2>2. mirror' \in [Paths -> Contents \cup {NoContent}]
    BY <1>11 DEF ReindexPrepare, Rematerialized, TypeOK, Row
  <2>3. store' \in [Chunks -> {"absent", "young", "old"}]
    BY <1>11, StoreType DEF ReindexPrepare
  <2> QED
    BY <1>11, <2>1, <2>2, <2>3 DEF ReindexPrepare, StateOnceStarted, Fault, TypeOK, index
<1>12. CASE ReindexPublish
  BY <1>12 DEF ReindexPublish, MaxOf, TypeOK, Op
<1>13. CASE ReindexFloor
  BY <1>13 DEF ReindexFloor, TypeOK, Op
<1>14. CASE ReindexFinish
  BY <1>14, StoreType DEF ReindexFinish, TypeOK, index
<1>15. CASE ReindexIoError
  BY <1>15 DEF ReindexIoError, Fault, TypeOK, index, handle
<1>16. ASSUME NEW h \in Chunks, Age(h)
       PROVE  TypeOK'
  BY <1>16 DEF Age, TypeOK, index, handle
<1>17. CASE Open
  <2>1. files' \in [Paths -> Row] /\ tombs' \in [Paths -> Nat]
    BY <1>17 DEF Open, TypeOK, NoFiles, NoTombs, NoRow, Row
  <2>2. idxVersion' \in Nat /\ idxFloor' \in Nat /\ version' \in Nat /\ historyFloor' \in Nat
    BY <1>17 DEF Open, TypeOK, MaxOf
  <2>3. store' \in [Chunks -> {"absent", "young", "old"}]
    BY <1>17, StoreType DEF Open, TypeOK
  <2>4. /\ pc' \in {"idle", "hwm", "mirror", "touch", "plan", "forced", "publish", "floor", "gc"}
        /\ op' \in Op
        /\ state' \in {"Closed", "Ok", "Corrupt", "DanglingRecovery"}
    BY <1>17, OpType DEF Open, TypeOK
  <2> QED
    BY <1>17, <2>1, <2>2, <2>3, <2>4 DEF Open, TypeOK
<1>18. CASE Close
  BY <1>18 DEF Close, Down, TypeOK, index
<1>19. CASE Crash
  BY <1>19 DEF Crash, Down, Fault, TypeOK, index
<1>20. ASSUME NEW d \in {"corrupt", "missing"}, DbDamage(d)
       PROVE  TypeOK'
  BY <1>20 DEF DbDamage, Fault, TypeOK, handle
<1>21. ASSUME NEW h \in Chunks, ChunkDamage(h)
       PROVE  TypeOK'
  BY <1>21 DEF ChunkDamage, Fault, TypeOK, index, handle
<1>22. ASSUME NEW p \in Paths, NEW c \in Contents \cup {NoContent}, HostEdit(p, c)
       PROVE  TypeOK'
  BY <1>22 DEF HostEdit, Fault, TypeOK, index, handle
<1>23. CASE UNCHANGED vars
  BY <1>23 DEF vars, TypeOK, index, handle
<1> QED
  BY <1>1, <1>2, <1>3, <1>4, <1>5, <1>6, <1>7, <1>8, <1>9, <1>10, <1>11, <1>12,
     <1>13, <1>14, <1>15, <1>16, <1>17, <1>18, <1>19, <1>20, <1>21, <1>22, <1>23
     DEF Next, Request, Progress, Environment

\* The vault's tables, files and handle are well formed in every reachable state.
THEOREM TypeCorrect == Spec => []TypeOK
<1>1. Init => TypeOK
  BY NoOpType DEF Init, TypeOK, NoFiles, NoTombs, NoRow, Row
<1> QED
  BY <1>1, TypeStep, PTL DEF Spec

-----------------------------------------------------------------------------
(* The inductive invariant *)

\* A manifest that may be published at version `top'.
Publishable(fs, top) ==
    /\ \A p \in Live(fs) : tombs[p] = 0 /\ 1 <= fs[p].version /\ fs[p].version <= top
    /\ \A p, q \in Live(fs) : p # q => fs[p].version # fs[q].version /\ Fold[p] # Fold[q]
    /\ \A p \in Live(fs), q \in Paths : fs[p].version # tombs[q]

TombsOrdered ==
    /\ \A p \in Paths : tombs[p] <= idxVersion
    /\ \A p, q \in Paths : p # q /\ tombs[p] # 0 => tombs[p] # tombs[q]
    /\ \A p \in Paths : tombs[p] # 0 => idxFloor <= tombs[p]

\* The handle's counter is the larger of the two durable ones, and the floor is
\* below it even while the vault is closed.
Counters ==
    /\ 1 <= idxVersion
    /\ idxFloor <= MaxOf(idxVersion, hwm)
    /\ state # "Closed" => /\ version = MaxOf(idxVersion, hwm)
                           /\ historyFloor = idxFloor

\* What a rebuild carries from one of its writes to the next.
RebuildInFlight ==
    /\ state = "Closed" => pc = "idle"
    /\ pc \in {"plan", "forced", "floor", "gc"} => op.kind = "reindex"
    /\ pc = "publish" =>
         /\ op.kind = "reindex"
         /\ version <= op.top
         /\ Publishable(op.plan, op.top)
         /\ Refs(op.plan) \subseteq Stored
         /\ op.chunks \cap Refs(op.plan) = {}
    /\ pc \in {"hwm", "floor", "gc"} /\ op.kind = "reindex" =>
         /\ op.top = version
         /\ op.chunks \cap Refs(files) = {}
    /\ pc \in {"publish", "hwm", "floor"} /\ op.raise => tombs = NoTombs

IInv ==
    /\ TypeOK
    /\ Publishable(files, idxVersion)
    /\ TombsOrdered
    /\ Counters
    /\ RebuildInFlight

\* What a rebuild may list: safe, distinct names, each row old or newly numbered.
LEMMA ManifestPublishable ==
    ASSUME IInv, state # "Closed", ~Unindexable
    PROVE  Publishable(Manifest, version + Cardinality(Renumbered))
<1> DEFINE names == OnDisk \cup Recovered
           top == version + Cardinality(Renumbered)
<1> USE DEF IInv
<1>1. /\ Renumbered \in SUBSET Paths
      /\ Renumbered \subseteq OnDisk \ Ghosts
      /\ Recovered \subseteq Live(files)
  BY DEF Renumbered, Rebuilt, OnDisk, Recovered, MissingRows
<1>2. version \in Nat /\ Cardinality(Renumbered) \in Nat /\ idxVersion \in Nat /\ idxVersion <= version
  BY ManifestType DEF TypeOK, Counters, MaxOf
<1>3. ASSUME NEW p \in Live(Manifest), p \in Renumbered
      PROVE  /\ tombs[p] = 0
             /\ Manifest[p].version = version + Rank(Renumbered, p)
             /\ Rank(Renumbered, p) \in Nat
             /\ 1 <= Rank(Renumbered, p)
             /\ Rank(Renumbered, p) <= Cardinality(Renumbered)
  <2>1. tombs[p] = 0
    BY <1>1, <1>3 DEF Ghosts, Publishable, Live
  <2> QED
    BY <1>1, <1>3, <2>1, RankBounds DEF Manifest, Live
<1>4. ASSUME NEW p \in Live(Manifest), p \notin Renumbered
      PROVE  /\ Manifest[p] = files[p]
             /\ p \in Live(files)
             /\ tombs[p] = 0
             /\ files[p].version \in Nat
             /\ 1 <= files[p].version
             /\ files[p].version <= idxVersion
  <2>1. Manifest[p] = files[p] /\ p \in Live(files)
    BY <1>4 DEF Manifest, Live
  <2> QED
    BY <2>1 DEF Publishable, TypeOK, Live, Row
<1>5. Live(Manifest) \subseteq names
  BY <1>1 DEF Live, Manifest
<1>6. \A p \in Live(Manifest) : tombs[p] = 0 /\ 1 <= Manifest[p].version /\ Manifest[p].version <= top
  BY <1>2, <1>3, <1>4
<1>7. \A p, q \in Live(Manifest) : p # q => Manifest[p].version # Manifest[q].version
  <2> SUFFICES ASSUME NEW p \in Live(Manifest), NEW q \in Live(Manifest), p # q
               PROVE  Manifest[p].version # Manifest[q].version
    OBVIOUS
  <2>1. CASE p \in Renumbered /\ q \in Renumbered
    <3>1. Rank(Renumbered, p) # Rank(Renumbered, q)
      BY <1>1, <2>1, RankInjective
    <3> QED
      BY <1>2, <1>3, <2>1, <3>1
  <2>2. CASE p \in Renumbered /\ q \notin Renumbered
    BY <1>2, <1>3, <1>4, <2>2
  <2>3. CASE p \notin Renumbered /\ q \in Renumbered
    BY <1>2, <1>3, <1>4, <2>3
  <2>4. CASE p \notin Renumbered /\ q \notin Renumbered
    BY <1>4, <2>4 DEF Publishable
  <2> QED
    BY <2>1, <2>2, <2>3, <2>4
<1>8. \A p, q \in Live(Manifest) : p # q => Fold[p] # Fold[q]
  BY <1>5 DEF Unindexable
<1>9. \A p \in Live(Manifest), q \in Paths : Manifest[p].version # tombs[q]
  <2> SUFFICES ASSUME NEW p \in Live(Manifest), NEW q \in Paths
               PROVE  Manifest[p].version # tombs[q]
    OBVIOUS
  <2>1. tombs[q] \in Nat /\ tombs[q] <= idxVersion
    BY DEF TypeOK, TombsOrdered
  <2>2. CASE p \in Renumbered
    BY <1>2, <1>3, <2>1, <2>2
  <2>3. CASE p \notin Renumbered
    BY <1>4, <2>3 DEF Publishable
  <2> QED
    BY <2>2, <2>3
<1> QED
  BY <1>6, <1>7, <1>8, <1>9 DEF Publishable

\* Every chunk the rebuilt manifest cites is in the store or is put there by the
\* rebuild itself.
LEMMA ManifestStored ==
    ASSUME TypeOK
    PROVE  Refs(Manifest) \subseteq Stored \cup UNION {ChunksIn(mirror[p]) : p \in Rebuilt}
<1> SUFFICES ASSUME NEW p \in Paths
             PROVE  ChunksIn(Manifest[p].content)
                      \subseteq Stored \cup UNION {ChunksIn(mirror[q]) : q \in Rebuilt}
  BY DEF Refs
<1>1. CASE p \in Rebuilt
  <2>1. Manifest[p].content = mirror[p]
    BY <1>1 DEF Manifest, Renumbered, Rebuilt
  <2> QED
    BY <1>1, <2>1
<1>2. CASE p \in Recovered \cup KeptRows /\ p \notin Rebuilt
  <2>1. Manifest[p] = files[p]
    BY <1>2 DEF Manifest, Renumbered, KeptRows
  <2> QED
    BY <1>2, <2>1 DEF Recovered, KeptRows
<1>3. CASE p \notin Rebuilt \cup Recovered \cup KeptRows
  <2>1. Manifest[p] = NoRow
    BY <1>3 DEF Manifest, Renumbered, Rebuilt
  <2> QED
    BY <2>1, ContentsAssumption DEF NoRow, ChunksIn
<1> QED
  BY <1>1, <1>2, <1>3

\* The steps that touch neither the index, nor the counters, nor a rebuild under way.
LEMMA QuietStep ==
    ASSUME IInv, TypeOK',
           UNCHANGED <<files, tombs, idxVersion, idxFloor, hwm>>,
           pc' \in {"idle", "touch", "plan", "forced"},
           pc' \in {"plan", "forced"} => op'.kind = "reindex",
           \/ state' = "Closed" /\ pc' = "idle"
           \/ state # "Closed" /\ state' # "Closed" /\ UNCHANGED <<version, historyFloor>>
    PROVE  IInv'
<1>1. Publishable(files, idxVersion)'
  BY DEF IInv, Publishable, Live
<1>2. TombsOrdered'
  BY DEF IInv, TombsOrdered
<1>3. Counters'
  BY DEF IInv, Counters, MaxOf
<1>4. RebuildInFlight'
  BY DEF RebuildInFlight
<1> QED
  BY <1>1, <1>2, <1>3, <1>4 DEF IInv

\* The steps that change only the store's blobs, the mirror or the fault count, and
\* keep every blob that is there.
LEMMA StorageStep ==
    ASSUME IInv, TypeOK',
           UNCHANGED <<files, tombs, idxVersion, idxFloor, hwm, handle, pc, op>>,
           pc = "publish" => Stored \subseteq Stored'
    PROVE  IInv'
<1>1. Publishable(files, idxVersion)'
  BY DEF IInv, Publishable, Live
<1>2. TombsOrdered'
  BY DEF IInv, TombsOrdered
<1>3. Counters'
  BY DEF IInv, Counters, MaxOf, handle
<1>4. RebuildInFlight'
  <2>1. pc' = "publish" => Publishable(op.plan, op.top)'
    BY DEF IInv, RebuildInFlight, Publishable, Live
  <2>2. pc' = "publish" => (Refs(op.plan) \subseteq Stored)'
    BY DEF IInv, RebuildInFlight, Refs
  <2>3. Refs(files)' = Refs(files) /\ Refs(op.plan)' = Refs(op.plan)
    BY DEF Refs
  <2> QED
    BY <2>1, <2>2, <2>3 DEF IInv, RebuildInFlight, handle
<1> QED
  BY <1>1, <1>2, <1>3, <1>4 DEF IInv

\* A change of one path, numbered above everything there is.
LEMMA ChangeStep ==
    ASSUME IInv, TypeOK', state # "Closed", state' # "Closed",
           NEW p \in Paths, NEW row \in Row, NEW t \in {0, version + 1},
           files' = [files EXCEPT ![p] = row],
           tombs' = [tombs EXCEPT ![p] = t],
           \/ row = NoRow
           \/ /\ row.version = version + 1
              /\ t = 0
              /\ \A q \in Live(files) : q # p => Fold[q] # Fold[p],
           idxVersion' = MaxOf(idxVersion, version + 1),
           version' = version + 1,
           pc' = "hwm", op'.kind # "reindex", ~op'.raise,
           UNCHANGED <<idxFloor, hwm, historyFloor>>
    PROVE  IInv'
<1> USE DEF IInv
<1>1. /\ version \in Nat /\ idxVersion \in Nat /\ hwm \in Nat /\ idxFloor \in Nat
      /\ idxVersion <= version /\ hwm <= version /\ idxFloor <= version
      /\ idxVersion' = version + 1
  BY DEF TypeOK, Counters, MaxOf
<1>2. \A q \in Paths : tombs[q] \in Nat /\ tombs[q] <= version
  BY <1>1 DEF TypeOK, TombsOrdered
<1>3. \A q \in Live(files) : /\ files[q].version \in Nat
                             /\ 1 <= files[q].version
                             /\ files[q].version <= version
                             /\ tombs[q] = 0
  BY <1>1 DEF TypeOK, Publishable, Live, Row
<1>4. Live(files') \subseteq Live(files) \cup {p} /\ (row = NoRow => p \notin Live(files'))
  BY DEF Live, TypeOK
<1>5. \A q \in Live(files') : q # p => files'[q] = files[q] /\ q \in Live(files)
  BY <1>4 DEF TypeOK
<1>6. p \in Live(files') => files'[p].version = version + 1 /\ tombs'[p] = 0
  BY <1>4 DEF TypeOK
<1>7. \A q \in Paths : q # p => tombs'[q] = tombs[q]
  BY DEF TypeOK
<1>8. tombs'[p] = t
  BY DEF TypeOK
<1>9. Publishable(files, idxVersion)'
  <2>1. \A q \in Live(files') : /\ tombs'[q] = 0
                                /\ 1 <= files'[q].version
                                /\ files'[q].version <= version + 1
    BY <1>1, <1>3, <1>5, <1>6, <1>7
  <2>2. \A q, r \in Live(files') : q # r => files'[q].version # files'[r].version
    <3> SUFFICES ASSUME NEW q \in Live(files'), NEW r \in Live(files'), q # r
                 PROVE  files'[q].version # files'[r].version
      OBVIOUS
    <3> HIDE DEF IInv
    <3>1. CASE q = p
      <4>1. files'[r] = files[r] /\ r \in Live(files)
        BY <1>5, <3>1
      <4>2. files[r].version \in Nat /\ files[r].version <= version
        BY <1>3, <4>1
      <4> QED
        BY <1>1, <1>6, <3>1, <4>1, <4>2
    <3>2. CASE r = p
      <4>1. files'[q] = files[q] /\ q \in Live(files)
        BY <1>5, <3>2
      <4>2. files[q].version \in Nat /\ files[q].version <= version
        BY <1>3, <4>1
      <4> QED
        BY <1>1, <1>6, <3>2, <4>1, <4>2
    <3>3. CASE q # p /\ r # p
      <4>1. /\ files'[q] = files[q] /\ q \in Live(files)
            /\ files'[r] = files[r] /\ r \in Live(files)
        BY <1>5, <3>3
      <4> QED
        BY <4>1, Zenon DEF Publishable, IInv
    <3> QED
      BY <3>1, <3>2, <3>3
  <2>3. \A q, r \in Live(files') : q # r => Fold[q] # Fold[r]
    BY <1>4, <1>5 DEF Publishable
  <2>4. \A q \in Live(files'), r \in Paths : files'[q].version # tombs'[r]
    <3> SUFFICES ASSUME NEW q \in Live(files'), NEW r \in Paths
                 PROVE  files'[q].version # tombs'[r]
      OBVIOUS
    <3> HIDE DEF IInv
    <3>1. CASE q = p
      BY <1>1, <1>2, <1>6, <1>7, <3>1
    <3>2. CASE q # p /\ r = p
      <4>1. files'[q] = files[q] /\ q \in Live(files)
        BY <1>5, <3>2
      <4>2. files[q].version \in Nat /\ 1 <= files[q].version /\ files[q].version <= version
        BY <1>3, <4>1
      <4> QED
        BY <1>1, <1>8, <3>2, <4>1, <4>2
    <3>3. CASE q # p /\ r # p
      <4>1. files'[q] = files[q] /\ q \in Live(files) /\ tombs'[r] = tombs[r]
        BY <1>5, <1>7, <3>3
      <4> QED
        BY <4>1, Zenon DEF Publishable, IInv
    <3> QED
      BY <3>1, <3>2, <3>3
  <2> QED
    BY <1>1, <2>1, <2>2, <2>3, <2>4 DEF Publishable, Live
<1>10. TombsOrdered'
  BY <1>1, <1>2, <1>7, <1>8 DEF TombsOrdered
<1>11. Counters'
  BY <1>1 DEF Counters, MaxOf
<1>12. RebuildInFlight'
  BY DEF RebuildInFlight
<1> QED
  BY <1>9, <1>10, <1>11, <1>12

\* Every step of the vault preserves the invariant.
LEMMA InvStep == IInv /\ [Next]_vars => IInv'
<1> SUFFICES ASSUME IInv, [Next]_vars PROVE IInv'
  OBVIOUS
<1>0. TypeOK /\ TypeOK'
  BY TypeStep DEF IInv
<1>a. pc # "idle" => state # "Closed"
  BY DEF IInv, RebuildInFlight
<1>1. ASSUME NEW p \in Paths, NEW c \in Contents, NEW e, Commit(p, c, e)
      PROVE  IInv'
  <2> DEFINE row == [content |-> c, version |-> version + 1]
  <2>1. row \in Row /\ row.version = version + 1
    BY <1>0 DEF TypeOK, Row
  <2>2. \A q \in Live(files) : q # p => Fold[q] # Fold[p]
    BY <1>1 DEF Commit, CommitAccepted, Collides
  <2>3. op'.kind # "reindex" /\ ~op'.raise
    BY <1>1 DEF Commit, NoOp
  <2>4. state # "Closed" /\ state' # "Closed" /\ pc' = "hwm"
    BY <1>1 DEF Commit, CommitAccepted, Serving
  <2>5. /\ files' = [files EXCEPT ![p] = row]
        /\ tombs' = [tombs EXCEPT ![p] = 0]
        /\ idxVersion' = MaxOf(idxVersion, version + 1)
        /\ version' = version + 1
        /\ UNCHANGED <<idxFloor, hwm, historyFloor>>
    BY <1>1 DEF Commit
  <2> HIDE DEF row
  <2> QED
    BY <1>0, <2>1, <2>2, <2>3, <2>4, <2>5, ChangeStep
<1>2. ASSUME NEW p \in Paths, NEW c \in Contents, CommitAgain(p, c)
      PROVE  IInv'
  BY <1>0, <1>2, StorageStep DEF CommitAgain, CommitAccepted, Serving, Idle, index, handle
<1>3. ASSUME NEW p \in Paths, NEW e, Delete(p, e)
      PROVE  IInv'
  <2>1. NoRow \in Row
    BY DEF NoRow, Row
  <2>2. op'.kind # "reindex" /\ ~op'.raise
    BY <1>3 DEF Delete, NoOp
  <2>3. state # "Closed" /\ state' # "Closed" /\ pc' = "hwm"
    BY <1>3 DEF Delete, Serving
  <2>4. /\ files' = [files EXCEPT ![p] = NoRow]
        /\ tombs' = [tombs EXCEPT ![p] = version + 1]
        /\ idxVersion' = MaxOf(idxVersion, version + 1)
        /\ version' = version + 1
        /\ UNCHANGED <<idxFloor, hwm, historyFloor>>
    BY <1>3 DEF Delete
  <2> QED
    BY <1>0, <2>1, <2>2, <2>3, <2>4, ChangeStep
<1>4. ASSUME NEW h \in Chunks, PutChunk(h)
      PROVE  IInv'
  BY <1>0, <1>4, StorageStep DEF PutChunk, Idle, index, handle
<1>5. ASSUME NEW force, ReindexRequest(force)
      PROVE  IInv'
  BY <1>0, <1>5, QuietStep DEF ReindexRequest, NoOp, index, handle
<1>6. ASSUME NEW v \in PruneFloors, PruneHistory(v)
      PROVE  IInv'
  <2> DEFINE floor == Clamp(v, historyFloor, version)
  <2>1. /\ version \in Nat /\ idxVersion \in Nat /\ hwm \in Nat /\ idxFloor \in Nat
        /\ version = MaxOf(idxVersion, hwm) /\ historyFloor = idxFloor
        /\ idxFloor <= version
    BY <1>0, <1>6 DEF PruneHistory, IInv, Counters, TypeOK
  <2>2. floor \in Nat /\ idxFloor <= floor /\ floor <= version
    BY <2>1, BoundsAssumption DEF Clamp
  <2>3. /\ tombs' = [p \in Paths |-> IF tombs[p] < floor THEN 0 ELSE tombs[p]]
        /\ idxFloor' = floor /\ historyFloor' = floor
        /\ UNCHANGED <<files, idxVersion, hwm, state, version, pc, op>>
        /\ pc = "idle"
    BY <1>6 DEF PruneHistory, Idle
  <2> HIDE DEF floor
  <2>4. \A p \in Paths : tombs'[p] \in {0, tombs[p]} /\ (tombs'[p] # 0 => floor <= tombs'[p])
    BY <1>0, <2>2, <2>3 DEF TypeOK
  <2>5. Publishable(files, idxVersion)'
    <3>1. \A p \in Live(files), q \in Paths : files[p].version # tombs'[q]
      BY <1>0, <2>4 DEF IInv, Publishable, TypeOK, Live, Row
    <3>2. \A p \in Live(files) : tombs'[p] = 0
      BY <2>4 DEF IInv, Publishable, Live
    <3> QED
      BY <2>3, <3>1, <3>2 DEF IInv, Publishable, Live
  <2>6. TombsOrdered'
    BY <1>0, <2>1, <2>3, <2>4 DEF IInv, TombsOrdered, TypeOK
  <2>7. Counters'
    BY <2>1, <2>2, <2>3 DEF IInv, Counters, MaxOf
  <2>8. RebuildInFlight'
    BY <2>3 DEF RebuildInFlight
  <2> QED
    BY <1>0, <2>5, <2>6, <2>7, <2>8 DEF IInv
<1>7. CASE WriteHwm
  <2>1. /\ pc = "hwm" /\ pc' = IF op.kind = "reindex" THEN "floor" ELSE "mirror"
        /\ hwm' \in {hwm, version}
        /\ UNCHANGED <<files, tombs, idxVersion, idxFloor, state, version, historyFloor, op>>
    BY <1>7 DEF WriteHwm, BestEffort, index, handle
  <2>2. Publishable(files, idxVersion)'
    BY <2>1 DEF IInv, Publishable, Live
  <2>3. TombsOrdered'
    BY <2>1 DEF IInv, TombsOrdered
  <2>4. Counters'
    BY <1>0, <1>a, <2>1 DEF IInv, Counters, MaxOf, TypeOK
  <2>5. RebuildInFlight'
    <3>1. Refs(files)' = Refs(files)
      BY <2>1 DEF Refs
    <3> QED
      BY <2>1, <3>1 DEF IInv, RebuildInFlight
  <2> QED
    BY <1>0, <2>2, <2>3, <2>4, <2>5 DEF IInv
<1>8. CASE WriteMirror
  BY <1>0, <1>a, <1>8, QuietStep DEF WriteMirror, index, handle
<1>9. CASE TouchAndAnswer
  BY <1>0, <1>a, <1>9, QuietStep DEF TouchAndAnswer, index, handle
<1>10. CASE ReindexAbort
  BY <1>0, <1>a, <1>10, QuietStep DEF ReindexAbort, StateOnceStarted, index
<1>11. CASE ReindexPrepare
  <2> DEFINE top == version + Cardinality(Renumbered)
             rebuiltChunks == UNION {ChunksIn(mirror[p]) : p \in Rebuilt}
  <2>1. /\ op' = [op EXCEPT !.plan = Manifest, !.top = top,
                            !.chunks = Refs(files) \ Refs(Manifest),
                            !.raise = WasCorrupt /\ tombs = NoTombs]
        /\ store' = WithBlobs(rebuiltChunks)
        /\ pc' = "publish" /\ state' # "Closed"
        /\ UNCHANGED <<files, tombs, idxVersion, idxFloor, hwm, version, historyFloor>>
    BY <1>a, <1>11 DEF ReindexPrepare, StateOnceStarted, index
  <2>2. /\ op'.kind = op.kind /\ op'.plan = Manifest /\ op'.top = top
        /\ op'.chunks = Refs(files) \ Refs(Manifest)
        /\ op'.raise => tombs = NoTombs
    BY <1>0, <2>1 DEF TypeOK, Op
  <2>3. op.kind = "reindex"
    BY <1>11 DEF ReindexPrepare, IInv, RebuildInFlight
  <2>4. Publishable(Manifest, top)
    BY <1>a, <1>11, ManifestPublishable DEF ReindexPrepare, ReindexAborts
  <2>5. Refs(Manifest) \subseteq Stored'
    <3>1. Stored \subseteq Stored' /\ (rebuiltChunks \cap Chunks) \subseteq Stored'
      BY <2>1 DEF Stored, WithBlobs
    <3>2. Refs(Manifest) \subseteq Chunks
      BY ContentsAssumption DEF Refs, ChunksIn
    <3> QED
      BY <1>0, <3>1, <3>2, ManifestStored
  <2>6. version <= top
    BY <1>0, ManifestType DEF TypeOK
  <2> HIDE DEF top, rebuiltChunks
  <2>7. Publishable(files, idxVersion)' /\ Publishable(op.plan, op.top)'
    <3>1. Publishable(files, idxVersion)'
      BY <2>1 DEF IInv, Publishable, Live
    <3>2. Publishable(op.plan, op.top)'
      BY <2>1, <2>2, <2>4 DEF Publishable, Live
    <3> QED
      BY <3>1, <3>2
  <2>8. TombsOrdered'
    BY <2>1 DEF IInv, TombsOrdered
  <2>9. Counters'
    BY <1>a, <1>11, <2>1 DEF ReindexPrepare, IInv, Counters, MaxOf
  <2>10. RebuildInFlight'
    <3>1. Refs(op.plan)' = Refs(Manifest)
      BY <2>2 DEF Refs
    <3> QED
      BY <2>1, <2>2, <2>3, <2>5, <2>6, <2>7, <3>1 DEF RebuildInFlight
  <2> QED
    BY <1>0, <2>7, <2>8, <2>9, <2>10 DEF IInv
<1>12. CASE ReindexPublish
  <2>1. /\ pc = "publish" /\ pc' = "hwm" /\ files' = op.plan
        /\ idxVersion' = MaxOf(idxVersion, op.top) /\ version' = op.top
        /\ UNCHANGED <<tombs, idxFloor, hwm, state, historyFloor, op>>
    BY <1>12 DEF ReindexPublish
  <2>2. /\ op.kind = "reindex" /\ op.top \in Nat /\ version <= op.top
        /\ Publishable(op.plan, op.top)
        /\ op.chunks \cap Refs(op.plan) = {}
    BY <1>0, <2>1 DEF IInv, RebuildInFlight, TypeOK, Op
  <2>3. /\ idxVersion \in Nat /\ hwm \in Nat /\ idxFloor \in Nat /\ version \in Nat
        /\ version = MaxOf(idxVersion, hwm) /\ state # "Closed" /\ historyFloor = idxFloor
    BY <1>0, <1>a, <2>1 DEF IInv, Counters, TypeOK
  <2>4. idxVersion' = op.top /\ idxVersion <= op.top /\ hwm <= op.top /\ idxFloor <= op.top
    BY <2>1, <2>2, <2>3 DEF IInv, Counters, MaxOf
  <2>5. Publishable(files, idxVersion)'
    BY <2>1, <2>2, <2>4 DEF Publishable, Live
  <2>6. TombsOrdered'
    BY <1>0, <2>1, <2>2, <2>3, <2>4 DEF IInv, TombsOrdered, TypeOK
  <2>7. Counters'
    BY <2>1, <2>2, <2>3, <2>4 DEF IInv, Counters, MaxOf
  <2>8. RebuildInFlight'
    <3>1. Refs(files)' = Refs(op.plan)
      BY <2>1 DEF Refs
    <3> QED
      BY <1>a, <2>1, <2>2, <3>1 DEF IInv, RebuildInFlight
  <2> QED
    BY <1>0, <2>5, <2>6, <2>7, <2>8 DEF IInv
<1>13. CASE ReindexFloor
  <2>1. /\ pc = "floor" /\ pc' = "gc"
        /\ UNCHANGED <<files, tombs, idxVersion, hwm, state, version, op>>
        /\ \/ op.raise /\ idxFloor' = op.top /\ historyFloor' = op.top
           \/ UNCHANGED <<idxFloor, historyFloor>>
    BY <1>13 DEF ReindexFloor
  <2>2. /\ op.kind = "reindex" /\ op.top = version
        /\ op.raise => tombs = NoTombs
    BY <2>1 DEF IInv, RebuildInFlight
  <2>3. Publishable(files, idxVersion)'
    BY <2>1 DEF IInv, Publishable, Live
  <2>4. TombsOrdered'
    BY <2>1, <2>2 DEF IInv, TombsOrdered, NoTombs
  <2>5. Counters'
    BY <1>0, <1>a, <2>1, <2>2 DEF IInv, Counters, MaxOf, TypeOK
  <2>6. RebuildInFlight'
    <3>1. Refs(files)' = Refs(files)
      BY <2>1 DEF Refs
    <3> QED
      BY <2>1, <3>1 DEF IInv, RebuildInFlight
  <2> QED
    BY <1>0, <2>3, <2>4, <2>5, <2>6 DEF IInv
<1>14. CASE ReindexFinish
  BY <1>0, <1>a, <1>14, QuietStep DEF ReindexFinish, index
<1>15. CASE ReindexIoError
  BY <1>0, <1>a, <1>15, QuietStep DEF ReindexIoError, index, handle
<1>16. ASSUME NEW h \in Chunks, Age(h)
       PROVE  IInv'
  <2>1. Stored \subseteq Stored'
    BY <1>0, <1>16 DEF Age, Stored, TypeOK
  <2> QED
    BY <1>0, <1>16, <2>1, StorageStep DEF Age, index, handle
<1>17. CASE Open
  <2>1. /\ state = "Closed" /\ UNCHANGED hwm
        /\ \/ files' = NoFiles /\ tombs' = NoTombs /\ idxVersion' = 1 /\ idxFloor' = 1
           \/ UNCHANGED <<files, tombs, idxVersion, idxFloor>>
        /\ version' = MaxOf(idxVersion', hwm)
        /\ historyFloor' = idxFloor'
    BY <1>17 DEF Open
  <2>2. state' # "Closed" /\ pc' \in {"idle", "plan"}
    BY <1>17, <1>a DEF Open
  <2>3. Publishable(files, idxVersion)'
    BY <2>1 DEF IInv, Publishable, Live, NoFiles
  <2>4. TombsOrdered'
    BY <1>0, <2>1 DEF IInv, TombsOrdered, NoTombs
  <2>5. Counters'
    BY <1>0, <2>1, <2>2 DEF IInv, Counters, MaxOf, TypeOK
  <2>6. RebuildInFlight'
    <3>1. pc' = "plan" => op'.kind = "reindex"
      BY <1>17, <1>a DEF Open, NoOp
    <3> QED
      BY <2>2, <3>1 DEF RebuildInFlight
  <2> QED
    BY <1>0, <2>3, <2>4, <2>5, <2>6 DEF IInv
<1>18. CASE Close
  BY <1>0, <1>18, QuietStep DEF Close, Down, index
<1>19. CASE Crash
  BY <1>0, <1>19, QuietStep DEF Crash, Down, index
<1>20. ASSUME NEW d \in {"corrupt", "missing"}, DbDamage(d)
       PROVE  IInv'
  BY <1>0, <1>a, <1>20, StorageStep DEF DbDamage, handle
<1>21. ASSUME NEW h \in Chunks, ChunkDamage(h)
       PROVE  IInv'
  BY <1>0, <1>21, StorageStep DEF ChunkDamage, Idle, index, handle
<1>22. ASSUME NEW p \in Paths, NEW c \in Contents \cup {NoContent}, HostEdit(p, c)
       PROVE  IInv'
  BY <1>0, <1>22, StorageStep DEF HostEdit, Idle, index, handle
<1>23. CASE UNCHANGED vars
  BY <1>0, <1>23, StorageStep DEF vars, index, Stored
<1> QED
  BY <1>1, <1>2, <1>3, <1>4, <1>5, <1>6, <1>7, <1>8, <1>9, <1>10, <1>11, <1>12,
     <1>13, <1>14, <1>15, <1>16, <1>17, <1>18, <1>19, <1>20, <1>21, <1>22, <1>23
     DEF Next, Request, Progress, Environment

\* A vault directory that was never opened satisfies the inductive invariant.
LEMMA InitInv == Init => IInv
<1> SUFFICES ASSUME Init PROVE IInv
  OBVIOUS
<1>1. TypeOK
  BY NoOpType DEF Init, TypeOK, NoFiles, NoTombs, NoRow, Row
<1>2. Publishable(files, idxVersion)
  BY DEF Init, Publishable, Live, NoFiles
<1>3. TombsOrdered /\ Counters /\ RebuildInFlight
  BY DEF Init, TombsOrdered, NoTombs, Counters, MaxOf, RebuildInFlight
<1> QED
  BY <1>1, <1>2, <1>3 DEF IInv

\* The inductive invariant holds in every reachable state, with any faults.
THEOREM Invariant == Spec => []IInv
BY InitInv, InvStep, PTL DEF Spec
-----------------------------------------------------------------------------
(* What the invariant gives *)

\* changes(0) never lists a path both as a file and as deleted.
THEOREM LiveOrDeletedHolds == Spec => []LiveOrDeleted
<1>1. IInv => LiveOrDeleted
  BY DEF IInv, Publishable, LiveOrDeleted
<1> QED
  BY <1>1, Invariant, PTL

\* Every row and tombstone has a version of its own, at most the one changes()
\* reports, through any crashes, rebuilds and index losses.
THEOREM VersionsOrderedHolds == Spec => []VersionsOrdered
<1>1. IInv => VersionsOrdered
  <2> SUFFICES ASSUME IInv PROVE VersionsOrdered
    OBVIOUS
  <2>1. \A p, q \in Live(files) : p # q => files[p].version # files[q].version
    BY DEF IInv, Publishable
  <2>2. \A p, q \in Paths : p # q /\ tombs[p] # 0 => tombs[p] # tombs[q]
    BY DEF IInv, TombsOrdered
  <2>3. \A p \in Live(files), q \in Paths : files[p].version # tombs[q]
    BY DEF IInv, Publishable
  <2>4. \A v \in Versions : v <= idxVersion
    BY DEF IInv, Publishable, TombsOrdered, Versions
  <2>5. state # "Closed" => idxVersion <= version
    BY DEF IInv, Counters, MaxOf, TypeOK
  <2> QED
    BY <2>1, <2>2, <2>3, <2>4, <2>5 DEF VersionsOrdered
<1> QED
  BY <1>1, Invariant, PTL

\* prune_history's clamp never gets a floor above the version, and no tombstone
\* lies below the floor.
THEOREM FloorBelowVersionHolds == Spec => []FloorBelowVersion
<1>1. IInv => FloorBelowVersion
  BY DEF IInv, Counters, TombsOrdered, MaxOf, TypeOK, FloorBelowVersion
<1> QED
  BY <1>1, Invariant, PTL

\* No two listed names fold to one, whether a commit or a rebuild listed them.
THEOREM FoldsDistinctHolds == Spec => []FoldsDistinct
<1>1. IInv => FoldsDistinct
  BY DEF IInv, Publishable, FoldsDistinct
<1> QED
  BY <1>1, Invariant, PTL

\* A step that keeps the rows and every blob a row cites adds no dangling chunk.
LEMMA SameRows ==
    ASSUME files' = files \/ files' = NoFiles,
           Stored \cap Refs(files') \subseteq Stored'
    PROVE  Dangling' \subseteq Dangling
<1>1. Refs(files)' \subseteq Refs(files)
  BY ContentsAssumption DEF Refs, NoFiles, NoRow, ChunksIn
<1>2. Refs(files)' = Refs(files')
  BY DEF Refs
<1> QED
  BY <1>1, <1>2 DEF Dangling

\* Only a blob that vanishes from the disk leaves a row with a chunk that is gone.
LEMMA DanglingStep ==
    ASSUME IInv, Next
    PROVE  (\E h \in Chunks : ChunkDamage(h)) \/ Dangling' \subseteq Dangling
<1>0. TypeOK
  BY DEF IInv
<1>1. ASSUME NEW p \in Paths, NEW c \in Contents, NEW e, Commit(p, c, e)
      PROVE  Dangling' \subseteq Dangling
  <2>1. /\ files' = [files EXCEPT ![p] = [content |-> c, version |-> version + 1]]
        /\ store' = store /\ ChunksOf[c] \subseteq Stored
    BY <1>1 DEF Commit, CommitAccepted
  <2>2. \A q \in Paths : files'[q].content = IF q = p THEN c ELSE files[q].content
    BY <1>0, <2>1 DEF TypeOK
  <2>3. Refs(files)' \subseteq Refs(files) \cup ChunksOf[c]
    BY <2>2 DEF Refs, ChunksIn
  <2>4. Stored' = Stored
    BY <2>1 DEF Stored
  <2> QED
    BY <2>1, <2>3, <2>4 DEF Dangling
<1>2. ASSUME NEW p \in Paths, NEW e, Delete(p, e)
      PROVE  Dangling' \subseteq Dangling
  <2>1. files' = [files EXCEPT ![p] = NoRow] /\ store' = store
    BY <1>2 DEF Delete
  <2>2. \A q \in Paths : files'[q].content \in {NoContent, files[q].content}
    BY <1>0, <2>1 DEF TypeOK, NoRow
  <2>3. Refs(files)' \subseteq Refs(files)
    BY <2>2, ContentsAssumption DEF Refs, ChunksIn
  <2>4. Stored' = Stored
    BY <2>1 DEF Stored
  <2> QED
    BY <2>3, <2>4 DEF Dangling
<1>3. ASSUME NEW h \in Chunks, PutChunk(h)
      PROVE  Dangling' \subseteq Dangling
  <2>1. files' = files
    BY <1>3 DEF PutChunk, index
  <2>2. Stored \cap Refs(files) \subseteq Stored'
    BY <1>3 DEF PutChunk, Stored, WithBlobs, Swept
  <2> QED
    BY <2>1, <2>2, SameRows
<1>4. CASE TouchAndAnswer
  <2>1. files' = files /\ Stored \subseteq Stored'
    BY <1>4 DEF TouchAndAnswer, index, Stored, Touched
  <2> QED
    BY <2>1, SameRows
<1>5. CASE ReindexPrepare
  <2>1. files' = files /\ Stored \subseteq Stored'
    BY <1>5 DEF ReindexPrepare, index, Stored, WithBlobs
  <2> QED
    BY <2>1, SameRows
<1>6. CASE ReindexPublish
  <2>1. files' = op.plan /\ store' = store
    BY <1>6 DEF ReindexPublish
  <2>2. Refs(op.plan) \subseteq Stored
    BY <1>6 DEF ReindexPublish, IInv, RebuildInFlight
  <2>3. Refs(files)' = Refs(op.plan) /\ Stored' = Stored
    BY <2>1 DEF Refs, Stored
  <2> QED
    BY <2>2, <2>3 DEF Dangling
<1>7. CASE ReindexFinish
  <2>1. files' = files /\ store' = WithoutBlobs(op.chunks)
    BY <1>7 DEF ReindexFinish, index
  <2>2. op.chunks \cap Refs(files) = {}
    BY <1>7 DEF ReindexFinish, IInv, RebuildInFlight
  <2>3. Stored \cap Refs(files) \subseteq Stored'
    BY <2>1, <2>2 DEF Stored, WithoutBlobs
  <2> QED
    BY <2>1, <2>3, SameRows
<1>8. ASSUME NEW h \in Chunks, Age(h)
      PROVE  Dangling' \subseteq Dangling
  <2>1. files' = files /\ Stored \subseteq Stored'
    BY <1>0, <1>8 DEF Age, index, Stored, TypeOK
  <2> QED
    BY <2>1, SameRows
<1>9. CASE Open
  <2>1. /\ files' = files \/ files' = NoFiles
        /\ \/ store' = store
           \/ store' = WithoutBlobs(Chunks \ Refs(files'))
    BY <1>9 DEF Open
  <2>2. Stored \cap Refs(files') \subseteq Stored'
    BY <2>1 DEF Stored, WithoutBlobs
  <2> QED
    BY <2>1, <2>2, SameRows
<1>10. ASSUME UNCHANGED <<files, store>>
       PROVE  Dangling' \subseteq Dangling
  <2>1. files' = files /\ Stored \subseteq Stored'
    BY <1>10 DEF Stored
  <2> QED
    BY <2>1, SameRows
<1>11. ASSUME NEW p \in Paths, NEW c \in Contents, CommitAgain(p, c)
       PROVE  UNCHANGED <<files, store>>
  BY <1>11 DEF CommitAgain, index
<1>12. ASSUME NEW force, ReindexRequest(force)
       PROVE  UNCHANGED <<files, store>>
  BY <1>12 DEF ReindexRequest, index
<1>13. ASSUME NEW v, PruneHistory(v)
       PROVE  UNCHANGED <<files, store>>
  BY <1>13 DEF PruneHistory
<1>14. WriteHwm \/ WriteMirror \/ ReindexAbort \/ ReindexFloor \/ ReindexIoError
         \/ Close \/ Crash => UNCHANGED <<files, store>>
  BY DEF WriteHwm, WriteMirror, ReindexAbort, ReindexFloor, ReindexIoError,
         Close, Crash, Down, index
<1>15. ASSUME NEW d, DbDamage(d)
       PROVE  UNCHANGED <<files, store>>
  BY <1>15 DEF DbDamage
<1>16. ASSUME NEW p, NEW c, HostEdit(p, c)
       PROVE  UNCHANGED <<files, store>>
  BY <1>16 DEF HostEdit, index
<1> QED
  BY <1>1, <1>2, <1>3, <1>4, <1>5, <1>6, <1>7, <1>8, <1>9, <1>10, <1>11,
     <1>12, <1>13, <1>14, <1>15, <1>16
     DEF Next, Request, Progress, Environment

\* Nothing the server does, and no crash between two of its writes, makes the index
\* cite a chunk that is not in the store.
THEOREM NoNewDanglingHolds == Spec => NoNewDangling
<1>1. IInv /\ [Next]_vars =>
        [(\E h \in Chunks : ChunkDamage(h)) \/ Dangling' \subseteq Dangling]_vars
  BY DanglingStep
<1> QED
  BY <1>1, Invariant, PTL DEF Spec, NoNewDangling
-----------------------------------------------------------------------------
(* What devices remember *)

\* Faults after which the sidecar or the floor is behind, or a lost index is taken for a new one.
Unrecorded == {"crash", "hwmFail", "ioFail", "dbMissing"}

\* Nobody empties the bind mount by hand while the index lists nothing: a vault that is opened
\* then counts as new, also when it is one whose rebuild was refused.
HandsOff ==
    \A p \in Paths, c \in Contents \cup {NoContent} :
        HostEdit(p, c) /\ files = NoFiles => OnDisk' # {}

\* An index that was replaced by an empty one.
Blank == files = NoFiles /\ tombs = NoTombs

\* Every deletion above the floor is on record, and its file is not listed.
Whole == \A p \in Paths : gone[p] > idxFloor => files[p] = NoRow /\ tombs[p] = gone[p]

\* The index was lost, and the vault does not serve before the floor is raised.
Rebuilding ==
    \/ Blank /\ state \in {"Closed", "Corrupt"} /\ pc = "idle" /\ OnDisk # {}
    \/ Blank /\ state = "Corrupt" /\ pc \in {"plan", "forced"}
    \/ state = "Corrupt" /\ pc = "publish" /\ op.raise
    \/ /\ state = "Corrupt" /\ pc \in {"hwm", "floor"} /\ op.kind = "reindex" /\ op.raise
       /\ seen <= idxVersion

\* Outside the index the sidecar remembers all that was told or deleted.
Remembered ==
    /\ seen \in Nat /\ gone \in [Paths -> Nat]
    /\ seen <= MaxOf(idxVersion, hwm)
    /\ \A p \in Paths : gone[p] <= MaxOf(idxVersion, hwm)
    /\ pc # "hwm" => idxVersion <= MaxOf(1, hwm)

HInv ==
    /\ IInv
    /\ db # "missing"
    /\ Remembered
    /\ Rebuilding \/ (Whole /\ seen <= idxVersion)

\* Most steps leave the index and the sidecar alone.
LEMMA HistoryQuiet ==
    ASSUME HInv, IInv', db' # "missing", UNCHANGED <<files, tombs, idxVersion, idxFloor, hwm>>,
           pc' = "hwm" <=> pc = "hwm",
           seen' = Observed, gone' = [p \in Paths |-> Recorded(p)],
           Rebuilding => \/ Blank' /\ state' \in {"Closed", "Corrupt"} /\ pc' = "idle" /\ OnDisk' # {}
                         \/ Blank' /\ state' = "Corrupt" /\ pc' \in {"plan", "forced"}
                         \/ state' = "Corrupt" /\ pc' = "publish" /\ op'.raise
                         \/ /\ state' = "Corrupt" /\ pc' \in {"hwm", "floor"} /\ UNCHANGED op
                            /\ op.kind = "reindex" /\ op.raise /\ seen <= idxVersion
    PROVE  HInv'
<1>1. gone' = gone
  BY DEF Recorded, HInv, Remembered
<1>2. seen' \in Nat /\ seen' \in {seen, MaxOf(seen, idxVersion)} /\ (state' # "Ok" => seen' = seen)
  BY DEF Observed, HInv, Remembered, IInv, TypeOK, MaxOf
<1>3. Remembered'
  BY <1>1, <1>2 DEF HInv, Remembered, IInv, TypeOK, MaxOf
<1>4. CASE Rebuilding
  <2>1. Rebuilding'
    BY <1>2, <1>4, Zenon DEF Rebuilding
  <2> QED
    BY <1>3, <2>1 DEF HInv
<1>5. CASE Whole /\ seen <= idxVersion
  <2>1. Whole'
    BY <1>1, <1>5 DEF Whole
  <2>2. seen' <= idxVersion'
    BY <1>2, <1>5 DEF HInv, IInv, TypeOK, MaxOf
  <2> QED
    BY <1>3, <2>1, <2>2 DEF HInv
<1> QED
  BY <1>4, <1>5 DEF HInv

\* What a commit or a delete adds is newer than all that was told.
LEMMA HistoryRequest ==
    ASSUME HInv, IInv', db' # "missing", NEW p \in Paths, Serving,
           \A q \in Paths : q # p => files'[q] = files[q] /\ tombs'[q] = tombs[q],
           idxVersion' = MaxOf(idxVersion, version + 1), version' = version + 1, pc' = "hwm",
           UNCHANGED <<idxFloor, hwm>>,
           op'.path = p,
           \/ op'.kind = "commit"
           \/ op'.kind = "delete" /\ files'[p] = NoRow /\ tombs'[p] = version + 1,
           seen' = Observed, gone' = [q \in Paths |-> Recorded(q)]
    PROVE  HInv'
<1>1. seen' = seen
  BY DEF Observed
<1>2. /\ \A q \in Paths : q # p => gone'[q] = gone[q]
      /\ op'.kind = "commit" => gone'[p] = 0
      /\ op'.kind = "delete" => gone'[p] = version + 1
  BY DEF Recorded, Serving, Idle
<1>3. /\ version \in Nat /\ idxVersion \in Nat /\ hwm \in Nat /\ idxFloor \in Nat /\ version = MaxOf(idxVersion, hwm)
      /\ seen \in Nat /\ gone \in [Paths -> Nat] /\ seen <= version /\ \A q \in Paths : gone[q] <= version
  BY DEF HInv, IInv, TypeOK, Counters, Serving, Remembered
<1>4. idxVersion' = version + 1 /\ MaxOf(idxVersion', hwm') = version + 1
  BY <1>3 DEF MaxOf
<1>5. gone' \in [Paths -> Nat] /\ \A q \in Paths : gone'[q] <= version + 1
  <2>1. \A q \in Paths : gone'[q] \in Nat /\ gone'[q] <= version + 1
    BY <1>2, <1>3
  <2>2. gone' = [q \in Paths |-> gone'[q]]
    OBVIOUS
  <2> QED
    BY <2>1, <2>2
<1>6. Remembered'
  BY <1>1, <1>3, <1>4, <1>5 DEF Remembered, MaxOf
<1>7. Whole
  BY DEF HInv, Rebuilding, Serving, Idle
<1>8. Whole'
  <2> SUFFICES ASSUME NEW q \in Paths, gone'[q] > idxFloor
               PROVE  files'[q] = NoRow /\ tombs'[q] = gone'[q]
    BY DEF Whole
  <2>1. CASE q = p
    BY <1>2, <1>3, <2>1
  <2>2. CASE q # p
    BY <1>2, <1>7, <2>2 DEF Whole
  <2> QED
    BY <2>1, <2>2
<1>9. seen' <= idxVersion'
  BY <1>1, <1>3, <1>4
<1> QED
  BY <1>6, <1>8, <1>9 DEF HInv

\* Every step keeps what devices remember, if none of the faults in Unrecorded happens.
LEMMA HistoryStep ==
    ASSUME HInv, HistoryNext, HandsOff, FaultKinds \cap Unrecorded = {}
    PROVE  HInv'
<1>0. IInv /\ IInv' /\ TypeOK /\ TypeOK' /\ db' # "missing"
  <2>1. IInv /\ IInv' /\ TypeOK /\ TypeOK'
    BY InvStep DEF HInv, HistoryNext, IInv
  <2>2. ASSUME NEW d \in {"corrupt", "missing"}, DbDamage(d)
        PROVE  db' # "missing"
    BY <2>2 DEF DbDamage, Fault, Unrecorded
  <2>3. db' \in {db, "ok"} => db' # "missing"
    BY DEF HInv
  <2>4. db' \in {db, "ok"} \/ \E d \in {"corrupt", "missing"} : DbDamage(d)
    BY DEF HistoryNext, Next, Request, Progress, Environment, Commit, CommitAgain, Delete, PutChunk, ReindexRequest,
           PruneHistory, WriteHwm, WriteMirror, TouchAndAnswer, ReindexAbort, ReindexPrepare, ReindexPublish,
           ReindexFloor, ReindexFinish, Age, Open, Close, Crash, Down, ReindexIoError, ChunkDamage, HostEdit, index
  <2> QED
    BY <2>1, <2>2, <2>3, <2>4
<1>a. seen' = Observed /\ gone' = [p \in Paths |-> Recorded(p)]
  BY DEF HistoryNext
<1>b. state = "Closed" => pc = "idle"
  BY <1>0 DEF IInv, RebuildInFlight
<1>c. ~Fault("crash") /\ ~Fault("hwmFail") /\ ~Fault("ioFail") /\ ~Fault("dbMissing")
  BY DEF Fault, Unrecorded
<1>d. ASSUME UNCHANGED <<files, tombs, idxVersion, idxFloor, hwm, state, pc, op>>,
             Rebuilding /\ pc = "idle" => OnDisk' # {}
      PROVE  HInv'
  <2>1. Blank' = Blank
    BY <1>d DEF Blank
  <2> QED
    BY <1>0, <1>a, <1>d, <2>1, HistoryQuiet DEF Rebuilding
<1>e. Rebuilding /\ pc = "idle" => OnDisk # {} /\ Blank /\ state \in {"Closed", "Corrupt"}
  BY DEF Rebuilding
<1>f. UNCHANGED mirror => OnDisk' = OnDisk
  BY DEF OnDisk
<1>1. ASSUME NEW p \in Paths, NEW c \in Contents, NEW e, Commit(p, c, e)
      PROVE  HInv'
  <2>1. \A q \in Paths : q # p => files'[q] = files[q] /\ tombs'[q] = tombs[q]
    BY <1>0, <1>1 DEF Commit, TypeOK
  <2>2. op'.kind = "commit" /\ op'.path = p
    BY <1>1 DEF Commit, NoOp
  <2>3. Serving /\ idxVersion' = MaxOf(idxVersion, version + 1) /\ version' = version + 1 /\ pc' = "hwm"
        /\ UNCHANGED <<idxFloor, hwm>>
    BY <1>1 DEF Commit, CommitAccepted
  <2> QED
    BY <1>0, <1>a, <2>1, <2>2, <2>3, HistoryRequest
<1>2. ASSUME NEW p \in Paths, NEW c \in Contents, CommitAgain(p, c)
      PROVE  HInv'
  <2>1. Serving /\ UNCHANGED <<files, tombs, idxVersion, idxFloor, hwm, state, pc, op>>
    BY <1>2 DEF CommitAgain, CommitAccepted, index, handle
  <2> QED
    BY <1>d, <1>e, <2>1 DEF Serving
<1>3. ASSUME NEW p \in Paths, NEW e, Delete(p, e)
      PROVE  HInv'
  <2>1. /\ \A q \in Paths : q # p => files'[q] = files[q] /\ tombs'[q] = tombs[q]
        /\ files'[p] = NoRow /\ tombs'[p] = version + 1
    BY <1>0, <1>3 DEF Delete, TypeOK
  <2>2. op'.kind = "delete" /\ op'.path = p
    BY <1>3 DEF Delete, NoOp
  <2>3. Serving /\ idxVersion' = MaxOf(idxVersion, version + 1) /\ version' = version + 1 /\ pc' = "hwm"
        /\ UNCHANGED <<idxFloor, hwm>>
    BY <1>3 DEF Delete
  <2> QED
    BY <1>0, <1>a, <2>1, <2>2, <2>3, HistoryRequest
<1>4. ASSUME NEW h \in Chunks, PutChunk(h)
      PROVE  HInv'
  BY <1>4, <1>d, <1>e, <1>f DEF PutChunk, index, handle
<1>5. ASSUME NEW force, ReindexRequest(force)
      PROVE  HInv'
  <2>1. /\ UNCHANGED <<files, tombs, idxVersion, idxFloor, hwm, state>> /\ pc = "idle" /\ pc' \in {"plan", "forced"}
        /\ state # "Closed"
    BY <1>5 DEF ReindexRequest, index, handle, Idle
  <2>2. Blank' = Blank
    BY <2>1 DEF Blank
  <2> QED
    BY <1>0, <1>a, <1>e, <2>1, <2>2, HistoryQuiet
<1>6. ASSUME NEW v \in PruneFloors, PruneHistory(v)
      PROVE  HInv'
  <2> DEFINE floor == Clamp(v, historyFloor, version)
  <2>1. /\ pc = "idle" /\ state # "Closed" /\ UNCHANGED <<files, idxVersion, hwm, mirror, state, version, pc, op>>
        /\ idxFloor' = floor
        /\ \A p \in Paths : tombs'[p] = IF tombs[p] < floor THEN 0 ELSE tombs[p]
        /\ tombs' = [p \in Paths |-> IF tombs[p] < floor THEN 0 ELSE tombs[p]]
    BY <1>6 DEF PruneHistory, Idle
  <2>2. idxFloor \in Nat /\ floor \in Nat /\ idxFloor <= floor
    <3>1. historyFloor = idxFloor /\ historyFloor <= version /\ historyFloor \in Nat /\ version \in Nat /\ v \in Nat
      BY <1>0, <2>1, BoundsAssumption DEF IInv, Counters, TypeOK
    <3> QED
      BY <3>1 DEF Clamp
  <2> HIDE DEF floor
  <2>3. gone' = gone /\ (state # "Ok" => seen' = seen) /\ seen' \in {seen, MaxOf(seen, idxVersion)}
    BY <1>a, <2>1 DEF Recorded, Observed, HInv, Remembered
  <2>4. Remembered'
    BY <1>0, <2>1, <2>3 DEF HInv, Remembered, TypeOK, MaxOf
  <2>5. CASE Rebuilding
    <3>1. tombs' = NoTombs
      BY <1>e, <2>1, <2>5 DEF Blank, NoTombs
    <3>2. Rebuilding'
      BY <1>e, <1>f, <2>1, <2>5, <3>1 DEF Rebuilding, Blank
    <3> QED
      BY <1>0, <2>4, <3>2 DEF HInv
  <2>6. CASE Whole /\ seen <= idxVersion
    <3>1. Whole'
      <4> SUFFICES ASSUME NEW p \in Paths, gone[p] > floor
                   PROVE  files[p] = NoRow /\ tombs'[p] = gone[p]
        BY <2>1, <2>3 DEF Whole
      <4>1. gone[p] \in Nat
        BY DEF HInv, Remembered
      <4>2. files[p] = NoRow /\ tombs[p] = gone[p]
        BY <2>2, <2>6, <4>1 DEF Whole
      <4> QED
        BY <2>1, <2>2, <4>1, <4>2
    <3>2. seen' <= idxVersion'
      BY <1>0, <2>1, <2>3, <2>6 DEF MaxOf, HInv, Remembered, TypeOK
    <3> QED
      BY <1>0, <2>4, <3>1, <3>2 DEF HInv
  <2> QED
    BY <2>5, <2>6 DEF HInv
<1>7. CASE WriteHwm
  <2>1. /\ pc = "hwm" /\ pc' \in {"floor", "mirror"} /\ (op.kind = "reindex" => pc' = "floor")
        /\ hwm' = version
        /\ UNCHANGED <<files, tombs, idxVersion, idxFloor, state, op>>
    BY <1>7, <1>c DEF WriteHwm, BestEffort, index, handle
  <2>2. version = MaxOf(idxVersion, hwm) /\ idxVersion \in Nat /\ hwm \in Nat
    BY <1>0, <1>b, <2>1 DEF IInv, Counters, TypeOK
  <2>3. seen' = seen /\ gone' = gone
    BY <1>a, <2>1 DEF Recorded, Observed, HInv, Remembered
  <2>4. Remembered'
    BY <2>1, <2>2, <2>3 DEF HInv, Remembered, MaxOf
  <2>5. CASE Rebuilding
    <3>1. Rebuilding'
      BY <2>1, <2>3, <2>5 DEF Rebuilding
    <3> QED
      BY <1>0, <2>4, <3>1 DEF HInv
  <2>6. CASE Whole /\ seen <= idxVersion
    <3>1. Whole' /\ seen' <= idxVersion'
      BY <2>1, <2>3, <2>6 DEF Whole
    <3> QED
      BY <1>0, <2>4, <3>1 DEF HInv
  <2> QED
    BY <2>5, <2>6 DEF HInv
<1>8. CASE WriteMirror
  <2>1. UNCHANGED <<files, tombs, idxVersion, idxFloor, hwm>> /\ pc = "mirror" /\ pc' = "touch"
    BY <1>8 DEF WriteMirror, index
  <2> QED
    BY <1>0, <1>a, <2>1, HistoryQuiet DEF Rebuilding
<1>9. CASE TouchAndAnswer
  <2>1. UNCHANGED <<files, tombs, idxVersion, idxFloor, hwm>> /\ pc = "touch" /\ pc' = "idle"
    BY <1>9 DEF TouchAndAnswer, index
  <2> QED
    BY <1>0, <1>a, <2>1, HistoryQuiet DEF Rebuilding
<1>10. CASE ReindexAbort
  <2>1. /\ UNCHANGED <<files, tombs, idxVersion, idxFloor, hwm, mirror>>
        /\ pc \in {"plan", "forced"} /\ pc' = "idle" /\ (state = "Corrupt" => state' = "Corrupt") /\ ReindexAborts
    BY <1>10 DEF ReindexAbort, StateOnceStarted, index
  <2>2. Blank => OnDisk # {}
    BY <2>1 DEF Blank, NoFiles, ReindexAborts, Lost, Recovered, MissingRows, Live, Unindexable
  <2>3. Blank' = Blank
    BY <2>1 DEF Blank
  <2> QED
    BY <1>0, <1>a, <1>f, <2>1, <2>2, <2>3, HistoryQuiet DEF Rebuilding
<1>11. CASE ReindexPrepare
  <2>1. /\ UNCHANGED <<files, tombs, idxVersion, idxFloor, hwm>>
        /\ pc \in {"plan", "forced"} /\ pc' = "publish" /\ (state = "Corrupt" => state' = "Corrupt")
    BY <1>11 DEF ReindexPrepare, StateOnceStarted, index
  <2>2. PICK b \in BOOLEAN : b = (WasCorrupt /\ tombs = NoTombs)
    OBVIOUS
  <2>3. op' = [op EXCEPT !.plan = Manifest, !.top = version + Cardinality(Renumbered),
                         !.chunks = Refs(files) \ Refs(Manifest), !.raise = b]
    BY <1>11, <2>2, Zenon DEF ReindexPrepare
  <2>4. op'.raise = b
    BY <1>0, <2>3 DEF TypeOK, Op
  <2>5. Rebuilding => b
    BY <2>1, <2>2 DEF Rebuilding, Blank, WasCorrupt
  <2>6. Rebuilding => state' = "Corrupt" /\ pc' = "publish" /\ op'.raise
    BY <2>1, <2>4, <2>5 DEF Rebuilding
  <2> QED
    BY <1>0, <1>a, <2>1, <2>6, HistoryQuiet
<1>12. CASE ReindexPublish
  <2>1. /\ pc = "publish" /\ pc' = "hwm" /\ files' = op.plan
        /\ idxVersion' = MaxOf(idxVersion, op.top) /\ version' = op.top
        /\ UNCHANGED <<tombs, idxFloor, hwm, state, op>>
    BY <1>12 DEF ReindexPublish
  <2>2. /\ op.kind = "reindex" /\ op.top \in Nat /\ version <= op.top /\ Publishable(op.plan, op.top)
    BY <1>0, <2>1 DEF IInv, RebuildInFlight, TypeOK, Op
  <2>3. version = MaxOf(idxVersion, hwm) /\ idxVersion \in Nat /\ hwm \in Nat /\ version \in Nat /\ idxFloor \in Nat
    BY <1>0, <1>b, <2>1 DEF IInv, Counters, TypeOK
  <2>4. seen' = seen /\ gone' = gone
    BY <1>a, <2>1 DEF Recorded, Observed, HInv, Remembered
  <2>5. idxVersion' = op.top /\ seen <= op.top
    BY <2>1, <2>2, <2>3 DEF MaxOf, HInv, Remembered
  <2>6. Remembered'
    BY <2>1, <2>2, <2>3, <2>4, <2>5 DEF HInv, Remembered, MaxOf
  <2>7. CASE Rebuilding
    <3>1. Rebuilding'
      BY <2>1, <2>2, <2>4, <2>5, <2>7 DEF Rebuilding
    <3> QED
      BY <1>0, <2>6, <3>1 DEF HInv
  <2>8. CASE Whole
    <3>1. Whole'
      <4> SUFFICES ASSUME NEW p \in Paths, gone[p] > idxFloor
                   PROVE  op.plan[p] = NoRow /\ tombs[p] = gone[p]
        BY <2>1, <2>4 DEF Whole
      <4>1. tombs[p] = gone[p] /\ gone[p] \in Nat
        BY <2>8 DEF Whole, HInv, Remembered
      <4> QED
        BY <2>2, <2>3, <4>1 DEF Publishable, Live
    <3> QED
      BY <1>0, <2>4, <2>5, <2>6, <3>1 DEF HInv
  <2> QED
    BY <2>7, <2>8 DEF HInv
<1>13. CASE ReindexFloor
  <2>1. /\ pc = "floor" /\ pc' = "gc"
        /\ UNCHANGED <<files, tombs, idxVersion, hwm, state, version, op>>
        /\ IF op.raise THEN idxFloor' = op.top ELSE idxFloor' = idxFloor
    BY <1>13 DEF ReindexFloor
  <2>2. op.top = version /\ version = MaxOf(idxVersion, hwm) /\ version \in Nat
    BY <1>0, <1>b, <2>1 DEF IInv, RebuildInFlight, Counters, TypeOK
  <2>3. seen' = seen /\ gone' = gone
    BY <1>a, <2>1 DEF Recorded, Observed, HInv, Remembered
  <2>4. Remembered'
    BY <2>1, <2>3 DEF HInv, Remembered
  <2>5. seen <= idxVersion
    BY <2>1 DEF HInv, Rebuilding
  <2>6. Whole'
    <3>1. CASE op.raise
      <4>1. \A p \in Paths : gone[p] \in Nat /\ gone[p] <= version
        BY <2>2 DEF HInv, Remembered
      <4> QED
        BY <2>1, <2>2, <2>3, <3>1, <4>1 DEF Whole
    <3>2. CASE ~op.raise
      <4>1. Whole
        BY <2>1, <3>2 DEF HInv, Rebuilding
      <4> QED
        BY <2>1, <2>3, <3>2, <4>1 DEF Whole
    <3> QED
      BY <3>1, <3>2
  <2> QED
    BY <1>0, <2>1, <2>3, <2>4, <2>5, <2>6 DEF HInv
<1>14. CASE ReindexFinish
  <2>1. UNCHANGED <<files, tombs, idxVersion, idxFloor, hwm>> /\ pc = "gc" /\ pc' = "idle"
    BY <1>14 DEF ReindexFinish, index
  <2> QED
    BY <1>0, <1>a, <2>1, HistoryQuiet DEF Rebuilding
<1>15. ~ReindexIoError /\ ~Crash
  BY <1>c DEF ReindexIoError, Crash
<1>16. ASSUME NEW h \in Chunks, Age(h)
       PROVE  HInv'
  BY <1>16, <1>d, <1>e, <1>f DEF Age, index, handle
<1>17. CASE Open
  <2>1. /\ state = "Closed" /\ pc = "idle" /\ UNCHANGED <<hwm, mirror>>
        /\ state' # "Closed" /\ pc' \in {"idle", "plan"}
    BY <1>17, <1>b DEF Open
  <2>2. gone' = gone /\ (seen' = seen \/ (state' = "Ok" /\ seen' = MaxOf(seen, idxVersion')))
    BY <1>a, <2>1 DEF Recorded, Observed, HInv, Remembered
  <2>3. seen \in Nat /\ gone \in [Paths -> Nat] /\ idxVersion \in Nat /\ hwm \in Nat /\ idxVersion' \in Nat
    BY <1>0 DEF HInv, Remembered, TypeOK
  <2>4. idxVersion <= MaxOf(1, hwm)
    BY <2>1 DEF HInv, Remembered
  <2>5. CASE db = "ok"
    <3>1. UNCHANGED <<files, tombs, idxVersion, idxFloor>>
      BY <1>17, <2>5 DEF Open
    <3>2. Remembered'
      BY <2>1, <2>2, <2>3, <2>4, <3>1 DEF HInv, Remembered, MaxOf
    <3>3. CASE Rebuilding
      <4>1. Blank' /\ state' = "Corrupt" /\ pc' = "plan"
        BY <1>17, <1>e, <2>1, <2>5, <3>1, <3>3 DEF Open, Blank
      <4> QED
        BY <1>0, <3>2, <4>1 DEF HInv, Rebuilding
    <3>4. CASE Whole /\ seen <= idxVersion
      <4>1. Whole' /\ seen' <= idxVersion'
        BY <2>2, <2>3, <3>1, <3>4 DEF Whole, MaxOf
      <4> QED
        BY <1>0, <3>2, <4>1 DEF HInv
    <3> QED
      BY <3>3, <3>4 DEF HInv
  <2>6. CASE db = "corrupt"
    <3>1. Blank' /\ idxVersion' = 1 /\ state' = "Corrupt" /\ pc' = "plan"
      BY <1>17, <2>6 DEF Open, Blank
    <3>2. Remembered'
      BY <2>1, <2>2, <2>3, <2>4, <3>1 DEF HInv, Remembered, MaxOf
    <3> QED
      BY <1>0, <3>1, <3>2 DEF HInv, Rebuilding
  <2> QED
    BY <1>0, <2>5, <2>6 DEF TypeOK, HInv
<1>18. CASE Close
  <2>1. UNCHANGED <<files, tombs, idxVersion, idxFloor, hwm, mirror>> /\ pc = "idle" /\ pc' = "idle" /\ state' = "Closed"
    BY <1>18 DEF Close, Down, index, Idle
  <2>2. Blank' = Blank
    BY <2>1 DEF Blank
  <2> QED
    BY <1>0, <1>a, <1>e, <1>f, <2>1, <2>2, HistoryQuiet
<1>20. ASSUME NEW d \in {"corrupt", "missing"}, DbDamage(d)
       PROVE  HInv'
  BY <1>20, <1>d, <1>e, <1>f DEF DbDamage, handle
<1>21. ASSUME NEW h \in Chunks, ChunkDamage(h)
       PROVE  HInv'
  BY <1>21, <1>d, <1>e, <1>f DEF ChunkDamage, index, handle
<1>22. ASSUME NEW p \in Paths, NEW c \in Contents \cup {NoContent}, HostEdit(p, c)
       PROVE  HInv'
  <2>1. UNCHANGED <<files, tombs, idxVersion, idxFloor, hwm, state, pc, op>>
    BY <1>22 DEF HostEdit, index, handle
  <2>2. Blank => OnDisk' # {}
    BY <1>22 DEF HandsOff, Blank
  <2> QED
    BY <1>d, <1>e, <2>1, <2>2
<1> QED
  BY <1>1, <1>2, <1>3, <1>4, <1>5, <1>6, <1>7, <1>8, <1>9, <1>10, <1>11, <1>12,
     <1>13, <1>14, <1>15, <1>16, <1>17, <1>18, <1>20, <1>21, <1>22
     DEF HistoryNext, Next, Request, Progress, Environment

\* A vault that was never opened has told nobody anything.
LEMMA HistoryStart == HistoryInit => HInv
<1> SUFFICES ASSUME HistoryInit PROVE HInv
  OBVIOUS
<1>1. IInv /\ db # "missing"
  BY InitInv DEF HistoryInit, Init
<1>2. Remembered /\ Whole /\ seen <= idxVersion
  BY DEF HistoryInit, Init, NoTombs, Remembered, Whole, MaxOf
<1> QED
  BY <1>1, <1>2 DEF HInv

\* What devices remember of the vault stays true of it.
LEMMA HistoryInvariant ==
    ASSUME FaultKinds \cap Unrecorded = {}
    PROVE  HistorySpec /\ [][HandsOff]_historyVars => []HInv
<1>1. HInv /\ [HistoryNext]_historyVars /\ [HandsOff]_historyVars => HInv'
  <2> SUFFICES ASSUME HInv, [HistoryNext]_historyVars, [HandsOff]_historyVars PROVE HInv'
    OBVIOUS
  <2>1. CASE UNCHANGED historyVars
    <3>1. UNCHANGED vars /\ UNCHANGED <<seen, gone>>
      BY <2>1 DEF historyVars
    <3>2. IInv'
      BY <3>1, InvStep DEF HInv
    <3>3. db' # "missing" /\ Remembered'
      BY <3>1 DEF HInv, Remembered, vars, index
    <3>4. Rebuilding' \/ (Whole' /\ seen' <= idxVersion')
      BY <3>1 DEF HInv, Rebuilding, Blank, Whole, OnDisk, vars, index, handle
    <3> QED
      BY <3>2, <3>3, <3>4 DEF HInv
  <2>2. CASE HistoryNext /\ HandsOff
    BY <2>2, HistoryStep
  <2> QED
    BY <2>1, <2>2
<1> QED
  BY <1>1, HistoryStart, PTL DEF HistorySpec

\* The version changes() reports never drops below one that a device was told before, through
\* damaged indexes, refused and forced rebuilds, prunes, lost blobs and edits on the host.
THEOREM NoRewindHolds ==
    ASSUME FaultKinds \cap Unrecorded = {}
    PROVE  HistorySpec /\ [][HandsOff]_historyVars => []NoRewind
<1>1. HInv => NoRewind
  BY DEF HInv, NoRewind, Rebuilding, Serving, Idle
<1> QED
  BY <1>1, HistoryInvariant, PTL

\* Every deletion above the floor still has its tombstone when the vault serves.
THEOREM HistoryCompleteHolds ==
    ASSUME FaultKinds \cap Unrecorded = {}
    PROVE  HistorySpec /\ [][HandsOff]_historyVars => []HistoryComplete
<1>1. HInv => HistoryComplete
  BY DEF HInv, HistoryComplete, Whole, Rebuilding, Serving, Idle
<1> QED
  BY <1>1, HistoryInvariant, PTL

-----------------------------------------------------------------------------
(* Vault implements VaultPromise *)

\* The faults the promise is made for: the index file and the blobs survive, no statement of
\* a rebuild fails half-way and no history is pruned.
Survivable ==
    /\ FaultKinds \subseteq {"crash", "mirrorFail", "hwmFail", "hostEdit"}
    /\ PruneFloors = {}

\* What publishing `fs' may do to the index: list new files under names that are
\* neither listed nor deleted.
Ingests(fs, top) ==
    \A p \in Paths : \/ fs[p] = files[p]
                     \/ /\ files[p] = NoRow
                        /\ tombs[p] = 0
                        /\ idxVersion < fs[p].version
                        /\ fs[p].version <= top

\* No commit or delete is under way.
OnlyRebuilds == pc \notin {"mirror", "touch"} /\ (pc = "hwm" => op.kind = "reindex")

RInv ==
    /\ IInv
    /\ db = "ok"
    /\ Dangling = {}
    /\ hwm <= idxVersion
    /\ state # "DanglingRecovery"
    /\ state = "Corrupt" /\ pc \in {"idle", "plan", "forced", "publish"} => files = NoFiles
    /\ state = "Corrupt" => OnlyRebuilds
    /\ pc = "publish" => Ingests(op.plan, op.top)

\* With every blob in place a rebuild keeps every row and lists only new files.
LEMMA RebuildIngests ==
    ASSUME RInv, pc \in {"plan", "forced"}
    PROVE  Ingests(Manifest, version + Cardinality(Renumbered))
<1> SUFFICES ASSUME NEW p \in Paths, Manifest[p] # files[p]
             PROVE  /\ files[p] = NoRow
                    /\ tombs[p] = 0
                    /\ idxVersion < Manifest[p].version
                    /\ Manifest[p].version <= version + Cardinality(Renumbered)
  BY DEF Ingests
<1>1. TypeOK /\ state # "Closed" /\ version = idxVersion
  BY DEF RInv, IInv, RebuildInFlight, Counters, MaxOf, TypeOK
<1>2. ChunksIn(files[p].content) \subseteq Stored
  BY DEF RInv, Dangling, Refs
<1>3. state = "Corrupt" => files[p] = NoRow
  BY DEF RInv, NoFiles
<1>4. p \in Renumbered
  <2>1. CASE p \notin OnDisk
    BY <1>2, <2>1 DEF Manifest, Recovered, MissingRows, Live, Renumbered, Rebuilt
  <2>2. CASE p \in Ghosts
    BY <2>2 DEF Manifest, Recovered, MissingRows, Live, Renumbered, Rebuilt, Ghosts
  <2>3. CASE p \in OnDisk \ Ghosts
    BY <2>3 DEF Manifest
  <2> QED
    BY <2>1, <2>2, <2>3
<1>5. files[p] = NoRow /\ tombs[p] = 0
  BY <1>2, <1>3, <1>4 DEF Renumbered, Rebuilt, KeptRows, Ghosts, WasCorrupt
<1>6. Renumbered \in SUBSET Paths
  BY DEF Renumbered, Rebuilt, OnDisk
<1>7. /\ Rank(Renumbered, p) \in Nat /\ 1 <= Rank(Renumbered, p)
      /\ Rank(Renumbered, p) <= Cardinality(Renumbered)
      /\ Cardinality(Renumbered) \in Nat
  BY <1>4, <1>6, RankBounds
<1>8. Manifest[p].version = version + Rank(Renumbered, p)
  BY <1>4 DEF Manifest
<1>9. version \in Nat
  BY <1>1 DEF TypeOK
<1> QED
  BY <1>1, <1>5, <1>7, <1>8, <1>9

\* Steps that leave the index alone and start no publication keep the promise's view.
LEMMA UnseenStep ==
    ASSUME RInv, IInv', Dangling' = {},
           UNCHANGED <<files, tombs, idxVersion, idxFloor, db, hwm>>,
           state' # "DanglingRecovery",
           state' = "Corrupt" /\ pc' \in {"idle", "plan", "forced", "publish"} => files = NoFiles,
           state' = "Corrupt" => OnlyRebuilds',
           pc' = "publish" => pc = "publish" /\ op' = op
    PROVE  RInv' /\ UNCHANGED Promise!promiseVars
<1>1. pc' = "publish" => Ingests(op.plan, op.top)'
  BY DEF RInv, Ingests
<1> QED
  BY <1>1 DEF RInv, Promise!promiseVars

\* Every step of the vault is a step of the promise, or one its devices cannot see.
LEMMA RefinementStep ==
    ASSUME Survivable, RInv, [Next]_vars
    PROVE  RInv' /\ [Promise!PromiseNext]_Promise!promiseVars
<1>0. IInv /\ IInv' /\ TypeOK /\ TypeOK'
  BY InvStep DEF RInv, IInv
<1>a. Dangling' = {}
  <2>1. CASE UNCHANGED vars
    <3>1. Refs(files)' = Refs(files) /\ Stored' = Stored
      BY <2>1 DEF vars, index, Refs, Stored
    <3> QED
      BY <3>1 DEF RInv, Dangling
  <2>2. CASE Next
    <3>1. ~ \E h \in Chunks : ChunkDamage(h)
      BY DEF ChunkDamage, Fault, Survivable
    <3> QED
      BY <1>0, <2>2, <3>1, DanglingStep DEF RInv
  <2> QED
    BY <2>1, <2>2
<1>b. pc # "idle" => state # "Closed"
  BY <1>0 DEF IInv, RebuildInFlight
<1>c. state # "Closed" => version = idxVersion
  BY <1>0 DEF RInv, IInv, Counters, MaxOf, TypeOK
<1>1. ASSUME NEW p \in Paths, NEW c \in Contents, NEW e, Commit(p, c, e)
      PROVE  RInv' /\ Promise!Put(p, c)
  <2>1. state = "Ok" /\ version = idxVersion
    BY <1>1, <1>c DEF Commit, CommitAccepted, Serving
  <2>2. idxVersion' = idxVersion + 1
    BY <1>0, <1>1, <2>1 DEF Commit, MaxOf, TypeOK
  <2>3. Promise!Put(p, c)
    BY <1>1, <2>1, <2>2 DEF Commit, Promise!Put
  <2>4. hwm' <= idxVersion'
    BY <1>0, <1>1, <2>2 DEF Commit, RInv, TypeOK
  <2> QED
    BY <1>0, <1>a, <1>1, <2>1, <2>3, <2>4 DEF Commit, RInv, OnlyRebuilds
<1>2. ASSUME NEW p \in Paths, NEW e, Delete(p, e)
      PROVE  RInv' /\ Promise!Remove(p)
  <2>1. state = "Ok" /\ version = idxVersion
    BY <1>2, <1>c DEF Delete, Serving
  <2>2. idxVersion' = idxVersion + 1
    BY <1>0, <1>2, <2>1 DEF Delete, MaxOf, TypeOK
  <2>3. Promise!Remove(p)
    BY <1>2, <2>1, <2>2 DEF Delete, NoRow, Promise!Remove, Promise!Absent
  <2>4. hwm' <= idxVersion'
    BY <1>0, <1>2, <2>2 DEF Delete, RInv, TypeOK
  <2> QED
    BY <1>0, <1>a, <1>2, <2>1, <2>3, <2>4 DEF Delete, RInv, OnlyRebuilds
<1>3. ASSUME NEW p \in Paths, NEW c \in Contents, CommitAgain(p, c)
      PROVE  RInv' /\ UNCHANGED Promise!promiseVars
  BY <1>0, <1>a, <1>3, UnseenStep
     DEF RInv, OnlyRebuilds, CommitAgain, CommitAccepted, Serving, Idle, index, handle
<1>4. ASSUME NEW h \in Chunks, PutChunk(h)
      PROVE  RInv' /\ UNCHANGED Promise!promiseVars
  BY <1>0, <1>a, <1>4, UnseenStep DEF RInv, OnlyRebuilds, PutChunk, Idle, index, handle
<1>5. ASSUME NEW force, ReindexRequest(force)
      PROVE  RInv' /\ UNCHANGED Promise!promiseVars
  BY <1>0, <1>a, <1>5, UnseenStep DEF RInv, OnlyRebuilds, ReindexRequest, Idle, index, handle
<1>6. ~ \E v \in PruneFloors : PruneHistory(v)
  BY DEF Survivable
<1>7. CASE WriteHwm
  <2>1. /\ pc' \in {"floor", "mirror"} /\ hwm' \in {hwm, version}
        /\ pc' = "mirror" => op.kind # "reindex"
        /\ UNCHANGED <<files, tombs, idxVersion, idxFloor, db, state>>
    BY <1>7 DEF WriteHwm, BestEffort, index, handle
  <2>2. hwm' <= idxVersion'
    BY <1>0, <1>b, <1>c, <1>7, <2>1 DEF WriteHwm, RInv, TypeOK
  <2> QED
    BY <1>0, <1>a, <1>7, <2>1, <2>2 DEF WriteHwm, RInv, OnlyRebuilds, Promise!promiseVars
<1>8. CASE WriteMirror
  BY <1>0, <1>a, <1>8, UnseenStep DEF RInv, OnlyRebuilds, WriteMirror, index, handle
<1>9. CASE TouchAndAnswer
  <2>1. state # "Corrupt"
    BY <1>9 DEF TouchAndAnswer, RInv, OnlyRebuilds
  <2> QED
    BY <1>0, <1>a, <1>9, <2>1, UnseenStep DEF RInv, OnlyRebuilds, TouchAndAnswer, index, handle
<1>10. CASE ReindexAbort
  BY <1>0, <1>a, <1>10, UnseenStep DEF RInv, OnlyRebuilds, ReindexAbort, StateOnceStarted, index
<1>11. CASE ReindexPrepare
  <2>1. /\ pc \in {"plan", "forced"} /\ pc' = "publish"
        /\ UNCHANGED <<files, tombs, idxVersion, idxFloor, db, hwm, state>>
    BY <1>11 DEF RInv, OnlyRebuilds, ReindexPrepare, StateOnceStarted, index
  <2>2. op'.plan = Manifest /\ op'.top = version + Cardinality(Renumbered)
    BY <1>0, <1>11 DEF ReindexPrepare, TypeOK, Op
  <2>3. Ingests(op.plan, op.top)'
    BY <2>1, <2>2, RebuildIngests DEF Ingests
  <2> QED
    BY <1>0, <1>a, <2>1, <2>3 DEF RInv, OnlyRebuilds, Promise!promiseVars
<1>12. CASE ReindexPublish
  <2>1. /\ pc = "publish" /\ pc' = "hwm" /\ files' = op.plan
        /\ idxVersion' = MaxOf(idxVersion, op.top)
        /\ UNCHANGED <<tombs, idxFloor, db, hwm, state>>
    BY <1>12 DEF ReindexPublish
  <2>2. /\ idxVersion \in Nat /\ op.top \in Nat /\ idxVersion <= op.top
        /\ Ingests(op.plan, op.top)
    BY <1>0, <1>b, <1>c, <2>1 DEF RInv, IInv, RebuildInFlight, TypeOK, Op
  <2>3. idxVersion' = op.top
    BY <2>1, <2>2 DEF MaxOf
  <2>4. Promise!Ingest
    BY <2>1, <2>2, <2>3 DEF Promise!Ingest, Promise!Absent, Ingests, NoRow
  <2>6. op'.kind = "reindex"
    BY <1>0, <1>12 DEF ReindexPublish, IInv, RebuildInFlight
  <2>5. hwm' <= idxVersion'
    BY <1>0, <2>1, <2>2, <2>3 DEF RInv, TypeOK
  <2> QED
    BY <1>0, <1>a, <2>1, <2>4, <2>5, <2>6 DEF RInv, OnlyRebuilds, Promise!PromiseNext
<1>13. CASE ReindexFloor
  <2>1. /\ pc = "floor" /\ pc' = "gc"
        /\ UNCHANGED <<files, tombs, idxVersion, db, hwm, state>>
        /\ \/ op.raise /\ idxFloor' = op.top
           \/ UNCHANGED idxFloor
    BY <1>13 DEF ReindexFloor
  <2>2. RInv'
    BY <1>0, <1>a, <2>1 DEF RInv, OnlyRebuilds
  <2>3. CASE op.raise /\ idxFloor' = op.top
    <3>1. op.top = idxVersion /\ tombs = NoTombs
      BY <1>0, <1>b, <1>c, <2>1, <2>3 DEF IInv, RebuildInFlight
    <3>2. Promise!Rebase
      BY <2>1, <2>3, <3>1 DEF Promise!Rebase, NoTombs
    <3> QED
      BY <2>2, <3>2 DEF Promise!PromiseNext
  <2>4. CASE UNCHANGED idxFloor
    BY <2>1, <2>2, <2>4 DEF Promise!promiseVars
  <2> QED
    BY <2>1, <2>3, <2>4
<1>14. CASE ReindexFinish
  BY <1>0, <1>a, <1>14, UnseenStep DEF RInv, OnlyRebuilds, ReindexFinish, index
<1>15. ~ReindexIoError
  BY DEF ReindexIoError, Fault, Survivable
<1>16. ASSUME NEW h \in Chunks, Age(h)
       PROVE  RInv' /\ UNCHANGED Promise!promiseVars
  BY <1>0, <1>a, <1>16, UnseenStep DEF RInv, OnlyRebuilds, Age, index, handle
<1>17. CASE Open
  <2>1. /\ UNCHANGED <<files, tombs, idxVersion, idxFloor, db, hwm>>
        /\ pc' \in {"idle", "plan"}
    BY <1>0, <1>b, <1>17 DEF RInv, Open
  <2>2. Refs(files) \subseteq Stored
    BY DEF RInv, Dangling
  <2>3. state' # "DanglingRecovery" /\ (state' = "Corrupt" => files = NoFiles)
    BY <1>17, <2>2 DEF RInv, Open
  <2> QED
    BY <1>0, <1>a, <2>1, <2>3, UnseenStep DEF OnlyRebuilds
<1>18. CASE Close
  BY <1>0, <1>a, <1>18, UnseenStep DEF RInv, OnlyRebuilds, Close, Down, index
<1>19. CASE Crash
  BY <1>0, <1>a, <1>19, UnseenStep DEF RInv, OnlyRebuilds, Crash, Down, index
<1>20. ~ \E d \in {"corrupt", "missing"} : DbDamage(d)
  BY DEF DbDamage, Fault, Survivable
<1>21. ~ \E h \in Chunks : ChunkDamage(h)
  BY DEF ChunkDamage, Fault, Survivable
<1>22. ASSUME NEW p \in Paths, NEW c \in Contents \cup {NoContent}, HostEdit(p, c)
       PROVE  RInv' /\ UNCHANGED Promise!promiseVars
  BY <1>0, <1>a, <1>22, UnseenStep DEF RInv, OnlyRebuilds, HostEdit, Idle, index, handle
<1>23. CASE UNCHANGED vars
  BY <1>0, <1>a, <1>23, UnseenStep DEF RInv, OnlyRebuilds, vars, index, handle
<1> QED
  BY <1>1, <1>2, <1>3, <1>4, <1>5, <1>6, <1>7, <1>8, <1>9, <1>10, <1>11, <1>12,
     <1>13, <1>14, <1>15, <1>16, <1>17, <1>18, <1>19, <1>20, <1>21, <1>22, <1>23
     DEF Next, Request, Progress, Environment, Promise!PromiseNext

\* The devices see a durable map: with the index file and the blobs intact, no crash
\* between two writes, no failed mirror or sidecar write, no host edit and no rebuild
\* changes a listed file or undoes a deletion.
THEOREM Refinement ==
    ASSUME Survivable
    PROVE  Spec => ImplementsPromise
<1>1. Init => RInv /\ Promise!PromiseInit
  <2> SUFFICES ASSUME Init PROVE RInv /\ Promise!PromiseInit
    OBVIOUS
  <2>1. IInv
    BY InitInv
  <2>2. Dangling = {}
    BY ContentsAssumption DEF Init, Dangling, Refs, NoFiles, NoRow, ChunksIn
  <2>3. Promise!PromiseInit
    BY DEF Init, NoFiles, NoRow, NoTombs, Promise!PromiseInit, Promise!Absent
  <2> QED
    BY <2>1, <2>2, <2>3 DEF Init, RInv
<1>2. RInv /\ [Next]_vars => RInv' /\ [Promise!PromiseNext]_Promise!promiseVars
  BY RefinementStep
<1> QED
  BY <1>1, <1>2, PTL DEF Spec, ImplementsPromise, Promise!PromiseSpec
=============================================================================
