----------------------------- MODULE SyncProofs -----------------------------
(***************************************************************************)
(* Proofs about Sync, for any number of devices, paths, edits, deletions   *)
(* and faults.                                                             *)
(*                                                                         *)
(* NoLostEdit rests on one idea: along the history of a path the server's  *)
(* note only ever loses edits that a user discarded.  So a device may drop *)
(* whatever it once agreed with the server on, as soon as it holds a later *)
(* note of the server; and what it never agreed on is in its hand, in a    *)
(* copy or still on its disk.                                              *)
(***************************************************************************)
EXTENDS Sync, FiniteSetTheorems, WellFoundedInduction, TLAPS

-----------------------------------------------------------------------------
(* Tasks *)

\* r is t on its way from one step of a path to the next.
Same(r, t) ==
    /\ r.kind = t.kind /\ r.remote = t.remote /\ r.dels = t.dels /\ r.top = t.top
    /\ r.listed = t.listed /\ r.todo = t.todo
    /\ r.failed = t.failed /\ r.held = t.held

\* r is t with p behind it, or nothing is left of t.
Ended(r, t, p) ==
    \/ r = Idle
    \/ /\ r.kind = t.kind /\ r.remote = t.remote /\ r.dels = t.dels /\ r.top = t.top
       /\ r.todo = t.todo \ {p} /\ r.step = "next"
       /\ t.failed \subseteq r.failed /\ t.held \subseteq r.held /\ (0 \in r.failed => 0 \in t.failed)

\* What a task may be replaced by.
Becomes(d, r) == r \in Task /\ task' = [task EXCEPT ![d] = r]

\* Types of what the end of a path may change.
EndTyped ==
    /\ retries' \in [Devices -> [Paths -> [version : Nat, count : 0 .. MaxRetries]]]
    /\ linked' \in [Devices -> BOOLEAN]

\* The types one by one, and what a Becomes means for a device.
LEMMA Types ==
    ASSUME TypeOK, NEW d \in Devices
    PROVE  /\ task \in [Devices -> Task] /\ task[d] \in Task /\ task[d].todo \in SUBSET Paths
           /\ task[d].remote \in [Paths -> [content : Notes, version : Nat]]
           /\ local[d] \in [Paths -> Notes] /\ base[d] \in [Paths -> Notes] /\ saved[d] \in [Paths -> Notes]
           /\ copies[d] \in SUBSET Notes /\ held[d] \in SUBSET Paths
           /\ files \in [Paths -> [content : Notes, version : Nat]] /\ tombs \in [Paths -> Nat] /\ top \in Nat
           /\ discarded \in Notes /\ task[d].path \in Paths \cup {0}
  <1>1. task[d] \in Task
    BY DEF TypeOK
  <1>2. task[d].todo \in SUBSET Paths /\ task[d].remote \in [Paths -> [content : Notes, version : Nat]]
        /\ task[d].path \in Paths \cup {0}
    BY <1>1 DEF Task
  <1>3. QED
    BY <1>1, <1>2 DEF TypeOK

\* An idle task.
LEMMA IdleSound ==
    /\ Idle \in Task /\ Idle.kind = "idle" /\ Idle.step = "next" /\ Idle.todo = {} /\ Idle.path = 0
    /\ Idle.remote = NoRows /\ Idle.dels = NoVersions /\ Idle.failed = {} /\ Idle.held = {} /\ Idle.top = 0
    /\ {} \in Notes /\ Absent \in [content : Notes, version : Nat]
    /\ Absent.content = {} /\ Absent.version = 0
  <1>1. {} \in Notes /\ Absent = [content |-> {}, version |-> 0]
    BY DEF Notes, Absent, Server!Absent
  <1>2. NoRows \in [Paths -> [content : Notes, version : Nat]] /\ NoVersions \in [Paths -> Nat]
        /\ NoNotes \in [Paths -> Notes]
    BY <1>1 DEF NoRows, NoVersions, NoNotes
  <1>3. QED
    BY <1>1, <1>2 DEF Idle, Task, Steps, LocalWrites

\* The next step of a path, with bytes in hand.
LEMMA GoToSound ==
    ASSUME TypeOK, NEW d \in Devices, NEW s \in Steps, NEW h \in Notes, GoTo(d, s, h)
    PROVE  \E r : /\ Becomes(d, r) /\ r.step = s /\ r.hand = h /\ Same(r, task[d])
                  /\ r.path = task[d].path /\ r.seen = task[d].seen
  <1>1. task[d] \in Task
    BY DEF TypeOK
  <1>2. PICK r : r = [task[d] EXCEPT !.step = s, !.hand = h]
    OBVIOUS
  <1>3. task' = [task EXCEPT ![d] = r]
    BY <1>2 DEF GoTo
  <1>4. r \in Task /\ r.step = s /\ r.hand = h /\ Same(r, task[d]) /\ r.path = task[d].path /\ r.seen = task[d].seen
    BY <1>1, <1>2 DEF Task, Same
  <1>5. QED
    BY <1>3, <1>4 DEF Becomes

\* A path is behind the task.
LEMMA SettledSound ==
    ASSUME NEW t \in Task, NEW p, NEW r, r = Settled(t, p)
    PROVE  /\ r \in Task /\ Ended(r, t, p)
           /\ r.step = "next" /\ r.kind = t.kind /\ r.failed = t.failed /\ r.held = t.held
  BY IdleSound DEF Task, Settled, Ended, Steps

\* All the ways a path ends: the task has it behind itself, or is no more.
LEMMA EndsSound ==
    ASSUME TypeOK, NEW d \in Devices, NEW p \in Paths,
           PathDone(d, p) \/ PathFailed(d, p) \/ Offline(d)
    PROVE  EndTyped /\ \E r : Becomes(d, r) /\ Ended(r, task[d], p)
  <1>1. task[d] \in Task /\ task \in [Devices -> Task] /\ linked \in [Devices -> BOOLEAN]
        /\ retries \in [Devices -> [Paths -> [version : Nat, count : 0 .. MaxRetries]]]
        /\ MaxRetries \in Nat \ {0}
    BY SyncAssumption DEF TypeOK
  <1>2. CASE PathDone(d, p)
    <2>1. NoRetry \in [version : Nat, count : 0 .. MaxRetries]
      BY <1>1 DEF NoRetry
    <2>2. EndTyped
      BY <1>1, <1>2, <2>1 DEF PathDone, EndTyped
    <2>3. task' = [task EXCEPT ![d] = Settled(task[d], p)]
      BY <1>2 DEF PathDone
    <2>4. QED
      BY <1>1, <2>2, <2>3, SettledSound DEF Becomes
  <1>3. CASE PathFailed(d, p)
    <2> DEFINE v == VersionOf(task[d], p)
               count == Attempts(retries[d][p], v)
               S == task[d].failed \cup (IF v # 0 /\ count < MaxRetries THEN {v} ELSE {})
    <2>1. v \in Nat
      BY <1>1 DEF VersionOf, Task
    <2>2. count \in 0 .. MaxRetries
      BY <1>1 DEF Attempts
    <2>3. retries' = IF v = 0 THEN retries ELSE [retries EXCEPT ![d][p] = [version |-> v, count |-> count]]
      BY <1>3, Zenon DEF PathFailed
    <2>4. linked' = linked
      BY <1>3 DEF PathFailed
    <2>5. PICK r : r = [Settled(task[d], p) EXCEPT !.failed = S]
      OBVIOUS
    <2>6. task' = [task EXCEPT ![d] = r]
      BY <1>3, <2>5, Zenon DEF PathFailed
    <2>7. S \in SUBSET Nat /\ task[d].failed \subseteq S /\ (0 \in S => 0 \in task[d].failed)
      BY <1>1, <2>1 DEF Task
    <2> HIDE DEF v, count, S
    <2>8. EndTyped
      BY <1>1, <2>1, <2>2, <2>3, <2>4 DEF EndTyped
    <2>9. PICK q : q = Settled(task[d], p)
      OBVIOUS
    <2>10. r \in Task /\ Ended(r, task[d], p)
      <3>1. r = [q EXCEPT !.failed = S]
        BY <2>5, <2>9
      <3>2. q \in Task /\ q.remote = task[d].remote /\ q.dels = task[d].dels /\ q.top = task[d].top
            /\ q.todo = task[d].todo \ {p} /\ q.step = "next" /\ q.kind = task[d].kind /\ q.held = task[d].held
        BY <1>1, <2>9, IdleSound DEF Task, Settled, Steps
      <3>3. QED
        BY <2>7, <3>1, <3>2 DEF Task, Ended
    <2>11. QED
      BY <2>6, <2>8, <2>10 DEF Becomes
  <1>4. CASE Offline(d)
    <2>1. EndTyped
      BY <1>1, <1>4 DEF Offline, EndTyped
    <2>2. task' = [task EXCEPT ![d] = Idle]
      BY <1>4 DEF Offline
    <2>3. QED
      BY <2>1, <2>2, IdleSound DEF Becomes, Ended
  <1>5. QED
    BY <1>2, <1>3, <1>4

\* The same for a path that throws, and for one the server refuses.
LEMMA ThrowsSound ==
    ASSUME TypeOK, NEW d \in Devices, NEW p \in Paths,
           PathThrows(d, p) \/ (p = P(d) /\ Conflicted(d)) \/ PathDone(d, p) \/ Offline(d)
    PROVE  EndTyped /\ \E r : Becomes(d, r) /\ Ended(r, task[d], p)
  <1>1. PathDone(d, p) \/ PathFailed(d, p) \/ Offline(d)
    BY DEF PathThrows, Conflicted
  <1>2. QED
    BY <1>1, EndsSound

-----------------------------------------------------------------------------
(* Types *)

\* A task that becomes another one is a task.
LEMMA BecomesTyped ==
    ASSUME TypeOK, NEW d \in Devices, NEW r, Becomes(d, r)
    PROVE  task' \in [Devices -> Task]
  BY DEF TypeOK, Becomes

\* One path of one device gets a note.
LEMMA SetTyped ==
    ASSUME TypeOK, NEW d \in Devices, NEW p \in Paths, NEW n \in Notes
    PROVE  /\ SetBase(d, p, n) => base' \in [Devices -> [Paths -> Notes]]
           /\ SetLocal(d, p, n) => local' \in [Devices -> [Paths -> Notes]]
  <1>1. base \in [Devices -> [Paths -> Notes]] /\ local \in [Devices -> [Paths -> Notes]]
    BY DEF TypeOK
  <1>2. ASSUME SetBase(d, p, n) PROVE base' \in [Devices -> [Paths -> Notes]]
    BY <1>1, <1>2 DEF SetBase
  <1>3. ASSUME SetLocal(d, p, n) PROVE local' \in [Devices -> [Paths -> Notes]]
    BY <1>1, <1>3 DEF SetLocal
  <1>4. QED
    BY <1>2, <1>3

\* The server's answer to a commit and to a delete.
LEMMA ServerTyped ==
    ASSUME TypeOK, NEW p \in Paths, NEW n \in Notes, NEW v, Committed(p, n, v) \/ Deleted(p, v)
    PROVE  /\ files' \in [Paths -> [content : Notes, version : Nat]]
           /\ tombs' \in [Paths -> Nat] /\ top' \in Nat
  <1>1. files \in [Paths -> [content : Notes, version : Nat]] /\ tombs \in [Paths -> Nat] /\ top \in Nat
    BY DEF TypeOK
  <1>2. CASE UNCHANGED server
    BY <1>1, <1>2 DEF server
  <1>3. CASE Server!Put(p, n)
    BY <1>1, <1>3 DEF Server!Put
  <1>4. CASE Server!Remove(p)
    BY <1>1, <1>4, IdleSound DEF Server!Remove, Absent
  <1>5. QED
    BY <1>2, <1>3, <1>4 DEF Committed, Deleted

\* A fault counts within its bound.
LEMMA FaultTyped == ASSUME TypeOK, NEW kind, Fault(kind) PROVE faults' \in 0 .. MaxFaults
  BY SyncAssumption DEF TypeOK, Fault

\* The types of a next state, part by part.
LEMMA TypeParts ==
    ASSUME TypeOK, NEW d \in Devices, task' \in [Devices -> Task], EndTyped \/ UNCHANGED <<linked, retries>>,
           base' \in [Devices -> [Paths -> Notes]], local' \in [Devices -> [Paths -> Notes]],
           copies' \in [Devices -> SUBSET Notes],
           files' \in [Paths -> [content : Notes, version : Nat]], tombs' \in [Paths -> Nat], top' \in Nat,
           faults' \in 0 .. MaxFaults, UNCHANGED <<saved, cursor, held, users, amiss>>
    PROVE  TypeOK'
  BY DEF TypeOK, EndTyped, users

\* What stays as it is keeps its type.
LEMMA TypesNow ==
    ASSUME TypeOK
    PROVE  /\ base \in [Devices -> [Paths -> Notes]] /\ local \in [Devices -> [Paths -> Notes]]
           /\ copies \in [Devices -> SUBSET Notes]
           /\ files \in [Paths -> [content : Notes, version : Nat]] /\ tombs \in [Paths -> Nat] /\ top \in Nat
           /\ faults \in 0 .. MaxFaults
  BY DEF TypeOK

\* What each effect tells of the local note n, the base b and the remote note r.
LEMMA FinalizeSound ==
    ASSUME NEW n, NEW b, NEW r, NEW tomb \in BOOLEAN, NEW guard \in BOOLEAN,
           NEW e, e = Finalize(Decision!Decide(n, b, r), tomb, guard, n, b)
    PROVE  /\ e \in {"setBase", "clearBase", "noop", "reportGuard", "pushRead", "fetch", "remove", "probe", "mergeFetch"}
           /\ e = "setBase"     => n = r
           /\ e \in {"clearBase", "noop"} => n = {} /\ r = {}
           /\ e = "noop"        => b = {}
           /\ e = "reportGuard" => r = {} /\ tomb
           /\ e = "pushRead"    => r \in {{}, b} /\ n # {} /\ (r = {} /\ n = b => ~tomb)
           /\ e = "fetch"       => n \in {{}, b}
           /\ e = "remove"      => n = b /\ n # {} /\ r = {} /\ tomb
           /\ e = "probe"       => r = b
           /\ e = "mergeFetch"  => n \notin {{}, b}
  <1>1. PICK a : a = Decision!Decide(n, b, r)
    OBVIOUS
  <1>2. \/ a = "inSync" /\ n = r
        \/ a \in {"push", "keepLocal"} /\ n # {} /\ r \in {{}, b} /\ (r = {} => n # b)
        \/ a \in {"pull", "editWinsPull"} /\ n \in {{}, b}
        \/ a = "deleteLocal" /\ n = b /\ n # {} /\ r = {}
        \/ a = "deleteRemote" /\ r = b
        \/ a \in {"merge", "conflict"} /\ n # {} /\ n # b
    BY <1>1, Zenon DEF Decision!Decide
  <1>3. e = Finalize(a, tomb, guard, n, b)
    BY <1>1
  <1>4. QED
    BY <1>2, <1>3 DEF Finalize

\* A decision: the remote note is what the base becomes, or the removal is held, or the path
\* goes on with a step.
LEMMA DecidedSound ==
    ASSUME TypeOK, NEW d \in Devices, NEW p \in Paths, NEW n \in Notes, Decided(d, p, n)
    PROVE  \/ PathDone(d, p) /\ SetBase(d, p, task[d].remote[p].content) /\ n = task[d].remote[p].content
           \/ /\ UNCHANGED <<linked, retries, base>> /\ task[d].dels[p] # 0
              /\ \E r : /\ Becomes(d, r) /\ Ended(r, task[d], p) /\ r.step = "next" /\ r.kind = task[d].kind
                        /\ r.failed = task[d].failed /\ r.held = task[d].held \cup {p}
           \/ /\ UNCHANGED <<linked, retries, base>>
              /\ \E r : /\ Becomes(d, r) /\ Same(r, task[d]) /\ r.path = p /\ r.seen = n
                        /\ r.step \in {"pushRead", "fetch", "remove", "probe", "mergeFetch"}
                        /\ r.step = Finalize(Decision!Decide(n, base[d][p], task[d].remote[p].content),
                                             task[d].dels[p] # 0, task[d].guard, n, base[d][p])
  <1>1. task[d] \in Task /\ task[d].guard \in BOOLEAN /\ base \in [Devices -> [Paths -> Notes]]
    BY Types DEF Task, TypeOK
  <1>2. PICK b : b = base[d][p]
    OBVIOUS
  <1>3. PICK m : m = task[d].remote[p].content
    OBVIOUS
  <1>4. PICK e : e = Finalize(Decision!Decide(n, b, m), task[d].dels[p] # 0, task[d].guard, n, b)
    OBVIOUS
  <1>41. PICK tomb \in BOOLEAN : tomb = (task[d].dels[p] # 0)
    OBVIOUS
  <1>42. e = Finalize(Decision!Decide(n, b, m), tomb, task[d].guard, n, b)
    BY <1>4, <1>41
  <1>5. /\ e \in {"setBase", "clearBase", "noop", "reportGuard", "pushRead", "fetch", "remove", "probe", "mergeFetch"}
        /\ e = "setBase" => n = m
        /\ e \in {"clearBase", "noop"} => n = {} /\ m = {}
        /\ e = "noop" => b = {}
        /\ e = "reportGuard" => tomb
    BY <1>1, <1>42, FinalizeSound
  <1>6. \/ e = "noop" /\ PathDone(d, p) /\ UNCHANGED base
        \/ e = "setBase" /\ PathDone(d, p) /\ SetBase(d, p, n)
        \/ e = "clearBase" /\ PathDone(d, p) /\ SetBase(d, p, {})
        \/ e = "reportGuard" /\ UNCHANGED <<base, retries, linked>>
           /\ task' = [task EXCEPT ![d] = [Settled(task[d], p) EXCEPT !.held = task[d].held \cup {p}]]
        \/ e \in Steps /\ UNCHANGED <<base, retries, linked>>
           /\ task' = [task EXCEPT ![d].path = p, ![d].step = e, ![d].seen = n]
    BY <1>2, <1>3, <1>4, Zenon DEF Decided
  <1>7. CASE e \in {"noop", "setBase", "clearBase"}
    <2>1. PathDone(d, p) /\ (UNCHANGED base \/ SetBase(d, p, n) \/ SetBase(d, p, {}))
      BY <1>6, <1>7 DEF Steps, LocalWrites
    <2>2. CASE e = "noop"
      <3>1. base' = base /\ base[d][p] = {} /\ m = {}
        BY <1>2, <1>5, <1>6, <2>2 DEF Steps, LocalWrites
      <3>2. base' = [base EXCEPT ![d][p] = {}]
        BY <1>1, <3>1
      <3>3. QED
        BY <1>3, <1>5, <2>1, <2>2, <3>1, <3>2 DEF SetBase
    <2>3. CASE e # "noop"
      <3>1. SetBase(d, p, m)
        BY <1>5, <1>6, <1>7, <2>3 DEF Steps, LocalWrites
      <3>2. QED
        BY <1>3, <1>5, <1>7, <2>1, <3>1
    <2>4. QED
      BY <2>2, <2>3
  <1>8. CASE e = "reportGuard"
    <2>1. UNCHANGED <<base, retries, linked>>
          /\ task' = [task EXCEPT ![d] = [Settled(task[d], p) EXCEPT !.held = task[d].held \cup {p}]]
      BY <1>6, <1>8 DEF Steps, LocalWrites
    <2>2. PICK r : r = [Settled(task[d], p) EXCEPT !.held = task[d].held \cup {p}]
      OBVIOUS
    <2>3. task[d].held \cup {p} \in SUBSET Paths
      BY <1>1 DEF Task
    <2>4. PICK H \in SUBSET Paths : H = task[d].held \cup {p}
      BY <2>3
    <2>5. r \in Task /\ Ended(r, task[d], p) /\ r.step = "next" /\ r.kind = task[d].kind
          /\ r.failed = task[d].failed /\ r.held = H
      <3>1. PICK q : q = Settled(task[d], p)
        OBVIOUS
      <3>2. q \in Task /\ q.remote = task[d].remote /\ q.dels = task[d].dels /\ q.top = task[d].top
            /\ q.todo = task[d].todo \ {p} /\ q.step = "next" /\ q.kind = task[d].kind
            /\ q.failed = task[d].failed /\ q.held = task[d].held
        BY <1>1, <3>1, IdleSound DEF Task, Settled, Steps
      <3>3. r = [q EXCEPT !.held = H]
        BY <2>2, <2>4, <3>1
      <3>4. QED
        BY <2>4, <3>2, <3>3 DEF Task, Ended
    <2>6. task' = [task EXCEPT ![d] = r]
      BY <2>1, <2>2
    <2>7. QED
      BY <1>41, <1>5, <1>8, <2>1, <2>4, <2>5, <2>6 DEF Becomes
  <1>9. CASE e \in {"pushRead", "fetch", "remove", "probe", "mergeFetch"}
    <2>1. UNCHANGED <<base, retries, linked>> /\ task' = [task EXCEPT ![d].path = p, ![d].step = e, ![d].seen = n]
          /\ e \in Steps
      BY <1>6, <1>9
    <2>2. PICK r : r = [task[d] EXCEPT !.path = p, !.step = e, !.seen = n]
      OBVIOUS
    <2>3. task' = [task EXCEPT ![d] = r]
      BY <2>1, <2>2
    <2>4. r \in Task /\ Same(r, task[d]) /\ r.path = p /\ r.seen = n /\ r.step = e
      BY <1>1, <2>1, <2>2 DEF Task, Same
    <2>5. QED
      BY <1>2, <1>3, <1>4, <1>9, <2>1, <2>3, <2>4 DEF Becomes
  <1>10. QED
    BY <1>5, <1>7, <1>8, <1>9

-----------------------------------------------------------------------------
(* What a task was told *)

\* The server counts its versions, and a tombstone stands where no file is.
ServerInv ==
    \A p \in Paths :
        /\ files[p].version <= top /\ tombs[p] <= top
        /\ files[p].version = 0 => files[p] = Absent
        /\ tombs[p] # 0 => files[p] = Absent

\* A note r as a task was told of it, of the file f the server has now, below version v.
Known(r, f, v) ==
    /\ r.version <= v
    /\ r.version = 0 => r = Absent
    /\ r.version = f.version => r.content = f.content

\* A task knows notes the server has or had, and works on a path it has to settle.
Told(t, F, v) ==
    /\ \A p \in Paths : Known(t.remote[p], F[p], v)
    /\ \A p \in Paths : t.kind = "full" /\ t.dels[p] # 0 => t.remote[p] = Absent
    /\ t.kind = "idle" => t = Idle
    /\ t.step = "manifest" => t.kind = "event"
    /\ 0 \notin t.failed
    /\ t.step \notin {"next", "manifest"} => t.path \in t.todo

TInv == TypeOK /\ ServerInv /\ \A d \in Devices : Told(task[d], files, top)

\* The server moves on.
LEMMA ToldLater ==
    ASSUME NEW t \in Task, NEW F, NEW v \in Nat, Told(t, F, v), NEW F2, NEW v2 \in Nat, v <= v2,
           F \in [Paths -> [content : Notes, version : Nat]], F2 \in [Paths -> [content : Notes, version : Nat]],
           \A p \in Paths : F2[p] \in {F[p], Absent} \/ F2[p].version > v
    PROVE  Told(t, F2, v2)
  <1>1. ASSUME NEW p \in Paths PROVE Known(t.remote[p], F2[p], v2)
    <2>1. Known(t.remote[p], F[p], v) /\ t.remote[p].version \in Nat /\ F[p].version \in Nat /\ F2[p].version \in Nat
      BY DEF Told, Task
    <2>2. QED
      BY <2>1, IdleSound DEF Known
  <1>2. QED
    BY <1>1 DEF Told

\* A task goes on with a path, or has it behind itself.
LEMMA ToldOn ==
    ASSUME NEW t, NEW F, NEW v \in Nat, Told(t, F, v), t.kind # "idle", NEW p, NEW r,
           Ended(r, t, p) \/ (Same(r, t) /\ r.step # "manifest" /\ r.path \in r.todo),
           \A q \in Paths : F[q].version = 0 => F[q] = Absent
    PROVE  Told(r, F, v)
  <1>1. CASE r = Idle
    <2>1. \A q \in Paths : r.remote[q] = Absent
      BY <1>1, IdleSound DEF NoRows
    <2>2. \A q \in Paths : Known(r.remote[q], F[q], v)
      BY <2>1, IdleSound DEF Known
    <2>3. QED
      BY <1>1, <2>1, <2>2, IdleSound DEF Told
  <1>2. CASE r # Idle
    BY <1>2 DEF Ended, Same, Told
  <1>3. QED
    BY <1>1, <1>2

\* What TInv says of a device.
LEMMA OfTask ==
    ASSUME TInv, NEW d \in Devices
    PROVE  /\ TypeOK /\ ServerInv /\ Told(task[d], files, top)
           /\ task[d] \in Task /\ task \in [Devices -> Task]
           /\ top \in Nat /\ files \in [Paths -> [content : Notes, version : Nat]]
           /\ \A q \in Paths : files[q].version = 0 => files[q] = Absent
           /\ task[d].step \notin {"next", "manifest"} => task[d].path \in task[d].todo /\ task[d].path \in Paths
           /\ task[d].todo \subseteq Paths
           /\ task[d].seen \in Notes /\ task[d].hand \in Notes
           /\ task[d].remote \in [Paths -> [content : Notes, version : Nat]]
  <1>1. task[d] \in Task
    BY DEF TInv, TypeOK
  <1>2. task[d].todo \subseteq Paths /\ task[d].seen \in Notes /\ task[d].hand \in Notes
        /\ task[d].remote \in [Paths -> [content : Notes, version : Nat]]
    BY <1>1 DEF Task
  <1>3. QED
    BY <1>1, <1>2 DEF TInv, TypeOK, ServerInv, Told

\* A step of a task while the server stands still.
LEMMA TaskTold ==
    ASSUME TInv, NEW d \in Devices, NEW r, Becomes(d, r), Told(r, files, top), UNCHANGED server
    PROVE  ServerInv' /\ \A c \in Devices : Told(task'[c], files', top')
  <1>1. task'[d] = r /\ \A c \in Devices \ {d} : task'[c] = task[c]
    BY OfTask DEF Becomes
  <1>2. ServerInv'
    BY OfTask DEF ServerInv, server
  <1>3. ASSUME NEW c \in Devices PROVE Told(task'[c], files', top')
    <2>1. files' = files /\ top' = top
      BY DEF server
    <2>2. CASE c = d
      BY <1>1, <2>1, <2>2
    <2>3. CASE c # d
      BY <1>1, <2>1, <2>3, OfTask
    <2>4. QED
      BY <2>2, <2>3
  <1>4. QED
    BY <1>2, <1>3

\* The server's answer to a commit and to a delete: a newer note at one path.
LEMMA ServerStep ==
    ASSUME TInv, NEW p \in Paths, NEW n \in Notes, NEW v, Committed(p, n, v) \/ Deleted(p, v)
    PROVE  /\ ServerInv' /\ top' \in Nat /\ top <= top'
           /\ files' \in [Paths -> [content : Notes, version : Nat]]
           /\ \A q \in Paths : files'[q] \in {files[q], Absent} \/ files'[q].version > top
           /\ \A q \in Paths \ {p} : files'[q] = files[q] /\ tombs'[q] = tombs[q]
  <1>1. TypeOK /\ ServerInv /\ files \in [Paths -> [content : Notes, version : Nat]]
        /\ tombs \in [Paths -> Nat] /\ top \in Nat
    BY DEF TInv, TypeOK
  <1>2. files' \in [Paths -> [content : Notes, version : Nat]] /\ top' \in Nat
    BY <1>1, ServerTyped
  <1>3. CASE UNCHANGED server
    BY <1>1, <1>2, <1>3 DEF server, ServerInv
  <1>4. CASE Server!Put(p, n)
    <2>1. files'[p] = [content |-> n, version |-> top + 1] /\ tombs'[p] = 0 /\ top' = top + 1
          /\ \A q \in Paths \ {p} : files'[q] = files[q] /\ tombs'[q] = tombs[q]
      BY <1>1, <1>4 DEF Server!Put
    <2>2. \A q \in Paths : files[q].version \in Nat /\ tombs[q] \in Nat
      BY <1>1
    <2>3. ServerInv'
      BY <1>1, <2>1, <2>2 DEF ServerInv
    <2>4. QED
      BY <1>1, <1>2, <2>1, <2>3
  <1>5. CASE Server!Remove(p)
    <2>1. files'[p] = Absent /\ tombs'[p] = top + 1 /\ top' = top + 1
          /\ \A q \in Paths \ {p} : files'[q] = files[q] /\ tombs'[q] = tombs[q]
      BY <1>1, <1>5 DEF Server!Remove, Absent
    <2>2. \A q \in Paths : files[q].version \in Nat /\ tombs[q] \in Nat
      BY <1>1
    <2>3. ServerInv'
      BY <1>1, <2>1, <2>2, IdleSound DEF ServerInv
    <2>4. QED
      BY <1>1, <1>2, <2>1, <2>3
  <1>6. QED
    BY <1>3, <1>4, <1>5 DEF Committed, Deleted

-----------------------------------------------------------------------------
(* How tasks start *)

\* A threshold is reached or not.
LEMMA HoldSound == ASSUME NEW S \in SUBSET Paths PROVE BulkDeleteHold(S) \in BOOLEAN
  <1>1. Cardinality(S) \in Nat
    BY SyncAssumption, FS_Subset, FS_CardinalityType
  <1>2. QED
    BY <1>1, SyncAssumption DEF BulkDeleteHold

\* A full pass.
LEMMA FullSound ==
    ASSUME TypeOK, NEW d \in Devices, StartFull(d)
    PROVE  \E r : /\ Becomes(d, r) /\ r.kind = "full" /\ r.remote = files /\ r.dels = tombs /\ r.top = top
                  /\ r.listed = local[d] /\ r.todo = FullPaths(d) /\ r.failed = {} /\ r.held = {} /\ r.step = "next"
  <1> DEFINE g == BulkDeleteHold(InBase(d) \cap Tombstoned \cap OnDevice(d))
  <1>1. PICK t : t = Idle
    OBVIOUS
  <1>2. PICK h \in BOOLEAN : h = g
    BY HoldSound DEF InBase
  <1>3. PICK r : r = [t EXCEPT !.kind = "full", !.remote = files, !.dels = tombs, !.top = top,
                       !.listed = local[d], !.guard = h, !.todo = FullPaths(d)]
    OBVIOUS
  <1>4. task' = [task EXCEPT ![d] = r]
    BY <1>1, <1>2, <1>3, Zenon DEF StartFull
  <1>5. t \in Task /\ t.failed = {} /\ t.held = {} /\ t.step = "next"
    BY <1>1, IdleSound
  <1>6. FullPaths(d) \subseteq Paths /\ local[d] \in [Paths -> Notes]
        /\ files \in [Paths -> [content : Notes, version : Nat]] /\ tombs \in [Paths -> Nat] /\ top \in Nat
    BY Types DEF FullPaths, OnDevice, Listed, InBase
  <1> HIDE DEF g
  <1>7. r \in Task /\ r.kind = "full" /\ r.remote = files /\ r.dels = tombs /\ r.top = top
        /\ r.listed = local[d] /\ r.todo = FullPaths(d) /\ r.failed = {} /\ r.held = {} /\ r.step = "next"
    BY <1>2, <1>3, <1>5, <1>6 DEF Task
  <1>8. QED
    BY <1>4, <1>7 DEF Becomes

\* A delta pass: what changed past the cursor.
Upserted(d) == {p \in Listed : files[p].version > cursor[d]}
Removed(d)  == {p \in Paths : tombs[p] > cursor[d]}

LEMMA DeltaSound ==
    ASSUME TypeOK, NEW d \in Devices, StartDelta(d)
    PROVE  \E r : /\ Becomes(d, r) /\ r.kind = "delta" /\ r.top = top /\ r.todo = Upserted(d) \cup Removed(d)
                  /\ r.remote = [p \in Paths |-> IF p \in Upserted(d) THEN files[p] ELSE Absent]
                  /\ r.dels = [p \in Paths |-> IF p \in Removed(d) THEN tombs[p] ELSE 0]
                  /\ r.failed = {} /\ r.held = {} /\ r.step = "next"
  <1> DEFINE g == BulkDeleteHold(InBase(d) \cap Removed(d))
             m == [p \in Paths |-> IF p \in Upserted(d) THEN files[p] ELSE Absent]
             x == [p \in Paths |-> IF p \in Removed(d) THEN tombs[p] ELSE 0]
  <1>1. PICK t : t = Idle
    OBVIOUS
  <1>2. PICK h \in BOOLEAN : h = g
    BY HoldSound DEF InBase
  <1>3. PICK r : r = [t EXCEPT !.kind = "delta", !.top = top, !.remote = m, !.dels = x,
                       !.guard = h, !.todo = Upserted(d) \cup Removed(d)]
    OBVIOUS
  <1>4. task' = [task EXCEPT ![d] = r]
    BY <1>1, <1>2, <1>3, Zenon DEF StartDelta, Upserted, Removed
  <1>5. t \in Task /\ t.failed = {} /\ t.held = {} /\ t.step = "next"
    BY <1>1, IdleSound
  <1>6. Upserted(d) \cup Removed(d) \subseteq Paths /\ top \in Nat
    BY Types DEF Upserted, Removed, Listed
  <1>7. m \in [Paths -> [content : Notes, version : Nat]] /\ x \in [Paths -> Nat]
    BY Types, IdleSound
  <1> HIDE DEF g, m, x
  <1>8. r \in Task /\ r.kind = "delta" /\ r.top = top /\ r.todo = Upserted(d) \cup Removed(d)
        /\ r.remote = m /\ r.dels = x /\ r.failed = {} /\ r.held = {} /\ r.step = "next"
    BY <1>2, <1>3, <1>5, <1>6, <1>7 DEF Task
  <1>9. QED
    BY <1>4, <1>8 DEF Becomes, m, x

\* An event of one path.
LEMMA EventSound ==
    ASSUME TypeOK, NEW d \in Devices, NEW p \in Paths, StartEvent(d, p)
    PROVE  \E r : /\ Becomes(d, r) /\ r.kind = "event" /\ r.todo = {p}
                  /\ (\A q \in Paths : r.remote[q] = IF q = p THEN files[p] ELSE Absent) /\ r.dels = NoVersions
                  /\ r.failed = {} /\ r.held = {} /\ r.top = 0 /\ r.step \in {"next", "manifest"}
                  /\ (r.step = "next" => files[p] # Absent \/ base[d][p] = {})
  <1> DEFINE s == IF files[p] = Absent /\ base[d][p] # {} THEN "manifest" ELSE "next"
  <1>1. PICK t : t = Idle
    OBVIOUS
  <1>2. PICK r : r = [t EXCEPT !.kind = "event", !.remote[p] = files[p], !.todo = {p}, !.step = s]
    OBVIOUS
  <1>3. task' = [task EXCEPT ![d] = r]
    BY <1>1, <1>2, Zenon DEF StartEvent
  <1>4. t \in Task /\ t.failed = {} /\ t.held = {} /\ t.remote = NoRows /\ t.dels = NoVersions /\ t.top = 0
    BY <1>1, IdleSound
  <1>5. s \in {"next", "manifest"} /\ files[p] \in [content : Notes, version : Nat]
    BY Types
  <1>6. NoRows \in [Paths -> [content : Notes, version : Nat]]
    BY IdleSound DEF NoRows
  <1>51. s = "next" => files[p] # Absent \/ base[d][p] = {}
    OBVIOUS
  <1> HIDE DEF s
  <1>7. PICK m : m = [NoRows EXCEPT ![p] = files[p]]
    OBVIOUS
  <1>8. r = [t EXCEPT !.kind = "event", !.remote = m, !.todo = {p}, !.step = s]
    BY <1>2, <1>4, <1>7
  <1>9. m \in [Paths -> [content : Notes, version : Nat]]
    BY <1>5, <1>6, <1>7
  <1>10. r \in Task /\ r.kind = "event" /\ r.remote = m /\ r.todo = {p} /\ r.dels = NoVersions
        /\ r.failed = {} /\ r.held = {} /\ r.top = 0 /\ r.step \in {"next", "manifest"} /\ r.step = s
    BY <1>4, <1>5, <1>8, <1>9 DEF Task, Steps
  <1>11. \A q \in Paths : r.remote[q] = IF q = p THEN files[p] ELSE Absent
    BY <1>7, <1>10 DEF NoRows
  <1>12. QED
    BY <1>3, <1>51, <1>10, <1>11 DEF Becomes

\* The event learns of the tombstones.
LEMMA ManifestSound ==
    ASSUME TypeOK, NEW d \in Devices, FetchManifest(d)
    PROVE  \E r : /\ Becomes(d, r) /\ r.kind = task[d].kind /\ r.remote = task[d].remote /\ r.todo = task[d].todo
                  /\ r.top = task[d].top /\ r.failed = task[d].failed /\ r.held = task[d].held
                  /\ r.step = "next" /\ r.dels = tombs
  <1> DEFINE g == IsSuspiciousBulkDelete(Cardinality(InBase(d)), Cardinality(InBase(d) \ Listed), Listed = {})
  <1>1. PICK h \in BOOLEAN : h = g
    BY DEF IsSuspiciousBulkDelete
  <1>2. PICK r : r = [task[d] EXCEPT !.dels = tombs, !.step = "next", !.guard = h]
    OBVIOUS
  <1>3. task' = [task EXCEPT ![d] = r]
    BY <1>1, <1>2, Zenon DEF FetchManifest
  <1> HIDE DEF g
  <1>4. task[d] \in Task /\ tombs \in [Paths -> Nat]
    BY Types
  <1>5. /\ r \in Task /\ r.kind = task[d].kind /\ r.remote = task[d].remote /\ r.todo = task[d].todo
        /\ r.top = task[d].top /\ r.failed = task[d].failed /\ r.held = task[d].held
        /\ r.step = "next" /\ r.dels = tombs
    BY <1>1, <1>2, <1>4 DEF Task, Steps
  <1>6. QED
    BY <1>3, <1>5 DEF Becomes

-----------------------------------------------------------------------------
(* Every action keeps types and listings *)

\* Tasks start, and an event learns of the tombstones.
LEMMA StartTold ==
    ASSUME TInv, NEW d \in Devices,
           StartFull(d) \/ StartDelta(d) \/ (\E p \in Paths : StartEvent(d, p)) \/ FetchManifest(d)
    PROVE  TInv'
  <1>1. TypeOK /\ files \in [Paths -> [content : Notes, version : Nat]] /\ top \in Nat /\ ServerInv
        /\ Told(task[d], files, top)
    BY OfTask
  <1>2. UNCHANGED <<server, disk, base, cursor, linked, retries, held, users, amiss, faults>>
    BY DEF StartFull, StartDelta, StartEvent, FetchManifest
  <1>3. \A p \in Paths : Known(files[p], files[p], top) /\ Known(Absent, files[p], top)
    BY <1>1, IdleSound DEF ServerInv, Known
  <1>4. \E r : Becomes(d, r) /\ Told(r, files, top)
    <2>1. CASE StartFull(d)
      <3>1. PICK r : /\ Becomes(d, r) /\ r.kind = "full" /\ r.failed = {} /\ r.remote = files /\ r.dels = tombs /\ r.step = "next"
        BY <1>1, <2>1, FullSound
      <3>2. Told(r, files, top)
        BY <1>1, <1>3, <3>1 DEF Told, ServerInv
      <3>3. QED
        BY <3>1, <3>2
    <2>2. CASE StartDelta(d)
      <3>1. PICK r : /\ Becomes(d, r) /\ r.kind = "delta" /\ r.failed = {} /\ r.step = "next"
                     /\ r.remote = [p \in Paths |-> IF p \in Upserted(d) THEN files[p] ELSE Absent]
        BY <1>1, <2>2, DeltaSound
      <3>2. Told(r, files, top)
        BY <1>3, <3>1 DEF Told
      <3>3. QED
        BY <3>1, <3>2
    <2>3. ASSUME NEW p \in Paths, StartEvent(d, p) PROVE \E r : Becomes(d, r) /\ Told(r, files, top)
      <3>1. PICK r : /\ Becomes(d, r) /\ r.kind = "event" /\ r.failed = {} /\ r.step \in {"next", "manifest"}
                     /\ \A q \in Paths : r.remote[q] = IF q = p THEN files[p] ELSE Absent
        BY <1>1, <2>3, EventSound
      <3>2. \A q \in Paths : r.remote[q] \in {files[q], Absent}
        BY <3>1
      <3>3. Told(r, files, top)
        BY <1>3, <3>1, <3>2 DEF Told
      <3>4. QED
        BY <3>1, <3>3
    <2>4. CASE FetchManifest(d)
      <3>1. PICK r : /\ Becomes(d, r) /\ r.kind = task[d].kind /\ r.remote = task[d].remote /\ r.step = "next"
                     /\ r.dels = tombs /\ r.failed = task[d].failed
        BY <1>1, <2>4, ManifestSound
      <3>3. task[d].kind = "event"
        BY <1>1, <2>4 DEF FetchManifest, At, Told
      <3>4. Told(r, files, top)
        BY <1>1, <3>1, <3>3 DEF Told
      <3>5. QED
        BY <3>1, <3>4
    <2>5. QED
      BY <2>1, <2>2, <2>3, <2>4
  <1>5. PICK r : Becomes(d, r) /\ Told(r, files, top)
    BY <1>4
  <1>6. TypeOK'
    BY <1>1, <1>2, <1>5, BecomesTyped, TypesNow, TypeParts DEF server, disk
  <1>7. QED
    BY <1>2, <1>5, <1>6, TaskTold DEF TInv


\* A path goes on or ends while the server stands still.
LEMMA StepTold ==
    ASSUME TInv, NEW d \in Devices, task[d].kind # "idle", NEW p, NEW r, Becomes(d, r),
           Ended(r, task[d], p) \/ (Same(r, task[d]) /\ r.step # "manifest" /\ r.path \in r.todo),
           EndTyped \/ UNCHANGED <<linked, retries>>, UNCHANGED server,
           base' \in [Devices -> [Paths -> Notes]], local' \in [Devices -> [Paths -> Notes]],
           copies' \in [Devices -> SUBSET Notes], faults' \in 0 .. MaxFaults,
           UNCHANGED <<saved, cursor, held, users, amiss>>
    PROVE  TInv'
  <1>1. Told(r, files, top)
    BY OfTask, ToldOn
  <1>2. ServerInv' /\ \A c \in Devices : Told(task'[c], files', top')
    BY <1>1, TaskTold
  <1>3. TypeOK /\ task' \in [Devices -> Task]
    BY OfTask, BecomesTyped
  <1>4. files' \in [Paths -> [content : Notes, version : Nat]] /\ tombs' \in [Paths -> Nat] /\ top' \in Nat
    BY <1>3 DEF server, TypeOK
  <1>5. TypeOK'
    BY <1>3, <1>4, TypeParts
  <1>6. QED
    BY <1>2, <1>5 DEF TInv

\* A path goes on or ends while the server commits or deletes.
LEMMA ServerTold ==
    ASSUME TInv, NEW d \in Devices, task[d].kind # "idle", NEW p \in Paths, NEW r, Becomes(d, r), Ended(r, task[d], p),
           EndTyped, NEW n \in Notes, NEW v, Committed(p, n, v) \/ Deleted(p, v),
           base' \in [Devices -> [Paths -> Notes]], faults' \in 0 .. MaxFaults,
           UNCHANGED <<disk, cursor, held, users, amiss>>
    PROVE  TInv'
  <1>1. Told(r, files, top)
    BY OfTask, ToldOn
  <1>2. /\ ServerInv' /\ top' \in Nat /\ top <= top'
        /\ files' \in [Paths -> [content : Notes, version : Nat]]
        /\ \A q \in Paths : files'[q] \in {files[q], Absent} \/ files'[q].version > top
    BY ServerStep
  <1>3. TypeOK /\ task' \in [Devices -> Task] /\ tombs' \in [Paths -> Nat]
    BY OfTask, BecomesTyped, ServerTyped
  <1>4. TypeOK'
    BY <1>2, <1>3, TypeParts, TypesNow DEF disk
  <1>5. ASSUME NEW c \in Devices PROVE Told(task'[c], files', top')
    <2>1. Told(task'[c], files, top) /\ task'[c] \in Task
      BY <1>1, <1>3, OfTask DEF Becomes
    <2>2. QED
      BY <1>2, <2>1, OfTask, ToldLater
  <1>6. QED
    BY <1>2, <1>4, <1>5 DEF TInv

\* A path is examined.
LEMMA ExamineTold ==
    ASSUME TInv, NEW d \in Devices, NEW p \in Paths, Examine(d, p) \/ ExamineUnreadable(d, p)
    PROVE  TInv'
  <1>1. TypeOK /\ base \in [Devices -> [Paths -> Notes]] /\ local \in [Devices -> [Paths -> Notes]]
        /\ copies \in [Devices -> SUBSET Notes] /\ {} \in Notes
    BY IdleSound, OfTask, TypesNow
  <1>2. task[d].kind # "idle" /\ p \in task[d].todo /\ UNCHANGED <<server, disk, cursor, held, users, amiss>>
    BY DEF Examine, ExamineUnreadable, Due, At
  <1>3. faults' \in 0 .. MaxFaults
    BY <1>1, FaultTyped, TypesNow DEF Examine, ExamineUnreadable
  <1>4. CASE \E n \in Notes : Decided(d, p, n)
    <2>1. PICK n \in Notes : Decided(d, p, n)
      BY <1>4
    <2>2. CASE PathDone(d, p) /\ SetBase(d, p, task[d].remote[p].content)
      <3>1. task[d].remote[p].content \in Notes
        BY OfTask
      <3>2. base' \in [Devices -> [Paths -> Notes]]
        BY <1>1, <2>2, <3>1, SetTyped
      <3>3. EndTyped /\ \E r : Becomes(d, r) /\ Ended(r, task[d], p)
        BY <1>1, <2>2, EndsSound
      <3>4. QED
        BY <1>1, <1>2, <1>3, <3>2, <3>3, StepTold DEF disk
    <2>3. ASSUME UNCHANGED <<linked, retries, base>>, NEW r, Becomes(d, r),
                 Ended(r, task[d], p) \/ (Same(r, task[d]) /\ r.path = p
                     /\ r.step \in {"pushRead", "fetch", "remove", "probe", "mergeFetch"})
          PROVE  TInv'
      <3>1. Ended(r, task[d], p) \/ (Same(r, task[d]) /\ r.step # "manifest" /\ r.path \in r.todo)
        BY <1>2, <2>3 DEF Same
      <3>2. QED
        BY <1>1, <1>2, <1>3, <2>3, <3>1, StepTold DEF disk
    <2>4. QED
      BY <1>1, <2>1, <2>2, <2>3, DecidedSound
  <1>5. CASE PathThrows(d, p) /\ UNCHANGED base
    <2>1. EndTyped /\ \E r : Becomes(d, r) /\ Ended(r, task[d], p)
      BY <1>1, <1>5, ThrowsSound
    <2>2. QED
      BY <1>1, <1>2, <1>3, <1>5, <2>1, StepTold DEF disk
  <1>6. QED
    BY <1>1, <1>4, <1>5 DEF Examine, ExamineUnreadable

\* A path goes on to its next step.
LEMMA OnTold ==
    ASSUME TInv, NEW d \in Devices,
           PushRead(d) \/ Fetch(d) \/ Probe(d) \/ MergeFetch(d) \/ MergeWrite(d) \/ ConflictCopy(d)
    PROVE  TInv'
  <1>1. TypeOK /\ base \in [Devices -> [Paths -> Notes]] /\ local \in [Devices -> [Paths -> Notes]]
        /\ copies \in [Devices -> SUBSET Notes] /\ {} \in Notes /\ faults \in 0 .. MaxFaults
    BY IdleSound, OfTask, TypesNow
  <1>2. task[d].kind # "idle" /\ task[d].step \notin {"next", "manifest"}
        /\ UNCHANGED <<server, saved, base, cursor, held, users, amiss, faults>>
    BY DEF PushRead, Fetch, Probe, MergeFetch, MergeWrite, ConflictCopy, At, disk
  <1>3. P(d) \in Paths /\ P(d) \in task[d].todo /\ task[d].seen \in Notes /\ task[d].hand \in Notes
        /\ R(d).content \in Notes /\ local[d][P(d)] \in Notes /\ base[d][P(d)] \in Notes
    BY <1>1, <1>2, OfTask DEF P, R
  <1>4. RacingSave(d) \in SUBSET Notes /\ UNION RacingSave(d) \in Notes
    <2>1. UNION RacingSave(d) \in {{}, local[d][P(d)]}
      BY DEF RacingSave
    <2>2. QED
      BY <1>1, <1>3, <2>1 DEF RacingSave
  <1>5. copies' \in [Devices -> SUBSET Notes]
    <2>1. CASE copies' = copies
      BY <1>1, <2>1
    <2>2. CASE \E S \in SUBSET Notes : copies' = [copies EXCEPT ![d] = @ \cup S]
      BY <1>1, <2>2
    <2>3. {task[d].hand} \in SUBSET Notes
      BY <1>3
    <2>4. QED
      BY <1>4, <2>1, <2>2, <2>3 DEF PushRead, Fetch, Probe, MergeFetch, MergeWrite, ConflictCopy, disk
  <1>6. local' \in [Devices -> [Paths -> Notes]]
    <2>1. local' = local \/ SetLocal(d, P(d), task[d].hand) \/ SetLocal(d, P(d), R(d).content)
      BY DEF PushRead, Fetch, Probe, MergeFetch, MergeWrite, ConflictCopy, disk
    <2>2. QED
      BY <1>1, <1>3, <2>1, SetTyped
  <1>7. \/ PathThrows(d, P(d)) \/ PathDone(d, P(d))
        \/ UNCHANGED <<linked, retries>> /\ \E s \in Steps \ {"next", "manifest"}, h \in Notes : GoTo(d, s, h)
    <2>1. \A b, l, m \in Notes : Merged(b, l, m) \in Notes
      BY DEF Merged, Notes
    <2>2. CASE PushRead(d)
      BY <1>3, <2>2 DEF PushRead, Steps
    <2>3. CASE Fetch(d)
      BY <1>4, <2>3 DEF Fetch, Steps, LocalWrites
    <2>4. CASE Probe(d)
      BY <1>1, <2>4 DEF Probe, Steps
    <2>5. CASE MergeFetch(d)
      <3>1. PICK live \in Notes : live = IF local[d][P(d)] # {} THEN local[d][P(d)] ELSE task[d].seen
        BY <1>3
      <3>2. GoTo(d, "write", {}) \/ GoTo(d, "mergeWrite", Merged(base[d][P(d)], live, R(d).content)) \/ GoTo(d, "conflict", live)
        BY <2>5, <3>1 DEF MergeFetch
      <3>3. Merged(base[d][P(d)], live, R(d).content) \in Notes
        BY <1>3, <2>1
      <3>4. QED
        BY <1>1, <2>5, <3>2, <3>3 DEF Steps, LocalWrites, MergeFetch
    <2>6. CASE MergeWrite(d) \/ ConflictCopy(d)
      BY <1>3, <2>6 DEF MergeWrite, ConflictCopy, Steps
    <2>7. QED
      BY <2>2, <2>3, <2>4, <2>5, <2>6
  <1>8. CASE PathThrows(d, P(d)) \/ PathDone(d, P(d))
    <2>1. EndTyped /\ \E r : Becomes(d, r) /\ Ended(r, task[d], P(d))
      BY <1>1, <1>3, <1>8, ThrowsSound
    <2>2. QED
      BY <1>1, <1>2, <1>5, <1>6, <2>1, StepTold
  <1>9. ASSUME NEW s \in Steps \ {"next", "manifest"}, NEW h \in Notes, GoTo(d, s, h), UNCHANGED <<linked, retries>>
        PROVE  TInv'
    <2>1. PICK r : Becomes(d, r) /\ r.step = s /\ Same(r, task[d]) /\ r.path = task[d].path
      BY <1>1, <1>9, GoToSound
    <2>2. r.path \in r.todo /\ r.step # "manifest"
      BY <1>3, <2>1 DEF P, Same
    <2>3. QED
      BY <1>1, <1>2, <1>5, <1>6, <1>9, <2>1, <2>2, StepTold
  <1>10. QED
    BY <1>7, <1>8, <1>9

\* A path ends on the device.
LEMMA LocalTold ==
    ASSUME TInv, NEW d \in Devices,
           Write(d) \/ RemoveLocal(d) \/ CopyPush(d) \/ WriteFails(d) \/ TransferFails(d) \/ ConnectionFails(d)
    PROVE  TInv'
  <1>1. TypeOK /\ base \in [Devices -> [Paths -> Notes]] /\ local \in [Devices -> [Paths -> Notes]]
        /\ copies \in [Devices -> SUBSET Notes] /\ {} \in Notes /\ faults \in 0 .. MaxFaults
    BY IdleSound, OfTask, TypesNow
  <1>2. task[d].kind # "idle" /\ UNCHANGED <<server, saved, cursor, held, users, amiss>>
    BY DEF Write, RemoveLocal, CopyPush, WriteFails, TransferFails, ConnectionFails, At, disk
  <1>3. faults' \in 0 .. MaxFaults
    BY <1>1, FaultTyped DEF Write, RemoveLocal, CopyPush, WriteFails, TransferFails, ConnectionFails
  <1>4. CASE ConnectionFails(d)
    <2>1. PICK p \in Paths \cup {0} : p = P(d)
      BY <1>1, Types DEF P
    <2>2. EndTyped /\ \E r : Becomes(d, r) /\ Ended(r, task[d], p)
      <3>1. task' = [task EXCEPT ![d] = Idle] /\ linked' = [linked EXCEPT ![d] = FALSE] /\ retries' = retries
        BY <1>4 DEF ConnectionFails, Offline
      <3>2. EndTyped
        BY <1>1, <3>1 DEF EndTyped, TypeOK
      <3>3. Becomes(d, Idle) /\ Ended(Idle, task[d], p)
        BY <3>1, IdleSound DEF Becomes, Ended
      <3>4. QED
        BY <3>2, <3>3
    <2>3. UNCHANGED <<base, local, copies>>
      BY <1>4 DEF ConnectionFails, disk
    <2>4. QED
      BY <1>1, <1>2, <1>3, <2>2, <2>3, StepTold
  <1>5. CASE ~ConnectionFails(d)
    <2>1. task[d].step \notin {"next", "manifest"}
      BY <1>5 DEF Write, RemoveLocal, CopyPush, WriteFails, TransferFails, At, LocalWrites, NetworkSteps
    <2>2. P(d) \in Paths /\ R(d).content \in Notes /\ task[d].hand \in Notes
      BY <2>1, OfTask DEF P, R
    <2>3. PathDone(d, P(d)) \/ PathThrows(d, P(d))
      BY <1>5 DEF Write, RemoveLocal, CopyPush, WriteFails, TransferFails
    <2>4. EndTyped /\ \E r : Becomes(d, r) /\ Ended(r, task[d], P(d))
      BY <1>1, <2>2, <2>3, ThrowsSound
    <2>5. base' = base \/ SetBase(d, P(d), R(d).content) \/ SetBase(d, P(d), {})
      BY <1>5 DEF Write, RemoveLocal, CopyPush, WriteFails, TransferFails
    <2>6. local' = local \/ SetLocal(d, P(d), R(d).content) \/ SetLocal(d, P(d), {})
      BY <1>5 DEF Write, RemoveLocal, CopyPush, WriteFails, TransferFails, disk
    <2>7. base' \in [Devices -> [Paths -> Notes]] /\ local' \in [Devices -> [Paths -> Notes]]
      BY <1>1, <2>2, <2>5, <2>6, SetTyped
    <2>8. \/ copies' = copies
          \/ copies' = [copies EXCEPT ![d] = @ \ {task[d].hand}]
          \/ copies' = [copies EXCEPT ![d] = @ \cup {task[d].hand}]
      BY <1>5 DEF Write, RemoveLocal, CopyPush, WriteFails, TransferFails, disk
    <2>9. copies' \in [Devices -> SUBSET Notes]
      BY <1>1, <2>2, <2>8
    <2>10. QED
      BY <1>1, <1>2, <1>3, <2>4, <2>7, <2>9, StepTold
  <1>6. QED
    BY <1>4, <1>5

\* A path ends at the server.
LEMMA CommitTold ==
    ASSUME TInv, NEW d \in Devices, Commit(d) \/ Tombstone(d) \/ ReplyLost(d)
    PROVE  TInv'
  <1>1. TypeOK /\ base \in [Devices -> [Paths -> Notes]] /\ local \in [Devices -> [Paths -> Notes]]
        /\ copies \in [Devices -> SUBSET Notes] /\ {} \in Notes /\ faults \in 0 .. MaxFaults
    BY IdleSound, OfTask, TypesNow
  <1>2. task[d].kind # "idle" /\ task[d].step \notin {"next", "manifest"} /\ UNCHANGED <<disk, cursor, held, users, amiss>>
    BY DEF Commit, Tombstone, ReplyLost, At
  <1>3. P(d) \in Paths /\ task[d].hand \in Notes
    BY <1>2, OfTask DEF P
  <1>4. faults' \in 0 .. MaxFaults
    BY <1>1, FaultTyped DEF Commit, Tombstone, ReplyLost
  <1>5. EndTyped /\ \E r : Becomes(d, r) /\ Ended(r, task[d], P(d))
    <2>1. PathThrows(d, P(d)) \/ Conflicted(d) \/ PathDone(d, P(d)) \/ Offline(d)
      BY DEF Commit, Tombstone, ReplyLost
    <2>2. QED
      BY <1>1, <1>3, <2>1, ThrowsSound
  <1>6. base' \in [Devices -> [Paths -> Notes]]
    <2>1. base' = base \/ SetBase(d, P(d), task[d].hand) \/ SetBase(d, P(d), {})
      BY DEF Commit, Tombstone, ReplyLost
    <2>2. QED
      BY <1>1, <1>3, <2>1, SetTyped
  <1>7. CASE Committed(P(d), task[d].hand, R(d).version) \/ Deleted(P(d), R(d).version)
    BY <1>2, <1>3, <1>4, <1>5, <1>6, <1>7, ServerTold
  <1>8. CASE UNCHANGED server
    BY <1>1, <1>2, <1>4, <1>5, <1>6, <1>8, StepTold DEF disk
  <1>9. QED
    BY <1>7, <1>8 DEF Commit, Tombstone, ReplyLost

\* The earliest failure holds the cursor.
LEMMA CursorTyped ==
    ASSUME NEW v \in Nat, NEW S \in SUBSET Nat, 0 \notin S
    PROVE  /\ AdvanceCursor(v, S) \in Nat /\ AdvanceCursor(v, S) <= v
           /\ \A w \in S : AdvanceCursor(v, S) < w
  <1>1. CASE S = {}
    BY <1>1 DEF AdvanceCursor
  <1>2. CASE S # {}
    <2>1. \E m \in S : \A w \in S : m <= w
      <3> DEFINE Below == OpToRel(<, Nat)
      <3>0. IsWellFoundedOn(Below, Nat)
        BY NatLessThanWellFounded, Zenon
      <3>4. \A w, m \in Nat : w < m => <<w, m>> \in Below
        BY Zenon DEF OpToRel
      <3> HIDE DEF Below
      <3>1. PICK m \in S : \A w \in S : <<w, m>> \notin Below
        BY <1>2, <3>0, WFMin
      <3>2. ASSUME NEW w \in S PROVE m <= w
        <4>1. ~(w < m)
          BY <3>1, <3>4, Zenon
        <4>2. w \in Nat /\ m \in Nat
          OBVIOUS
        <4>3. QED
          BY <4>1, <4>2
      <3>3. QED
        BY <3>2
    <2>2. Earliest(S) \in S /\ \A w \in S : Earliest(S) <= w
      BY <2>1, Zenon DEF Earliest
    <2>3. PICK m \in Nat \ {0} : m = Earliest(S)
      BY <2>2
    <2>4. AdvanceCursor(v, S) = IF m - 1 < v THEN m - 1 ELSE v
      BY <1>2, <2>3 DEF AdvanceCursor
    <2>5. \A w \in S : w \in Nat /\ m <= w
      BY <2>2, <2>3
    <2>6. QED
      BY <2>3, <2>4, <2>5
  <1>3. QED
    BY <1>1, <1>2

\* The answer to a review: the notes in doomed lose their base, and their file when the user
\* agreed to that; b is the base after it, l the disk if files were removed.
Answered(d, doomed, b, l) ==
    /\ doomed \subseteq held[d]
    /\ b = [p \in Paths |-> IF p \in doomed THEN {} ELSE base[d][p]]
    /\ l = [p \in Paths |-> IF p \in doomed THEN {} ELSE local[d][p]]
    /\ base' = [base EXCEPT ![d] = b]
    /\ held' = [held EXCEPT ![d] = {}]
    /\ amiss' = [amiss EXCEPT ![d] = amiss[d] \cup (held[d] \ doomed) \cup Returned(d)]
    /\ \/ local' = local /\ discarded' = discarded
       \/ /\ local' = [local EXCEPT ![d] = l]
          /\ discarded' = discarded \cup UNION {local[d][p] : p \in doomed}

LEMMA AnswerShape ==
    ASSUME NEW d \in Devices, AcceptHeld(d) \/ KeepHeld(d)
    PROVE  \E doomed, b, l : Answered(d, doomed, b, l)
  <1>1. CASE AcceptHeld(d)
    <2>1. PICK stuck \in SUBSET held[d] :
              /\ discarded' = discarded \cup UNION {local[d][p] : p \in held[d] \ stuck}
              /\ local' = [local EXCEPT ![d] = [p \in Paths |-> IF p \in held[d] \ stuck THEN {} ELSE @[p]]]
              /\ base' = [base EXCEPT ![d] = [p \in Paths |-> IF p \in held[d] \ stuck THEN {} ELSE @[p]]]
              /\ held' = [held EXCEPT ![d] = {}]
              /\ amiss' = [amiss EXCEPT ![d] = @ \cup stuck \cup Returned(d)]
      BY <1>1, Zenon DEF AcceptHeld
    <2>2. PICK doomed : doomed = held[d] \ stuck
      OBVIOUS
    <2>3. held[d] \ doomed = stuck /\ doomed \subseteq held[d]
      BY <2>2
    <2>4. PICK b : b = [p \in Paths |-> IF p \in doomed THEN {} ELSE base[d][p]]
      OBVIOUS
    <2>5. PICK l : l = [p \in Paths |-> IF p \in doomed THEN {} ELSE local[d][p]]
      OBVIOUS
    <2>6. base' = [base EXCEPT ![d] = b] /\ local' = [local EXCEPT ![d] = l]
      BY <2>1, <2>2, <2>4, <2>5, Zenon
    <2>7. Answered(d, doomed, b, l)
      BY <2>1, <2>2, <2>3, <2>4, <2>5, <2>6, Zenon DEF Answered
    <2>8. QED
      BY <2>7
  <1>2. CASE KeepHeld(d)
    <2>1. PICK b : b = [p \in Paths |-> IF p \in held[d] THEN {} ELSE base[d][p]]
      OBVIOUS
    <2>2. PICK l : l = [p \in Paths |-> IF p \in held[d] THEN {} ELSE local[d][p]]
      OBVIOUS
    <2>3. base' = [base EXCEPT ![d] = b]
      BY <1>2, <2>1, Zenon DEF KeepHeld
    <2>4. amiss[d] \cup Returned(d) = amiss[d] \cup (held[d] \ held[d]) \cup Returned(d)
      OBVIOUS
    <2>5. amiss' = [amiss EXCEPT ![d] = amiss[d] \cup (held[d] \ held[d]) \cup Returned(d)]
      BY <1>2, <2>4, Zenon DEF KeepHeld
    <2>6. held' = [held EXCEPT ![d] = {}] /\ local' = local /\ discarded' = discarded
      BY <1>2 DEF KeepHeld, disk, users
    <2>7. Answered(d, held[d], b, l)
      BY <2>1, <2>2, <2>3, <2>5, <2>6, Zenon DEF Answered
    <2>8. QED
      BY <2>7
  <1>3. QED
    BY <1>1, <1>2

\* A task ends, a base is saved, a device starts again, a user edits, deletes or answers.
LEMMA RestTold ==
    ASSUME TInv, NEW d \in Devices,
           \/ Finish(d) \/ Persist(d) \/ Crash(d) \/ AcceptHeld(d) \/ KeepHeld(d)
           \/ \E p \in Paths : Edit(d, p) \/ DeleteNote(d, p)
    PROVE  TInv'
  <1>1. /\ TypeOK /\ {} \in Notes /\ MaxRetries \in Nat /\ MaxEdits \in Nat /\ MaxDeletes \in Nat
        /\ task[d] \in Task /\ task \in [Devices -> Task]
    BY IdleSound, OfTask, SyncAssumption
  <1>2. UNCHANGED server
    BY DEF Finish, Persist, Crash, AcceptHeld, KeepHeld, Edit, DeleteNote
  <1>3. \E r : Becomes(d, r) /\ Told(r, files, top)
    <2>1. CASE Finish(d) \/ Crash(d)
      <3>1. task' = [task EXCEPT ![d] = Idle]
        BY <2>1 DEF Finish, Crash
      <3>2. Becomes(d, Idle)
        BY <3>1, IdleSound DEF Becomes
      <3>3. \A q \in Paths : Known(Idle.remote[q], files[q], top)
        BY OfTask, IdleSound DEF Known, NoRows
      <3>4. Told(Idle, files, top)
        BY <3>3, IdleSound DEF Told
      <3>5. QED
        BY <3>2, <3>4
    <2>2. CASE task' = task
      <3>1. Becomes(d, task[d])
        BY <1>1, <2>2 DEF Becomes
      <3>2. QED
        BY <3>1, OfTask
    <2>3. QED
      BY <2>1, <2>2 DEF Persist, AcceptHeld, KeepHeld, Edit, DeleteNote, memory
  <1>4. ServerInv' /\ \A c \in Devices : Told(task'[c], files', top')
    BY <1>2, <1>3, TaskTold
  <1>5. TypeOK'
    <2>1. task' \in [Devices -> Task]
      BY <1>1, <1>3, BecomesTyped
    <2>2. files' = files /\ tombs' = tombs /\ top' = top
      BY <1>2 DEF server
    <2>3. CASE Finish(d)
      <3>1. task[d].top \in Nat /\ task[d].failed \in SUBSET Nat /\ 0 \notin task[d].failed /\ task[d].held \in SUBSET Paths
        BY <1>1, OfTask DEF Task, Told
      <3>2. AdvanceCursor(task[d].top, task[d].failed) \in Nat
        BY <3>1, CursorTyped
      <3>3. PendingBulk(task[d], held[d]) \in SUBSET Paths
        BY <1>1, <3>1 DEF PendingBulk, TypeOK
      <3>6. PICK h \in SUBSET Paths : h = PendingBulk(task[d], held[d])
        BY <3>3
      <3>7. PICK c \in Nat : c = AdvanceCursor(task[d].top, task[d].failed)
        BY <3>2
      <3>8. \/ UNCHANGED <<cursor, linked, held>>
            \/ cursor' = [cursor EXCEPT ![d] = c] /\ linked' = [linked EXCEPT ![d] = TRUE] /\ held' = [held EXCEPT ![d] = h]
        BY <2>3, <3>6, <3>7, Zenon DEF Finish
      <3>9. amiss' \in [Devices -> SUBSET Paths]
        BY <1>1, <2>3 DEF Finish, TypeOK
      <3>4. cursor' \in [Devices -> Nat] /\ linked' \in [Devices -> BOOLEAN] /\ held' \in [Devices -> SUBSET Paths]
        <4>1. cursor \in [Devices -> Nat] /\ linked \in [Devices -> BOOLEAN] /\ held \in [Devices -> SUBSET Paths]
          BY <1>1 DEF TypeOK
        <4>2. CASE UNCHANGED <<cursor, linked, held>>
          BY <4>1, <4>2
        <4>3. CASE cursor' = [cursor EXCEPT ![d] = c] /\ linked' = [linked EXCEPT ![d] = TRUE] /\ held' = [held EXCEPT ![d] = h]
          <5>1. cursor' \in [Devices -> Nat]
            BY <4>1, <4>3
          <5>2. linked' \in [Devices -> BOOLEAN]
            BY <4>1, <4>3
          <5>3. held' \in [Devices -> SUBSET Paths]
            BY <4>1, <4>3
          <5>4. QED
            BY <5>1, <5>2, <5>3
        <4>4. QED
          BY <3>8, <4>2, <4>3
      <3>5. QED
        BY <1>1, <2>1, <2>2, <2>3, <3>4, <3>9 DEF Finish, TypeOK, disk, users
    <2>4. CASE Persist(d)
      BY <1>1, <2>1, <2>2, <2>4 DEF Persist, TypeOK, memory, users
    <2>5. CASE Crash(d)
      <3>1. NoRetry \in [version : Nat, count : 0 .. MaxRetries]
        BY <1>1 DEF NoRetry
      <3>2. [p \in Paths |-> NoRetry] \in [Paths -> [version : Nat, count : 0 .. MaxRetries]]
        BY <3>1
      <3>3. retries' \in [Devices -> [Paths -> [version : Nat, count : 0 .. MaxRetries]]]
        BY <1>1, <2>5, <3>2 DEF Crash, TypeOK
      <3>4. faults' \in 0 .. MaxFaults
        BY <1>1, <2>5, FaultTyped DEF Crash
      <3>5. base' \in [Devices -> [Paths -> Notes]] /\ cursor' \in [Devices -> Nat] /\ linked' \in [Devices -> BOOLEAN]
            /\ held' \in [Devices -> SUBSET Paths]
        BY <1>1, <2>5 DEF Crash, TypeOK
      <3>6. QED
        BY <1>1, <2>1, <2>2, <2>5, <3>3, <3>4, <3>5 DEF Crash, TypeOK, disk, users
    <2>6. CASE AcceptHeld(d) \/ KeepHeld(d)
      <3>1. PICK doomed, b, l : Answered(d, doomed, b, l)
        BY <2>6, AnswerShape
      <3>2. b \in [Paths -> Notes] /\ l \in [Paths -> Notes] /\ doomed \subseteq held[d] /\ held[d] \subseteq Paths
        BY <1>1, <3>1 DEF TypeOK, Answered
      <3>3. base' \in [Devices -> [Paths -> Notes]] /\ local' \in [Devices -> [Paths -> Notes]]
        <4>1. base \in [Devices -> [Paths -> Notes]] /\ local \in [Devices -> [Paths -> Notes]]
          BY <1>1 DEF TypeOK
        <4>2. base' = [base EXCEPT ![d] = b] /\ (local' = local \/ local' = [local EXCEPT ![d] = l])
          BY <3>1 DEF Answered
        <4>3. QED
          BY <3>2, <4>1, <4>2
      <3>4. held' \in [Devices -> SUBSET Paths] /\ amiss' \in [Devices -> SUBSET Paths]
        <4>1. held \in [Devices -> SUBSET Paths] /\ amiss \in [Devices -> SUBSET Paths]
          BY <1>1 DEF TypeOK
        <4>2. held' = [held EXCEPT ![d] = {}] /\ \E S \in SUBSET Paths : amiss' = [amiss EXCEPT ![d] = S]
          BY <3>1, <3>2, <4>1 DEF Answered, Returned
        <4>3. QED
          BY <4>1, <4>2
      <3>5. UNION {local[d][p] : p \in doomed} \in Notes
        BY <1>1, <3>2 DEF TypeOK, Notes
      <3>6. discarded' \in Notes
        BY <1>1, <3>1, <3>5 DEF Answered, TypeOK, Notes
      <3>7. faults' \in 0 .. MaxFaults
        BY <1>1, <2>6, FaultTyped DEF AcceptHeld, KeepHeld, TypeOK
      <3>8. UNCHANGED <<copies, saved, cursor, linked, retries, written, deletes>>
        BY <2>6 DEF AcceptHeld, KeepHeld, disk, users
      <3>9. QED
        BY <1>1, <2>1, <2>2, <3>3, <3>4, <3>6, <3>7, <3>8 DEF TypeOK
    <2>7. ASSUME NEW p \in Paths, Edit(d, p) PROVE TypeOK'
      <3>1. written' \in 0 .. MaxEdits /\ written + 1 \in Edits
        BY <1>1, <2>7 DEF Edit, TypeOK, Edits
      <3>2. local[d][p] \cup {written + 1} \in Notes
        BY <1>1, <3>1 DEF TypeOK, Notes
      <3>3. local' \in [Devices -> [Paths -> Notes]]
        BY <1>1, <2>7, <3>2, SetTyped DEF Edit
      <3>4. QED
        BY <1>1, <2>1, <2>2, <2>7, <3>1, <3>3 DEF Edit, TypeOK, memory
    <2>8. ASSUME NEW p \in Paths, DeleteNote(d, p) PROVE TypeOK'
      <3>1. deletes' \in 0 .. MaxDeletes /\ discarded' \in Notes
        BY <1>1, <2>8 DEF DeleteNote, TypeOK, Notes
      <3>2. local' \in [Devices -> [Paths -> Notes]]
        BY <1>1, <2>8, SetTyped DEF DeleteNote
      <3>3. QED
        BY <1>1, <2>1, <2>2, <2>8, <3>1, <3>2 DEF DeleteNote, TypeOK, memory
    <2>9. QED
      BY <2>3, <2>4, <2>5, <2>6, <2>7, <2>8
  <1>6. QED
    BY <1>4, <1>5 DEF TInv

\* The start.
LEMMA InitTold == Init => TInv
  <1> SUFFICES ASSUME Init PROVE TInv
    OBVIOUS
  <1>1. files = NoRows /\ tombs = NoVersions /\ top = 1 /\ \A d \in Devices : task[d] = Idle
    BY DEF Init, Server!PromiseInit, NoRows, NoVersions, Absent, Server!Absent
  <1>2. /\ NoRetry \in [version : Nat, count : 0 .. MaxRetries] /\ NoNotes \in [Paths -> Notes]
        /\ files \in [Paths -> [content : Notes, version : Nat]] /\ tombs \in [Paths -> Nat]
    BY <1>1, IdleSound, SyncAssumption DEF NoRetry, NoNotes, NoRows, NoVersions
  <1>3. TypeOK
    BY <1>1, <1>2, IdleSound, SyncAssumption DEF TypeOK, Init
  <1>4. ServerInv
    BY <1>1, IdleSound DEF ServerInv, NoRows, NoVersions
  <1>5. \A q \in Paths : Known(Idle.remote[q], files[q], top)
    BY <1>1, IdleSound DEF Known, NoRows
  <1>6. \A d \in Devices : Told(task[d], files, top)
    BY <1>1, <1>5, IdleSound DEF Told
  <1>7. QED
    BY <1>3, <1>4, <1>6 DEF TInv

\* Every step.
LEMMA NextTold == TInv /\ [Next]_vars => TInv'
  <1> SUFFICES ASSUME TInv, [Next]_vars PROVE TInv'
    OBVIOUS
  <1>1. CASE UNCHANGED vars
    BY <1>1 DEF vars, server, disk, memory, users, TInv, TypeOK, ServerInv
  <1>2. ASSUME NEW d \in Devices,
               \/ StartFull(d) \/ StartDelta(d)
               \/ \E p \in Paths : StartEvent(d, p) \/ ExamineUnreadable(d, p) \/ Edit(d, p) \/ DeleteNote(d, p)
               \/ TaskStep(d)
               \/ WriteFails(d) \/ ConnectionFails(d) \/ ReplyLost(d) \/ TransferFails(d)
               \/ Persist(d) \/ Crash(d) \/ AcceptHeld(d) \/ KeepHeld(d)
        PROVE  TInv'
    BY <1>2, StartTold, ExamineTold, OnTold, LocalTold, CommitTold, RestTold DEF TaskStep
  <1>3. QED
    BY <1>1, <1>2 DEF Next

\* Everything has its type, whatever the users do and whatever fails.
THEOREM TypeCorrect == Spec => []TypeOK
  <1>1. TInv => TypeOK
    BY DEF TInv
  <1>2. QED
    BY InitTold, NextTold, <1>1, PTL DEF Spec

-----------------------------------------------------------------------------
(* What covers an edit *)

\* What was agreed on (a base, in memory or saved) is still covered here and on the server.
Agreed(b, l, f, x) == b \subseteq l \cup x /\ b \subseteq f \cup x

\* A path that a task has still to settle: the server's note r that it was told of is younger
\* than what was agreed on, and older than what the server has now.
Listing(b, s, r, f, x) == r \subseteq f \cup x /\ b \subseteq r \cup x /\ s \subseteq r \cup x

\* What each step of a path relies on: r is the remote note, l the local one, b the base, k the
\* copies, x what users discarded.
AtStep(t, r, l, b, k, x) ==
    /\ t.step = "pushRead"   => r \subseteq b
    /\ t.step = "commit"     => r \subseteq t.hand \cup x /\ t.hand \subseteq l \cup x
    /\ t.step = "fetch"      => t.seen \subseteq b
    /\ t.step = "write"      => (l \in k \/ l \subseteq r \cup x) /\ t.hand \in {{}, l}
    /\ t.step = "remove"     => l \subseteq x /\ r = {}
    /\ t.step = "probe"      => r \subseteq b
    /\ t.step = "tombstone"  => r \subseteq x
    /\ t.step = "mergeFetch" => b \subseteq t.seen \cup x
    /\ t.step = "mergeWrite" => l \cup b \cup r \subseteq t.hand \cup x
    /\ t.step = "conflict"   => l \subseteq t.hand
    /\ t.step = "copyPush"   => r \subseteq l \cup x

\* The invariant of one device, of the server's files F and the discarded edits x.
Dev(l, k, s, b, t, F, x) ==
    /\ \A p \in Paths : Agreed(b[p], l[p], F[p].content, x) /\ Agreed(s[p], l[p], F[p].content, x)
    /\ \A p \in t.todo : Listing(b[p], s[p], t.remote[p].content, F[p].content, x)
    /\ t.step \notin {"next", "manifest"} => AtStep(t, t.remote[t.path].content, l[t.path], b[t.path], k, x)

DevInv == \A d \in Devices : Dev(local[d], copies[d], saved[d], base[d], task[d], files, discarded)

IInv == TInv /\ DevInv /\ NoLostEdit

\* The disk grows, the server gets a newer note, more is discarded: nothing that a running step
\* relies on goes away.
LEMMA DevMoves ==
    ASSUME NEW l, NEW k, NEW s, NEW b, NEW t \in Task, NEW F, NEW x, Dev(l, k, s, b, t, F, x),
           NEW l2, NEW F2, NEW x2,
           \A p \in Paths : l[p] \subseteq l2[p] \cup x2 /\ F[p].content \subseteq F2[p].content \cup x2,
           x \subseteq x2, t.step \notin {"next", "manifest"} => t.path \in Paths,
           t.step \in LocalWrites => l2[t.path] = l[t.path]
    PROVE  Dev(l2, k, s, b, t, F2, x2)
  <1>1. \A p \in Paths : Agreed(b[p], l2[p], F2[p].content, x2) /\ Agreed(s[p], l2[p], F2[p].content, x2)
    BY DEF Dev, Agreed
  <1>2. \A p \in t.todo : Listing(b[p], s[p], t.remote[p].content, F2[p].content, x2)
    <2>1. t.todo \subseteq Paths
      BY DEF Task
    <2>2. QED
      BY <2>1 DEF Dev, Listing
  <1>3. ASSUME t.step \notin {"next", "manifest"}
        PROVE  AtStep(t, t.remote[t.path].content, l2[t.path], b[t.path], k, x2)
    <2>1. t.path \in Paths /\ AtStep(t, t.remote[t.path].content, l[t.path], b[t.path], k, x)
      BY <1>3 DEF Dev
    <2>2. CASE t.step \in LocalWrites
      BY <2>1, <2>2 DEF AtStep, LocalWrites
    <2>3. CASE t.step \notin LocalWrites
      <3>1. l[t.path] \subseteq l2[t.path] \cup x2
        BY <2>1
      <3>2. QED
        BY <2>1, <2>3, <3>1 DEF AtStep, LocalWrites
    <2>4. QED
      BY <2>2, <2>3
  <1>4. QED
    BY <1>1, <1>2, <1>3 DEF Dev

\* A path ends: the new note and the new base have to be covered.
LEMMA DevEnds ==
    ASSUME NEW l, NEW k, NEW s, NEW b, NEW t \in Task, NEW F, NEW x, Dev(l, k, s, b, t, F, x),
           NEW p \in Paths, NEW l2, NEW k2, NEW b2, NEW F2, NEW r, Ended(r, t, p),
           \A q \in Paths \ {p} : l2[q] = l[q] /\ b2[q] = b[q],
           \A q \in Paths : F[q].content \subseteq F2[q].content \cup x,
           Agreed(b2[p], l2[p], F2[p].content, x), s[p] \subseteq l2[p] \cup x
    PROVE  Dev(l2, k2, s, b2, r, F2, x)
  <1>1. \A q \in Paths : Agreed(b2[q], l2[q], F2[q].content, x) /\ Agreed(s[q], l2[q], F2[q].content, x)
    BY DEF Dev, Agreed
  <1>2. CASE r = Idle
    BY <1>1, <1>2, IdleSound DEF Dev
  <1>3. CASE r # Idle
    <2>1. r.remote = t.remote /\ r.todo = t.todo \ {p} /\ r.step = "next"
      BY <1>3 DEF Ended
    <2>2. \A q \in r.todo : Listing(b2[q], s[q], r.remote[q].content, F2[q].content, x)
      <3>1. t.todo \subseteq Paths
        BY DEF Task
      <3>2. QED
        BY <2>1, <3>1 DEF Dev, Listing
    <2>3. QED
      BY <1>1, <2>1, <2>2 DEF Dev
  <1>4. QED
    BY <1>2, <1>3

\* A step from one part of a path to the next.
LEMMA DevStep ==
    ASSUME NEW l, NEW k, NEW s, NEW b, NEW t, NEW F, NEW x, Dev(l, k, s, b, t, F, x),
           NEW r, NEW l2, NEW k2, Same(r, t),
           \A p \in Paths : b[p] \subseteq l2[p] \cup x /\ s[p] \subseteq l2[p] \cup x,
           AtStep(r, r.remote[r.path].content, l2[r.path], b[r.path], k2, x)
    PROVE  Dev(l2, k2, s, b, r, F, x)
  BY DEF Dev, Same, Agreed

\* An edit is safe: discarded, on the server, on a disk or in a copy.
Safe(e) ==
    \/ e \in discarded
    \/ \E p \in Paths : e \in files[p].content
    \/ \E d \in Devices : \/ \E p \in Paths : e \in local[d][p]
                          \/ \E n \in copies[d] : e \in n

\* A device moves.  What it takes off its disk has to be safe, what the server drops discarded.
LEMMA DeviceMoves ==
    ASSUME IInv, NEW d \in Devices,
           \A c \in Devices \ {d} : /\ local'[c] = local[c] /\ copies'[c] = copies[c] /\ saved'[c] = saved[c]
                                    /\ base'[c] = base[c] /\ task'[c] = task[c],
           \A p \in Paths : files[p].content \subseteq files'[p].content \cup discarded',
           discarded \subseteq discarded',
           \A p \in Paths : \A e \in local[d][p] : Safe(e)',
           \A n \in copies[d] : n \in copies'[d] \/ \A e \in n : Safe(e)',
           \A e \in 1 .. written' : e \in 1 .. written \/ Safe(e)',
           Dev(local'[d], copies'[d], saved'[d], base'[d], task'[d], files', discarded')
    PROVE  DevInv' /\ NoLostEdit'
  <1>1. ASSUME NEW c \in Devices
        PROVE  Dev(local'[c], copies'[c], saved'[c], base'[c], task'[c], files', discarded')
    <2>1. CASE c = d
      BY <2>1
    <2>2. CASE c # d
      <3>1. task[c] \in Task /\ (task[c].step \notin {"next", "manifest"} => task[c].path \in Paths)
        BY OfTask DEF IInv
      <3>2. Dev(local[c], copies[c], saved[c], base[c], task[c], files, discarded)
        BY DEF IInv, DevInv
      <3>3. \A p \in Paths : local[c][p] \subseteq local[c][p] \cup discarded'
        OBVIOUS
      <3>4. Dev(local[c], copies[c], saved[c], base[c], task[c], files', discarded')
        BY <3>1, <3>2, <3>3, DevMoves
      <3>5. QED
        BY <2>2, <3>4
    <2>3. QED
      BY <2>1, <2>2
  <1>2. ASSUME NEW e \in 1 .. written, Safe(e) PROVE Safe(e)'
    <2>1. CASE e \in discarded
      BY <2>1 DEF Safe
    <2>2. ASSUME NEW q \in Paths, e \in files[q].content PROVE Safe(e)'
      BY <2>2 DEF Safe
    <2>3. ASSUME NEW c \in Devices, NEW q \in Paths, e \in local[c][q] PROVE Safe(e)'
      <3>1. CASE c = d
        BY <2>3, <3>1
      <3>2. CASE c # d
        BY <2>3, <3>2 DEF Safe
      <3>3. QED
        BY <3>1, <3>2
    <2>4. ASSUME NEW c \in Devices, NEW n \in copies[c], e \in n PROVE Safe(e)'
      <3>1. n \in copies'[c] \/ \A f \in n : Safe(f)'
        BY <2>4
      <3>2. QED
        BY <2>4, <3>1 DEF Safe
    <2>5. QED
      BY <1>2, <2>1, <2>2, <2>3, <2>4 DEF Safe
  <1>3. NoLostEdit'
    <2> SUFFICES ASSUME NEW e \in 1 .. written' PROVE Safe(e)'
      BY DEF NoLostEdit, Safe
    <2>1. CASE e \in 1 .. written
      <3>1. Safe(e)
        BY <2>1 DEF IInv, NoLostEdit, Safe
      <3>2. QED
        BY <1>2, <2>1, <3>1
    <2>2. QED
      BY <2>1
  <1>4. QED
    BY <1>1, <1>3 DEF DevInv

\* What the invariant says of a device.
LEMMA OfDevice ==
    ASSUME IInv, NEW d \in Devices
    PROVE  /\ TInv /\ TypeOK /\ ServerInv /\ DevInv /\ NoLostEdit
           /\ Dev(local[d], copies[d], saved[d], base[d], task[d], files, discarded)
           /\ task[d] \in Task /\ task \in [Devices -> Task]
           /\ local \in [Devices -> [Paths -> Notes]] /\ base \in [Devices -> [Paths -> Notes]]
           /\ saved \in [Devices -> [Paths -> Notes]] /\ copies \in [Devices -> SUBSET Notes]
           /\ files \in [Paths -> [content : Notes, version : Nat]] /\ discarded \in Notes
           /\ \A q \in Paths : /\ base[d][q] \subseteq local[d][q] \cup discarded
                               /\ saved[d][q] \subseteq local[d][q] \cup discarded
                               /\ base[d][q] \subseteq files[q].content \cup discarded
                               /\ saved[d][q] \subseteq files[q].content \cup discarded
           /\ \A q \in task[d].todo : Listing(base[d][q], saved[d][q], task[d].remote[q].content, files[q].content, discarded)
  <1>1. Dev(local[d], copies[d], saved[d], base[d], task[d], files, discarded)
    BY DEF IInv, DevInv
  <1>2. QED
    BY <1>1 DEF IInv, TInv, TypeOK, Dev, Agreed

\* And of the path it is at.
LEMMA OfPath ==
    ASSUME IInv, NEW d \in Devices, task[d].step \notin {"next", "manifest"}
    PROVE  /\ P(d) \in Paths /\ P(d) \in task[d].todo /\ task[d].seen \in Notes /\ task[d].hand \in Notes
           /\ R(d).content \in Notes /\ local[d][P(d)] \in Notes
           /\ AtStep(task[d], R(d).content, local[d][P(d)], base[d][P(d)], copies[d], discarded)
           /\ Listing(base[d][P(d)], saved[d][P(d)], R(d).content, files[P(d)].content, discarded)
           /\ base[d][P(d)] \subseteq local[d][P(d)] \cup discarded
           /\ saved[d][P(d)] \subseteq local[d][P(d)] \cup discarded
           /\ base[d][P(d)] \subseteq files[P(d)].content \cup discarded
           /\ Known(R(d), files[P(d)], top)
  <1>1. P(d) \in Paths /\ P(d) \in task[d].todo /\ task[d].seen \in Notes /\ task[d].hand \in Notes
        /\ R(d).content \in Notes /\ Known(R(d), files[P(d)], top)
    BY OfTask DEF IInv, P, R, Told
  <1>2. AtStep(task[d], R(d).content, local[d][P(d)], base[d][P(d)], copies[d], discarded)
    BY OfDevice DEF Dev, P, R
  <1>3. QED
    BY <1>1, <1>2, OfDevice DEF R, P

\* A path ends, with a local note l and a base b.
LEMMA DataEnds ==
    ASSUME IInv, NEW d \in Devices, NEW p \in Paths, NEW r, Becomes(d, r), Ended(r, task[d], p), NEW l, NEW b,
           (l = local[d][p] /\ local' = local) \/ SetLocal(d, p, l),
           (b = base[d][p] /\ base' = base) \/ SetBase(d, p, b),
           \A c \in Devices \ {d} : copies'[c] = copies[c], UNCHANGED <<saved, users>>,
           \A q \in Paths : files[q].content \subseteq files'[q].content \cup discarded,
           Agreed(b, l, files'[p].content, discarded), saved[d][p] \subseteq l \cup discarded,
           local[d][p] \subseteq l \cup discarded \/ local[d][p] \in copies'[d],
           \A n \in copies[d] : n \in copies'[d] \/ n \subseteq l
    PROVE  DevInv' /\ NoLostEdit'
  <1>1. discarded' = discarded /\ written' = written /\ saved' = saved
    BY DEF users
  <1>2. /\ \A c \in Devices \ {d} : local'[c] = local[c] /\ base'[c] = base[c]
        /\ \A q \in Paths \ {p} : local'[d][q] = local[d][q] /\ base'[d][q] = base[d][q]
        /\ local'[d][p] = l /\ base'[d][p] = b
    BY OfDevice DEF SetLocal, SetBase
  <1>3. task'[d] = r /\ \A c \in Devices \ {d} : task'[c] = task[c]
    BY OfDevice DEF Becomes
  <1>4. Dev(local'[d], copies'[d], saved[d], base'[d], r, files', discarded)
    <2>1. Agreed(base'[d][p], local'[d][p], files'[p].content, discarded) /\ saved[d][p] \subseteq local'[d][p] \cup discarded
      BY <1>2
    <2>2. \A q \in Paths \ {p} : local'[d][q] = local[d][q] /\ base'[d][q] = base[d][q]
      BY <1>2
    <2>3. Dev(local[d], copies[d], saved[d], base[d], task[d], files, discarded) /\ task[d] \in Task
      BY OfDevice
    <2>4. QED
      BY <2>1, <2>2, <2>3, DevEnds
  <1>5. \A q \in Paths : \A e \in local[d][q] : Safe(e)'
    <2>1. ASSUME NEW q \in Paths \ {p}, NEW e \in local[d][q] PROVE Safe(e)'
      BY <1>2 DEF Safe
    <2>2. ASSUME NEW e \in local[d][p] PROVE Safe(e)'
      <3>1. CASE local[d][p] \subseteq l \cup discarded
        BY <1>1, <1>2, <3>1 DEF Safe
      <3>2. CASE local[d][p] \in copies'[d]
        BY <3>2 DEF Safe
      <3>3. QED
        BY <3>1, <3>2
    <2>3. QED
      BY <2>1, <2>2
  <1>6. \A n \in copies[d] : n \in copies'[d] \/ \A e \in n : Safe(e)'
    <2>1. \A e \in l : Safe(e)'
      BY <1>2 DEF Safe
    <2>2. QED
      BY <2>1
  <1>7. QED
    BY <1>1, <1>2, <1>3, <1>4, <1>5, <1>6, DeviceMoves

\* A path goes on, with a local note l.
LEMMA DataGoesOn ==
    ASSUME IInv, NEW d \in Devices, NEW p \in Paths, NEW r, Becomes(d, r), Same(r, task[d]), r.path = p, NEW l,
           (l = local[d][p] /\ local' = local) \/ SetLocal(d, p, l),
           \A c \in Devices \ {d} : copies'[c] = copies[c], copies[d] \subseteq copies'[d],
           UNCHANGED <<server, saved, base, users>>,
           base[d][p] \subseteq l \cup discarded, saved[d][p] \subseteq l \cup discarded,
           local[d][p] \subseteq l \cup discarded \/ \E n \in copies'[d] : local[d][p] \subseteq n,
           AtStep(r, task[d].remote[p].content, l, base[d][p], copies'[d], discarded)
    PROVE  DevInv' /\ NoLostEdit'
  <1>1. discarded' = discarded /\ written' = written /\ saved' = saved /\ base' = base /\ files' = files
    BY DEF users, server
  <1>2. /\ \A c \in Devices \ {d} : local'[c] = local[c]
        /\ \A q \in Paths \ {p} : local'[d][q] = local[d][q]
        /\ local'[d][p] = l
    BY OfDevice DEF SetLocal
  <1>3. task'[d] = r /\ \A c \in Devices \ {d} : task'[c] = task[c]
    BY OfDevice DEF Becomes
  <1>4. Dev(local'[d], copies'[d], saved[d], base[d], r, files, discarded)
    <2>1. \A q \in Paths : base[d][q] \subseteq local'[d][q] \cup discarded /\ saved[d][q] \subseteq local'[d][q] \cup discarded
      BY <1>2, OfDevice
    <2>2. AtStep(r, r.remote[r.path].content, local'[d][r.path], base[d][r.path], copies'[d], discarded)
      BY <1>2 DEF Same
    <2>3. QED
      BY <2>1, <2>2, OfDevice, DevStep
  <1>5. \A q \in Paths : \A e \in local[d][q] : Safe(e)'
    <2>1. ASSUME NEW q \in Paths \ {p}, NEW e \in local[d][q] PROVE Safe(e)'
      BY <1>2 DEF Safe
    <2>2. ASSUME NEW e \in local[d][p] PROVE Safe(e)'
      <3>1. CASE local[d][p] \subseteq l \cup discarded
        BY <1>1, <1>2, <3>1 DEF Safe
      <3>2. CASE \E n \in copies'[d] : local[d][p] \subseteq n
        BY <3>2 DEF Safe
      <3>3. QED
        BY <3>1, <3>2
    <2>3. QED
      BY <2>1, <2>2
  <1>6. QED
    BY <1>1, <1>2, <1>3, <1>4, <1>5, DeviceMoves

\* A task moves and nothing else: it looks at nothing it did not know.
LEMMA DataStays ==
    ASSUME IInv, NEW d \in Devices, NEW r, Becomes(d, r), UNCHANGED <<server, disk, base, users>>,
           Dev(local[d], copies[d], saved[d], base[d], r, files, discarded)
    PROVE  DevInv' /\ NoLostEdit'
  <1>1. task'[d] = r /\ \A c \in Devices \ {d} : task'[c] = task[c]
    BY OfDevice DEF Becomes
  <1>2. discarded' = discarded /\ written' = written /\ saved' = saved /\ base' = base /\ files' = files
        /\ local' = local /\ copies' = copies
    BY DEF users, server, disk
  <1>3. \A p \in Paths : \A e \in local[d][p] : Safe(e)'
    BY <1>2 DEF Safe
  <1>4. QED
    BY <1>1, <1>2, <1>3, DeviceMoves

\* Tasks start; an event learns of the tombstones; a task ends.
LEMMA StartData ==
    ASSUME IInv, NEW d \in Devices,
           StartFull(d) \/ StartDelta(d) \/ (\E p \in Paths : StartEvent(d, p)) \/ FetchManifest(d) \/ Finish(d)
           \/ ConnectionFails(d)
    PROVE  DevInv' /\ NoLostEdit'
  <1>1. UNCHANGED <<server, disk, base, users>>
    BY DEF StartFull, StartDelta, StartEvent, FetchManifest, Finish, ConnectionFails
  <1>2. TypeOK /\ ServerInv
    BY OfDevice
  <1>3. ASSUME NEW r, Becomes(d, r), r.step \in {"next", "manifest"}, r.todo \subseteq Paths,
               \A p \in r.todo : r.remote[p] = files[p] \/ (p \in task[d].todo /\ r.remote[p] = task[d].remote[p])
        PROVE  DevInv' /\ NoLostEdit'
    <2>1. \A p \in r.todo : Listing(base[d][p], saved[d][p], r.remote[p].content, files[p].content, discarded)
      BY <1>3, OfDevice DEF Listing
    <2>2. Dev(local[d], copies[d], saved[d], base[d], r, files, discarded)
      BY <1>3, <2>1, OfDevice DEF Dev
    <2>3. QED
      BY <1>1, <1>3, <2>2, DataStays
  <1>4. CASE StartFull(d)
    <2>1. PICK r : Becomes(d, r) /\ r.remote = files /\ r.step = "next"
      BY <1>2, <1>4, FullSound
    <2>2. r.todo \subseteq Paths
      BY <2>1 DEF Becomes, Task
    <2>3. QED
      BY <1>3, <2>1, <2>2
  <1>5. CASE StartDelta(d)
    <2>1. PICK r : /\ Becomes(d, r) /\ r.step = "next" /\ r.todo = Upserted(d) \cup Removed(d)
                   /\ r.remote = [p \in Paths |-> IF p \in Upserted(d) THEN files[p] ELSE Absent]
      BY <1>2, <1>5, DeltaSound
    <2>2. r.todo \subseteq Paths
      BY <2>1 DEF Becomes, Task
    <2>3. ASSUME NEW p \in r.todo PROVE r.remote[p] = files[p]
      <3>1. CASE p \in Upserted(d)
        BY <2>1, <2>2, <3>1
      <3>2. CASE p \notin Upserted(d)
        <4>1. tombs[p] > cursor[d] /\ cursor[d] \in Nat /\ tombs[p] \in Nat
          BY <1>2, <2>1, <2>2, <3>2 DEF Removed, TypeOK
        <4>2. tombs[p] # 0
          BY <4>1
        <4>3. files[p] = Absent
          BY <1>2, <2>2, <4>2 DEF ServerInv
        <4>4. QED
          BY <2>1, <2>2, <3>2, <4>3
      <3>3. QED
        BY <3>1, <3>2
    <2>4. QED
      BY <1>3, <2>1, <2>2, <2>3
  <1>6. ASSUME NEW p \in Paths, StartEvent(d, p) PROVE DevInv' /\ NoLostEdit'
    <2>1. PICK r : /\ Becomes(d, r) /\ r.step \in {"next", "manifest"} /\ r.todo = {p}
                   /\ \A q \in Paths : r.remote[q] = IF q = p THEN files[p] ELSE Absent
      BY <1>2, <1>6, EventSound
    <2>2. QED
      BY <1>3, <2>1
  <1>7. CASE FetchManifest(d)
    <2>1. PICK r : /\ Becomes(d, r) /\ r.remote = task[d].remote /\ r.todo = task[d].todo /\ r.step = "next"
      BY <1>2, <1>7, ManifestSound
    <2>2. r.todo \subseteq Paths
      BY <2>1 DEF Becomes, Task
    <2>3. QED
      BY <1>3, <2>1, <2>2
  <1>8. CASE Finish(d) \/ ConnectionFails(d)
    <2>1. Becomes(d, Idle)
      BY <1>8, IdleSound DEF Finish, ConnectionFails, Offline, Becomes
    <2>2. QED
      BY <1>3, <2>1, IdleSound
  <1>9. QED
    BY <1>4, <1>5, <1>6, <1>7, <1>8

\* A path is examined.
LEMMA ExamineData ==
    ASSUME IInv, NEW d \in Devices, NEW p \in Paths, Examine(d, p) \/ ExamineUnreadable(d, p)
    PROVE  DevInv' /\ NoLostEdit'
  <1>1. TypeOK /\ TInv /\ p \in task[d].todo /\ task[d].kind # "idle" /\ UNCHANGED <<server, disk, users>>
    BY OfDevice DEF Examine, ExamineUnreadable, Due, At
  <1>2. local' = local /\ copies' = copies /\ saved' = saved /\ files' = files
    BY <1>1 DEF server, disk
  <1>3. PICK l, b, m, x, f, s : l = local[d][p] /\ b = base[d][p] /\ m = task[d].remote[p].content /\ x = discarded
                                /\ f = files[p].content /\ s = saved[d][p]
    OBVIOUS
  <1>4. Listing(b, s, m, f, x) /\ b \subseteq l \cup x /\ s \subseteq l \cup x /\ b \subseteq f \cup x
    BY <1>1, <1>3, OfDevice
  <1>5. ASSUME NEW r, Becomes(d, r), Ended(r, task[d], p), NEW c,
               (c = b /\ base' = base) \/ SetBase(d, p, c), Agreed(c, l, f, x)
        PROVE  DevInv' /\ NoLostEdit'
    BY <1>1, <1>2, <1>3, <1>4, <1>5, DataEnds
  <1>6. ASSUME NEW n \in Notes, Decided(d, p, n),
               \/ n = l \/ n = {}
               \/ n = b /\ task[d].kind = "full" /\ task[d].remote[p] # Absent
        PROVE  DevInv' /\ NoLostEdit'
    <2>1. CASE PathDone(d, p) /\ SetBase(d, p, m) /\ n = m
      <3>1. PICK r : Becomes(d, r) /\ Ended(r, task[d], p)
        BY <1>1, <2>1, EndsSound
      <3>2. Agreed(m, l, f, x)
        BY <1>4, <1>6, <2>1 DEF Agreed, Listing
      <3>3. QED
        BY <1>5, <2>1, <3>1, <3>2
    <2>2. ASSUME UNCHANGED base, NEW r, Becomes(d, r), Ended(r, task[d], p) PROVE DevInv' /\ NoLostEdit'
      BY <1>3, <1>4, <1>5, <2>2 DEF Agreed
    <2>3. ASSUME UNCHANGED base, NEW r, Becomes(d, r), Same(r, task[d]), r.path = p, r.seen = n,
                 r.step \in {"pushRead", "fetch", "remove", "probe", "mergeFetch"},
                 r.step = Finalize(Decision!Decide(n, b, m), task[d].dels[p] # 0, task[d].guard, n, b)
          PROVE  DevInv' /\ NoLostEdit'
      <3>1. PICK tomb \in BOOLEAN : tomb = (task[d].dels[p] # 0)
        OBVIOUS
      <3>2. task[d].guard \in BOOLEAN
        BY OfDevice DEF Task
      <3>3. PICK e : e = r.step
        OBVIOUS
      <3>4. e = Finalize(Decision!Decide(n, b, m), tomb, task[d].guard, n, b)
        BY <2>3, <3>1, <3>3
      <3>5. /\ e = "pushRead"   => m \in {{}, b}
            /\ e = "fetch"      => n \in {{}, b}
            /\ e = "remove"     => n = b /\ n # {} /\ m = {} /\ tomb
            /\ e = "probe"      => m = b
            /\ e = "mergeFetch" => n \notin {{}, b}
        BY <3>2, <3>4, FinalizeSound
      <3>6. ~(task[d].kind = "full" /\ task[d].remote[p] # Absent /\ tomb)
        BY <1>1, <3>1, OfTask DEF Told
      <3>7. AtStep(r, m, l, b, copies[d], x)
        BY <1>4, <1>6, <2>3, <3>3, <3>5, <3>6 DEF AtStep, Listing
      <3>8. QED
        BY <1>1, <1>2, <1>3, <1>4, <2>3, <3>7, DataGoesOn
    <2>4. QED
      BY <1>1, <1>3, <1>6, <2>1, <2>2, <2>3, DecidedSound
  <1>7. CASE PathThrows(d, p) /\ UNCHANGED base
    <2>1. PICK r : Becomes(d, r) /\ Ended(r, task[d], p)
      BY <1>1, <1>7, ThrowsSound
    <2>2. QED
      BY <1>3, <1>4, <1>5, <1>7, <2>1 DEF Agreed
  <1>8. l \in Notes /\ b \in Notes /\ {} \in Notes
    BY <1>3, OfDevice, IdleSound
  <1>9. QED
    BY <1>3, <1>6, <1>7, <1>8 DEF Examine, ExamineUnreadable

\* A path ends and changes no file.
LEMMA EndData ==
    ASSUME IInv, NEW d \in Devices, task[d].step \notin {"next", "manifest"}, UNCHANGED <<server, local, base, saved, users>>,
           PathThrows(d, P(d)) \/ Conflicted(d) \/ PathDone(d, P(d)) \/ Offline(d),
           \A c \in Devices \ {d} : copies'[c] = copies[c],
           \A n \in copies[d] : n \in copies'[d] \/ n \subseteq local[d][P(d)]
    PROVE  DevInv' /\ NoLostEdit'
  <1>1. PICK r : Becomes(d, r) /\ Ended(r, task[d], P(d))
    BY OfDevice, OfPath, ThrowsSound
  <1>2. files' = files
    BY DEF server
  <1>3. Agreed(base[d][P(d)], local[d][P(d)], files'[P(d)].content, discarded)
    BY <1>2, OfPath DEF Agreed
  <1>4. QED
    BY <1>1, <1>2, <1>3, OfPath, DataEnds

\* A path goes on to its next step.
LEMMA OnData ==
    ASSUME IInv, NEW d \in Devices,
           PushRead(d) \/ Fetch(d) \/ Probe(d) \/ MergeFetch(d) \/ MergeWrite(d) \/ ConflictCopy(d)
    PROVE  DevInv' /\ NoLostEdit'
  <1>1. task[d].step \notin {"next", "manifest"} /\ UNCHANGED <<server, saved, base, users>>
    BY DEF PushRead, Fetch, Probe, MergeFetch, MergeWrite, ConflictCopy, At, disk
  <1>2. PICK l, b, m, x, s, p, t : l = local[d][p] /\ b = base[d][p] /\ m = R(d).content /\ x = discarded
                                /\ s = saved[d][p] /\ p = P(d) /\ t = task[d]
    BY Zenon
  <1>3. /\ AtStep(t, m, l, b, copies[d], x) /\ b \subseteq l \cup x /\ s \subseteq l \cup x
        /\ b \subseteq m \cup x /\ s \subseteq m \cup x
        /\ p \in Paths /\ l \in Notes /\ m \in Notes /\ t.hand \in Notes /\ t.seen \in Notes /\ b \in Notes
    BY <1>1, <1>2, OfPath, OfDevice DEF Listing
  <1>4. copies \in [Devices -> SUBSET Notes] /\ TypeOK /\ {} \in Notes
    BY OfDevice, IdleSound
  <1>5. ASSUME NEW st \in Steps \ {"next", "manifest"}, NEW h \in Notes, GoTo(d, st, h), NEW l2,
               (l2 = l /\ local' = local) \/ SetLocal(d, p, l2),
               \A c \in Devices \ {d} : copies'[c] = copies[c], copies[d] \subseteq copies'[d],
               b \subseteq l2 \cup x, s \subseteq l2 \cup x,
               l \subseteq l2 \cup x \/ \E n \in copies'[d] : l \subseteq n,
               \A r : r.step = st /\ r.hand = h /\ r.seen = t.seen => AtStep(r, m, l2, b, copies'[d], x)
        PROVE  DevInv' /\ NoLostEdit'
    <2>1. PICK r : /\ Becomes(d, r) /\ r.step = st /\ r.hand = h /\ Same(r, task[d])
                   /\ r.path = task[d].path /\ r.seen = task[d].seen
      BY <1>4, <1>5, GoToSound
    <2>2. AtStep(r, task[d].remote[p].content, l2, b, copies'[d], x) /\ r.path = p
      BY <1>2, <1>5, <2>1 DEF R, P
    <2>3. QED
      BY <1>1, <1>2, <1>3, <1>5, <2>1, <2>2, DataGoesOn
  <1>6. CASE PushRead(d)
    <2>1. CASE l # {}
      <3>1. GoTo(d, "commit", l) /\ UNCHANGED <<local, copies>>
        BY <1>2, <1>6, <2>1 DEF PushRead, disk
      <3>2. \A r : r.step = "commit" /\ r.hand = l /\ r.seen = t.seen => AtStep(r, m, l, b, copies'[d], x)
        BY <1>2, <1>3, <1>6 DEF AtStep, PushRead, At
      <3>3. "commit" \in Steps \ {"next", "manifest"}
        BY DEF Steps
      <3>4. QED
        BY <1>3, <1>5, <3>1, <3>2, <3>3
    <2>2. CASE l = {}
      BY <1>1, <1>2, <1>6, <2>2, EndData DEF PushRead, disk
    <2>3. QED
      BY <2>1, <2>2
  <1>7. CASE Fetch(d)
    <2>1. GoTo(d, "write", UNION RacingSave(d)) /\ copies' = [copies EXCEPT ![d] = @ \cup RacingSave(d)]
          /\ local' = local /\ t.step = "fetch" /\ t.seen \subseteq b
      BY <1>2, <1>3, <1>7 DEF Fetch, At, AtStep
    <2>2. RacingSave(d) = {l} \ {{}, t.seen, b}
      BY <1>2 DEF RacingSave
    <2>3. PICK h : h = UNION RacingSave(d)
      OBVIOUS
    <2>4. h \in {{}, l} /\ (l \in RacingSave(d) \/ l \in {{}, t.seen, b})
      BY <2>2, <2>3
    <2>5. /\ copies'[d] = copies[d] \cup RacingSave(d) /\ \A c \in Devices \ {d} : copies'[c] = copies[c]
      BY <1>4, <2>1
    <2>6. \A r : r.step = "write" /\ r.hand = h /\ r.seen = t.seen => AtStep(r, m, l, b, copies'[d], x)
      BY <1>3, <2>1, <2>4, <2>5 DEF AtStep
    <2>7. "write" \in Steps \ {"next", "manifest"}
      BY DEF Steps, LocalWrites
    <2>8. h \in Notes
      BY <1>3, <1>4, <2>4
    <2>9. QED
      <3>1. GoTo(d, "write", h) /\ local' = local /\ copies[d] \subseteq copies'[d]
            /\ (\A c \in Devices \ {d} : copies'[c] = copies[c])
        BY <2>1, <2>3, <2>5
      <3>2. QED
        BY <1>3, <1>5, <2>6, <2>7, <2>8, <3>1
  <1>8. CASE Probe(d)
    <2>1. CASE l = {}
      <3>1. GoTo(d, "tombstone", {}) /\ UNCHANGED <<local, copies>>
        BY <1>2, <1>8, <2>1 DEF Probe, disk
      <3>2. \A r : r.step = "tombstone" /\ r.hand = {} /\ r.seen = t.seen => AtStep(r, m, l, b, copies'[d], x)
        BY <1>2, <1>3, <1>8, <2>1 DEF AtStep, Probe, At
      <3>3. "tombstone" \in Steps \ {"next", "manifest"}
        BY DEF Steps
      <3>4. QED
        BY <1>3, <1>4, <1>5, <3>1, <3>2, <3>3
    <2>2. CASE l # {}
      BY <1>1, <1>2, <1>8, <2>2, EndData DEF Probe, disk
    <2>3. QED
      BY <2>1, <2>2
  <1>9. CASE MergeFetch(d)
    <2>1. PICK live \in Notes : live = IF l # {} THEN l ELSE t.seen
      BY <1>3
    <2>2. /\ UNCHANGED <<local, copies>> /\ t.step = "mergeFetch"
          /\ \/ live \in {m, b} /\ GoTo(d, "write", {})
             \/ GoTo(d, "mergeWrite", Merged(b, live, m))
             \/ GoTo(d, "conflict", live)
      BY <1>2, <1>9, <2>1 DEF MergeFetch, disk, At
    <2>3. b \subseteq live \cup x /\ l \subseteq live
      BY <1>3, <2>1, <2>2 DEF AtStep
    <2>4. {"write", "mergeWrite", "conflict"} \subseteq Steps \ {"next", "manifest"}
      BY DEF Steps, LocalWrites
    <2>5. CASE live \in {m, b} /\ GoTo(d, "write", {})
      <3>1. \A r : r.step = "write" /\ r.hand = {} /\ r.seen = t.seen => AtStep(r, m, l, b, copies'[d], x)
        BY <1>3, <2>3, <2>5 DEF AtStep
      <3>2. QED
        BY <1>3, <1>4, <1>5, <2>2, <2>4, <2>5, <3>1
    <2>6. CASE GoTo(d, "mergeWrite", Merged(b, live, m))
      <3>1. PICK h : h = Merged(b, live, m)
        OBVIOUS
      <3>2. l \cup b \cup m \subseteq h \cup x
        BY <1>3, <2>3, <3>1 DEF Merged
      <3>3. h \in Notes
        BY <1>3, <2>1, <3>1 DEF Merged, Notes
      <3>4. \A r : r.step = "mergeWrite" /\ r.hand = h /\ r.seen = t.seen => AtStep(r, m, l, b, copies'[d], x)
        BY <3>2 DEF AtStep
      <3>5. QED
        BY <1>3, <1>5, <2>2, <2>4, <2>6, <3>1, <3>3, <3>4
    <2>7. CASE GoTo(d, "conflict", live)
      <3>1. \A r : r.step = "conflict" /\ r.hand = live /\ r.seen = t.seen => AtStep(r, m, l, b, copies'[d], x)
        BY <2>3 DEF AtStep
      <3>2. QED
        BY <1>3, <1>5, <2>2, <2>4, <2>7, <3>1
    <2>8. QED
      BY <2>2, <2>5, <2>6, <2>7
  <1>10. CASE MergeWrite(d)
    <2>1. GoTo(d, "commit", t.hand) /\ SetLocal(d, p, t.hand) /\ copies' = copies /\ t.step = "mergeWrite"
      BY <1>2, <1>10 DEF MergeWrite, At
    <2>2. l \cup b \cup m \subseteq t.hand \cup x
      BY <1>3, <2>1 DEF AtStep
    <2>3. \A r : r.step = "commit" /\ r.hand = t.hand /\ r.seen = t.seen => AtStep(r, m, t.hand, b, copies'[d], x)
      BY <2>2 DEF AtStep
    <2>4. "commit" \in Steps \ {"next", "manifest"} /\ s \subseteq t.hand \cup x
      BY <1>3, <2>2 DEF Steps
    <2>5. QED
      BY <1>3, <1>5, <2>1, <2>2, <2>3, <2>4
  <1>11. CASE ConflictCopy(d)
    <2>1. GoTo(d, "copyPush", t.hand) /\ SetLocal(d, p, m) /\ copies' = [copies EXCEPT ![d] = @ \cup {t.hand}]
          /\ t.step = "conflict"
      BY <1>2, <1>11 DEF ConflictCopy, At
    <2>2. copies'[d] = copies[d] \cup {t.hand} /\ \A c \in Devices \ {d} : copies'[c] = copies[c]
      BY <1>4, <2>1
    <2>3. l \subseteq t.hand
      BY <1>3, <2>1 DEF AtStep
    <2>4. \A r : r.step = "copyPush" /\ r.hand = t.hand /\ r.seen = t.seen => AtStep(r, m, m, b, copies'[d], x)
      BY DEF AtStep
    <2>5. "copyPush" \in Steps \ {"next", "manifest"}
      BY DEF Steps
    <2>6. GoTo(d, "copyPush", t.hand) /\ SetLocal(d, p, m) /\ copies[d] \subseteq copies'[d]
          /\ (\A c \in Devices \ {d} : copies'[c] = copies[c]) /\ \E n \in copies'[d] : l \subseteq n
      BY <2>1, <2>2, <2>3
    <2>7. QED
      BY <1>3, <1>5, <2>4, <2>5, <2>6
  <1>12. QED
    BY <1>6, <1>7, <1>8, <1>9, <1>10, <1>11

\* A path ends on the device.
LEMMA LocalData ==
    ASSUME IInv, NEW d \in Devices, Write(d) \/ RemoveLocal(d) \/ CopyPush(d) \/ WriteFails(d) \/ TransferFails(d)
    PROVE  DevInv' /\ NoLostEdit'
  <1>1. task[d].step \notin {"next", "manifest"} /\ UNCHANGED <<server, saved, users>>
    BY DEF Write, RemoveLocal, CopyPush, WriteFails, TransferFails, At, disk, LocalWrites, NetworkSteps
  <1>2. PICK l, b, m, x, s, p, t, f : l = local[d][p] /\ b = base[d][p] /\ m = R(d).content /\ x = discarded
                                /\ s = saved[d][p] /\ p = P(d) /\ t = task[d] /\ f = files[p].content
    BY Zenon
  <1>3. /\ AtStep(t, m, l, b, copies[d], x) /\ b \subseteq l \cup x /\ s \subseteq l \cup x
        /\ b \subseteq m \cup x /\ s \subseteq m \cup x /\ m \subseteq f \cup x /\ p \in Paths
    BY <1>1, <1>2, OfPath DEF Listing
  <1>4. copies \in [Devices -> SUBSET Notes] /\ TypeOK /\ files' = files
    BY <1>1, OfDevice DEF server
  <1>5. CASE Write(d) \/ RemoveLocal(d) \/ CopyPush(d)
    <2>1. PathDone(d, p) /\ copies' = copies
      BY <1>2, <1>5 DEF Write, RemoveLocal, CopyPush, disk
    <2>2. PICK r : Becomes(d, r) /\ Ended(r, task[d], p)
      BY <1>3, <1>4, <2>1, EndsSound
    <2>3. ASSUME NEW l2, NEW b2, (l2 = l /\ local' = local) \/ SetLocal(d, p, l2), SetBase(d, p, b2),
                 Agreed(b2, l2, f, x), s \subseteq l2 \cup x, l \subseteq l2 \cup x \/ l \in copies[d]
          PROVE  DevInv' /\ NoLostEdit'
      BY <1>1, <1>2, <1>3, <1>4, <2>1, <2>2, <2>3, DataEnds
    <2>4. CASE Write(d)
      <3>1. SetLocal(d, p, m) /\ SetBase(d, p, m) /\ t.step = "write"
        BY <1>2, <2>4 DEF Write, At
      <3>2. Agreed(m, m, f, x) /\ (l \subseteq m \cup x \/ l \in copies[d])
        BY <1>3, <3>1 DEF Agreed, AtStep
      <3>3. QED
        BY <1>3, <2>3, <3>1, <3>2
    <2>5. CASE RemoveLocal(d)
      <3>1. SetLocal(d, p, {}) /\ SetBase(d, p, {}) /\ t.step = "remove"
        BY <1>2, <2>5 DEF RemoveLocal, At
      <3>2. Agreed({}, {}, f, x) /\ l \subseteq {} \cup x /\ s \subseteq {} \cup x
        BY <1>3, <3>1 DEF Agreed, AtStep
      <3>3. QED
        BY <2>3, <3>1, <3>2
    <2>6. CASE CopyPush(d)
      <3>1. local' = local /\ SetBase(d, p, m) /\ t.step = "copyPush"
        BY <1>2, <2>6 DEF CopyPush, At, disk
      <3>2. Agreed(m, l, f, x)
        BY <1>3, <3>1 DEF Agreed, AtStep
      <3>3. QED
        BY <1>3, <2>3, <3>1, <3>2
    <2>7. QED
      BY <1>5, <2>4, <2>5, <2>6
  <1>6. CASE WriteFails(d) \/ TransferFails(d)
    <2>1. PathThrows(d, P(d)) /\ UNCHANGED <<local, base>>
      BY <1>6 DEF WriteFails, TransferFails, disk
    <2>2. \/ copies' = copies
          \/ t.step = "write" /\ copies' = [copies EXCEPT ![d] = @ \ {t.hand}]
          \/ copies' = [copies EXCEPT ![d] = @ \cup {t.hand}]
      BY <1>2, <1>6 DEF WriteFails, TransferFails, disk
    <2>3. t.step = "write" => t.hand \subseteq l
      BY <1>3 DEF AtStep
    <2>4. \A c \in Devices \ {d} : copies'[c] = copies[c]
      BY <1>4, <2>2
    <2>5. \A n \in copies[d] : n \in copies'[d] \/ n \subseteq l
      BY <1>4, <2>2, <2>3
    <2>6. QED
      BY <1>1, <1>2, <2>1, <2>4, <2>5, EndData
  <1>7. QED
    BY <1>5, <1>6

\* A path ends at the server: what a commit or a delete takes from it is in the note that is
\* committed, or discarded.
LEMMA CommitData ==
    ASSUME IInv, NEW d \in Devices, Commit(d) \/ Tombstone(d) \/ ReplyLost(d)
    PROVE  DevInv' /\ NoLostEdit'
  <1>1. task[d].step \in {"commit", "tombstone"} /\ UNCHANGED <<disk, users>>
    BY DEF Commit, Tombstone, ReplyLost, At
  <1>2. PICK l, b, m, x, s, p, t, f : l = local[d][p] /\ b = base[d][p] /\ m = R(d).content /\ x = discarded
                                /\ s = saved[d][p] /\ p = P(d) /\ t = task[d] /\ f = files[p].content
    BY Zenon
  <1>3. /\ AtStep(t, m, l, b, copies[d], x) /\ b \subseteq l \cup x /\ s \subseteq l \cup x
        /\ m \subseteq f \cup x /\ p \in Paths /\ t.hand \in Notes /\ b \subseteq f \cup x
        /\ (R(d).version = files[p].version => m = f)
    BY <1>1, <1>2, OfPath DEF Listing, Known
  <1>4. /\ copies' = copies /\ saved' = saved /\ local' = local /\ TypeOK /\ TInv
        /\ files \in [Paths -> [content : Notes, version : Nat]]
    BY <1>1, OfDevice DEF disk
  <1>5. PICK r : Becomes(d, r) /\ Ended(r, task[d], p)
    <2>1. PathThrows(d, P(d)) \/ Conflicted(d) \/ PathDone(d, P(d)) \/ Offline(d)
      BY DEF Commit, Tombstone, ReplyLost
    <2>2. QED
      BY <1>2, <1>3, <1>4, <2>1, ThrowsSound
  <1>6. ASSUME NEW b2, (b2 = b /\ base' = base) \/ SetBase(d, p, b2),
               Agreed(b2, l, files'[p].content, x),
               \A q \in Paths : files[q].content \subseteq files'[q].content \cup x
        PROVE  DevInv' /\ NoLostEdit'
    BY <1>1, <1>2, <1>3, <1>4, <1>5, <1>6, DataEnds, SMTT(30)
  <1>7. CASE UNCHANGED <<server, base>>
    <2>1. files' = files /\ base' = base
      BY <1>7 DEF server
    <2>2. QED
      BY <1>2, <1>3, <1>6, <2>1 DEF Agreed
  <1>8. CASE t.step = "commit" /\ Committed(p, t.hand, R(d).version)
    <2>1. files'[p].content = t.hand /\ f \subseteq t.hand \cup x
      <3>1. CASE f = t.hand /\ UNCHANGED server
        BY <1>2, <3>1 DEF server
      <3>2. CASE files[p].version = R(d).version /\ Server!Put(p, t.hand)
        BY <1>3, <1>4, <1>8, <3>2 DEF Server!Put, AtStep
      <3>3. QED
        BY <1>2, <1>8, <3>1, <3>2 DEF Committed
    <2>2. \A q \in Paths \ {p} : files'[q] = files[q]
      BY <1>3, <1>4, <1>8, ServerStep
    <2>3. \A q \in Paths : files[q].content \subseteq files'[q].content \cup x
      BY <1>2, <2>1, <2>2
    <2>4. Agreed(t.hand, l, files'[p].content, x) /\ Agreed(b, l, files'[p].content, x)
      BY <1>2, <1>3, <1>8, <2>1, <2>3 DEF Agreed, AtStep
    <2>5. base' = base \/ SetBase(d, p, t.hand)
      BY <1>2, <1>8 DEF Commit, Tombstone, ReplyLost, At
    <2>6. QED
      BY <1>6, <2>3, <2>4, <2>5
  <1>9. CASE t.step = "tombstone" /\ Deleted(p, R(d).version)
    <2>1. f \subseteq x \/ files' = files
      BY <1>2, <1>3, <1>9 DEF Deleted, AtStep, server
    <2>2. \A q \in Paths \ {p} : files'[q] = files[q]
      BY <1>3, <1>4, <1>9, ServerStep
    <2>3. \A q \in Paths : files[q].content \subseteq files'[q].content \cup x
      BY <1>2, <2>1, <2>2
    <2>4. Agreed({}, l, files'[p].content, x) /\ Agreed(b, l, files'[p].content, x)
      BY <1>2, <1>3, <2>3 DEF Agreed
    <2>5. base' = base \/ SetBase(d, p, {})
      BY <1>2, <1>9 DEF Commit, Tombstone, ReplyLost, At
    <2>6. QED
      BY <1>6, <2>3, <2>4, <2>5
  <1>10. QED
    BY <1>2, <1>7, <1>8, <1>9 DEF Commit, Tombstone, ReplyLost, At

\* A base is saved, a device starts again, a user edits, deletes or answers.
LEMMA RestData ==
    ASSUME RacySteps = {}, IInv, NEW d \in Devices,
           \/ Persist(d) \/ Crash(d) \/ AcceptHeld(d) \/ KeepHeld(d)
           \/ \E p \in Paths : Edit(d, p) \/ DeleteNote(d, p)
    PROVE  DevInv' /\ NoLostEdit'
  <1>1. TypeOK /\ TInv /\ UNCHANGED <<server, copies>> /\ files' = files /\ written \in Nat
    <2>1. UNCHANGED <<server, copies>>
      BY DEF Persist, Crash, AcceptHeld, KeepHeld, Edit, DeleteNote, disk
    <2>2. TypeOK /\ TInv
      BY OfDevice
    <2>3. written \in Nat
      BY <2>2, SyncAssumption DEF TypeOK
    <2>4. QED
      BY <2>1, <2>2, <2>3 DEF server
  <1>2. Dev(local[d], copies[d], saved[d], base[d], task[d], files, discarded) /\ task[d] \in Task
    BY OfDevice
  <1>3. ASSUME \A c \in Devices \ {d} : /\ local'[c] = local[c] /\ saved'[c] = saved[c]
                                        /\ base'[c] = base[c] /\ task'[c] = task[c],
               discarded \subseteq discarded',
               \A p \in Paths : local[d][p] \subseteq local'[d][p] \cup discarded',
               \A e \in 1 .. written' : e \in 1 .. written \/ Safe(e)',
               Dev(local'[d], copies[d], saved'[d], base'[d], task'[d], files, discarded')
        PROVE  DevInv' /\ NoLostEdit'
    <2>1. \A p \in Paths : \A e \in local[d][p] : Safe(e)'
      BY <1>3 DEF Safe
    <2>2. QED
      BY <1>1, <1>3, <2>1, DeviceMoves
  <1>4. CASE Persist(d)
    <2>1. /\ saved'[d] = base[d] /\ \A c \in Devices \ {d} : saved'[c] = saved[c]
          /\ local' = local /\ base' = base /\ task' = task /\ discarded' = discarded /\ written' = written
      BY <1>4, OfDevice DEF Persist, memory, users
    <2>2. Dev(local[d], copies[d], base[d], base[d], task[d], files, discarded)
      BY <1>2 DEF Dev, Listing
    <2>3. QED
      BY <1>3, <2>1, <2>2
  <1>5. CASE Crash(d)
    <2>1. /\ base'[d] = saved[d] /\ \A c \in Devices \ {d} : base'[c] = base[c] /\ task'[c] = task[c]
          /\ local' = local /\ saved' = saved /\ task'[d] = Idle /\ discarded' = discarded /\ written' = written
      BY <1>5, OfDevice DEF Crash, disk, users
    <2>2. Dev(local[d], copies[d], saved[d], saved[d], Idle, files, discarded)
      BY <1>2, IdleSound DEF Dev
    <2>3. QED
      BY <1>3, <2>1, <2>2
  <1>6. CASE AcceptHeld(d) \/ KeepHeld(d)
    <2>1. task[d] = Idle /\ task' = task /\ written' = written
      BY <1>1, <1>6, OfTask DEF AcceptHeld, KeepHeld, Told, users
    <2>2. PICK doomed, b, l : Answered(d, doomed, b, l)
      BY <1>6, AnswerShape
    <2>3. saved' = saved
      BY <1>6 DEF AcceptHeld, KeepHeld, disk
    <2>4. /\ base' = [base EXCEPT ![d] = b] /\ (\A p \in Paths : b[p] \subseteq base[d][p])
          /\ l = [p \in Paths |-> IF p \in doomed THEN {} ELSE local[d][p]]
          /\ \/ local' = local /\ discarded' = discarded
             \/ /\ local' = [local EXCEPT ![d] = l]
                /\ discarded' = discarded \cup UNION {local[d][p] : p \in doomed}
      BY <2>2 DEF Answered
    <2>5. base'[d] = b /\ \A c \in Devices \ {d} : local'[c] = local[c] /\ base'[c] = base[c]
      BY <2>4, OfDevice
    <2>7. discarded \subseteq discarded' /\ \A p \in Paths : local[d][p] \subseteq local'[d][p] \cup discarded'
      BY <2>4, OfDevice
    <2>9. \A p \in Paths : /\ Agreed(b[p], local'[d][p], files[p].content, discarded')
                           /\ Agreed(saved[d][p], local'[d][p], files[p].content, discarded')
      BY <2>4, <2>7, OfDevice DEF Agreed
    <2>10. Dev(local'[d], copies[d], saved[d], b, Idle, files, discarded')
      BY <2>9, IdleSound DEF Dev
    <2>11. QED
      BY <1>3, <2>1, <2>3, <2>5, <2>7, <2>10
  <1>7. ASSUME NEW p \in Paths, NEW l, MaySave(d, p), SetLocal(d, p, l), discarded \subseteq discarded',
               local[d][p] \subseteq l \cup discarded', UNCHANGED <<saved, base, task>>,
               \A e \in 1 .. written' : e \in 1 .. written \/ e \in l
        PROVE  DevInv' /\ NoLostEdit'
    <2>1. /\ local'[d][p] = l /\ \A q \in Paths \ {p} : local'[d][q] = local[d][q]
          /\ \A c \in Devices \ {d} : local'[c] = local[c]
      BY <1>7, OfDevice DEF SetLocal
    <2>2. task[d].step \in LocalWrites => task[d].path # p
      BY <1>7 DEF MaySave, P
    <2>3. task[d].step \notin {"next", "manifest"} => task[d].path \in Paths
      BY <1>1, OfTask
    <2>4. task[d].step \in LocalWrites => local'[d][task[d].path] = local[d][task[d].path]
      BY <2>1, <2>2, <2>3 DEF LocalWrites
    <2>5. \A q \in Paths : local[d][q] \subseteq local'[d][q] \cup discarded'
      BY <1>7, <2>1
    <2>6. Dev(local'[d], copies[d], saved[d], base[d], task[d], files, discarded')
      BY <1>2, <1>7, <2>3, <2>4, <2>5, DevMoves
    <2>7. \A e \in 1 .. written' : e \in 1 .. written \/ Safe(e)'
      BY <1>7, <2>1 DEF Safe
    <2>8. QED
      BY <1>3, <1>7, <2>1, <2>5, <2>6, <2>7
  <1>8. ASSUME NEW p \in Paths, Edit(d, p) PROVE DevInv' /\ NoLostEdit'
    <2>1. MaySave(d, p) /\ SetLocal(d, p, local[d][p] \cup {written + 1}) /\ discarded' = discarded
          /\ UNCHANGED <<saved, base, task>> /\ written' = written + 1
      BY <1>8 DEF Edit, memory
    <2>2. \A e \in 1 .. written' : e \in 1 .. written \/ e = written + 1
      BY <1>1, <2>1
    <2>3. QED
      BY <1>7, <2>1, <2>2
  <1>9. ASSUME NEW p \in Paths, DeleteNote(d, p) PROVE DevInv' /\ NoLostEdit'
    <2>1. MaySave(d, p) /\ SetLocal(d, p, {}) /\ discarded' = discarded \cup local[d][p]
          /\ UNCHANGED <<saved, base, task>> /\ written' = written
      BY <1>9 DEF DeleteNote, memory
    <2>2. QED
      BY <1>7, <2>1
  <1>10. QED
    BY <1>4, <1>5, <1>6, <1>8, <1>9

\* The start.
LEMMA InitData == Init => IInv
  <1> SUFFICES ASSUME Init PROVE IInv
    OBVIOUS
  <1>1. TInv
    BY InitTold
  <1>2. ASSUME NEW d \in Devices PROVE Dev(local[d], copies[d], saved[d], base[d], task[d], files, discarded)
    <2>1. saved[d] = NoNotes /\ base[d] = NoNotes /\ task[d] = Idle
      BY DEF Init
    <2>2. QED
      BY <2>1, IdleSound DEF Dev, Agreed, NoNotes
  <1>3. NoLostEdit
    BY DEF NoLostEdit, Init
  <1>4. QED
    BY <1>1, <1>2, <1>3 DEF IInv, DevInv

\* Every step.
LEMMA NextData == ASSUME RacySteps = {} PROVE IInv /\ [Next]_vars => IInv'
  <1> SUFFICES ASSUME IInv, [Next]_vars PROVE IInv'
    OBVIOUS
  <1>1. TInv'
    BY NextTold DEF IInv
  <1>2. CASE UNCHANGED vars
    <2>1. DevInv' /\ NoLostEdit'
      BY <1>2 DEF vars, server, disk, memory, users, IInv, DevInv, NoLostEdit
    <2>2. QED
      BY <1>1, <2>1 DEF IInv
  <1>3. ASSUME NEW d \in Devices,
               \/ StartFull(d) \/ StartDelta(d)
               \/ \E p \in Paths : StartEvent(d, p) \/ ExamineUnreadable(d, p) \/ Edit(d, p) \/ DeleteNote(d, p)
               \/ TaskStep(d)
               \/ WriteFails(d) \/ ConnectionFails(d) \/ ReplyLost(d) \/ TransferFails(d)
               \/ Persist(d) \/ Crash(d) \/ AcceptHeld(d) \/ KeepHeld(d)
        PROVE  DevInv' /\ NoLostEdit'
    BY <1>3, StartData, ExamineData, OnData, LocalData, CommitData, RestData DEF TaskStep
  <1>4. QED
    BY <1>1, <1>2, <1>3 DEF Next, IInv

\* Nothing a user writes is lost, for any number of devices, notes, edits and faults, as long as
\* no save slips in between a look at the disk and the write that follows it without a network wait.
THEOREM NoLostEditHolds == ASSUME RacySteps = {} PROVE Spec => []NoLostEdit
  <1>1. IInv => NoLostEdit
    BY DEF IInv
  <1>2. QED
    BY InitData, NextData, <1>1, PTL DEF Spec

\* A server that answers a commit or a delete drops only what users discarded.
LEMMA AnswersKeep ==
    ASSUME IInv, NEW d \in Devices, Commit(d) \/ Tombstone(d) \/ ReplyLost(d), NEW q \in Paths
    PROVE  files[q].content \subseteq files'[q].content \cup discarded
  <1>1. task[d].step \in {"commit", "tombstone"}
    BY DEF Commit, Tombstone, ReplyLost, At
  <1>2. PICK m, x, p, t, f : m = R(d).content /\ x = discarded /\ p = P(d) /\ t = task[d] /\ f = files[p].content
    BY Zenon
  <1>3. /\ AtStep(t, m, local[d][p], base[d][p], copies[d], x) /\ p \in Paths /\ t.hand \in Notes
        /\ (R(d).version = files[p].version => m = f)
    BY <1>1, <1>2, OfPath DEF Known
  <1>4. TypeOK /\ TInv /\ files \in [Paths -> [content : Notes, version : Nat]]
    BY OfDevice
  <1>5. CASE UNCHANGED server
    BY <1>5 DEF server
  <1>6. CASE t.step = "commit" /\ Committed(p, t.hand, R(d).version)
    <2>1. \A u \in Paths \ {p} : files'[u] = files[u]
      BY <1>3, <1>4, <1>6, ServerStep
    <2>2. files'[p].content = t.hand /\ f \subseteq t.hand \cup x
      <3>1. CASE f = t.hand /\ UNCHANGED server
        BY <1>2, <3>1 DEF server
      <3>2. CASE files[p].version = R(d).version /\ Server!Put(p, t.hand)
        BY <1>3, <1>4, <1>6, <3>2 DEF Server!Put, AtStep
      <3>3. QED
        BY <1>2, <1>6, <3>1, <3>2 DEF Committed
    <2>3. QED
      BY <1>2, <2>1, <2>2
  <1>7. CASE t.step = "tombstone" /\ Deleted(p, R(d).version)
    <2>1. \A u \in Paths \ {p} : files'[u] = files[u]
      BY <1>3, <1>4, <1>7, ServerStep
    <2>2. f \subseteq x \/ files' = files
      BY <1>2, <1>3, <1>7 DEF Deleted, AtStep, server
    <2>3. QED
      BY <1>2, <2>1, <2>2
  <1>8. QED
    BY <1>2, <1>5, <1>6, <1>7 DEF Commit, Tombstone, ReplyLost, At

\* The server never drops an edit that no user deleted, for any number of devices, notes, edits,
\* deletions and faults, as long as no save slips in between a look at the disk and the write that
\* follows it without a network wait: what a device deletes or overwrites at the version it saw
\* it has on its disk, in its hand, or knows to be discarded.
THEOREM ServerKeepsHolds == ASSUME RacySteps = {} PROVE Spec => ServerKeeps
  <1>1. IInv /\ [Next]_vars => [\A p \in Paths : files[p].content \subseteq files'[p].content \cup discarded]_vars
    <2> SUFFICES ASSUME IInv, Next, NEW p \in Paths
                 PROVE  files[p].content \subseteq files'[p].content \cup discarded
      OBVIOUS
    <2>1. CASE UNCHANGED files
      BY <2>1
    <2>2. ASSUME NEW d \in Devices, Commit(d) \/ Tombstone(d) \/ ReplyLost(d)
          PROVE  files[p].content \subseteq files'[p].content \cup discarded
      BY <2>2, AnswersKeep
    <2>3. UNCHANGED files \/ \E d \in Devices : Commit(d) \/ Tombstone(d) \/ ReplyLost(d)
      <3>1. PICK d \in Devices :
                \/ StartFull(d) \/ StartDelta(d)
                \/ \E q \in Paths : StartEvent(d, q) \/ ExamineUnreadable(d, q) \/ Edit(d, q) \/ DeleteNote(d, q)
                \/ TaskStep(d)
                \/ WriteFails(d) \/ ConnectionFails(d) \/ ReplyLost(d) \/ TransferFails(d)
                \/ Persist(d) \/ Crash(d) \/ AcceptHeld(d) \/ KeepHeld(d)
        BY SMTT(30) DEF Next
      <3>2. CASE \/ StartFull(d) \/ StartDelta(d) \/ WriteFails(d) \/ ConnectionFails(d) \/ TransferFails(d)
                 \/ \E q \in Paths : StartEvent(d, q) \/ ExamineUnreadable(d, q) \/ Edit(d, q) \/ DeleteNote(d, q)
        BY <3>2 DEF StartFull, StartDelta, StartEvent, ExamineUnreadable, Edit, DeleteNote, WriteFails,
                    ConnectionFails, TransferFails, server
      <3>3. CASE Persist(d) \/ Crash(d) \/ AcceptHeld(d) \/ KeepHeld(d)
        BY <3>3 DEF Persist, Crash, AcceptHeld, KeepHeld, server
      <3>4. CASE TaskStep(d) /\ ~(Commit(d) \/ Tombstone(d))
        BY <3>4 DEF TaskStep, FetchManifest, Examine, PushRead, Fetch, Write, RemoveLocal, Probe, MergeFetch,
                    MergeWrite, ConflictCopy, CopyPush, Finish, server
      <3>5. QED
        BY <3>1, <3>2, <3>3, <3>4
    <2>4. QED
      BY <2>1, <2>2, <2>3
  <1>2. QED
    BY InitData, NextData, <1>1, PTL DEF Spec, ServerKeeps

-----------------------------------------------------------------------------
(* The cursor *)

\* The version of the last change of p, of files F and tombstones T; 0 when it never changed.
Ver(F, T, p) == IF F[p] # Absent THEN F[p].version ELSE T[p]

\* A device with base b acted on what the server has at p: h is held, rt are its retries.
Acted(p, b, F, h, rt) == b[p] = F[p].content \/ p \in h \/ rt[p].count = MaxRetries

\* The invariant of one device, whose task is t, base b, cursor c, link ln, retries rt and held
\* deletions h, of the server's files F, tombstones T and version v.
Cur(t, b, c, ln, rt, h, F, T, v) ==
    /\ c <= v /\ t.top <= v
    /\ ln /\ t.kind \in {"idle", "event"} =>
           \A p \in Paths : Ver(F, T, p) # 0 /\ Ver(F, T, p) <= c => Acted(p, b, F, h, rt)
    /\ t.kind \in {"full", "delta"} =>
           \A p \in Paths \ t.todo :
               Ver(F, T, p) # 0 /\ Ver(F, T, p) <= t.top /\ (\A w \in t.failed : Ver(F, T, p) < w)
                   => Acted(p, b, F, PendingBulk(t, h), rt)
    /\ t.kind = "event" => \A p \in t.todo : F[p] = t.remote[p] \/ Ver(F, T, p) > c
    /\ t.kind \in {"full", "delta"} =>
           \A p \in t.todo : (F[p] = t.remote[p] /\ T[p] = t.dels[p]) \/ Ver(F, T, p) > t.top
    /\ t.step = "remove" => t.remote[t.path].content = {}
    /\ t.step = "probe" => b[t.path] = t.remote[t.path].content

\* The deletions that device d may leave aside: under review, or amiss after one.
Excused(d) == held[d] \cup amiss[d]

CurInv == \A d \in Devices :
    Cur(task[d], base[d], cursor[d], linked[d], retries[d], Excused(d), files, tombs, top)

CInv == TInv /\ CurInv

\* What CInv says of a device.
LEMMA OfCursor ==
    ASSUME CInv, NEW d \in Devices
    PROVE  /\ TInv /\ TypeOK /\ ServerInv
           /\ Cur(task[d], base[d], cursor[d], linked[d], retries[d], Excused(d), files, tombs, top)
           /\ task \in [Devices -> Task] /\ task[d] \in Task /\ task[d].todo \subseteq Paths
           /\ task[d].top \in Nat /\ cursor[d] \in Nat /\ top \in Nat /\ task[d].failed \subseteq Nat
           /\ base \in [Devices -> [Paths -> Notes]] /\ cursor \in [Devices -> Nat] /\ linked \in [Devices -> BOOLEAN]
           /\ retries \in [Devices -> [Paths -> [version : Nat, count : 0 .. MaxRetries]]]
           /\ files \in [Paths -> [content : Notes, version : Nat]] /\ tombs \in [Paths -> Nat]
           /\ \A p \in Paths : Ver(files, tombs, p) \in Nat
  <1>1. TInv /\ TypeOK /\ task[d] \in Task
    BY OfTask DEF CInv
  <1>2. task[d].top \in Nat /\ task[d].failed \subseteq Nat /\ task[d].todo \subseteq Paths
    BY <1>1 DEF Task
  <1>3. /\ files \in [Paths -> [content : Notes, version : Nat]] /\ tombs \in [Paths -> Nat] /\ ServerInv
        /\ Cur(task[d], base[d], cursor[d], linked[d], retries[d], Excused(d), files, tombs, top)
    BY <1>1 DEF TypeOK, CInv, CurInv, TInv
  <1>4. \A p \in Paths : Ver(files, tombs, p) \in Nat
    BY <1>3 DEF Ver
  <1>5. QED
    BY <1>1, <1>2, <1>3, <1>4 DEF TypeOK

\* Reviews stand still.
LEMMA ExcusedStill == ASSUME UNCHANGED <<held, amiss>> PROVE \A c \in Devices : Excused(c)' = Excused(c)
  BY DEF Excused

\* How the server moves: nothing happens at a path, or it gets a version that is new.
Newer(F, T, v, F2, T2, v2) ==
    /\ v2 \in Nat /\ v <= v2
    /\ \A p \in Paths : /\ (F2[p] = F[p] /\ T2[p] = T[p]) \/ Ver(F2, T2, p) > v
                        /\ Ver(F2, T2, p) \in Nat

\* The server moves on.
LEMMA CurLater ==
    ASSUME NEW t, NEW b, NEW c \in Nat, NEW ln, NEW rt, NEW h, NEW F, NEW T, NEW v \in Nat,
           Cur(t, b, c, ln, rt, h, F, T, v), t.top \in Nat, t.todo \subseteq Paths,
           NEW F2, NEW T2, NEW v2, Newer(F, T, v, F2, T2, v2)
    PROVE  Cur(t, b, c, ln, rt, h, F2, T2, v2)
  <1>1. c <= v /\ t.top <= v /\ v <= v2 /\ v2 \in Nat
    BY DEF Cur, Newer
  <1>2. \A p \in Paths : \/ F2[p] = F[p] /\ T2[p] = T[p] /\ Ver(F2, T2, p) = Ver(F, T, p)
                         \/ Ver(F2, T2, p) > c /\ Ver(F2, T2, p) > t.top /\ Ver(F2, T2, p) \in Nat
    BY <1>1 DEF Newer, Ver
  <1>3. ASSUME ln, t.kind \in {"idle", "event"}, NEW p \in Paths, Ver(F2, T2, p) # 0, Ver(F2, T2, p) <= c
        PROVE  Acted(p, b, F2, h, rt)
    BY <1>2, <1>3 DEF Cur, Acted
  <1>4. ASSUME t.kind \in {"full", "delta"}, NEW p \in Paths \ t.todo, Ver(F2, T2, p) # 0, Ver(F2, T2, p) <= t.top,
               \A w \in t.failed : Ver(F2, T2, p) < w
        PROVE  Acted(p, b, F2, PendingBulk(t, h), rt)
    <2>1. F2[p] = F[p] /\ T2[p] = T[p] /\ Ver(F2, T2, p) = Ver(F, T, p)
      BY <1>2, <1>4
    <2>2. Acted(p, b, F, PendingBulk(t, h), rt)
      BY <1>4, <2>1 DEF Cur
    <2>3. QED
      BY <2>1, <2>2 DEF Acted
  <1>5. t.kind = "event" => \A p \in t.todo : F2[p] = t.remote[p] \/ Ver(F2, T2, p) > c
    BY <1>2 DEF Cur
  <1>6. t.kind \in {"full", "delta"} =>
           \A p \in t.todo : (F2[p] = t.remote[p] /\ T2[p] = t.dels[p]) \/ Ver(F2, T2, p) > t.top
    BY <1>2 DEF Cur
  <1>7. c <= v2 /\ t.top <= v2
    BY <1>1
  <1>8. QED
    BY <1>3, <1>4, <1>5, <1>6, <1>7 DEF Cur

\* A device moves.
LEMMA CursorMoves ==
    ASSUME CInv, NEW d \in Devices,
           \A c \in Devices \ {d} : /\ task'[c] = task[c] /\ base'[c] = base[c] /\ cursor'[c] = cursor[c]
                                    /\ linked'[c] = linked[c] /\ retries'[c] = retries[c] /\ Excused(c)' = Excused(c),
           Newer(files, tombs, top, files', tombs', top'),
           Cur(task'[d], base'[d], cursor'[d], linked'[d], retries'[d], Excused(d)', files', tombs', top')
    PROVE  CurInv'
  <1> SUFFICES ASSUME NEW c \in Devices
               PROVE  Cur(task'[c], base'[c], cursor'[c], linked'[c], retries'[c], Excused(c)', files', tombs', top')
    BY DEF CurInv
  <1>1. CASE c = d
    BY <1>1
  <1>2. CASE c # d
    <2>1. Cur(task[c], base[c], cursor[c], linked[c], retries[c], Excused(c), files', tombs', top')
      BY OfCursor, CurLater
    <2>2. QED
      BY <1>2, <2>1
  <1>3. QED
    BY <1>1, <1>2

\* The server stands still.
LEMMA StandsStill ==
    ASSUME CInv, UNCHANGED server, NEW d \in Devices
    PROVE  Newer(files, tombs, top, files', tombs', top') /\ files' = files /\ tombs' = tombs /\ top' = top
  BY OfCursor DEF Newer, server

\* The server commits or deletes.
LEMMA ServerNewer ==
    ASSUME CInv, NEW d \in Devices, NEW p \in Paths, NEW n \in Notes, NEW u, Committed(p, n, u) \/ Deleted(p, u)
    PROVE  /\ Newer(files, tombs, top, files', tombs', top')
           /\ \A q \in Paths \ {p} : files'[q] = files[q] /\ tombs'[q] = tombs[q]
  <1>1. TInv /\ files \in [Paths -> [content : Notes, version : Nat]] /\ tombs \in [Paths -> Nat] /\ top \in Nat
        /\ \A q \in Paths : Ver(files, tombs, q) \in Nat
    BY OfCursor
  <1>2. top' \in Nat /\ top <= top' /\ \A q \in Paths \ {p} : files'[q] = files[q] /\ tombs'[q] = tombs[q]
    BY <1>1, ServerStep
  <1>3. CASE UNCHANGED server
    BY <1>1, <1>2, <1>3 DEF server, Newer
  <1>4. CASE Server!Put(p, n)
    <2>1. files'[p] = [content |-> n, version |-> top + 1]
      BY <1>1, <1>4 DEF Server!Put
    <2>2. files'[p] # Absent /\ files'[p].version = top + 1
      BY <1>1, <2>1, IdleSound
    <2>3. Ver(files', tombs', p) = top + 1
      BY <2>2 DEF Ver
    <2>4. \A q \in Paths \ {p} : Ver(files', tombs', q) = Ver(files, tombs, q)
      BY <1>2 DEF Ver
    <2>5. QED
      BY <1>1, <1>2, <2>3, <2>4 DEF Newer
  <1>5. CASE Server!Remove(p)
    <2>1. files'[p] = Absent /\ tombs'[p] = top + 1
      BY <1>1, <1>5 DEF Server!Remove, Absent
    <2>2. Ver(files', tombs', p) = top + 1
      BY <2>1 DEF Ver
    <2>3. \A q \in Paths \ {p} : Ver(files', tombs', q) = Ver(files, tombs, q)
      BY <1>2 DEF Ver
    <2>4. QED
      BY <1>1, <1>2, <2>2, <2>3 DEF Newer
  <1>6. QED
    BY <1>3, <1>4, <1>5 DEF Committed, Deleted

\* A task that is no more: its device is offline, or had acted before.
LEMMA CurIdle ==
    ASSUME NEW b, NEW c \in Nat, NEW ln, NEW rt, NEW h, NEW F, NEW T, NEW v \in Nat, c <= v,
           ln => \A p \in Paths : Ver(F, T, p) # 0 /\ Ver(F, T, p) <= c => Acted(p, b, F, h, rt)
    PROVE  Cur(Idle, b, c, ln, rt, h, F, T, v)
  BY IdleSound DEF Cur

\* A path is behind the task, which acted on it, holds it, or will come back to it.
LEMMA CurEnds ==
    ASSUME NEW t \in Task, NEW b, NEW c \in Nat, NEW ln, NEW rt, NEW h, NEW F, NEW T, NEW v \in Nat,
           Cur(t, b, c, ln, rt, h, F, T, v), t.kind # "idle",
           NEW p \in Paths, NEW r, Ended(r, t, p), r # Idle, NEW b2, NEW rt2,
           \A q \in Paths \ {p} : b2[q] = b[q] /\ rt2[q] = rt[q],
           t.kind = "event" => rt2[p] = rt[p] /\ (b2[p] \in {b[p], F[p].content} \/ Ver(F, T, p) > c),
           t.kind # "event" => \/ Ver(F, T, p) = 0 \/ Ver(F, T, p) > t.top
                               \/ b2[p] = F[p].content \/ p \in r.held \/ Ver(F, T, p) \in r.failed
                               \/ rt2[p].count = MaxRetries,
           \A q \in Paths : Ver(F, T, q) \in Nat
    PROVE  Cur(r, b2, c, ln, rt2, h, F, T, v)
  <1>1. /\ r.kind = t.kind /\ r.remote = t.remote /\ r.dels = t.dels /\ r.top = t.top
        /\ r.todo = t.todo \ {p} /\ r.step = "next" /\ t.failed \subseteq r.failed /\ t.held \subseteq r.held
    BY DEF Ended
  <1>2. t.top \in Nat /\ t.todo \subseteq Paths /\ t.kind \in {"full", "delta", "event"}
    BY DEF Task
  <1>3. ASSUME ln, t.kind = "event", NEW q \in Paths, Ver(F, T, q) # 0, Ver(F, T, q) <= c
        PROVE  Acted(q, b2, F, h, rt2)
    <2>1. Acted(q, b, F, h, rt)
      BY <1>3 DEF Cur
    <2>2. CASE q # p
      BY <2>1, <2>2 DEF Acted
    <2>3. CASE q = p
      BY <1>3, <2>1, <2>3 DEF Acted
    <2>4. QED
      BY <2>2, <2>3
  <1>4. ASSUME t.kind \in {"full", "delta"}, NEW q \in Paths \ r.todo, Ver(F, T, q) # 0, Ver(F, T, q) <= t.top,
               \A w \in r.failed : Ver(F, T, q) < w
        PROVE  Acted(q, b2, F, PendingBulk(r, h), rt2)
    <2>1. PendingBulk(t, h) \subseteq PendingBulk(r, h) /\ r.held \subseteq PendingBulk(r, h)
      BY <1>1 DEF PendingBulk
    <2>2. CASE q # p
      <3>1. Acted(q, b, F, PendingBulk(t, h), rt)
        BY <1>1, <1>4, <2>2 DEF Cur
      <3>2. QED
        BY <2>1, <2>2, <3>1 DEF Acted
    <2>3. CASE q = p
      <3>1. Ver(F, T, p) \notin r.failed
        BY <1>4, <2>3
      <3>2. QED
        BY <1>2, <1>4, <2>1, <2>3, <3>1 DEF Acted
    <2>4. QED
      BY <2>2, <2>3
  <1>5. c <= v /\ r.top <= v /\ r.step \notin {"remove", "probe"}
    BY <1>1 DEF Cur
  <1>6. r.kind = "event" => \A q \in r.todo : F[q] = r.remote[q] \/ Ver(F, T, q) > c
    BY <1>1 DEF Cur
  <1>7. r.kind \in {"full", "delta"} =>
           \A q \in r.todo : (F[q] = r.remote[q] /\ T[q] = r.dels[q]) \/ Ver(F, T, q) > r.top
    BY <1>1 DEF Cur
  <1>8. QED
    BY <1>1, <1>2, <1>3, <1>4, <1>5, <1>6, <1>7 DEF Cur

\* A path goes on.
LEMMA CurOn ==
    ASSUME NEW t, NEW b, NEW c, NEW ln, NEW rt, NEW h, NEW F, NEW T, NEW v, Cur(t, b, c, ln, rt, h, F, T, v),
           NEW r, Same(r, t),
           r.step = "remove" => r.remote[r.path].content = {},
           r.step = "probe" => b[r.path] = r.remote[r.path].content
    PROVE  Cur(r, b, c, ln, rt, h, F, T, v)
  <1>1. PendingBulk(r, h) = PendingBulk(t, h)
    BY DEF Same, PendingBulk
  <1>2. QED
    BY <1>1 DEF Cur, Same

\* A clean end of a path: only its own failure budget changes.
LEMMA DoneShape ==
    ASSUME TypeOK, NEW d \in Devices, NEW p \in Paths, PathDone(d, p), task[d].kind # "idle"
    PROVE  \E r : /\ Becomes(d, r) /\ Ended(r, task[d], p) /\ r # Idle /\ linked' = linked
                  /\ \A c \in Devices \ {d} : retries'[c] = retries[c]
                  /\ \A q \in Paths \ {p} : retries'[d][q] = retries[d][q]
                  /\ task[d].kind = "event" => retries' = retries
  <1>1. task[d] \in Task /\ retries \in [Devices -> [Paths -> [version : Nat, count : 0 .. MaxRetries]]]
    BY Types DEF TypeOK
  <1>2. PICK r : r = Settled(task[d], p)
    OBVIOUS
  <1>3. r \in Task /\ Ended(r, task[d], p) /\ r.kind = task[d].kind
    BY <1>1, <1>2, SettledSound
  <1>4. task' = [task EXCEPT ![d] = r] /\ linked' = linked
        /\ retries' = IF task[d].kind = "event" THEN retries ELSE [retries EXCEPT ![d][p] = NoRetry]
    BY <1>2 DEF PathDone
  <1>5. r # Idle
    BY <1>3, IdleSound
  <1>6. QED
    BY <1>1, <1>3, <1>4, <1>5 DEF Becomes

\* A failed path of a pass: it is to be tried again from its version on, or its budget is used up.
LEMMA FailedShape ==
    ASSUME TypeOK, NEW d \in Devices, NEW p \in Paths, PathFailed(d, p), task[d].kind # "idle"
    PROVE  \E r : /\ Becomes(d, r) /\ Ended(r, task[d], p) /\ r # Idle /\ linked' = linked
                  /\ \A c \in Devices \ {d} : retries'[c] = retries[c]
                  /\ \A q \in Paths \ {p} : retries'[d][q] = retries[d][q]
                  /\ \/ VersionOf(task[d], p) = 0 \/ VersionOf(task[d], p) \in r.failed
                     \/ retries'[d][p].count = MaxRetries
  <1>1. task[d] \in Task /\ retries \in [Devices -> [Paths -> [version : Nat, count : 0 .. MaxRetries]]]
        /\ MaxRetries \in Nat \ {0}
    BY Types, SyncAssumption DEF TypeOK
  <1>2. PICK v : v = VersionOf(task[d], p)
    OBVIOUS
  <1>3. PICK n : n = Attempts(retries[d][p], v)
    OBVIOUS
  <1>4. n \in 0 .. MaxRetries
    BY <1>1, <1>3 DEF Attempts
  <1>5. PICK S : S = task[d].failed \cup (IF v # 0 /\ n < MaxRetries THEN {v} ELSE {})
    OBVIOUS
  <1>6. PICK r : r = [Settled(task[d], p) EXCEPT !.failed = S]
    OBVIOUS
  <1>7. /\ retries' = IF v = 0 THEN retries ELSE [retries EXCEPT ![d][p] = [version |-> v, count |-> n]]
        /\ task' = [task EXCEPT ![d] = r] /\ linked' = linked
    BY <1>2, <1>3, <1>5, <1>6, Zenon DEF PathFailed
  <1>8. PICK q : q = Settled(task[d], p)
    OBVIOUS
  <1>9. q \in Task /\ q.kind = task[d].kind
    BY <1>1, <1>8, SettledSound
  <1>10. r = [q EXCEPT !.failed = S]
    BY <1>6, <1>8
  <1>11. r.failed = S /\ r.kind = task[d].kind
    BY <1>9, <1>10 DEF Task
  <1>12. r # Idle
    BY <1>11, IdleSound
  <1>13. Becomes(d, r) /\ Ended(r, task[d], p)
    <2>1. PICK r2 : Becomes(d, r2) /\ Ended(r2, task[d], p)
      BY EndsSound
    <2>2. task'[d] = r2 /\ task'[d] = r
      BY <1>7, <2>1, Types DEF Becomes
    <2>3. QED
      BY <2>1, <2>2
  <1>14. v = 0 \/ v \in r.failed \/ retries'[d][p].count = MaxRetries
    <2>1. CASE v # 0 /\ n < MaxRetries
      BY <1>5, <1>11, <2>1
    <2>2. CASE v # 0 /\ n = MaxRetries
      <3>1. retries'[d][p] = [version |-> v, count |-> n]
        BY <1>1, <1>7, <2>2
      <3>2. QED
        BY <2>2, <3>1
    <2>3. n < MaxRetries \/ n = MaxRetries
      <3>1. MaxRetries \in Nat
        BY <1>1
      <3>2. QED
        BY <1>4, <3>1
    <2>4. QED
      BY <2>1, <2>2, <2>3, Zenon
  <1>15. /\ \A c \in Devices \ {d} : retries'[c] = retries[c]
         /\ \A w \in Paths \ {p} : retries'[d][w] = retries[d][w]
    BY <1>1, <1>7
  <1>16. QED
    BY <1>2, <1>7, <1>12, <1>13, <1>14, <1>15

\* A path ends cleanly: its base is what the server has, or the server has something newer.
LEMMA DoneCursor ==
    ASSUME CInv, NEW d \in Devices, NEW p \in Paths, PathDone(d, p), task[d].kind # "idle", NEW b,
           (b = base[d][p] /\ base' = base) \/ SetBase(d, p, b), UNCHANGED <<cursor, held, amiss>>,
           Newer(files, tombs, top, files', tombs', top'),
           \/ b = files'[p].content
           \/ task[d].kind = "event" /\ Ver(files', tombs', p) > cursor[d]
           \/ task[d].kind # "event" /\ Ver(files', tombs', p) > task[d].top
    PROVE  CurInv'
  <1>1. PICK r : /\ Becomes(d, r) /\ Ended(r, task[d], p) /\ r # Idle /\ linked' = linked
                 /\ \A c \in Devices \ {d} : retries'[c] = retries[c]
                 /\ \A q \in Paths \ {p} : retries'[d][q] = retries[d][q]
                 /\ task[d].kind = "event" => retries' = retries
    BY OfCursor, DoneShape
  <1>2. task'[d] = r /\ \A c \in Devices \ {d} : task'[c] = task[c]
    BY <1>1, OfCursor DEF Becomes
  <1>3. /\ base'[d][p] = b /\ \A q \in Paths \ {p} : base'[d][q] = base[d][q]
        /\ \A c \in Devices \ {d} : base'[c] = base[c]
    BY OfCursor DEF SetBase
  <1>4. Cur(task[d], base[d], cursor[d], linked[d], retries[d], Excused(d), files', tombs', top')
    BY OfCursor, CurLater
  <1>5. top' \in Nat /\ \A q \in Paths : Ver(files', tombs', q) \in Nat
    BY DEF Newer
  <1>6. Cur(r, base'[d], cursor[d], linked[d], retries'[d], Excused(d), files', tombs', top')
    <2>1. \A q \in Paths \ {p} : base'[d][q] = base[d][q] /\ retries'[d][q] = retries[d][q]
      BY <1>1, <1>3
    <2>2. task[d].kind = "event" =>
              /\ retries'[d][p] = retries[d][p]
              /\ base'[d][p] \in {base[d][p], files'[p].content} \/ Ver(files', tombs', p) > cursor[d]
      BY <1>1, <1>3
    <2>3. task[d].kind # "event" => Ver(files', tombs', p) > task[d].top \/ base'[d][p] = files'[p].content
      BY <1>3
    <2>4. task[d] \in Task /\ cursor[d] \in Nat /\ Ended(r, task[d], p) /\ r # Idle
      BY <1>1, OfCursor
    <2>5. PICK h, b2, rt2 : h = Excused(d) /\ b2 = base'[d] /\ rt2 = retries'[d]
      OBVIOUS
    <2>6. Cur(r, b2, cursor[d], linked[d], rt2, h, files', tombs', top')
      BY <1>4, <1>5, <2>1, <2>2, <2>3, <2>4, <2>5, CurEnds, SMTT(30)
    <2>7. QED
      BY <2>5, <2>6
  <1>7. QED
    BY <1>1, <1>2, <1>3, <1>6, ExcusedStill, CursorMoves

\* A path fails: an event takes the device offline or changes nothing, a pass will come back to it.
LEMMA FailCursor ==
    ASSUME CInv, NEW d \in Devices, NEW p \in Paths, p \in task[d].todo, task[d].kind # "idle",
           PathThrows(d, p) \/ Offline(d) \/ (p = P(d) /\ Conflicted(d)), UNCHANGED <<base, cursor, held, amiss>>,
           Newer(files, tombs, top, files', tombs', top')
    PROVE  CurInv'
  <1>1. CASE Offline(d)
    <2>1. /\ task'[d] = Idle /\ linked'[d] = FALSE /\ retries' = retries
          /\ \A c \in Devices \ {d} : task'[c] = task[c] /\ linked'[c] = linked[c]
      BY <1>1, OfCursor DEF Offline
    <2>2. top' \in Nat /\ cursor[d] <= top'
      BY OfCursor DEF Newer, Cur
    <2>3. Cur(Idle, base[d], cursor[d], FALSE, retries[d], Excused(d), files', tombs', top')
      BY <2>2, OfCursor, CurIdle
    <2>4. QED
      BY <2>1, <2>3, ExcusedStill, CursorMoves
  <1>2. CASE PathDone(d, p) /\ task[d].kind = "event"
    <2>1. PICK r : /\ Becomes(d, r) /\ Ended(r, task[d], p) /\ r # Idle /\ linked' = linked
                   /\ retries' = retries
      BY <1>2, OfCursor, DoneShape
    <2>2. task'[d] = r /\ \A c \in Devices \ {d} : task'[c] = task[c]
      BY <2>1, OfCursor DEF Becomes
    <2>3. Cur(task[d], base[d], cursor[d], linked[d], retries[d], Excused(d), files', tombs', top')
      BY OfCursor, CurLater
    <2>4. top' \in Nat /\ \A q \in Paths : Ver(files', tombs', q) \in Nat
      BY DEF Newer
    <2>5. Cur(r, base[d], cursor[d], linked[d], retries[d], Excused(d), files', tombs', top')
      BY <1>2, <2>1, <2>3, <2>4, OfCursor, CurEnds
    <2>6. QED
      BY <2>1, <2>2, <2>5, ExcusedStill, CursorMoves
  <1>3. CASE PathFailed(d, p) /\ task[d].kind # "event"
    <2>1. PICK r : /\ Becomes(d, r) /\ Ended(r, task[d], p) /\ r # Idle /\ linked' = linked
                   /\ \A c \in Devices \ {d} : retries'[c] = retries[c]
                   /\ \A q \in Paths \ {p} : retries'[d][q] = retries[d][q]
                   /\ \/ VersionOf(task[d], p) = 0 \/ VersionOf(task[d], p) \in r.failed
                      \/ retries'[d][p].count = MaxRetries
      BY <1>3, OfCursor, FailedShape
    <2>2. task'[d] = r /\ \A c \in Devices \ {d} : task'[c] = task[c]
      BY <2>1, OfCursor DEF Becomes
    <2>3. Cur(task[d], base[d], cursor[d], linked[d], retries[d], Excused(d), files', tombs', top')
      BY OfCursor, CurLater
    <2>4. top' \in Nat /\ \A q \in Paths : Ver(files', tombs', q) \in Nat
      BY DEF Newer
    <2>5. task[d].kind \in {"full", "delta"}
      BY <1>3, OfCursor DEF Task
    <2>6. Ver(files', tombs', p) = VersionOf(task[d], p) \/ Ver(files', tombs', p) > task[d].top
      BY <2>3, <2>5 DEF Cur, Ver, VersionOf
    <2>7. Cur(r, base[d], cursor[d], linked[d], retries'[d], Excused(d), files', tombs', top')
      <3>1. \/ Ver(files', tombs', p) = 0 \/ Ver(files', tombs', p) > task[d].top
            \/ Ver(files', tombs', p) \in r.failed \/ retries'[d][p].count = MaxRetries
        BY <2>1, <2>6
      <3>2. task[d] \in Task /\ cursor[d] \in Nat
        BY OfCursor
      <3>3. \A q \in Paths \ {p} : base[d][q] = base[d][q] /\ retries'[d][q] = retries[d][q]
        BY <2>1
      <3>4. Ended(r, task[d], p) /\ r # Idle
        BY <2>1
      <3>5. QED
        BY <1>3, <2>3, <2>4, <3>1, <3>2, <3>3, <3>4, CurEnds
    <2>8. QED
      BY <2>1, <2>2, <2>7, ExcusedStill, CursorMoves
  <1>4. QED
    BY <1>1, <1>2, <1>3 DEF PathThrows, Conflicted

\* What the listing tells of a path that is still to do.
LEMMA ListedNote ==
    ASSUME CInv, NEW d \in Devices, task[d].kind # "idle", NEW p \in task[d].todo
    PROVE  /\ p \in Paths
           /\ \/ task[d].remote[p].content = files[p].content
              \/ task[d].kind = "event" /\ Ver(files, tombs, p) > cursor[d]
              \/ task[d].kind # "event" /\ Ver(files, tombs, p) > task[d].top
  <1>1. task[d].kind \in {"full", "delta", "event"} /\ p \in Paths
    BY OfCursor DEF Task
  <1>2. QED
    BY <1>1, OfCursor DEF Cur

\* A task moves and the server stands still.
LEMMA TaskCursor ==
    ASSUME CInv, NEW d \in Devices, NEW r, Becomes(d, r), UNCHANGED <<server, base, cursor, linked, retries, held, amiss>>,
           Cur(r, base[d], cursor[d], linked[d], retries[d], Excused(d), files, tombs, top)
    PROVE  CurInv'
  <1>1. task'[d] = r /\ \A c \in Devices \ {d} : task'[c] = task[c]
    BY OfCursor DEF Becomes
  <1>2. Newer(files, tombs, top, files', tombs', top') /\ files' = files /\ tombs' = tombs /\ top' = top
    BY StandsStill
  <1>3. QED
    BY <1>1, <1>2, ExcusedStill, CursorMoves

\* Tasks start; an event learns of the tombstones.
LEMMA StartCursor ==
    ASSUME CInv, NEW d \in Devices,
           StartFull(d) \/ StartDelta(d) \/ (\E p \in Paths : StartEvent(d, p)) \/ FetchManifest(d)
    PROVE  CurInv'
  <1>1. UNCHANGED <<server, base, cursor, linked, retries, held, amiss>>
    BY DEF StartFull, StartDelta, StartEvent, FetchManifest
  <1>2. TypeOK /\ ServerInv /\ top \in Nat /\ cursor[d] \in Nat /\ cursor[d] <= top
        /\ \A p \in Paths : Ver(files, tombs, p) \in Nat
    BY OfCursor DEF Cur
  <1>3. CASE StartFull(d)
    <2>1. PICK r : /\ Becomes(d, r) /\ r.kind = "full" /\ r.remote = files /\ r.dels = tombs /\ r.top = top
                   /\ r.todo = FullPaths(d) /\ r.step = "next"
      BY <1>2, <1>3, FullSound
    <2>2. ASSUME NEW p \in Paths \ r.todo PROVE base[d][p] = files[p].content
      BY <2>1, <2>2, IdleSound DEF FullPaths, Listed, InBase
    <2>3. Cur(r, base[d], cursor[d], linked[d], retries[d], Excused(d), files, tombs, top)
      BY <1>2, <2>1, <2>2 DEF Cur, Acted
    <2>4. QED
      BY <1>1, <2>1, <2>3, TaskCursor
  <1>4. CASE StartDelta(d)
    <2>1. PICK r : /\ Becomes(d, r) /\ r.kind = "delta" /\ r.top = top /\ r.todo = Upserted(d) \cup Removed(d)
                   /\ r.remote = [p \in Paths |-> IF p \in Upserted(d) THEN files[p] ELSE Absent]
                   /\ r.dels = [p \in Paths |-> IF p \in Removed(d) THEN tombs[p] ELSE 0]
                   /\ r.held = {} /\ r.step = "next"
      BY <1>2, <1>4, DeltaSound
    <2>2. linked[d] /\ task[d].kind = "idle"
      BY <1>4 DEF StartDelta
    <2>3. \A p \in Paths : files[p].version \in Nat /\ tombs[p] \in Nat
      BY OfCursor
    <2>4. ASSUME NEW p \in Paths, p \notin r.todo, Ver(files, tombs, p) # 0
          PROVE  Acted(p, base[d], files, PendingBulk(r, Excused(d)), retries[d])
      <3>1. Ver(files, tombs, p) <= cursor[d]
        BY <1>2, <2>1, <2>3, <2>4 DEF Upserted, Removed, Listed, Ver
      <3>2. Acted(p, base[d], files, Excused(d), retries[d])
        BY <2>2, <2>4, <3>1, OfCursor DEF Cur
      <3>3. QED
        BY <2>1, <3>2 DEF Acted, PendingBulk
    <2>5. ASSUME NEW p \in r.todo PROVE files[p] = r.remote[p] /\ tombs[p] = r.dels[p]
      <3>1. p \in Paths
        BY <2>1 DEF Upserted, Removed, Listed
      <3>2. CASE p \in Upserted(d)
        <4>1. files[p] # Absent
          BY <3>2 DEF Upserted, Listed
        <4>2. tombs[p] = 0 /\ p \notin Removed(d)
          BY <1>2, <2>3, <3>1, <4>1 DEF ServerInv, Removed
        <4>3. QED
          BY <2>1, <3>1, <3>2, <4>2
      <3>3. CASE p \notin Upserted(d)
        <4>1. p \in Removed(d) /\ tombs[p] # 0
          BY <1>2, <2>1, <2>3, <3>1, <3>3 DEF Removed
        <4>2. files[p] = Absent
          BY <1>2, <3>1, <4>1 DEF ServerInv
        <4>3. QED
          BY <2>1, <3>1, <3>3, <4>1, <4>2
      <3>4. QED
        BY <3>2, <3>3
    <2>6. Cur(r, base[d], cursor[d], linked[d], retries[d], Excused(d), files, tombs, top)
      BY <1>2, <2>1, <2>4, <2>5 DEF Cur
    <2>7. QED
      BY <1>1, <2>1, <2>6, TaskCursor
  <1>5. ASSUME NEW p \in Paths, StartEvent(d, p) PROVE CurInv'
    <2>1. PICK r : /\ Becomes(d, r) /\ r.kind = "event" /\ r.step \in {"next", "manifest"} /\ r.todo = {p} /\ r.top = 0
                   /\ \A q \in Paths : r.remote[q] = IF q = p THEN files[p] ELSE Absent
      BY <1>2, <1>5, EventSound, SMTT(30)
    <2>2. linked[d] /\ task[d].kind = "idle"
      BY <1>5 DEF StartEvent
    <2>3. Cur(r, base[d], cursor[d], linked[d], retries[d], Excused(d), files, tombs, top)
      BY <1>2, <2>1, <2>2, OfCursor DEF Cur
    <2>4. QED
      BY <1>1, <2>1, <2>3, TaskCursor
  <1>6. CASE FetchManifest(d)
    <2>1. PICK r : /\ Becomes(d, r) /\ r.kind = task[d].kind /\ r.remote = task[d].remote /\ r.todo = task[d].todo
                   /\ r.top = task[d].top /\ r.step = "next"
      BY <1>2, <1>6, ManifestSound
    <2>2. task[d].kind = "event"
      BY <1>6, OfTask, OfCursor DEF FetchManifest, At, Told
    <2>3. Cur(r, base[d], cursor[d], linked[d], retries[d], Excused(d), files, tombs, top)
      BY <2>1, <2>2, OfCursor DEF Cur
    <2>4. QED
      BY <1>1, <2>1, <2>3, TaskCursor
  <1>7. QED
    BY <1>3, <1>4, <1>5, <1>6

\* A path is examined.
LEMMA ExamineCursor ==
    ASSUME CInv, NEW d \in Devices, NEW p \in Paths, Examine(d, p) \/ ExamineUnreadable(d, p)
    PROVE  CurInv'
  <1>1. TypeOK /\ TInv /\ p \in task[d].todo /\ task[d].kind # "idle" /\ UNCHANGED <<server, cursor, held, amiss>>
    BY OfCursor DEF Examine, ExamineUnreadable, Due, At
  <1>2. Newer(files, tombs, top, files', tombs', top') /\ files' = files /\ tombs' = tombs /\ top' = top
    BY <1>1, StandsStill
  <1>3. ASSUME NEW n \in Notes, Decided(d, p, n) PROVE CurInv'
    <2>1. CASE PathDone(d, p) /\ SetBase(d, p, task[d].remote[p].content)
      <3>1. PICK b : b = task[d].remote[p].content
        OBVIOUS
      <3>2. \/ b = files'[p].content
            \/ task[d].kind = "event" /\ Ver(files', tombs', p) > cursor[d]
            \/ task[d].kind # "event" /\ Ver(files', tombs', p) > task[d].top
        BY <1>1, <1>2, <3>1, ListedNote
      <3>3. QED
        BY <1>1, <1>2, <2>1, <3>1, <3>2, DoneCursor
    <2>2. ASSUME UNCHANGED <<linked, retries, base>>, NEW r, Becomes(d, r), Ended(r, task[d], p), r.kind = task[d].kind,
                 r.held = task[d].held \cup {p}
          PROVE  CurInv'
      <3>1. r # Idle
        BY <1>1, <2>2, IdleSound
      <3>2. p \in r.held
        BY <2>2
      <3>3. task[d] \in Task /\ cursor[d] \in Nat /\ top \in Nat /\ \A q \in Paths : Ver(files, tombs, q) \in Nat
        BY OfCursor
      <3>4. Cur(task[d], base[d], cursor[d], linked[d], retries[d], Excused(d), files, tombs, top)
        BY OfCursor
      <3>5. Cur(r, base[d], cursor[d], linked[d], retries[d], Excused(d), files, tombs, top)
        BY <1>1, <2>2, <3>1, <3>2, <3>3, <3>4, CurEnds
      <3>6. QED
        BY <1>1, <2>2, <3>5, TaskCursor
    <2>3. ASSUME UNCHANGED <<linked, retries, base>>, NEW r, Becomes(d, r), Same(r, task[d]), r.path = p,
                 r.step = Finalize(Decision!Decide(n, base[d][p], task[d].remote[p].content),
                                   task[d].dels[p] # 0, task[d].guard, n, base[d][p])
          PROVE  CurInv'
      <3>1. PICK tomb \in BOOLEAN : tomb = (task[d].dels[p] # 0)
        OBVIOUS
      <3>2. PICK e, m, b : e = r.step /\ m = task[d].remote[p].content /\ b = base[d][p]
        OBVIOUS
      <3>3. e = Finalize(Decision!Decide(n, b, m), tomb, task[d].guard, n, b)
        BY <2>3, <3>1, <3>2
      <3>4. task[d].guard \in BOOLEAN
        BY OfCursor DEF Task
      <3>5. (e = "remove" => m = {}) /\ (e = "probe" => m = b)
        BY <3>3, <3>4, FinalizeSound
      <3>6. r.remote[r.path].content = m /\ base[d][r.path] = b
        BY <2>3, <3>2 DEF Same
      <3>7. Cur(r, base[d], cursor[d], linked[d], retries[d], Excused(d), files, tombs, top)
        BY <2>3, <3>2, <3>5, <3>6, OfCursor, CurOn
      <3>8. QED
        BY <1>1, <2>3, <3>7, TaskCursor
    <2>4. QED
      BY <1>1, <1>3, <2>1, <2>2, <2>3, DecidedSound
  <1>4. CASE PathThrows(d, p) /\ UNCHANGED base
    BY <1>1, <1>2, <1>4, FailCursor
  <1>5. local[d][p] \in Notes /\ base[d][p] \in Notes /\ {} \in Notes
    BY <1>1, IdleSound DEF TypeOK
  <1>6. QED
    BY <1>3, <1>4, <1>5 DEF Examine, ExamineUnreadable

\* A path goes on to its next step.
LEMMA OnCursor ==
    ASSUME CInv, NEW d \in Devices,
           PushRead(d) \/ Fetch(d) \/ Probe(d) \/ MergeFetch(d) \/ MergeWrite(d) \/ ConflictCopy(d)
    PROVE  CurInv'
  <1>1. task[d].kind # "idle" /\ task[d].step \notin {"next", "manifest"} /\ UNCHANGED <<server, base, cursor, held, amiss>>
    BY DEF PushRead, Fetch, Probe, MergeFetch, MergeWrite, ConflictCopy, At
  <1>2. P(d) \in Paths /\ P(d) \in task[d].todo /\ TypeOK
    BY <1>1, OfTask, OfCursor DEF P
  <1>3. Newer(files, tombs, top, files', tombs', top') /\ files' = files /\ tombs' = tombs /\ top' = top
    BY <1>1, StandsStill
  <1>4. ASSUME NEW s \in {"commit", "write", "tombstone", "mergeWrite", "conflict", "copyPush"}, NEW h, GoTo(d, s, h),
               UNCHANGED <<linked, retries>>, h \in Notes
        PROVE  CurInv'
    <2>1. s \in Steps
      BY DEF Steps, LocalWrites
    <2>2. PICK r : Becomes(d, r) /\ r.step = s /\ Same(r, task[d])
      BY <1>2, <1>4, <2>1, GoToSound
    <2>3. Cur(r, base[d], cursor[d], linked[d], retries[d], Excused(d), files, tombs, top)
      BY <2>2, OfCursor, CurOn
    <2>4. QED
      BY <1>1, <1>4, <2>2, <2>3, TaskCursor
  <1>5. CASE PathThrows(d, P(d))
    BY <1>1, <1>2, <1>3, <1>5, FailCursor
  <1>6. CASE Probe(d) /\ PathDone(d, P(d))
    <2>1. base[d][P(d)] = R(d).content
      BY <1>6, OfCursor DEF Probe, At, Cur, P, R
    <2>2. \/ base[d][P(d)] = files'[P(d)].content
          \/ task[d].kind = "event" /\ Ver(files', tombs', P(d)) > cursor[d]
          \/ task[d].kind # "event" /\ Ver(files', tombs', P(d)) > task[d].top
      BY <1>1, <1>2, <1>3, <2>1, ListedNote DEF R
    <2>3. QED
      BY <1>1, <1>2, <1>3, <1>6, <2>2, DoneCursor
  <1>7. \/ PathThrows(d, P(d)) \/ (Probe(d) /\ PathDone(d, P(d)))
        \/ /\ UNCHANGED <<linked, retries>>
           /\ \E s \in {"commit", "write", "tombstone", "mergeWrite", "conflict", "copyPush"} : \E h : GoTo(d, s, h) /\ h \in Notes
    <2>1. TInv'
      BY OfCursor, OnTold
    <2>2. ASSUME NEW s, NEW h, GoTo(d, s, h) PROVE h \in Notes
      <3>1. task'[d].hand = h
        BY <2>2, OfCursor DEF GoTo, Task
      <3>2. task'[d] \in Task
        BY <2>1 DEF TInv, TypeOK
      <3>3. QED
        BY <3>1, <3>2 DEF Task
    <2>3. \/ PathThrows(d, P(d)) \/ (Probe(d) /\ PathDone(d, P(d)))
          \/ /\ UNCHANGED <<linked, retries>>
             /\ \E s \in {"commit", "write", "tombstone", "mergeWrite", "conflict", "copyPush"} : \E h : GoTo(d, s, h)
      BY DEF PushRead, Fetch, Probe, MergeFetch, MergeWrite, ConflictCopy
    <2>4. QED
      BY <2>2, <2>3
  <1>8. QED
    BY <1>4, <1>5, <1>6, <1>7

\* A path ends on the device.
LEMMA LocalCursor ==
    ASSUME CInv, NEW d \in Devices,
           Write(d) \/ RemoveLocal(d) \/ CopyPush(d) \/ WriteFails(d) \/ TransferFails(d) \/ ConnectionFails(d)
    PROVE  CurInv'
  <1>1. task[d].kind # "idle" /\ UNCHANGED <<server, cursor, held, amiss>>
    BY DEF Write, RemoveLocal, CopyPush, WriteFails, TransferFails, ConnectionFails, At
  <1>2. Newer(files, tombs, top, files', tombs', top') /\ files' = files /\ tombs' = tombs /\ top' = top
    BY <1>1, StandsStill
  <1>3. CASE ConnectionFails(d)
    <2>1. /\ task'[d] = Idle /\ linked'[d] = FALSE /\ retries' = retries /\ base' = base
          /\ \A c \in Devices \ {d} : task'[c] = task[c] /\ linked'[c] = linked[c]
      BY <1>3, OfCursor DEF ConnectionFails, Offline
    <2>2. top \in Nat /\ cursor[d] \in Nat /\ cursor[d] <= top
      BY OfCursor DEF Cur
    <2>3. Cur(Idle, base[d], cursor[d], FALSE, retries[d], Excused(d), files, tombs, top)
      BY <2>2, CurIdle
    <2>4. QED
      BY <1>1, <1>2, <2>1, <2>3, ExcusedStill, CursorMoves
  <1>4. CASE ~ConnectionFails(d)
    <2>1. task[d].step \notin {"next", "manifest"}
      BY <1>4 DEF Write, RemoveLocal, CopyPush, WriteFails, TransferFails, At, LocalWrites, NetworkSteps
    <2>2. P(d) \in Paths /\ P(d) \in task[d].todo
      BY <2>1, OfTask, OfCursor DEF P
    <2>3. CASE WriteFails(d) \/ TransferFails(d)
      <3>1. PathThrows(d, P(d)) /\ UNCHANGED base
        BY <2>3 DEF WriteFails, TransferFails
      <3>2. QED
        BY <1>1, <1>2, <2>2, <3>1, FailCursor
    <2>4. CASE Write(d) \/ RemoveLocal(d) \/ CopyPush(d)
      <3>1. task[d].step = "remove" => R(d).content = {}
        BY OfCursor DEF Cur, P, R
      <3>2. PICK b : b = R(d).content
        OBVIOUS
      <3>3. PathDone(d, P(d)) /\ SetBase(d, P(d), b)
        BY <2>4, <3>1, <3>2 DEF Write, RemoveLocal, CopyPush, At
      <3>4. \/ b = files'[P(d)].content
            \/ task[d].kind = "event" /\ Ver(files', tombs', P(d)) > cursor[d]
            \/ task[d].kind # "event" /\ Ver(files', tombs', P(d)) > task[d].top
        BY <1>1, <1>2, <2>2, <3>2, ListedNote DEF R
      <3>5. QED
        BY <1>1, <1>2, <2>2, <3>3, <3>4, DoneCursor
    <2>5. QED
      BY <1>4, <2>3, <2>4
  <1>5. QED
    BY <1>3, <1>4

\* A path ends at the server.
LEMMA CommitCursor ==
    ASSUME CInv, NEW d \in Devices, Commit(d) \/ Tombstone(d) \/ ReplyLost(d)
    PROVE  CurInv'
  <1>1. task[d].kind # "idle" /\ task[d].step \notin {"next", "manifest"} /\ UNCHANGED <<cursor, held, amiss>>
    BY DEF Commit, Tombstone, ReplyLost, At
  <1>2. P(d) \in Paths /\ P(d) \in task[d].todo /\ task[d].hand \in Notes
    BY <1>1, OfTask, OfCursor DEF P
  <1>3. Newer(files, tombs, top, files', tombs', top')
    <2>1. CASE UNCHANGED server
      BY <2>1, StandsStill
    <2>2. CASE Committed(P(d), task[d].hand, R(d).version) \/ Deleted(P(d), R(d).version)
      BY <1>2, <2>2, ServerNewer
    <2>3. QED
      BY <2>1, <2>2 DEF Commit, Tombstone, ReplyLost
  <1>4. CASE UNCHANGED base /\ (PathThrows(d, P(d)) \/ Offline(d) \/ Conflicted(d))
    BY <1>1, <1>2, <1>3, <1>4, FailCursor
  <1>5. CASE Committed(P(d), task[d].hand, R(d).version) /\ SetBase(d, P(d), task[d].hand) /\ PathDone(d, P(d))
    <2>1. files'[P(d)].content = task[d].hand
      BY <1>2, <1>5, OfCursor DEF Committed, Server!Put, server
    <2>2. QED
      BY <1>1, <1>2, <1>3, <1>5, <2>1, DoneCursor
  <1>6. CASE Deleted(P(d), R(d).version) /\ SetBase(d, P(d), {}) /\ PathDone(d, P(d))
    <2>1. files'[P(d)] = Absent
      BY <1>2, <1>6, OfCursor DEF Deleted, Server!Remove, server, Absent
    <2>2. QED
      BY <1>1, <1>2, <1>3, <1>6, <2>1, IdleSound, DoneCursor
  <1>7. QED
    BY <1>4, <1>5, <1>6 DEF Commit, Tombstone, ReplyLost

\* A task ends: the cursor goes where every earlier change was acted on.
LEMMA FinishCursor ==
    ASSUME CInv, NEW d \in Devices, Finish(d)
    PROVE  CurInv'
  <1>1. /\ UNCHANGED <<server, base, retries>> /\ task[d].todo = {} /\ task[d].kind # "idle"
        /\ task' = [task EXCEPT ![d] = Idle]
    BY DEF Finish, At
  <1>2. Newer(files, tombs, top, files', tombs', top') /\ files' = files /\ tombs' = tombs /\ top' = top
    BY <1>1, StandsStill
  <1>3. task'[d] = Idle /\ \A c \in Devices \ {d} : task'[c] = task[c]
    BY <1>1, OfCursor
  <1>4. top \in Nat /\ cursor[d] \in Nat /\ cursor[d] <= top /\ task[d].top <= top /\ task[d].top \in Nat
        /\ task[d].failed \in SUBSET Nat /\ 0 \notin task[d].failed /\ task[d].kind \in {"full", "delta", "event"}
    BY <1>1, OfTask, OfCursor DEF Cur, Told, Task
  <1>5. CASE task[d].kind = "event"
    <2>1. UNCHANGED <<cursor, linked, held, amiss>>
      BY <1>5 DEF Finish
    <2>2. linked[d] => \A p \in Paths : Ver(files, tombs, p) # 0 /\ Ver(files, tombs, p) <= cursor[d]
                                            => Acted(p, base[d], files, Excused(d), retries[d])
      BY <1>5, OfCursor DEF Cur
    <2>3. Cur(Idle, base[d], cursor[d], linked[d], retries[d], Excused(d), files, tombs, top)
      BY <1>4, <2>2, CurIdle
    <2>4. QED
      BY <1>1, <1>2, <1>3, <2>1, <2>3, ExcusedStill, CursorMoves
  <1>6. CASE task[d].kind # "event"
    <2>1. PICK c, h : /\ c = AdvanceCursor(task[d].top, task[d].failed)
                      /\ h = PendingBulk(task[d], Excused(d))
      OBVIOUS
    <2>2. PICK k, m : k = PendingBulk(task[d], held[d]) /\ m = IF task[d].kind = "full" THEN {} ELSE amiss[d]
      OBVIOUS
    <2>8. /\ cursor' = [cursor EXCEPT ![d] = c] /\ linked' = [linked EXCEPT ![d] = TRUE]
          /\ held' = [held EXCEPT ![d] = k] /\ amiss' = [amiss EXCEPT ![d] = m]
      BY <1>6, <2>1, <2>2, Zenon DEF Finish
    <2>9. k \cup m = h
      BY <2>1, <2>2 DEF PendingBulk, Excused
    <2>3. /\ cursor'[d] = c /\ linked'[d] = TRUE /\ Excused(d)' = h
          /\ \A e \in Devices \ {d} : /\ cursor'[e] = cursor[e] /\ linked'[e] = linked[e]
                                      /\ Excused(e)' = Excused(e)
      <3>1. held \in [Devices -> SUBSET Paths] /\ amiss \in [Devices -> SUBSET Paths]
        BY OfCursor DEF TypeOK
      <3>2. Excused(d)' = h /\ \A e \in Devices \ {d} : Excused(e)' = Excused(e)
        BY <2>8, <2>9, <3>1 DEF Excused
      <3>3. QED
        BY <2>8, <3>2, OfCursor
    <2>4. c \in Nat /\ c <= task[d].top /\ \A w \in task[d].failed : c < w /\ w \in Nat
      BY <1>4, <2>1, CursorTyped
    <2>5. ASSUME NEW p \in Paths, Ver(files, tombs, p) # 0, Ver(files, tombs, p) <= c
          PROVE  Acted(p, base[d], files, h, retries[d])
      <3>1. PICK u \in Nat : u = Ver(files, tombs, p)
        BY OfCursor
      <3>2. u # 0 /\ u <= task[d].top /\ \A w \in task[d].failed : u < w
        BY <1>4, <2>4, <2>5, <3>1
      <3>3. QED
        BY <1>1, <1>4, <1>6, <2>1, <3>1, <3>2, OfCursor DEF Cur
    <2>6. Cur(Idle, base[d], c, TRUE, retries[d], h, files, tombs, top)
      <3>1. c \in Nat /\ c <= top /\ top \in Nat
        BY <1>4, <2>4
      <3>2. QED
        BY <2>5, <3>1, CurIdle
    <2>7. QED
      BY <1>1, <1>2, <1>3, <2>3, <2>6, CursorMoves
  <1>7. QED
    BY <1>5, <1>6

\* A base is saved, a device starts again, a user edits or deletes.
LEMMA RestCursor ==
    ASSUME CInv, NEW d \in Devices, Persist(d) \/ Crash(d) \/ \E p \in Paths : Edit(d, p) \/ DeleteNote(d, p)
    PROVE  CurInv'
  <1>1. UNCHANGED server
    BY DEF Persist, Crash, Edit, DeleteNote
  <1>6. UNCHANGED amiss
    BY DEF Persist, Crash, Edit, DeleteNote
  <1>2. Newer(files, tombs, top, files', tombs', top') /\ files' = files /\ tombs' = tombs /\ top' = top
    BY <1>1, StandsStill
  <1>3. CASE UNCHANGED memory
    <2>1. \A c \in Devices : Excused(c)' = Excused(c)
      BY <1>3, <1>6, ExcusedStill DEF memory
    <2>2. QED
      BY <1>2, <1>3, <2>1, OfCursor DEF memory, CurInv, CInv
  <1>4. CASE Crash(d)
    <2>1. /\ task'[d] = Idle /\ linked'[d] = FALSE /\ cursor'[d] = 0
          /\ \A c \in Devices \ {d} : /\ task'[c] = task[c] /\ base'[c] = base[c] /\ cursor'[c] = cursor[c]
                                      /\ linked'[c] = linked[c] /\ retries'[c] = retries[c] /\ Excused(c)' = Excused(c)
      <3>1. \A c \in Devices \ {d} : held'[c] = held[c] /\ amiss'[c] = amiss[c]
        BY <1>4 DEF Crash
      <3>2. \A c \in Devices \ {d} : Excused(c)' = Excused(c)
        BY <3>1 DEF Excused
      <3>3. QED
        BY <1>4, <3>2, OfCursor DEF Crash
    <2>2. top \in Nat /\ 0 \in Nat /\ 0 <= top
      BY OfCursor
    <2>3. Cur(Idle, base'[d], 0, FALSE, retries'[d], Excused(d)', files, tombs, top)
      BY <2>2, CurIdle
    <2>4. QED
      BY <1>2, <2>1, <2>3, CursorMoves
  <1>5. QED
    BY <1>3, <1>4 DEF Persist, Edit, DeleteNote

\* A user answers.
LEMMA AnswerCursor ==
    ASSUME CInv, NEW d \in Devices, AcceptHeld(d) \/ KeepHeld(d)
    PROVE  CurInv'
  <1>1. UNCHANGED <<server, cursor, linked, retries, task>> /\ task[d].kind = "idle"
    BY DEF AcceptHeld, KeepHeld
  <1>2. Newer(files, tombs, top, files', tombs', top') /\ files' = files /\ tombs' = tombs /\ top' = top
    BY <1>1, StandsStill
  <1>3. PICK doomed, b, l : Answered(d, doomed, b, l)
    BY AnswerShape
  <1>4. PICK m : m = amiss[d] \cup (held[d] \ doomed) \cup Returned(d)
    OBVIOUS
  <1>5. base' = [base EXCEPT ![d] = b] /\ held' = [held EXCEPT ![d] = {}] /\ amiss' = [amiss EXCEPT ![d] = m]
    BY <1>3, <1>4 DEF Answered
  <1>6. /\ base'[d] = b /\ Excused(d)' = m
        /\ \A c \in Devices \ {d} : base'[c] = base[c] /\ Excused(c)' = Excused(c)
    <2>1. held \in [Devices -> SUBSET Paths] /\ amiss \in [Devices -> SUBSET Paths]
      BY OfCursor DEF TypeOK
    <2>2. Excused(d)' = m /\ \A c \in Devices \ {d} : Excused(c)' = Excused(c)
      BY <1>5, <2>1 DEF Excused
    <2>3. QED
      BY <1>5, <2>2, OfCursor
  <1>7. task[d] = Idle /\ top \in Nat /\ cursor[d] \in Nat /\ cursor[d] <= top
    BY <1>1, OfTask, OfCursor DEF Cur, Told
  <1>8. ASSUME linked[d], NEW p \in Paths, Ver(files, tombs, p) # 0, Ver(files, tombs, p) <= cursor[d]
        PROVE  Acted(p, b, files, m, retries[d])
    <2>1. Acted(p, base[d], files, Excused(d), retries[d])
      BY <1>1, <1>8, OfCursor DEF Cur
    <2>2. CASE p \in doomed
      <3>1. p \in held[d] /\ b[p] = {}
        BY <1>3, <2>2 DEF Answered
      <3>2. files[p] = Absent \/ p \in Returned(d)
        BY <1>8, <3>1 DEF Returned, Ver
      <3>3. QED
        BY <1>4, <3>1, <3>2, IdleSound DEF Acted
    <2>3. CASE p \notin doomed
      BY <1>3, <1>4, <2>1, <2>3 DEF Acted, Answered, Excused
    <2>4. QED
      BY <2>2, <2>3
  <1>9. Cur(Idle, b, cursor[d], linked[d], retries[d], m, files, tombs, top)
    BY <1>7, <1>8, CurIdle
  <1>10. QED
    BY <1>1, <1>2, <1>6, <1>7, <1>9, CursorMoves

\* The start.
LEMMA InitCursor == Init => CInv
  <1> SUFFICES ASSUME Init PROVE CInv
    OBVIOUS
  <1>1. TInv
    BY InitTold
  <1>2. ASSUME NEW d \in Devices
        PROVE  Cur(task[d], base[d], cursor[d], linked[d], retries[d], Excused(d), files, tombs, top)
    <2>1. task[d] = Idle /\ cursor[d] = 0 /\ linked[d] = FALSE /\ top \in Nat
      BY DEF Init, Server!PromiseInit
    <2>2. QED
      BY <2>1, CurIdle
  <1>3. QED
    BY <1>1, <1>2 DEF CInv, CurInv

\* Every step.
LEMMA NextCursor == CInv /\ [Next]_vars => CInv'
  <1> SUFFICES ASSUME CInv, [Next]_vars PROVE CInv'
    OBVIOUS
  <1>1. TInv'
    BY NextTold DEF CInv
  <1>2. CASE UNCHANGED vars
    <2>1. CurInv'
      BY <1>2, ExcusedStill DEF vars, server, memory, CInv, CurInv
    <2>2. QED
      BY <1>1, <2>1 DEF CInv
  <1>3. ASSUME NEW d \in Devices,
               \/ StartFull(d) \/ StartDelta(d)
               \/ \E p \in Paths : StartEvent(d, p) \/ ExamineUnreadable(d, p) \/ Edit(d, p) \/ DeleteNote(d, p)
               \/ TaskStep(d)
               \/ WriteFails(d) \/ ConnectionFails(d) \/ ReplyLost(d) \/ TransferFails(d)
               \/ Persist(d) \/ Crash(d) \/ AcceptHeld(d) \/ KeepHeld(d)
        PROVE  CurInv'
    BY <1>3, StartCursor, ExamineCursor, OnCursor, LocalCursor, CommitCursor, FinishCursor, RestCursor, AnswerCursor
       DEF TaskStep
  <1>4. QED
    BY <1>1, <1>2, <1>3 DEF Next, CInv

\* A connected device between tasks has acted on every change below its cursor, for any number of
\* devices, notes and faults, any bound of the retries and any threshold of the review: what it has
\* not acted on is up for review, has used up its retries, or was left amiss by an answer to a
\* review, until the next full pass.
THEOREM CursorSoundHolds == Spec => []CursorSound
  <1>1. CInv => CursorSound
    <2> SUFFICES ASSUME CInv, NEW d \in Devices, NEW p \in Paths,
                        task[d].kind = "idle", linked[d], Ver(files, tombs, p) # 0, Ver(files, tombs, p) <= cursor[d]
                 PROVE  Acted(p, base[d], files, Excused(d), retries[d])
      BY DEF CursorSound, Ver, Acted, Excused
    <2>1. QED
      BY OfCursor DEF Cur
  <1>2. QED
    BY InitCursor, NextCursor, <1>1, PTL DEF Spec
=============================================================================
