--------------------------- MODULE EngineProofs ---------------------------
(***************************************************************************)
(* Theorems about Engine, for any number of paths, edits, errors, faults   *)
(* and commands.                                                           *)
(***************************************************************************)
EXTENDS Engine, FiniteSetTheorems, WellFoundedInduction, TLAPS

-----------------------------------------------------------------------------
(* The queue *)

\* The events of syncengine.ts; only a file event carries a path.
Kinds  == {"connect", "remote", "task", "rews", "disconnect"}
Events == {Event(k) : k \in Kinds} \cup {Edited(p) : p \in Paths}

\* Every rank up to the size of a set of positions is taken.
LEMMA RankTaken ==
    ASSUME NEW n \in Nat, NEW S \in SUBSET (1 .. n), NEW j \in 1 .. Cardinality(S)
    PROVE  \E i \in S : Cardinality({k \in S : k <= i}) = j
  <1> DEFINE R(i) == Cardinality({k \in S : k <= i})
             Enough == {i \in 0 .. n : R(i) >= j}
             Below == OpToRel(<, Nat)
  <1>0. \A k \in S : k \in Int /\ 1 <= k /\ k <= n
    OBVIOUS
  <1>1. IsFiniteSet(S)
    <2>1. IsFiniteSet(1 .. n)
      BY FS_Interval
    <2> QED
      BY <2>1, FS_Subset
  <1>2. \A i \in 0 .. n : IsFiniteSet({k \in S : k <= i}) /\ R(i) \in Nat
    <2> TAKE i \in 0 .. n
    <2>1. {k \in S : k <= i} \subseteq S
      OBVIOUS
    <2> QED
      BY <1>1, <2>1, FS_Subset, FS_CardinalityType
  <1>3. R(n) = Cardinality(S)
    <2>1. {k \in S : k <= n} = S
      BY <1>0
    <2> QED
      BY <2>1
  <1>4. R(0) = 0
    <2>1. \A k \in S : ~(k <= 0)
      BY <1>0
    <2>2. {k \in S : k <= 0} = {}
      BY <2>1
    <2> QED
      BY <2>2, FS_EmptySet
  <1>5. \A i \in 1 .. n : R(i) = IF i \in S THEN R(i - 1) + 1 ELSE R(i - 1)
    <2> TAKE i \in 1 .. n
    <2>1. CASE i \notin S
      <3>0. \A k \in S : k <= i <=> k <= i - 1
        BY <1>0, <2>1
      <3>1. {k \in S : k <= i} = {k \in S : k <= i - 1}
        BY <3>0
      <3> QED
        BY <2>1, <3>1
    <2>2. CASE i \in S
      <3>0. \A k \in S : k <= i <=> k <= i - 1 \/ k = i
        BY <1>0, <2>2
      <3>1. {k \in S : k <= i} = {k \in S : k <= i - 1} \cup {i}
        BY <2>2, <3>0
      <3>2. i \notin {k \in S : k <= i - 1}
        OBVIOUS
      <3>3. IsFiniteSet({k \in S : k <= i - 1})
        <4>1. i - 1 \in 0 .. n
          OBVIOUS
        <4> HIDE DEF R
        <4> QED
          BY <1>2, <4>1
      <3> QED
        BY <2>2, <3>1, <3>2, <3>3, FS_AddElement
    <2> QED
      BY <2>1, <2>2
  <1> HIDE DEF R
  <1>6. n \in Enough /\ Enough \subseteq Nat
    BY <1>2, <1>3
  <1>7. PICK i \in Enough : \A x \in Enough : ~(x < i)
    <2>1. IsWellFoundedOn(Below, Nat)
      BY NatLessThanWellFounded
    <2>2. IsWellFoundedOn(Below, Enough)
      BY <1>6, <2>1, IsWellFoundedOnSubset
    <2> HIDE DEF Below
    <2>3. PICK i \in Enough : \A x \in Enough : ~(<<x, i>> \in Below)
      BY <1>6, <2>1, WFMin
    <2> QED
      BY <1>6, <2>3 DEF Below, OpToRel
  <1>8. i # 0
    BY <1>4
  <1>9. i - 1 \in 0 .. n /\ i \in 1 .. n /\ R(i - 1) < j /\ R(i) >= j /\ R(i - 1) \in Nat /\ R(i) \in Nat
    <2>1. i - 1 \in 0 .. n /\ i \in 1 .. n
      BY <1>8
    <2>2. R(i - 1) \in Nat /\ R(i) \in Nat
      BY <1>2, <2>1
    <2> QED
      BY <1>7, <2>1, <2>2
  <1>10. i \in S /\ R(i) = j
    BY <1>5, <1>9
  <1> QED
    BY <1>10 DEF R

\* What is kept of a queue is a queue.
LEMMA OnlyType ==
    ASSUME NEW q \in Seq(Events), NEW kinds
    PROVE  Only(q, kinds) \in Seq(Events)
  <1> DEFINE keep == {i \in DOMAIN q : q[i].kind \in kinds}
             pick(j) == CHOOSE i \in keep : Cardinality({k \in keep : k <= i}) = j
  <1>1. Len(q) \in Nat /\ DOMAIN q = 1 .. Len(q) /\ \A i \in DOMAIN q : q[i] \in Events
    OBVIOUS
  <1>2. keep \in SUBSET (1 .. Len(q))
    BY <1>1
  <1>3. Cardinality(keep) \in Nat
    <2>1. IsFiniteSet(1 .. Len(q))
      BY <1>1, FS_Interval
    <2> HIDE DEF keep
    <2> QED
      BY <1>2, <2>1, FS_Subset, FS_CardinalityType
  <1>4. \A j \in 1 .. Cardinality(keep) : pick(j) \in keep
    <2> TAKE j \in 1 .. Cardinality(keep)
    <2>1. \E i \in keep : Cardinality({k \in keep : k <= i}) = j
      BY <1>1, <1>2, RankTaken
    <2> QED
      BY <2>1
  <1>5. Only(q, kinds) = [j \in 1 .. Cardinality(keep) |-> q[pick(j)]]
    BY DEF Only
  <1>6. \A j \in 1 .. Cardinality(keep) : q[pick(j)] \in Events
    BY <1>1, <1>4
  <1> HIDE DEF keep, pick
  <1> QED
    BY <1>3, <1>5, <1>6

\* Taking the first event.
LEMMA TakeFirst ==
    ASSUME NEW q \in Seq(Events), q # <<>>
    PROVE  /\ Head(q) \in Events /\ Tail(q) \in Seq(Events)
           /\ Range(q) = {Head(q)} \cup Range(Tail(q))
  <1>1. Len(q) \in Nat /\ Len(q) # 0 /\ Head(q) = q[1] /\ q[1] \in Events /\ Tail(q) \in Seq(Events)
    OBVIOUS
  <1>2. Len(Tail(q)) = Len(q) - 1 /\ \A i \in 1 .. Len(q) - 1 : Tail(q)[i] = q[i + 1]
    BY <1>1
  <1>3. Range(q) \subseteq {Head(q)} \cup Range(Tail(q))
    <2> SUFFICES ASSUME NEW i \in 1 .. Len(q) PROVE q[i] \in {Head(q)} \cup Range(Tail(q))
      BY DEF Range
    <2>1. CASE i = 1
      BY <1>1, <2>1
    <2>2. CASE i # 1
      <3>1. i - 1 \in 1 .. Len(q) - 1 /\ Tail(q)[i - 1] = q[i]
        BY <1>1, <1>2, <2>2
      <3>2. i - 1 \in DOMAIN Tail(q)
        BY <1>1, <1>2, <3>1
      <3> QED
        BY <3>1, <3>2 DEF Range
    <2> QED
      BY <2>1, <2>2
  <1>4. {Head(q)} \cup Range(Tail(q)) \subseteq Range(q)
    <2>1. Head(q) \in Range(q)
      BY <1>1 DEF Range
    <2>2. ASSUME NEW i \in 1 .. Len(q) - 1 PROVE Tail(q)[i] \in Range(q)
      <3>1. i + 1 \in DOMAIN q /\ Tail(q)[i] = q[i + 1]
        BY <1>1, <1>2
      <3> QED
        BY <3>1 DEF Range
    <2>3. DOMAIN Tail(q) = 1 .. Len(q) - 1
      BY <1>1, <1>2
    <2> QED
      BY <2>1, <2>2, <2>3 DEF Range
  <1> QED
    BY <1>1, <1>3, <1>4

\* Adding an event.
LEMMA AddLast ==
    ASSUME NEW q \in Seq(Events), NEW e \in Events
    PROVE  /\ Enqueue(q, e) \in Seq(Events)
           /\ Range(q) \subseteq Range(Enqueue(q, e))
           /\ Range(Enqueue(q, e)) \subseteq Range(q) \cup {e}
           /\ state # "unloading" => e \in Range(Enqueue(q, e))
  <1> DEFINE a == Append(q, e)
  <1>1. Len(q) \in Nat /\ a \in Seq(Events) /\ DOMAIN a = 1 .. Len(q) + 1 /\ DOMAIN q = 1 .. Len(q)
        /\ a[Len(q) + 1] = e /\ \A i \in 1 .. Len(q) : a[i] = q[i]
    OBVIOUS
  <1> HIDE DEF a
  <1>2. Range(a) \subseteq Range(q) \cup {e}
    <2> SUFFICES ASSUME NEW i \in 1 .. Len(q) + 1 PROVE a[i] \in Range(q) \cup {e}
      BY <1>1 DEF Range
    <2> QED
      BY <1>1 DEF Range
  <1>3. Range(q) \subseteq Range(a) /\ e \in Range(a)
    <2>1. Len(q) + 1 \in DOMAIN a /\ \A i \in 1 .. Len(q) : i \in DOMAIN a
      BY <1>1
    <2> QED
      BY <1>1, <2>1 DEF Range
  <1>4. Enqueue(q, e) = a \/ (Enqueue(q, e) = q /\ (state # "unloading" => e \in Range(q)))
    BY DEF Enqueue, a
  <1> QED
    BY <1>1, <1>2, <1>3, <1>4

\* Queued, of the events of the queue.
LEMMA QueuedRange ==
    ASSUME NEW k, queue \in Seq(Events)
    PROVE  Queued(k) <=> \E e \in Range(queue) : e.kind = k
  <1>1. DOMAIN queue = 1 .. Len(queue)
    OBVIOUS
  <1> QED
    BY <1>1 DEF Queued, Range

\* What the events are.
LEMMA EventKinds ==
    /\ \A e \in Events : \/ e.kind \in Kinds /\ e.path = NoPath
                         \/ e.kind = "path" /\ e.path \in Paths /\ e = Edited(e.path)
    /\ \A k \in Kinds : Event(k) \in Events /\ Event(k).kind = k /\ Event(k).path = NoPath
    /\ \A p \in Paths : Edited(p) \in Events /\ Edited(p).kind = "path" /\ Edited(p).path = p
  <1>1. \A k : Event(k).kind = k /\ Event(k).path = NoPath
    BY DEF Event
  <1>2. \A p : Edited(p).kind = "path" /\ Edited(p).path = p
    BY DEF Edited
  <1>3. \A e \in Events : (\E k \in Kinds : e = Event(k)) \/ (\E p \in Paths : e = Edited(p))
    BY DEF Events
  <1>4. (\A k \in Kinds : Event(k) \in Events) /\ (\A p \in Paths : Edited(p) \in Events)
    BY DEF Events
  <1>5. ASSUME NEW e \in Events
        PROVE  \/ e.kind \in Kinds /\ e.path = NoPath
               \/ e.kind = "path" /\ e.path \in Paths /\ e = Edited(e.path)
    BY <1>1, <1>2, <1>3
  <1> QED
    BY <1>1, <1>2, <1>4, <1>5

-----------------------------------------------------------------------------
(* Types *)

Job == [kind : {"none", "connect", "remote", "path", "task"},
        step : {"none", "login", "status", "changes", "meta", "pass", "push", "commit", "run"},
        path : Paths \cup {NoPath}, full : BOOLEAN, todo : SUBSET Paths, old : SUBSET Paths,
        relogin : BOOLEAN]

States == {"off", "connecting", "reconciling", "idle", "disconnected", "unloading"}

EngineTypes ==
    /\ state \in States
    /\ link \in {"ok", "retrying", "lockedOut", "blocked"}
    /\ queue \in Seq(Events)
    /\ job \in Job

WireTypes ==
    /\ timer \in BOOLEAN /\ poll \in BOOLEAN /\ redial \in BOOLEAN
    /\ transport \in {"offline", "dialing", "live", "degraded"}
    /\ ws \in {"none", "dialing", "open", "silent", "failing", "closed"}

SessionTypes ==
    /\ token \in {"none", "good", "expired"}
    /\ api \in {"none", "good", "expired"}
    /\ password \in {"none", "once", "stored"}

WorkTypes ==
    /\ scanDue \in BOOLEAN
    /\ rejected \in SUBSET Paths /\ missed \in SUBSET Paths /\ claims \in SUBSET Paths
    /\ dirty \in SUBSET Paths /\ told \in SUBSET Paths /\ news \in SUBSET Paths

Types == EngineTypes /\ WireTypes /\ SessionTypes /\ WorkTypes

\* What a job of each kind may be at, and the state of the engine meanwhile.
JobInv ==
    /\ job.kind = "none" => job = NoJob
    /\ job.kind \in {"none", "task"} => job.path = NoPath /\ job.todo = {} /\ job.step \in {"none", "run"}
    /\ job.kind = "path" => job.path \in Paths /\ job.todo = {} /\ job.step \in {"login", "meta", "push", "commit"}
    /\ job.kind = "remote" => job.step \in {"login", "changes", "pass", "push", "commit"}
    /\ job.kind = "connect" => job.step \in {"login", "status", "changes", "pass", "push", "commit"}
    /\ job.kind \in {"connect", "remote"} /\ job.step \notin {"push", "commit"} => job.path = NoPath
    /\ job.step \in {"push", "commit"} => job.path \in Paths \ rejected
    /\ job.step \notin {"pass", "push", "commit"} => job.todo = {}
    /\ job.kind \in {"remote", "path"} => state \in {"reconciling", "idle", "unloading"}
    /\ job.kind = "connect" => state \in {"connecting", "disconnected", "reconciling", "unloading"}

\* The edits that something will take to the server; a path that is being pushed was read before
\* it was edited again.
Underway ==
    told \cup news \cup missed \cup rejected \cup job.todo
        \cup {p \in Paths : job.path = p /\ job.step \notin {"push", "commit"}}
        \cup {p \in Paths : Edited(p) \in Range(queue)}

\* The engine is connected, or will be once the pass of the connect ends.
Listed == Connected \/ (state # "unloading" /\ job.kind = "connect" /\ job.step \in {"pass", "push", "commit"})

Covered == Listed => dirty \subseteq Underway

\* Nothing is armed, whatever still runs or waits.
Silent == state \in {"off", "unloading"} => ~timer /\ ~poll /\ ~redial /\ ws = "none"

IInv == Types /\ JobInv /\ Covered /\ Silent /\ NeverStranded

\* The types of Engine follow.
LEMMA TypesTypeOK == Types => TypeOK
  <1> SUFFICES ASSUME Types PROVE TypeOK
    OBVIOUS
  <1> DEFINE E == [kind : {"connect", "remote", "path", "task", "rews", "disconnect"}, path : Paths \cup {NoPath}]
  <1>1. Events \subseteq E
    BY DEF Events, Event, Edited, Kinds
  <1>2. queue \in Seq(E)
    <2>1. queue \in Seq(Events)
      BY DEF Types, EngineTypes
    <2> HIDE DEF E
    <2> QED
      BY <1>1, <2>1
  <1>3. {timer, poll, redial, scanDue} \subseteq BOOLEAN
    BY Zenon DEF Types, WireTypes, WorkTypes
  <1>4. job.todo \in SUBSET Paths /\ job.old \in SUBSET Paths
    BY DEF Types, EngineTypes, Job
  <1>5. {dirty, told, news, rejected, missed, claims, job.todo, job.old} \subseteq SUBSET Paths
    BY <1>4, Zenon DEF Types, WorkTypes
  <1> QED
    BY <1>2, <1>3, <1>5 DEF Types, EngineTypes, WireTypes, SessionTypes, TypeOK, States

\* The machines stay in their states.
LEMMA MachineType ==
    ASSUME NEW s \in States,
           NEW e \in {"unload", "disconnect", "connectStart", "connected", "failed", "work", "drained"}
    PROVE  Machine(s, e) \in States
  BY DEF Machine, States

LEMMA LinkType == \A class : Link(class) \in {"ok", "retrying", "lockedOut", "blocked"}
  BY DEF Link

\* No job is a job.
LEMMA NoJobType == NoJob \in Job /\ NoJob.kind = "none" /\ NoJob.step = "none" /\ NoJob.path = NoPath /\ NoJob.todo = {} /\ NoJob.old = {}
  BY DEF NoJob, Job

-----------------------------------------------------------------------------
(* Steps that many actions share *)

\* An end of a job: no job runs, and what runs next finds the queue.
LEMMA DoneEnds ==
    ASSUME NEW s \in States, NEW q \in Seq(Events), Done(s, q)
    PROVE  /\ job' = NoJob /\ job' \in Job /\ queue' = q /\ queue' \in Seq(Events) /\ state' \in States
           /\ s # "reconciling" => state' = s
           /\ s = "reconciling" => state' \in {"reconciling", "idle"}
  BY NoJobType DEF Done, Machine, States

\* A failure drops the job, and arms the timer unless the plugin unloads.
LEMMA FailKeeps ==
    ASSUME IInv, NEW class, FailWith(class), UNCHANGED socket, SessionTypes', WorkTypes'
    PROVE  IInv'
  <1> DEFINE kept == Only(queue, {"disconnect", "task"})
  <1>1. kept \in Seq(Events)
    BY OnlyType DEF IInv, Types, EngineTypes
  <1>2. Machine(state, "failed") = IF state = "unloading" THEN "unloading" ELSE "disconnected"
    BY DEF Machine
  <1>3. Done(Machine(state, "failed"), kept)
    BY DEF FailWith
  <1>4. /\ job' = NoJob /\ job' \in Job /\ queue' \in Seq(Events)
        /\ state' = IF state = "unloading" THEN "unloading" ELSE "disconnected"
    <2>1. Machine(state, "failed") \in States
      BY <1>2 DEF States
    <2> HIDE DEF kept
    <2>2. /\ job' = NoJob /\ job' \in Job /\ queue' \in Seq(Events)
          /\ Machine(state, "failed") # "reconciling" => state' = Machine(state, "failed")
      BY <1>1, <1>3, <2>1, DoneEnds
    <2> QED
      BY <1>2, <2>2
  <1>5. EngineTypes'
    BY <1>4, LinkType DEF FailWith, EngineTypes, States
  <1>6. timer' = (timer \/ state # "unloading") /\ poll' = (poll /\ timer) /\ redial' = redial
        /\ ws' = ws /\ transport' = transport
    BY DEF FailWith, socket
  <1>7. WireTypes'
    BY <1>6 DEF WireTypes, IInv, Types
  <1>8. JobInv'
    BY <1>4, NoJobType DEF JobInv
  <1>9. Covered'
    BY <1>4, NoJobType DEF Covered, Listed, Connected
  <1>10. Silent'
    BY <1>4, <1>6 DEF Silent, IInv
  <1>11. NeverStranded'
    BY <1>4, <1>6 DEF NeverStranded
  <1> QED
    BY <1>5, <1>7, <1>8, <1>9, <1>10, <1>11 DEF IInv, Types

\* A job other than a connect ends.
LEMMA EndKeeps ==
    ASSUME IInv, Done(state, queue), UNCHANGED <<link, wires>>, SessionTypes', WorkTypes',
           job.kind # "connect",
           Connected => dirty' \subseteq told' \cup news' \cup missed' \cup rejected'
                                           \cup {p \in Paths : Edited(p) \in Range(queue)}
    PROVE  IInv'
  <1>1. state \in States /\ queue \in Seq(Events)
    BY DEF IInv, Types, EngineTypes
  <1>2. /\ job' = NoJob /\ job' \in Job /\ queue' = queue /\ state' \in States
        /\ state # "reconciling" => state' = state
        /\ state = "reconciling" => state' \in {"reconciling", "idle"}
    BY <1>1, DoneEnds
  <1>3. EngineTypes' /\ WireTypes'
    BY <1>1, <1>2 DEF IInv, Types, EngineTypes, WireTypes, wires, timers, socket
  <1>4. JobInv'
    BY <1>2, NoJobType DEF JobInv
  <1>5. Covered'
    <2>1. Listed' => Connected
      BY <1>2, NoJobType DEF Listed, Connected
    <2> QED
      BY <1>2, <2>1, NoJobType DEF Covered, Underway
  <1>6. Silent'
    BY <1>2 DEF Silent, IInv, wires, timers, socket
  <1>7. NeverStranded'
    <2>1. \A k : Queued(k)' <=> Queued(k)
      BY <1>2 DEF Queued
    <2> QED
      BY <1>2, <2>1 DEF NeverStranded, IInv, wires, timers
  <1> QED
    BY <1>3, <1>4, <1>5, <1>6, <1>7 DEF IInv, Types

\* The world acts: the job goes on, and events are added to the queue.
LEMMA WorldKeeps ==
    ASSUME IInv, WireTypes', SessionTypes', WorkTypes',
           UNCHANGED <<state, link>>, job' \in Job, job.kind = "none" => job' = NoJob,
           job'.kind = job.kind, job'.step = job.step, job'.path = job.path, job'.todo = job.todo,
           queue' \in Seq(Events), Range(queue) \subseteq Range(queue'),
           dirty' \subseteq dirty \cup told', news \subseteq news', missed \subseteq missed',
           rejected' \subseteq rejected, rejected \subseteq rejected' \cup told',
           state # "unloading" => \A p \in told : p \in told' \/ Edited(p) \in Range(queue'),
           state \in {"off", "unloading"} => (timer' => timer) /\ (poll' => poll) /\ (redial' => redial) /\ (ws = "none" => ws' = "none"),
           state = "disconnected" /\ timer => timer' \/ \E e \in Range(queue') : e.kind = "connect"
    PROVE  IInv'
  <1>1. EngineTypes'
    BY DEF IInv, Types, EngineTypes
  <1>2. JobInv'
    BY DEF IInv, JobInv
  <1>3. Covered'
    <2>1. Listed' <=> Listed
      BY DEF Listed, Connected
    <2>2. Listed => Underway \subseteq Underway'
      <3> SUFFICES ASSUME Listed, NEW p \in Underway PROVE p \in Underway'
        OBVIOUS
      <3>1. state # "unloading"
        BY DEF Listed, Connected
      <3>2. CASE p \in told
        BY <3>1, <3>2 DEF Underway, IInv, Types, WorkTypes
      <3>3. CASE p \in news \cup missed \cup rejected \cup job.todo
        BY <3>3 DEF Underway
      <3>4. CASE p \in Paths /\ job.path = p /\ job.step \notin {"push", "commit"}
        BY <3>4 DEF Underway
      <3>5. CASE p \in Paths /\ Edited(p) \in Range(queue)
        BY <3>5 DEF Underway
      <3> QED
        BY <3>2, <3>3, <3>4, <3>5 DEF Underway
    <2>3. told' \subseteq Underway'
      BY DEF Underway
    <2> QED
      BY <2>1, <2>2, <2>3 DEF Covered, IInv
  <1>4. Silent'
    BY DEF Silent, IInv
  <1>5. NeverStranded'
    <2>1. \A k : Queued(k) <=> \E e \in Range(queue) : e.kind = k
      BY QueuedRange DEF IInv, Types, EngineTypes
    <2>2. Queued("connect")' <=> \E e \in Range(queue') : e.kind = "connect"
      <3>1. DOMAIN queue' = 1 .. Len(queue')
        OBVIOUS
      <3> QED
        BY <3>1 DEF Queued, Range
    <2>3. Queued("disconnect")' <=> \E e \in Range(queue') : e.kind = "disconnect"
      <3>1. DOMAIN queue' = 1 .. Len(queue')
        OBVIOUS
      <3> QED
        BY <3>1 DEF Queued, Range
    <2> QED
      BY <2>1, <2>2, <2>3 DEF NeverStranded, IInv
  <1> QED
    BY <1>1, <1>2, <1>3, <1>4, <1>5 DEF IInv, Types

\* An action of the world that adds one event.
LEMMA AddKeeps ==
    ASSUME IInv, NEW e \in Events, queue' = Enqueue(queue, e),
           UNCHANGED <<state, link, job, session, scanDue, rejected, missed, dirty, edits, news>>,
           UNCHANGED <<socket, claims, told>>,
           timer' \in BOOLEAN, poll' \in BOOLEAN, redial' \in BOOLEAN,
           (timer' => timer) /\ (poll' => poll) /\ (redial' => redial),
           state = "disconnected" /\ timer => timer' \/ e.kind = "connect"
    PROVE  IInv'
  <1>1. queue \in Seq(Events) /\ state \in States /\ job \in Job
    BY DEF IInv, Types, EngineTypes
  <1>2. /\ queue' \in Seq(Events) /\ Range(queue) \subseteq Range(queue')
        /\ state # "unloading" => e \in Range(queue')
    BY <1>1, AddLast
  <1>3. WireTypes' /\ SessionTypes' /\ WorkTypes'
    BY DEF IInv, Types, WireTypes, SessionTypes, WorkTypes, session, socket
  <1>4. job.kind = "none" => job' = NoJob
    BY DEF IInv, JobInv
  <1>5. UNCHANGED <<ws, state, link, job, rejected, missed, dirty, news, told>>
    BY DEF socket
  <1> QED
    BY <1>1, <1>2, <1>3, <1>4, <1>5, WorldKeeps

-----------------------------------------------------------------------------
(* The world *)

\* Timers and commands that add an event.
LEMMA TimersKeep == ASSUME IInv, TimerFires \/ PollTick \/ RedialFires PROVE IInv'
  <1>0. timer \in BOOLEAN /\ poll \in BOOLEAN /\ redial \in BOOLEAN
    BY DEF IInv, Types, WireTypes
  <1>1. Event("connect") \in Events /\ Event("remote") \in Events /\ Event("rews") \in Events
        /\ Event("connect").kind = "connect"
    BY EventKinds DEF Kinds
  <1>2. CASE TimerFires
    <2>1. /\ queue' = Enqueue(queue, Event("connect"))
          /\ UNCHANGED <<state, link, job, session, scanDue, rejected, missed, dirty, edits, news>>
          /\ UNCHANGED <<socket, claims, told>> /\ timer' = FALSE /\ poll' = poll /\ redial' = redial
      BY <1>2 DEF TimerFires, Add
    <2> QED
      BY <1>0, <1>1, <2>1, AddKeeps
  <1>3. CASE PollTick
    <2>1. /\ queue' = Enqueue(queue, Event("remote"))
          /\ UNCHANGED <<state, link, job, session, scanDue, rejected, missed, dirty, edits, news>>
          /\ UNCHANGED <<socket, claims, told>> /\ timer' = timer /\ poll' = poll /\ redial' = redial
      BY <1>3 DEF PollTick, Add, wires, timers
    <2> QED
      BY <1>0, <1>1, <2>1, AddKeeps
  <1>4. CASE RedialFires
    <2>1. /\ queue' = Enqueue(queue, Event("rews"))
          /\ UNCHANGED <<state, link, job, session, scanDue, rejected, missed, dirty, edits, news>>
          /\ UNCHANGED <<socket, claims, told>> /\ timer' = timer /\ poll' = poll /\ redial' = FALSE
      BY <1>4 DEF RedialFires, Add
    <2> QED
      BY <1>0, <1>1, <2>1, AddKeeps
  <1> QED
    BY <1>2, <1>3, <1>4

LEMMA CommandsKeep == ASSUME IInv, Reconnect \/ AddTask \/ Disconnect \/ Resume PROVE IInv'
  <1>0. timer \in BOOLEAN /\ poll \in BOOLEAN /\ redial \in BOOLEAN
    BY DEF IInv, Types, WireTypes
  <1>1. /\ Event("connect") \in Events /\ Event("remote") \in Events /\ Event("task") \in Events
        /\ Event("disconnect") \in Events /\ Event("connect").kind = "connect"
    BY EventKinds DEF Kinds
  <1>2. ASSUME NEW e \in Events, Add(e), UNCHANGED <<wires, claims, told>>
        PROVE  IInv'
    <2>1. /\ queue' = Enqueue(queue, e)
          /\ UNCHANGED <<state, link, job, session, scanDue, rejected, missed, dirty, edits, news>>
          /\ UNCHANGED <<socket, claims, told>> /\ timer' = timer /\ poll' = poll /\ redial' = redial
      BY <1>2 DEF Add, wires, timers
    <2> QED
      BY <1>0, <2>1, AddKeeps
  <1>3. CASE Reconnect \/ AddTask \/ Disconnect
    BY <1>1, <1>2, <1>3 DEF Reconnect, AddTask, Disconnect
  <1>4. CASE Resume
    <2>1. PICK e \in Events : Add(e) /\ (state = "disconnected" => e.kind = "connect")
      BY <1>1, <1>4 DEF Resume
    <2>2. /\ queue' = Enqueue(queue, e)
          /\ UNCHANGED <<state, link, job, session, scanDue, rejected, missed, dirty, edits, news>>
          /\ UNCHANGED <<socket, claims, told>> /\ poll' = poll /\ redial' = redial
          /\ timer' = (timer /\ state # "disconnected")
      BY <1>4, <2>1 DEF Resume, Add
    <2>3. timer' \in BOOLEAN /\ (timer' => timer)
      BY <1>0, <2>2
    <2> QED
      BY <1>0, <2>1, <2>2, <2>3, AddKeeps
  <1> QED
    BY <1>3, <1>4

\* Signing in and out replaces what the next login will use.
LEMMA SignKeeps == ASSUME IInv, SignIn \/ SignOut PROVE IInv'
  <1>1. PICK e \in Events : queue' = Enqueue(queue, e)
    BY EventKinds DEF SignIn, SignOut, Kinds
  <1>2. /\ UNCHANGED <<state, link, job, wires, api, work>>
        /\ token' \in {"good", "none"} /\ password' \in {"none", "once", "stored"}
    BY DEF SignIn, SignOut
  <1>3. queue \in Seq(Events) /\ job \in Job
    BY DEF IInv, Types, EngineTypes
  <1>4. queue' \in Seq(Events) /\ Range(queue) \subseteq Range(queue')
    BY <1>1, <1>3, AddLast
  <1>5. WireTypes' /\ SessionTypes' /\ WorkTypes'
    BY <1>2 DEF IInv, Types, WireTypes, SessionTypes, WorkTypes, wires, timers, socket, work, device
  <1>6. job.kind = "none" => job' = NoJob
    BY <1>2 DEF IInv, JobInv
  <1>7. UNCHANGED <<timer, poll, redial, ws, dirty, told, news, missed, rejected, state, link, job>>
    BY <1>2 DEF wires, timers, socket, work, device
  <1> QED
    BY <1>3, <1>4, <1>5, <1>6, <1>7, WorldKeeps

\* The socket's events restart the poll and may ask for a redial or a connect.
LEMMA SocketKeeps ==
    ASSUME IInv, NEW e \in {"opened", "errored", "closed", "staleTick"},
           NEW sock \in {"open", "failing", "closed", "silent"}, Socket(e, sock), ws # "none"
    PROVE  IInv'
  <1> DEFINE t == Transport(transport, e)
  <1>1. t.state \in {"offline", "dialing", "live", "degraded"} /\ t.asks \in {"nothing", "redial", "connect", "rews"}
    BY DEF Transport
  <1>2. /\ state # "unloading" /\ ws' = sock /\ transport' = t.state /\ poll' = TRUE
        /\ redial' = (redial \/ t.asks = "redial")
        /\ queue' \in {queue, Enqueue(queue, Event("rews")), Enqueue(queue, Event("connect"))}
        /\ UNCHANGED <<state, link, job, timer, session, work>>
    BY <1>1 DEF Socket
  <1> HIDE DEF t
  <1>3. state # "off"
    BY DEF IInv, Silent
  <1>4. queue \in Seq(Events) /\ job \in Job
    BY DEF IInv, Types, EngineTypes
  <1>5. queue' \in Seq(Events) /\ Range(queue) \subseteq Range(queue')
    BY <1>2, <1>4, AddLast, EventKinds, ZenonT(40) DEF Kinds
  <1>6. WireTypes' /\ SessionTypes' /\ WorkTypes'
    BY <1>1, <1>2 DEF IInv, Types, WireTypes, SessionTypes, WorkTypes, session, work, device
  <1>7. job.kind = "none" => job' = NoJob
    BY <1>2 DEF IInv, JobInv
  <1>8. UNCHANGED <<timer, dirty, told, news, missed, rejected, state, link, job>>
    BY <1>2 DEF work, device
  <1> QED
    BY <1>2, <1>3, <1>4, <1>5, <1>6, <1>7, <1>8, WorldKeeps

LEMMA SocketsKeep ==
    ASSUME IInv, SocketOpens \/ SocketErrors \/ SocketCloses \/ StaleTick \/ SocketFallsSilent
    PROVE  IInv'
  <1>1. CASE SocketOpens
    BY <1>1, SocketKeeps DEF SocketOpens
  <1>2. CASE SocketErrors
    <2>1. Socket("errored", "failing") /\ ws # "none"
      BY <1>2 DEF SocketErrors
    <2> QED
      BY <2>1, SocketKeeps
  <1>3. CASE SocketCloses
    <2>1. Socket("closed", "closed") /\ ws # "none"
      BY <1>3 DEF SocketCloses
    <2> QED
      BY <2>1, SocketKeeps
  <1>4. CASE StaleTick
    BY <1>4, SocketKeeps DEF StaleTick
  <1>5. CASE SocketFallsSilent
    <2>1. /\ ws = "open" /\ ws' = "silent" /\ UNCHANGED <<state, link, queue, job, timer, poll, redial, transport>>
          /\ UNCHANGED <<session, work>>
      BY <1>5 DEF SocketFallsSilent, engine, timers
    <2>2. state \notin {"off", "unloading"}
      BY <2>1 DEF IInv, Silent
    <2>3. queue' \in Seq(Events) /\ job' \in Job
      BY <2>1 DEF IInv, Types, EngineTypes
    <2>4. WireTypes' /\ SessionTypes' /\ WorkTypes'
      BY <2>1 DEF IInv, Types, WireTypes, SessionTypes, WorkTypes, session, work, device
    <2>5. job.kind = "none" => job' = NoJob
      BY <2>1 DEF IInv, JobInv
    <2>6. UNCHANGED <<dirty, told, news, missed, rejected>>
      BY <2>1 DEF work, device
    <2> QED
      BY <2>1, <2>2, <2>3, <2>4, <2>5, <2>6, WorldKeeps
  <1> QED
    BY <1>1, <1>2, <1>3, <1>4, <1>5

\* A change of a peer, the end of a session, a due scan, an edit and its event.
LEMMA OthersKeep ==
    ASSUME IInv, TokenExpires \/ ScanFallsDue \/ \E p \in Paths : PeerCommits(p) \/ Edit(p) \/ LocalEvent(p)
    PROVE  IInv'
  <1>0. queue \in Seq(Events) /\ job \in Job
    BY DEF IInv, Types, EngineTypes
  <1>a. job.kind = "none" => job = NoJob
    BY DEF IInv, JobInv
  <1>1. CASE TokenExpires
    <2>1. /\ UNCHANGED <<state, link, queue, job, wires, password, work>>
          /\ token' \in {token, "expired"} /\ api' \in {api, "expired"}
      BY <1>1 DEF TokenExpires, engine
    <2>2. WireTypes' /\ SessionTypes' /\ WorkTypes'
      BY <2>1 DEF IInv, Types, WireTypes, SessionTypes, WorkTypes, wires, timers, socket, work, device
    <2>3. UNCHANGED <<timer, poll, redial, ws, dirty, told, news, missed, rejected>>
      BY <2>1 DEF wires, timers, socket, work, device
    <2> QED
      BY <1>0, <1>a, <2>1, <2>2, <2>3, WorldKeeps
  <1>2. CASE ScanFallsDue
    <2>1. UNCHANGED <<state, link, queue, job, wires, session, rejected, missed, claims, device, news>> /\ scanDue' = TRUE
      BY <1>2 DEF ScanFallsDue, engine
    <2>2. WireTypes' /\ SessionTypes' /\ WorkTypes'
      BY <2>1 DEF IInv, Types, WireTypes, SessionTypes, WorkTypes, wires, timers, socket, session, device
    <2>3. UNCHANGED <<timer, poll, redial, ws, dirty, told, news, missed, rejected>>
      BY <2>1 DEF wires, timers, socket, device
    <2> QED
      BY <1>0, <1>a, <2>1, <2>2, <2>3, WorldKeeps
  <1>3. ASSUME NEW p \in Paths, PeerCommits(p) PROVE IInv'
    <2>1. /\ UNCHANGED <<state, link, job, wires, session, scanDue, rejected, missed, claims, device>>
          /\ news' = news \cup {p} /\ queue' \in {queue, Enqueue(queue, Event("remote"))}
      BY <1>3 DEF PeerCommits
    <2>2. WireTypes' /\ SessionTypes' /\ WorkTypes'
      BY <2>1 DEF IInv, Types, WireTypes, SessionTypes, WorkTypes, wires, timers, socket, session, device
    <2>3. UNCHANGED <<timer, poll, redial, ws, dirty, told, missed, rejected>>
      BY <2>1 DEF wires, timers, socket, device
    <2>4. queue' \in Seq(Events) /\ Range(queue) \subseteq Range(queue')
      BY <1>0, <2>1, AddLast, EventKinds DEF Kinds
    <2> QED
      BY <1>0, <1>a, <2>1, <2>2, <2>3, <2>4, WorldKeeps
  <1>4. ASSUME NEW p \in Paths, Edit(p) PROVE IInv'
    <2>1. /\ UNCHANGED <<state, link, queue, job, wires, session, scanDue, missed, claims, news>>
          /\ dirty' = dirty \cup {p} /\ told' = told \cup {p} /\ rejected' = rejected \ {p}
      BY <1>4 DEF Edit, engine
    <2>2. WireTypes' /\ SessionTypes' /\ WorkTypes'
      BY <2>1 DEF IInv, Types, WireTypes, SessionTypes, WorkTypes, wires, timers, socket, session
    <2>3. UNCHANGED <<timer, poll, redial, ws>>
      BY <2>1 DEF wires, timers, socket
    <2> QED
      BY <1>0, <1>a, <2>1, <2>2, <2>3, WorldKeeps
  <1>5. ASSUME NEW p \in Paths, LocalEvent(p) PROVE IInv'
    <2>1. /\ UNCHANGED <<state, link, wires, session, scanDue, rejected, missed, dirty, news>>
          /\ told' = told \ {p} /\ claims' = claims \cup {p}
          /\ queue' = Enqueue(queue, Edited(p)) /\ job' = [job EXCEPT !.old = @ \ {p}]
      BY <1>5 DEF LocalEvent
    <2>2. WireTypes' /\ SessionTypes' /\ WorkTypes'
      BY <2>1 DEF IInv, Types, WireTypes, SessionTypes, WorkTypes, wires, timers, socket, session
    <2>3. UNCHANGED <<timer, poll, redial, ws>>
      BY <2>1 DEF wires, timers, socket
    <2>4. /\ job' \in Job /\ job'.kind = job.kind /\ job'.step = job.step /\ job'.path = job.path /\ job'.todo = job.todo
      BY <1>0, <2>1 DEF Job
    <2>5. job.kind = "none" => job' = NoJob
      <3> SUFFICES ASSUME job = NoJob PROVE job' = NoJob
        BY <1>a
      <3>1. job.old \ {p} = job.old
        BY NoJobType
      <3>2. job' = [job EXCEPT !.old = job.old]
        BY <2>1, <3>1
      <3> QED
        BY <1>0, <3>2 DEF Job
    <2>6. queue' \in Seq(Events) /\ Range(queue) \subseteq Range(queue') /\ (state # "unloading" => Edited(p) \in Range(queue'))
      BY <1>0, <2>1, AddLast, EventKinds
    <2> QED
      BY <2>1, <2>2, <2>3, <2>4, <2>5, <2>6, WorldKeeps
  <1> QED
    BY <1>1, <1>2, <1>3, <1>4, <1>5

\* Unloading disarms everything; the job that runs goes on.
LEMMA UnloadKeeps == ASSUME IInv, Unload PROVE IInv'
  <1>1. /\ state' = "unloading" /\ link' = "ok" /\ queue' = <<>> /\ UNCHANGED <<job, session, work>>
        /\ timer' = FALSE /\ poll' = FALSE /\ redial' = FALSE /\ ws' = "none" /\ transport' = "offline"
    BY DEF Unload, Machine, Teardown
  <1>2. Types'
    <2>1. EngineTypes'
      <3>1. <<>> \in Seq(Events)
        OBVIOUS
      <3> QED
        BY <1>1, <3>1 DEF IInv, Types, EngineTypes, States
    <2>2. WireTypes' /\ SessionTypes' /\ WorkTypes'
      BY <1>1 DEF IInv, Types, WireTypes, SessionTypes, WorkTypes, session, work, device
    <2> QED
      BY <2>1, <2>2 DEF Types
  <1>3. JobInv'
    BY <1>1 DEF IInv, JobInv, work, device
  <1>4. Covered' /\ Silent' /\ NeverStranded'
    BY <1>1 DEF Covered, Listed, Connected, Silent, NeverStranded
  <1> QED
    BY <1>2, <1>3, <1>4 DEF IInv

-----------------------------------------------------------------------------
(* The next event *)

\* Every event that pump takes starts its job or is dropped for a reason.
LEMMA PumpKeeps == ASSUME IInv, Pump PROVE IInv'
  <1> DEFINE ev == Head(queue)
             rest == Tail(queue)
  <1>0. /\ queue \in Seq(Events) /\ queue # <<>> /\ job = NoJob /\ state # "unloading" /\ state \in States
        /\ claims \in SUBSET Paths /\ UNCHANGED <<work, commands>>
    BY DEF IInv, Types, EngineTypes, WorkTypes, Pump
  <1>1. ev \in Events /\ rest \in Seq(Events) /\ Range(queue) = {ev} \cup Range(rest)
    BY <1>0, TakeFirst
  <1>2. WorkTypes' /\ UNCHANGED <<dirty, told, news, missed, rejected, claims, scanDue>>
    BY <1>0 DEF IInv, Types, WorkTypes, work, device
  <1>3. Connected => \A p \in dirty : \/ p \in told \cup news \cup missed \cup rejected
                                      \/ p \in Paths /\ (ev = Edited(p) \/ Edited(p) \in Range(rest))
    <2>1. Connected => dirty \subseteq Underway
      BY DEF IInv, Covered, Listed
    <2> QED
      BY <1>0, <1>1, <2>1, NoJobType, EngineAssumption DEF Underway
  <1>4. /\ state = "disconnected" => timer \/ \E e \in Range(queue) : e.kind \in {"connect", "disconnect"}
    <2>1. \A k : Queued(k) <=> \E e \in Range(queue) : e.kind = k
      BY <1>0, QueuedRange
    <2> QED
      BY <1>0, <2>1, NoJobType DEF IInv, NeverStranded
  <1>5. \A k : Queued(k)' <=> \E e \in Range(queue)' : e.kind = k
    <2> SUFFICES ASSUME NEW k PROVE Queued(k)' <=> \E e \in Range(queue)' : e.kind = k
      OBVIOUS
    <2>1. queue' \in Seq(Events)
      <3>1. Only(rest, {"task"}) \in Seq(Events)
        BY <1>1, OnlyType
      <3>2. Enqueue(rest, Event("connect")) \in Seq(Events)
        BY <1>1, AddLast, EventKinds DEF Kinds
      <3>3. queue' \in {rest, Only(rest, {"task"}), Enqueue(rest, Event("connect"))}
        BY DEF Pump, Done
      <3> QED
        BY <1>1, <3>1, <3>2, <3>3
    <2>2. DOMAIN queue' = 1 .. Len(queue')
      BY <2>1
    <2> QED
      BY <2>2 DEF Queued, Range
  <1> HIDE DEF ev, rest
  <1>6. \A p : ev = Edited(p) => ev.kind = "path" /\ ev.path = p
    BY EventKinds DEF Edited
  <1>7. CASE /\ ev.kind = "disconnect" /\ link' = "ok" /\ Done("off", Only(rest, {"task"}))
             /\ Teardown /\ UNCHANGED <<session, faults>>
    <2>1. Only(rest, {"task"}) \in Seq(Events)
      BY <1>1, OnlyType
    <2>2. job' = NoJob /\ job' \in Job /\ queue' \in Seq(Events) /\ state' = "off"
      BY <1>7, <2>1, DoneEnds DEF States
    <2>3. EngineTypes' /\ SessionTypes' /\ WireTypes'
      BY <1>7, <2>2 DEF EngineTypes, States, SessionTypes, WireTypes, Teardown, session, IInv, Types
    <2>4. JobInv' /\ Covered' /\ NeverStranded'
      BY <2>2, NoJobType DEF JobInv, Covered, Listed, Connected, NeverStranded
    <2>5. Silent'
      BY <1>7 DEF Silent, Teardown
    <2> QED
      BY <1>2, <2>3, <2>4, <2>5 DEF IInv, Types
  <1>8. CASE /\ ev.kind = "connect"
             /\ state' = Machine(state, "connectStart")
             /\ queue' = rest
             /\ job' = [[NoJob EXCEPT !.kind = ev.kind, !.path = ev.path, !.old = claims]
                            EXCEPT !.step = IF token = "none" THEN "login" ELSE "status"]
             /\ api' = IF token = "none" THEN api ELSE token
             /\ timer' = FALSE /\ redial' = FALSE
             /\ ws' = "none" /\ transport' = "offline"
             /\ UNCHANGED <<link, poll, token, password, faults>>
    <2>1. state' \in {"disconnected", "connecting"}
      BY <1>0, <1>8 DEF Machine
    <2>2. PICK s \in {"login", "status"} : s = IF token = "none" THEN "login" ELSE "status"
      OBVIOUS
    <2>3. job' \in Job /\ job'.kind = "connect" /\ job'.path = NoPath /\ job'.step = s /\ job'.todo = {}
      <3>1. ev.path = NoPath
        BY <1>1, <1>8, EventKinds
      <3>2. job' = [[NoJob EXCEPT !.kind = ev.kind, !.path = ev.path, !.old = claims] EXCEPT !.step = s]
        BY <1>8, <2>2, Zenon
      <3> QED
        BY <1>0, <1>8, <3>1, <3>2 DEF NoJob, Job
    <2>4. EngineTypes' /\ SessionTypes' /\ WireTypes'
      BY <1>1, <1>8, <2>1, <2>3 DEF EngineTypes, States, SessionTypes, WireTypes, IInv, Types
    <2>5. JobInv' /\ Covered' /\ NeverStranded' /\ Silent'
      BY <2>1, <2>3 DEF JobInv, Covered, Listed, Connected, NeverStranded, Silent
    <2> QED
      BY <1>2, <2>4, <2>5 DEF IInv, Types
  <1>9. CASE /\ ev.kind \in {"remote", "path"} /\ Connected
             /\ state' = IF ev.kind = "path" THEN Machine(state, "work") ELSE state
             /\ queue' = rest
             /\ job' = [[NoJob EXCEPT !.kind = ev.kind, !.path = ev.path, !.old = claims]
                            EXCEPT !.step = IF ev.kind = "path" THEN "meta" ELSE "changes"]
             /\ UNCHANGED <<link, wires, session, faults>>
    <2>1. state' \in {"reconciling", "idle"}
      BY <1>0, <1>9 DEF Machine, Connected
    <2>2. PICK s \in {"meta", "changes"} : s = IF ev.kind = "path" THEN "meta" ELSE "changes"
      OBVIOUS
    <2>3. job' \in Job /\ job'.kind = ev.kind /\ job'.path = ev.path /\ job'.step = s /\ job'.todo = {}
      <3>1. job' = [[NoJob EXCEPT !.kind = ev.kind, !.path = ev.path, !.old = claims] EXCEPT !.step = s]
        BY <1>9, <2>2, Zenon
      <3>2. ev.path \in Paths \cup {NoPath}
        BY <1>1, EventKinds
      <3> QED
        BY <1>0, <1>9, <3>1, <3>2 DEF NoJob, Job
    <2>4. EngineTypes' /\ SessionTypes' /\ WireTypes'
      BY <1>1, <1>9, <2>1, <2>3 DEF EngineTypes, States, SessionTypes, WireTypes, IInv, Types, wires, timers, socket, session
    <2>5. (ev.kind = "path" => ev.path \in Paths) /\ (ev.kind = "remote" => ev.path = NoPath)
      BY <1>1, EventKinds DEF Kinds
    <2>6. JobInv' /\ NeverStranded' /\ Silent'
      BY <1>9, <2>1, <2>2, <2>3, <2>5 DEF JobInv, NeverStranded, Silent
    <2>7. Covered'
      <3> SUFFICES ASSUME NEW p \in dirty PROVE p \in Underway'
        BY <1>2 DEF Covered
      <3>1. CASE p \in told \cup news \cup missed \cup rejected
        BY <1>2, <3>1 DEF Underway
      <3>2. CASE p \in Paths /\ Edited(p) \in Range(rest)
        BY <1>9, <3>2 DEF Underway
      <3>3. CASE p \in Paths /\ ev = Edited(p)
        BY <1>6, <2>2, <2>3, <3>3 DEF Underway
      <3> QED
        BY <1>3, <1>9, <3>1, <3>2, <3>3
    <2> QED
      BY <1>2, <2>4, <2>6, <2>7 DEF IInv, Types
  <1>10. CASE /\ ev.kind = "task"
              /\ queue' = rest
              /\ job' = [[NoJob EXCEPT !.kind = ev.kind, !.path = ev.path, !.old = claims] EXCEPT !.step = "run"]
              /\ UNCHANGED <<state, link, wires, session, faults>>
    <2>1. job' \in Job /\ job'.kind = "task" /\ job'.path = NoPath /\ job'.step = "run" /\ job'.todo = {}
      <3>1. ev.path = NoPath
        BY <1>1, <1>10, EventKinds
      <3> QED
        BY <1>0, <1>10, <3>1 DEF NoJob, Job
    <2>2. EngineTypes' /\ SessionTypes' /\ WireTypes'
      BY <1>1, <1>10, <2>1 DEF EngineTypes, SessionTypes, WireTypes, IInv, Types, wires, timers, socket, session
    <2>3. JobInv'
      BY <2>1 DEF JobInv
    <2>4. Covered'
      <3>1. Listed' => Connected
        BY <1>10, <2>1 DEF Listed, Connected
      <3>2. Connected => \A p \in dirty : p \in told \cup news \cup missed \cup rejected
                                            \/ (p \in Paths /\ Edited(p) \in Range(rest))
        BY <1>3, <1>6, <1>10
      <3> QED
        BY <1>2, <1>10, <3>1, <3>2 DEF Covered, Underway
    <2>5. Silent'
      BY <1>10 DEF Silent, IInv, wires, timers, socket
    <2>6. NeverStranded'
      BY <1>1, <1>4, <1>5, <1>10 DEF NeverStranded, wires, timers
    <2> QED
      BY <1>2, <2>2, <2>3, <2>4, <2>5, <2>6 DEF IInv, Types
  <1>11. ASSUME ev.kind = "rews", Connected, NEW q \in Seq(Events), Range(rest) \subseteq Range(q), Done(state, q),
                timer' \in BOOLEAN, poll' \in BOOLEAN, NEW up \in BOOLEAN, SpinUpWs(up), UNCHANGED <<link, session>>
         PROVE  IInv'
    <2>1. /\ job' = NoJob /\ job' \in Job /\ queue' = q /\ queue' \in Seq(Events)
          /\ state' \in {"reconciling", "idle"}
      <3>1. state \in {"reconciling", "idle"}
        BY <1>11 DEF Connected
      <3> QED
        BY <1>0, <1>11, <3>1, DoneEnds
    <2>2. EngineTypes' /\ SessionTypes'
      BY <1>11, <2>1 DEF EngineTypes, States, SessionTypes, IInv, Types, session
    <2>3. WireTypes'
      BY <1>0, <1>11 DEF WireTypes, SpinUpWs, IInv, Types
    <2>4. JobInv' /\ NeverStranded' /\ Silent'
      BY <2>1, NoJobType DEF JobInv, NeverStranded, Silent
    <2>5. Covered'
      <3>1. \A p \in dirty : p \in told \cup news \cup missed \cup rejected \/ (p \in Paths /\ Edited(p) \in Range(q))
        BY <1>3, <1>6, <1>11
      <3> QED
        BY <1>2, <2>1, <3>1 DEF Covered, Underway
    <2> QED
      BY <1>2, <2>2, <2>3, <2>4, <2>5 DEF IInv, Types
  <1>12. CASE /\ ev.kind = "rews" /\ Connected /\ Done(state, rest) /\ SpinUpWs(TRUE) /\ poll' = TRUE
              /\ UNCHANGED <<link, timer, session, faults>>
    <2>1. timer' \in BOOLEAN
      BY <1>12 DEF IInv, Types, WireTypes
    <2> QED
      BY <1>1, <1>11, <1>12, <2>1
  <1>13. CASE /\ ev.kind = "rews" /\ Connected /\ Done(state, Enqueue(rest, Event("connect"))) /\ SpinUpWs(FALSE)
              /\ UNCHANGED <<link, timer, poll, session>>
    <2>1. timer' \in BOOLEAN /\ poll' \in BOOLEAN
      BY <1>13 DEF IInv, Types, WireTypes
    <2>2. Enqueue(rest, Event("connect")) \in Seq(Events) /\ Range(rest) \subseteq Range(Enqueue(rest, Event("connect")))
      BY <1>1, AddLast, EventKinds DEF Kinds
    <2> QED
      BY <1>11, <1>13, <2>1, <2>2
  <1>14. CASE /\ ev.kind \in {"remote", "path", "rews"} /\ ~Connected /\ Done(state, rest)
              /\ UNCHANGED <<link, wires, session, faults>>
    <2>1. job' = NoJob /\ job' \in Job /\ queue' = rest /\ queue' \in Seq(Events) /\ state' = state
      <3>1. state # "reconciling"
        BY <1>14 DEF Connected
      <3> QED
        BY <1>0, <1>1, <1>14, <3>1, DoneEnds
    <2>2. EngineTypes' /\ SessionTypes' /\ WireTypes'
      BY <1>14, <2>1 DEF EngineTypes, SessionTypes, WireTypes, IInv, Types, wires, timers, socket, session
    <2>3. JobInv' /\ Covered'
      BY <1>14, <2>1, NoJobType DEF JobInv, Covered, Listed, Connected
    <2>4. Silent'
      BY <1>14, <2>1 DEF Silent, IInv, wires, timers, socket
    <2>5. NeverStranded'
      BY <1>1, <1>4, <1>5, <1>14, <2>1 DEF NeverStranded, wires, timers
    <2> QED
      BY <1>2, <2>2, <2>3, <2>4, <2>5 DEF IInv, Types
  <1> QED
    BY <1>7, <1>8, <1>9, <1>10, <1>12, <1>13, <1>14, Zenon DEF Pump, ev, rest

-----------------------------------------------------------------------------
(* The steps of a job *)

\* A job goes on.
LEMMA StepKeeps ==
    ASSUME IInv, UNCHANGED <<state, link, queue, wires>>, SessionTypes', WorkTypes',
           job' \in Job, job'.kind = job.kind, JobInv', Covered'
    PROVE  IInv'
  <1>1. EngineTypes' /\ WireTypes'
    BY DEF IInv, Types, EngineTypes, WireTypes, wires, timers, socket
  <1>2. Silent'
    BY DEF IInv, Silent, wires, timers, socket
  <1>3. NeverStranded'
    <2>1. \A k : Queued(k)' <=> Queued(k)
      BY DEF Queued
    <2> QED
      BY <2>1 DEF IInv, NeverStranded, wires, timers
  <1> QED
    BY <1>1, <1>2, <1>3 DEF IInv, Types

\* What IInv says of a job that is at a call.
LEMMA OfJob ==
    ASSUME IInv
    PROVE  /\ job \in Job /\ state \in States /\ queue \in Seq(Events) /\ WorkTypes /\ SessionTypes /\ JobInv
           /\ rejected \in SUBSET Paths /\ missed \in SUBSET Paths /\ claims \in SUBSET Paths
           /\ dirty \in SUBSET Paths /\ told \in SUBSET Paths /\ news \in SUBSET Paths
           /\ Listed => dirty \subseteq Underway
           /\ job.step \notin {"none", "run"} => job.kind \in {"connect", "remote", "path"}
  BY DEF IInv, Types, EngineTypes, WorkTypes, JobInv, Covered, Job

\* Calls that only move the job to its next step, or back to a login.
LEMMA CallsKeep ==
    ASSUME IInv, Login \/ StatusReady \/ Push PROVE IInv'
  <1>0. /\ job \in Job /\ JobInv /\ (job.step \notin {"none", "run"} => job.kind \in {"connect", "remote", "path"})
        /\ Listed => dirty \subseteq Underway
    BY OfJob
  <1>1. PICK s \in {"status", "changes", "meta", "commit"} :
            /\ job' = [job EXCEPT !.step = s]
            /\ \/ job.step = "login" /\ s = FirstStep
               \/ job.step = "status" /\ s = "changes"
               \/ job.step = "push" /\ s = "commit"
    <2>1. CASE Login
      <3>1. FirstStep \in {"status", "changes", "meta"}
        BY <1>0, <2>1 DEF Login, FirstStep
      <3>2. PICK f : f = FirstStep
        OBVIOUS
      <3>3. job' = [job EXCEPT !.step = f] /\ job.step = "login"
        BY <2>1, <3>2, Zenon DEF Login
      <3> QED
        BY <3>1, <3>2, <3>3, Zenon
    <2>2. CASE StatusReady
      BY <2>2, Zenon DEF StatusReady
    <2>3. CASE Push
      BY <2>3, Zenon DEF Push
    <2> QED
      BY <2>1, <2>2, <2>3
  <1>2. /\ job' \in Job /\ job'.step = s /\ job'.kind = job.kind /\ job'.path = job.path /\ job'.todo = job.todo
    BY <1>0, <1>1 DEF Job
  <1>3. /\ UNCHANGED <<state, link, queue, wires, work>> /\ SessionTypes'
    BY DEF Login, StatusReady, Push, session, IInv, Types, SessionTypes
  <1>4. WorkTypes' /\ UNCHANGED <<dirty, told, news, missed, rejected>>
    BY <1>3 DEF IInv, Types, WorkTypes, work, device
  <1>5. s \in {"status", "changes", "meta"} => job.step \in {"login", "status"}
    BY <1>1
  <1>6. s = "commit" => job.step = "push"
    <2>1. job.step = "login" => FirstStep # "commit"
      BY <1>0 DEF FirstStep
    <2> QED
      BY <1>1, <2>1
  <1>7. JobInv'
    <2>1. job.step = "login" => s = FirstStep
      BY <1>1
    <2>2. /\ job.kind = "path" /\ job.step = "login" => s = "meta"
          /\ job.kind = "remote" /\ job.step = "login" => s = "changes"
          /\ job.kind = "connect" /\ job.step = "login" => s = "status"
      BY <2>1 DEF FirstStep
    <2>3. job.step = "status" => s = "changes"
      BY <1>1
    <2>4. job.step \in {"login", "status", "push"} /\ (job.step = "push" => s = "commit")
      BY <1>1
    <2>5. UNCHANGED <<state, rejected>>
      BY <1>3, <1>4
    <2>6. CASE job.step = "push"
      BY <1>0, <1>2, <2>4, <2>5, <2>6 DEF JobInv
    <2>7. CASE job.step \in {"login", "status"}
      BY <1>0, <1>2, <2>2, <2>3, <2>5, <2>7 DEF JobInv
    <2> QED
      BY <2>4, <2>6, <2>7
  <1>8. Covered'
    <2>1. Listed' => Listed
      BY <1>2, <1>3, <1>6 DEF Listed, Connected
    <2>2. Underway \subseteq Underway'
      <3>1. job.step \notin {"push", "commit"} => s \notin {"push", "commit"}
        BY <1>6
      <3> QED
        BY <1>2, <1>3, <1>4, <3>1 DEF Underway
    <2> QED
      BY <1>0, <1>4, <2>1, <2>2 DEF Covered
  <1> QED
    BY <1>2, <1>3, <1>4, <1>7, <1>8, StepKeeps

\* A call that fails.
LEMMA FailuresKeep ==
    ASSUME IInv, NoPassword \/ CallFails \/ Rejected401 PROVE IInv'
  <1>0. /\ job \in Job /\ JobInv /\ (job.step \notin {"none", "run"} => job.kind \in {"connect", "remote", "path"})
        /\ Listed => dirty \subseteq Underway
    BY OfJob
  <1>1. ASSUME NEW class, FailWith(class), UNCHANGED <<socket, session, work>> PROVE IInv'
    <2>1. SessionTypes' /\ WorkTypes'
      BY <1>1 DEF IInv, Types, SessionTypes, WorkTypes, session, work, device
    <2> QED
      BY <1>1, <2>1, FailKeeps
  <1>2. CASE NoPassword
    BY <1>1, <1>2 DEF NoPassword
  <1>3. CASE CallFails
    BY <1>1, <1>3 DEF CallFails
  <1>4. CASE Rejected401
    <2>1. CASE /\ token' = "none" /\ job' = [job EXCEPT !.step = "login", !.relogin = TRUE]
               /\ job.step \in {"status", "changes"}
               /\ UNCHANGED <<state, link, queue, timers, api, password, socket, work>>
      <3>1. job' \in Job /\ job'.step = "login" /\ job'.kind = job.kind /\ job'.path = job.path /\ job'.todo = job.todo
        BY <1>0, <2>1 DEF Job
      <3>2. SessionTypes' /\ WorkTypes' /\ UNCHANGED <<dirty, told, news, missed, rejected>> /\ UNCHANGED wires
        BY <2>1 DEF IInv, Types, SessionTypes, WorkTypes, work, device, wires
      <3>3. JobInv'
        BY <1>0, <2>1, <3>1, <3>2 DEF JobInv
      <3>4. Covered'
        <4>1. Listed' => Listed
          BY <2>1, <3>1 DEF Listed, Connected
        <4>2. Underway \subseteq Underway'
          BY <2>1, <3>1, <3>2 DEF Underway
        <4> QED
          BY <1>0, <3>2, <4>1, <4>2 DEF Covered
      <3> QED
        BY <2>1, <3>1, <3>2, <3>3, <3>4, StepKeeps
    <2>2. CASE \E class : FailWith(class) /\ UNCHANGED <<socket, session, work>>
      BY <1>1, <2>2
    <2> QED
      BY <1>4, <2>1, <2>2, Zenon DEF Rejected401
  <1> QED
    BY <1>2, <1>3, <1>4

\* The listing: a full scan looks at every path, another pass at those that changed.
LEMMA ChangesKeeps == ASSUME IInv, Changes PROVE IInv'
  <1>0. /\ job \in Job /\ JobInv /\ job.kind \in {"connect", "remote"} /\ state \in States
        /\ WorkTypes /\ SessionTypes /\ queue \in Seq(Events)
        /\ Listed => dirty \subseteq Underway
    BY OfJob DEF Changes, JobInv
  <1>1. PICK full \in BOOLEAN : full = (job.kind = "connect" \/ scanDue)
    BY Zenon
  <1>2. PICK todo \in SUBSET Paths : todo = IF full THEN Paths ELSE news
    BY <1>0 DEF WorkTypes
  <1>3. /\ job.step = "changes"
        /\ job' = [job EXCEPT !.step = "pass", !.full = full, !.todo = todo]
        /\ missed' = IF full THEN {} ELSE missed
        /\ news' = {}
        /\ state' \in {state, Machine(state, "work")}
        /\ UNCHANGED <<link, queue, wires, session, scanDue, rejected, claims, device>>
    BY <1>1, <1>2, Zenon DEF Changes
  <1>4. job' \in Job /\ job'.step = "pass" /\ job'.kind = job.kind /\ job'.path = job.path /\ job'.todo = todo
    BY <1>0, <1>3 DEF Job
  <1>5. job.path = NoPath
    BY <1>0, <1>3 DEF JobInv
  <1>6. /\ state' = state \/ (state \in {"connecting", "disconnected", "idle"} /\ state' = "reconciling")
    BY <1>0, <1>3 DEF Machine
  <1>7. UNCHANGED <<dirty, told, rejected>> /\ WorkTypes' /\ SessionTypes'
    BY <1>0, <1>3 DEF WorkTypes, SessionTypes, session, device
  <1>8. EngineTypes' /\ WireTypes'
    <2>1. state' \in States
      BY <1>0, <1>6 DEF States
    <2> QED
      BY <1>0, <1>3, <1>4, <2>1 DEF IInv, Types, EngineTypes, WireTypes, wires, timers, socket
  <1>9. JobInv'
    BY <1>0, <1>4, <1>5, <1>6 DEF JobInv
  <1>10. Covered'
    <2> SUFFICES ASSUME Listed', NEW p \in dirty PROVE p \in Underway'
      BY <1>7 DEF Covered
    <2>1. p \in Paths
      BY <1>0 DEF WorkTypes
    <2>2. CASE full
      BY <1>2, <1>4, <2>1, <2>2 DEF Underway
    <2>3. CASE ~full
      <3>1. job.kind = "remote"
        BY <1>0, <1>1, <2>3
      <3>2. state \in {"reconciling", "idle"}
        BY <1>0, <1>4, <1>6, <3>1 DEF JobInv, Listed, Connected
      <3>3. p \in Underway /\ job.path # p
        BY <1>0, <1>5, <2>1, <3>2, EngineAssumption DEF Listed, Connected
      <3>4. CASE p \in told \cup missed \cup rejected
        BY <1>3, <1>7, <2>3, <3>4 DEF Underway
      <3>5. CASE p \in news
        BY <1>2, <1>4, <2>3, <3>5 DEF Underway
      <3>6. CASE Edited(p) \in Range(queue)
        BY <1>3, <2>1, <3>6 DEF Underway
      <3>7. job.todo = {}
        BY <1>0, <1>3 DEF JobInv
      <3> QED
        BY <3>3, <3>4, <3>5, <3>6, <3>7 DEF Underway
    <2> QED
      BY <2>2, <2>3
  <1>11. Silent'
    BY <1>3, <1>6 DEF IInv, Silent, wires, timers, socket
  <1>12. NeverStranded'
    <2>1. \A k : Queued(k)' <=> Queued(k)
      BY <1>3 DEF Queued
    <2> QED
      BY <1>3, <1>4, <1>6, <2>1 DEF IInv, NeverStranded, wires, timers
  <1> QED
    BY <1>7, <1>8, <1>9, <1>10, <1>11, <1>12 DEF IInv, Types

\* A path of the pass or of the job is read and taken in hand.
LEMMA TakeKeeps ==
    ASSUME IInv, NEW p \in Paths \ rejected, Take(p), state # "unloading",
           job.kind \in {"connect", "remote", "path"}, job.kind = "path" => p = job.path,
           job.kind # "path" => job.step = "pass",
           UNCHANGED <<link, wires, session, scanDue, rejected, missed, told>>,
           news' \in {news, news \ {p}}
    PROVE  IInv'
  <1>0. /\ job \in Job /\ JobInv /\ WorkTypes /\ SessionTypes /\ (Listed => dirty \subseteq Underway)
    BY OfJob
  <1>1. PICK todo \in SUBSET Paths : todo = job.todo \ {p}
    BY <1>0 DEF Job
  <1>2. job' = [job EXCEPT !.step = "push", !.path = p, !.todo = todo]
    BY <1>1, Zenon DEF Take
  <1>3. job' \in Job /\ job'.kind = job.kind /\ job'.step = "push" /\ job'.path = p /\ job'.todo = todo
    BY <1>0, <1>2 DEF Job
  <1>4. dirty' = dirty \ {p} /\ UNCHANGED <<state, queue, claims>>
    BY DEF Take
  <1>5. SessionTypes' /\ WorkTypes'
    BY <1>0, <1>4 DEF SessionTypes, WorkTypes, session
  <1>6. JobInv'
    BY <1>0, <1>1, <1>3, <1>4 DEF JobInv
  <1>7. Covered'
    <2>1. Listed' => Listed
      BY <1>0, <1>3, <1>4 DEF Listed, Connected, JobInv
    <2>2. ASSUME NEW x \in Underway, x # p PROVE x \in Underway'
      <3>1. job.path = x => x \notin Paths
        BY <1>0, <2>2, EngineAssumption DEF JobInv
      <3>2. CASE x \in told \cup missed \cup rejected
        BY <3>2 DEF Underway
      <3>3. CASE x \in news
        BY <2>2, <3>3 DEF Underway
      <3>4. CASE x \in job.todo
        BY <1>1, <1>3, <2>2, <3>4 DEF Underway
      <3>5. CASE x \in Paths /\ Edited(x) \in Range(queue)
        BY <1>4, <3>5 DEF Underway
      <3> QED
        BY <2>2, <3>1, <3>2, <3>3, <3>4, <3>5 DEF Underway
    <2> QED
      BY <1>0, <1>4, <2>1, <2>2 DEF Covered
  <1> QED
    BY <1>3, <1>4, <1>5, <1>6, <1>7, StepKeeps

\* A path that a pass passes by needs no push, or was refused before.
LEMMA ItemKeeps == ASSUME IInv, NEW p \in Paths, Item(p) PROVE IInv'
  <1>0. /\ job \in Job /\ JobInv /\ WorkTypes /\ SessionTypes /\ job.step = "pass" /\ p \in job.todo
        /\ job.kind \in {"connect", "remote"} /\ (Listed => dirty \subseteq Underway)
    BY OfJob DEF Item, JobInv
  <1>1. UNCHANGED <<link, wires, session, scanDue, rejected, missed, told, news>>
    BY DEF Item
  <1>2. CASE p \in dirty \ rejected /\ state # "unloading" /\ Take(p)
    <2>1. p \in Paths \ rejected /\ news' \in {news, news \ {p}} /\ job.kind \in {"connect", "remote", "path"}
          /\ (job.kind = "path" => p = job.path) /\ (job.kind # "path" => job.step = "pass")
      BY <1>0, <1>1, <1>2
    <2> QED
      BY <1>1, <1>2, <2>1, TakeKeeps
  <1>3. CASE /\ ~(p \in dirty \ rejected /\ state # "unloading")
             /\ job' = [job EXCEPT !.todo = @ \ {p}] /\ UNCHANGED <<state, queue, claims, dirty>>
    <2>1. PICK todo \in SUBSET Paths : todo = job.todo \ {p}
      BY <1>0 DEF Job
    <2>2. job' = [job EXCEPT !.todo = todo]
      BY <1>3, <2>1, Zenon
    <2>3. job' \in Job /\ job'.kind = job.kind /\ job'.step = job.step /\ job'.path = job.path /\ job'.todo = todo
      BY <1>0, <2>2 DEF Job
    <2>4. SessionTypes' /\ WorkTypes'
      BY <1>0, <1>1, <1>3 DEF SessionTypes, WorkTypes, session
    <2>5. JobInv'
      BY <1>0, <1>1, <1>3, <2>3 DEF JobInv
    <2>6. Covered'
      <3> SUFFICES ASSUME Listed', NEW x \in dirty PROVE x \in Underway'
        BY <1>3 DEF Covered
      <3>1. Listed /\ state # "unloading"
        BY <1>3, <2>3 DEF Listed, Connected
      <3>2. x \in Underway
        BY <1>0, <3>1
      <3>3. CASE x = p
        BY <1>1, <1>3, <3>1, <3>3 DEF Underway
      <3>4. CASE x # p
        <4>1. job.path = NoPath /\ NoPath \notin Paths
          BY <1>0, EngineAssumption DEF JobInv
        <4>2. x \in told \cup news \cup missed \cup rejected \cup todo \/ (x \in Paths /\ Edited(x) \in Range(queue))
          BY <2>1, <3>2, <3>4, <4>1 DEF Underway
        <4> QED
          BY <1>1, <1>3, <2>3, <4>2 DEF Underway
      <3> QED
        BY <3>3, <3>4
    <2> QED
      BY <1>1, <1>3, <2>3, <2>4, <2>5, <2>6, StepKeeps
  <1> QED
    BY <1>2, <1>3, Zenon DEF Item

\* reconcilePath has read the server's record of its path.
LEMMA MetaKeeps == ASSUME IInv, Meta PROVE IInv'
  <1>0. /\ job \in Job /\ JobInv /\ WorkTypes /\ SessionTypes /\ job.step = "meta"
        /\ job.kind = "path" /\ job.path \in Paths /\ job.todo = {} /\ (Listed => dirty \subseteq Underway)
    BY OfJob DEF Meta, JobInv
  <1>1. UNCHANGED <<link, wires, session, scanDue, rejected, missed, told>> /\ news' = news \ {job.path}
    BY DEF Meta
  <1>2. PICK p : p = job.path
    OBVIOUS
  <1>3. CASE p \in dirty \ rejected /\ Take(p)
    <2>1. CASE state = "unloading"
      <3>1. PICK todo \in SUBSET Paths : todo = job.todo \ {p}
        BY <1>0 DEF Job
      <3>2. job' = [job EXCEPT !.step = "push", !.path = p, !.todo = todo]
        BY <1>3, <3>1, Zenon DEF Take
      <3>3. job' \in Job /\ job'.kind = job.kind /\ job'.step = "push" /\ job'.path = p /\ job'.todo = todo
        BY <1>0, <1>2, <3>2 DEF Job
      <3>4. dirty' = dirty \ {p} /\ UNCHANGED <<state, queue, claims>>
        BY <1>3 DEF Take
      <3>5. SessionTypes' /\ WorkTypes'
        BY <1>0, <1>1, <3>4 DEF SessionTypes, WorkTypes, session
      <3>6. JobInv'
        BY <1>0, <1>1, <1>2, <1>3, <3>1, <3>3, <3>4 DEF JobInv
      <3>7. Covered'
        BY <2>1, <3>4 DEF Covered, Listed, Connected
      <3> QED
        BY <1>1, <3>3, <3>4, <3>5, <3>6, <3>7, StepKeeps
    <2>2. CASE state # "unloading"
      <3>1. p \in Paths \ rejected /\ news' \in {news, news \ {p}} /\ job.kind \in {"connect", "remote", "path"}
            /\ (job.kind = "path" => p = job.path) /\ (job.kind # "path" => job.step = "pass")
        BY <1>0, <1>1, <1>2, <1>3
      <3> QED
        BY <1>1, <1>3, <2>2, <3>1, TakeKeeps
    <2> QED
      BY <2>1, <2>2
  <1>4. CASE p \notin dirty \ rejected /\ Done(state, queue) /\ claims' = claims \ {p} /\ UNCHANGED dirty
    <2>1. SessionTypes' /\ WorkTypes'
      BY <1>0, <1>1, <1>4 DEF SessionTypes, WorkTypes, session
    <2>2. Connected => dirty' \subseteq told' \cup news' \cup missed' \cup rejected'
                                           \cup {x \in Paths : Edited(x) \in Range(queue)}
      <3> SUFFICES ASSUME Connected, NEW x \in dirty
                   PROVE  x \in told' \cup news' \cup missed' \cup rejected' \cup {y \in Paths : Edited(y) \in Range(queue)}
        BY <1>4
      <3>1. x \in Underway
        BY <1>0 DEF Listed
      <3>2. CASE x = p
        BY <1>1, <1>4, <3>2
      <3>3. CASE x # p
        BY <1>0, <1>1, <1>2, <3>1, <3>3 DEF Underway
      <3> QED
        BY <3>2, <3>3
    <2> QED
      BY <1>0, <1>1, <1>4, <2>1, <2>2, EndKeeps
  <1> QED
    BY <1>2, <1>3, <1>4, Zenon DEF Meta

\* The path in hand is done with; an edit made since it was read has its own way.
LEMMA OnwardKeeps ==
    ASSUME IInv, NEW u \in SUBSET Paths, NEW f \in SUBSET Paths, Onward(u, f), u \subseteq news \cup f,
           job.step \in {"push", "commit"}, UNCHANGED <<socket, session, scanDue, told, news>>,
           rejected' \in SUBSET Paths, rejected \subseteq rejected'
    PROVE  IInv'
  <1>0. /\ job \in Job /\ JobInv /\ WorkTypes /\ SessionTypes /\ job.kind \in {"connect", "remote", "path"}
        /\ (Listed => dirty \subseteq Underway)
    BY OfJob
  <1>1. dirty' = dirty \cup u /\ missed' = missed \cup f /\ UNCHANGED <<link, wires>>
    BY DEF Onward, wires
  <1>2. SessionTypes'
    BY <1>0 DEF SessionTypes, session
  <1>3. ASSUME NEW x \in dirty', Listed
        PROVE  \/ x \in told' \cup news' \cup missed' \cup rejected' \cup job.todo
               \/ x \in Paths /\ Edited(x) \in Range(queue)
    <2>1. CASE x \in u
      BY <1>1, <2>1
    <2>2. CASE x \in dirty
      <3>1. x \in Underway
        BY <1>0, <1>3, <2>2
      <3> QED
        BY <1>1, <3>1 DEF Underway
    <2> QED
      BY <1>1, <1>3, <2>1, <2>2
  <1>4. CASE job.kind = "path" /\ Done(state, queue) /\ claims' = claims \ {job.path}
    <2>1. WorkTypes'
      BY <1>0, <1>1, <1>4 DEF WorkTypes
    <2>2. job.todo = {}
      BY <1>0, <1>4 DEF JobInv
    <2>3. Connected => dirty' \subseteq told' \cup news' \cup missed' \cup rejected'
                                           \cup {x \in Paths : Edited(x) \in Range(queue)}
      BY <1>3, <2>2 DEF Listed
    <2> QED
      BY <1>1, <1>2, <1>4, <2>1, <2>3, EndKeeps
  <1>5. CASE /\ job.kind # "path" /\ job' = [job EXCEPT !.step = "pass", !.path = NoPath]
             /\ UNCHANGED <<state, queue, claims>>
    <2>1. job' \in Job /\ job'.kind = job.kind /\ job'.step = "pass" /\ job'.path = NoPath /\ job'.todo = job.todo
      BY <1>0, <1>5 DEF Job
    <2>2. WorkTypes'
      BY <1>0, <1>1, <1>5 DEF WorkTypes
    <2>3. JobInv'
      BY <1>0, <1>5, <2>1 DEF JobInv
    <2>4. Covered'
      <3>1. Listed' => Listed
        BY <1>5, <2>1 DEF Listed, Connected
      <3> QED
        BY <1>3, <1>5, <2>1, <3>1 DEF Covered, Underway
    <2> QED
      BY <1>1, <1>2, <1>5, <2>1, <2>2, <2>3, <2>4, StepKeeps
  <1> QED
    BY <1>4, <1>5, Zenon DEF Onward

\* A push failed, on its own or with the connection.
LEMMA PutBackKeeps ==
    ASSUME IInv, NEW class, NEW aborts \in BOOLEAN, PutBack(class, aborts), job.step \in {"push", "commit"},
           UNCHANGED <<socket, session, scanDue, told, news>>,
           rejected' \in SUBSET Paths, rejected \subseteq rejected'
    PROVE  IInv'
  <1>0. /\ job \in Job /\ JobInv /\ WorkTypes /\ SessionTypes /\ job.path \in Paths
    BY OfJob DEF JobInv
  <1>1. CASE FailWith(class) /\ dirty' = dirty \cup {job.path} /\ UNCHANGED <<claims, missed>>
    <2>1. SessionTypes' /\ WorkTypes'
      BY <1>0, <1>1 DEF SessionTypes, WorkTypes, session
    <2> QED
      BY <1>1, <2>1, FailKeeps
  <1>2. CASE Onward({job.path}, {job.path})
    <2>1. PICK u \in SUBSET Paths : u = {job.path}
      BY <1>0
    <2>2. Onward(u, u) /\ u \subseteq news \cup u
      BY <1>2, <2>1
    <2> QED
      BY <2>2, OnwardKeeps
  <1> QED
    BY <1>1, <1>2, Zenon DEF PutBack

\* A push is refused, fails or is committed.
LEMMA PushesKeep == ASSUME IInv, Push401 \/ PushFails \/ Commit PROVE IInv'
  <1>0. /\ job \in Job /\ JobInv /\ WorkTypes /\ SessionTypes /\ job.step \in {"push", "commit"}
        /\ job.path \in Paths \ rejected /\ rejected \in SUBSET Paths
        /\ (Listed => dirty \subseteq Underway)
    BY OfJob DEF JobInv, Push401, PushFails, Commit
  <1>1. UNCHANGED <<socket, scanDue, told, news>>
    BY DEF Push401, PushFails, Commit
  <1>2. CASE Push401
    <2>1. CASE PutBack(Class("401", "push"), FALSE) /\ UNCHANGED <<session, rejected>>
      <3>1. PICK class : class = Class("401", "push")
        OBVIOUS
      <3>2. PutBack(class, FALSE)
        BY <2>1, <3>1, Zenon
      <3> QED
        BY <1>0, <1>1, <2>1, <3>2, PutBackKeeps
    <2>2. CASE /\ job.kind = "path" /\ token' = "none" /\ dirty' = dirty \cup {job.path}
               /\ job' = [job EXCEPT !.step = "login", !.relogin = TRUE]
               /\ UNCHANGED <<state, link, queue, timers, api, password, claims, missed, rejected>>
      <3>1. job' \in Job /\ job'.kind = job.kind /\ job'.step = "login" /\ job'.path = job.path /\ job'.todo = job.todo
        BY <1>0, <2>2 DEF Job
      <3>2. SessionTypes' /\ WorkTypes' /\ UNCHANGED wires
        BY <1>0, <1>1, <2>2 DEF SessionTypes, WorkTypes, wires
      <3>3. JobInv'
        BY <1>0, <2>2, <3>1 DEF JobInv
      <3>4. Covered'
        <4>1. Listed' => Listed
          BY <2>2, <3>1 DEF Listed, Connected
        <4>2. Underway \subseteq Underway' /\ job.path \in Underway'
          BY <1>0, <1>1, <2>2, <3>1 DEF Underway
        <4> QED
          BY <1>0, <2>2, <4>1, <4>2 DEF Covered
      <3> QED
        BY <1>1, <2>2, <3>1, <3>2, <3>3, <3>4, StepKeeps
    <2> QED
      BY <1>2, <2>1, <2>2, Zenon DEF Push401
  <1>3. CASE PushFails
    <2>1. PICK err \in Errors :
              /\ \/ PutBack(IF job.step = "push" THEN Class(err, "push") ELSE "transient", err = "offline")
                 \/ Onward({job.path}, {job.path})
              /\ rejected' = IF job.step = "commit" /\ err \in Refusals
                             THEN rejected \cup ({job.path} \ dirty) ELSE rejected
      BY <1>3, Zenon DEF PushFails
    <2>2. PICK aborts \in BOOLEAN : aborts = (err = "offline")
      BY Zenon
    <2>3. PICK class : class = IF job.step = "push" THEN Class(err, "push") ELSE "transient"
      BY Zenon
    <2>4. PutBack(class, aborts) \/ Onward({job.path}, {job.path})
      BY <2>1, <2>2, <2>3, Zenon
    <2>5. UNCHANGED session /\ rejected' \in SUBSET Paths /\ rejected \subseteq rejected'
      BY <1>0, <1>3, <2>1 DEF PushFails
    <2>6. CASE PutBack(class, aborts)
      BY <1>0, <1>1, <2>5, <2>6, PutBackKeeps
    <2>7. CASE Onward({job.path}, {job.path})
      <3>1. PICK u \in SUBSET Paths : u = {job.path}
        BY <1>0
      <3>2. Onward(u, u) /\ u \subseteq news \cup u
        BY <2>7, <3>1
      <3> QED
        BY <1>0, <1>1, <2>5, <3>2, OnwardKeeps
    <2> QED
      BY <2>4, <2>6, <2>7
  <1>4. CASE Commit
    <2>1. UNCHANGED session
      BY <1>4 DEF Commit
    <2>2. CASE Onward({job.path} \cap news, {}) /\ rejected' = rejected \ {job.path}
      <3>1. PICK u \in SUBSET Paths : u = {job.path} \cap news
        BY <1>0
      <3>2. rejected' = rejected /\ Onward(u, {}) /\ u \subseteq news \cup {}
        BY <1>0, <2>2, <3>1
      <3>3. {} \in SUBSET Paths
        OBVIOUS
      <3> QED
        BY <1>0, <1>1, <2>1, <3>2, <3>3, OnwardKeeps
    <2>3. CASE PutBack("transient", FALSE) /\ rejected' = rejected \cup ({job.path} \ dirty)
      <3>1. rejected' \in SUBSET Paths /\ rejected \subseteq rejected'
        BY <1>0, <2>3
      <3> QED
        BY <1>0, <1>1, <2>1, <2>3, <3>1, PutBackKeeps
    <2> QED
      BY <1>4, <2>2, <2>3, Zenon DEF Commit
  <1> QED
    BY <1>2, <1>3, <1>4

-----------------------------------------------------------------------------
(* The end of a pass and of a task *)

\* A pass of the poll, or a task, ends: all it took is done with.
LEMMA EndsKeep == ASSUME IInv, PassEnds \/ TaskEnds PROVE IInv'
  <1>0. /\ job \in Job /\ JobInv /\ WorkTypes /\ SessionTypes /\ (Listed => dirty \subseteq Underway)
    BY OfJob
  <1>1. /\ Done(state, queue) /\ UNCHANGED <<link, wires, session, rejected, missed, device, news>>
        /\ job.kind # "connect" /\ job.todo = {} /\ job.path = NoPath
    <2>1. CASE PassEnds
      BY <1>0, <2>1 DEF PassEnds, JobInv
    <2>2. CASE TaskEnds
      BY <1>0, <2>2 DEF TaskEnds, JobInv, work, Job
    <2> QED
      BY <2>1, <2>2
  <1>2. SessionTypes'
    BY <1>0, <1>1 DEF SessionTypes, session
  <1>3. WorkTypes'
    <2>1. claims' \in SUBSET Paths /\ scanDue' \in BOOLEAN
      <3>1. CASE PassEnds
        BY <1>0, <3>1 DEF PassEnds, WorkTypes, Job
      <3>2. CASE TaskEnds
        BY <1>0, <3>2 DEF TaskEnds, WorkTypes, work
      <3> QED
        BY <3>1, <3>2
    <2> QED
      BY <1>0, <1>1, <2>1 DEF WorkTypes, device
  <1>4. Connected => dirty' \subseteq told' \cup news' \cup missed' \cup rejected'
                                         \cup {x \in Paths : Edited(x) \in Range(queue)}
    <2>1. UNCHANGED <<dirty, told>>
      BY <1>1 DEF device
    <2> QED
      BY <1>0, <1>1, <2>1, EngineAssumption DEF Listed, Underway
  <1> QED
    BY <1>1, <1>2, <1>3, <1>4, EndKeeps

\* A connect ends: its full scan has looked at every path.
LEMMA FinishKeeps == ASSUME IInv, FinishConnect PROVE IInv'
  <1>0. /\ job \in Job /\ JobInv /\ WorkTypes /\ SessionTypes /\ (Listed => dirty \subseteq Underway)
        /\ state \in States /\ queue \in Seq(Events)
    BY OfJob
  <1>1. /\ job.kind = "connect" /\ job.step = "pass" /\ job.todo = {} /\ job.path = NoPath
        /\ link' = "ok" /\ Done(Machine(state, "connected"), queue) /\ claims' = {} /\ scanDue' = FALSE
        /\ poll' = (state # "unloading") /\ UNCHANGED <<timer, session, rejected, missed, device, news>>
    BY <1>0 DEF FinishConnect, JobInv
  <1>2. PICK up \in BOOLEAN : SpinUpWs(up)
    BY Zenon DEF FinishConnect
  <1>3. Machine(state, "connected") = IF state = "unloading" THEN "unloading"
                                      ELSE IF queue # <<>> THEN "reconciling" ELSE "idle"
    BY DEF Machine
  <1>4. /\ job' = NoJob /\ job' \in Job /\ queue' = queue
        /\ state = "unloading" => state' = "unloading"
        /\ state # "unloading" => state' \in {"reconciling", "idle"}
    <2>1. PICK s \in States : s = Machine(state, "connected")
      BY <1>3 DEF States
    <2>2. Done(s, queue)
      BY <1>1, <2>1, Zenon
    <2>3. /\ job' = NoJob /\ job' \in Job /\ queue' = queue
          /\ s # "reconciling" => state' = s
          /\ s = "reconciling" => state' \in {"reconciling", "idle"}
      BY <1>0, <2>2, DoneEnds
    <2> QED
      BY <1>3, <2>1, <2>3
  <1>5. EngineTypes' /\ SessionTypes' /\ WorkTypes'
    BY <1>0, <1>1, <1>4 DEF EngineTypes, States, SessionTypes, WorkTypes, session, device
  <1>6. WireTypes'
    <2>1. WireTypes
      BY DEF IInv, Types
    <2>2. poll' \in BOOLEAN
      BY <1>1
    <2> QED
      BY <1>1, <1>2, <2>1, <2>2 DEF WireTypes, SpinUpWs, socket
  <1>7. JobInv' /\ NeverStranded'
    BY <1>4, NoJobType DEF JobInv, NeverStranded
  <1>8. Covered'
    <2>1. Listed' => Listed
      BY <1>1, <1>4, NoJobType DEF Listed, Connected
    <2>2. UNCHANGED <<dirty, told>>
      BY <1>1 DEF device
    <2> QED
      BY <1>0, <1>1, <1>4, <2>1, <2>2, EngineAssumption DEF Covered, Underway
  <1>9. Silent'
    <2>1. CASE state = "unloading"
      <3>1. ~poll' /\ timer' = timer /\ redial' = redial /\ ws' = ws
        BY <1>1, <1>2, <2>1 DEF SpinUpWs, socket
      <3> QED
        BY <2>1, <3>1 DEF Silent, IInv
    <2>2. CASE state # "unloading"
      BY <1>4, <2>2 DEF Silent
    <2> QED
      BY <2>1, <2>2
  <1> QED
    BY <1>5, <1>6, <1>7, <1>8, <1>9 DEF IInv, Types

-----------------------------------------------------------------------------
(* The theorems *)

\* The plugin starts with a connect queued.
LEMMA InitInv == Init => IInv
  <1> SUFFICES ASSUME Init PROVE IInv
    OBVIOUS
  <1>1. Event("connect") \in Events
    BY EventKinds DEF Kinds
  <1>2. queue \in Seq(Events)
    BY <1>1 DEF Init
  <1>3. EngineTypes /\ WireTypes /\ SessionTypes /\ WorkTypes
    BY <1>2, NoJobType DEF Init, EngineTypes, WireTypes, SessionTypes, WorkTypes, States
  <1>4. JobInv /\ Silent /\ NeverStranded
    BY NoJobType DEF Init, JobInv, Silent, NeverStranded
  <1>5. Covered
    BY DEF Init, Covered
  <1> QED
    BY <1>3, <1>4, <1>5 DEF IInv, Types

\* Every step keeps the invariant.
LEMMA StepInv == IInv /\ [Next]_vars => IInv'
  <1> SUFFICES ASSUME IInv, [Next]_vars PROVE IInv'
    OBVIOUS
  <1>1. CASE Pump
    BY <1>1, PumpKeeps
  <1>2. CASE JobStep
    <2>1. CASE Login \/ StatusReady \/ Push
      BY <2>1, CallsKeep
    <2>2. CASE Rejected401 \/ NoPassword
      BY <2>2, FailuresKeep
    <2>3. CASE Changes
      BY <2>3, ChangesKeeps
    <2>4. CASE Meta
      BY <2>4, MetaKeeps
    <2>5. CASE \E p \in Paths : Item(p)
      BY <2>5, ItemKeeps
    <2>6. CASE Push401 \/ Commit
      BY <2>6, PushesKeep
    <2>7. CASE PassEnds \/ TaskEnds
      BY <2>7, EndsKeep
    <2>8. CASE FinishConnect
      BY <2>8, FinishKeeps
    <2> QED
      BY <1>2, <2>1, <2>2, <2>3, <2>4, <2>5, <2>6, <2>7, <2>8 DEF JobStep
  <1>3. CASE CallFails
    BY <1>3, FailuresKeep
  <1>4. CASE PushFails
    BY <1>4, PushesKeep
  <1>5. CASE Timers
    BY <1>5, TimersKeep, SocketsKeep, OthersKeep DEF Timers
  <1>6. CASE World
    <2>1. CASE SocketOpens \/ SocketErrors \/ SocketCloses \/ SocketFallsSilent
      BY <2>1, SocketsKeep
    <2>2. CASE TokenExpires \/ \E p \in Paths : PeerCommits(p) \/ Edit(p) \/ LocalEvent(p)
      BY <2>2, OthersKeep
    <2> QED
      BY <1>6, <2>1, <2>2 DEF World
  <1>7. CASE User
    BY <1>7, CommandsKeep, SignKeeps, UnloadKeeps DEF User
  <1>8. CASE UNCHANGED vars
    <2>1. UNCHANGED <<state, link, queue, job, timer, poll, redial, transport, ws, token, api, password,
                      scanDue, rejected, missed, claims, dirty, told, news>>
      BY <1>8 DEF vars, engine, wires, timers, socket, session, work, device
    <2>2. \A k : Queued(k)' <=> Queued(k)
      BY <2>1 DEF Queued
    <2>3. Types'
      BY <2>1 DEF IInv, Types, EngineTypes, WireTypes, SessionTypes, WorkTypes
    <2>4. JobInv' /\ Silent' /\ Covered'
      BY <2>1 DEF IInv, JobInv, Silent, Covered, Listed, Connected, Underway
    <2>5. NeverStranded'
      BY <2>1, <2>2 DEF IInv, NeverStranded
    <2> QED
      BY <2>3, <2>4, <2>5 DEF IInv
  <1> QED
    BY <1>1, <1>2, <1>3, <1>4, <1>5, <1>6, <1>7, <1>8 DEF Next

\* It holds throughout.
LEMMA Invariant == Spec => []IInv
  BY InitInv, StepInv, PTL DEF Spec

\* The machines of the engine, the link and the socket never leave their states, and the queue
\* never holds anything but the events that enqueue makes.
THEOREM TypeCorrect == Spec => []TypeOK
  <1>1. IInv => TypeOK
    BY TypesTypeOK DEF IInv
  <1> QED
    BY <1>1, Invariant, PTL

\* failWith and scheduleRecovery leave no dead end, whatever fails, in whatever order: a link that
\* is down has a timer armed, or a connect or the user's disconnect is running or queued.
THEOREM NeverStrandedHolds == Spec => []NeverStranded
  <1>1. IInv => NeverStranded
    BY DEF IInv
  <1> QED
    BY <1>1, Invariant, PTL

\* A connected engine has something on the way for every edit that is not on the server, although
\* failWith drops queued paths, isolatedPass skips failed ones and a pass forgets the news it took.
THEOREM NoSilentEditHolds == Spec => []NoSilentEdit
  <1>1. IInv => NoSilentEdit
    <2> SUFFICES ASSUME IInv, Connected, NEW p \in dirty
                 PROVE  p \in told \cup news \cup missed \cup rejected \cup job.todo
                              \cup {x \in Paths : job.path = x \/ Edited(x) \in Range(queue)}
      BY DEF NoSilentEdit
    <2>1. p \in Underway
      BY DEF IInv, Covered, Listed
    <2> QED
      BY <2>1 DEF Underway
  <1> QED
    BY <1>1, Invariant, PTL

\* doTeardown is final: once off or unloading, no timer, poll, redial or socket is left or comes
\* back from a call that was still being awaited.
THEOREM QuietHolds == Spec => []Quiet
  <1>1. IInv => Quiet
    BY DEF IInv, Silent, Quiet
  <1> QED
    BY <1>1, Invariant, PTL
=============================================================================
