--------------------------- MODULE MountsProofs ---------------------------
(***************************************************************************)
(* Theorems about Mounts, for any number of files, mount points, edits,    *)
(* deletions, commands and faults, as long as nobody acts at one of the    *)
(* awkward moments (RacyMoves).                                            *)
(***************************************************************************)
EXTENDS Mounts, FiniteSetTheorems, WellFoundedInduction, TLAPS

-----------------------------------------------------------------------------
(* Types *)

Notes  == SUBSET (1 .. MaxEdits)
Bases  == [Files -> Notes]
Mount  == [on : BOOLEAN, dir : {"pull", "sync"}, point : Points, kind : {"own", "shared"}]
Disk   == [mount : Mount, store : [Points -> Runtime], pbase : Bases]
States == {"none", "mounting", "syncing", "live", "diverged", "offline", "failed", "localGone"}
Scopes == [state : States, fails : Nat, force : BOOLEAN, rt : Runtime]
Passes == [step : {"none", "guard", "list", "apply"}, full : BOOLEAN, dir : {"pull", "sync"}, orphan : BOOLEAN,
           rt : Runtime, rows : [Files -> Row], top : Nat, floor : Nat,
           todo : SUBSET Files, listed : SUBSET Files, hold : BOOLEAN, failed : SUBSET (Nat \ {0}),
           removed : SUBSET Files, ro : SUBSET Files, held : SUBSET Files, conflict : BOOLEAN]

FolderTypes ==
    /\ local \in Bases /\ kept \in Notes /\ unsent \in Notes /\ discarded \in Notes /\ deleted \in SUBSET Files
    /\ edits \in 0 .. MaxEdits

SourceTypes == source \in [Files -> Row] /\ top \in Nat /\ floor \in Nat

SavedTypes == mount \in Mount /\ store \in [Points -> Runtime] /\ disk \in Disk

ScopeTypes ==
    /\ scope \in Scopes /\ pass \in Passes
    /\ roEdits \in SUBSET Files /\ held \in SUBSET Files /\ keeping \in SUBSET Files /\ echo \in SUBSET Files

PrimaryTypes == pbase \in Bases /\ pserver \in Bases /\ ptaking \in [file : Files \cup {NoFile}, note : Notes]

Types == FolderTypes /\ SourceTypes /\ SavedTypes /\ ScopeTypes /\ PrimaryTypes

\* The bounds are numbers.
LEMMA Bounds == MaxEdits \in Nat /\ BulkMin \in Nat /\ BulkMin # 0 /\ IsFiniteSet(Files) /\ Points # {}
  BY MountsAssumption

\* Nothing, of each type.
LEMMA Nothing ==
    /\ NoBase \in Bases /\ NoState \in Runtime /\ NoRow \in Row /\ NoScope \in Scopes /\ NoPass \in Passes
    /\ \A f \in Files : NoBase[f] = {} /\ NoState.base[f] = {}
    /\ NoState.base = NoBase /\ NoScope.rt = NoState /\ NoPass.rt = NoState /\ NoScope.state = "none" /\ ~NoScope.force
    /\ NoRow.note = {} /\ NoRow.tomb = FALSE /\ \A f \in Files : NoPass.rows[f] = NoRow
    /\ NoPass.step = "none" /\ NoPass.removed = {} /\ NoPass.held = {} /\ NoPass.orphan = FALSE
  <1>1. NoBase \in Bases /\ \A f \in Files : NoBase[f] = {}
    BY DEF NoBase, Bases, Notes
  <1>2. NoState \in Runtime /\ NoState.base = NoBase
    BY <1>1 DEF NoState, Runtime, Bases, Notes
  <1>3. NoRow \in Row /\ NoRow.note = {} /\ NoRow.tomb = FALSE
    BY DEF NoRow, Row
  <1>4. NoScope \in Scopes /\ NoScope.rt = NoState /\ NoScope.state = "none" /\ ~NoScope.force
    BY <1>2 DEF NoScope, Scopes, States
  <1>5. PICK rows : rows = [f \in Files |-> NoRow]
    OBVIOUS
  <1>8. rows \in [Files -> Row] /\ \A f \in Files : rows[f] = NoRow
    BY <1>3, <1>5
  <1>6. NoPass = [step |-> "none", full |-> FALSE, dir |-> "pull", orphan |-> FALSE, rt |-> NoState,
                  rows |-> rows, top |-> 0, floor |-> 0, todo |-> {}, listed |-> {},
                  hold |-> FALSE, failed |-> {}, removed |-> {}, ro |-> {}, held |-> {}, conflict |-> FALSE]
    BY <1>5, Zenon DEF NoPass
  <1>7. /\ NoPass \in Passes /\ NoPass.rt = NoState /\ NoPass.rows = rows
        /\ NoPass.step = "none" /\ NoPass.removed = {} /\ NoPass.held = {} /\ NoPass.orphan = FALSE
    BY <1>2, <1>6, <1>8 DEF Passes
  <1> QED
    BY <1>1, <1>2, <1>3, <1>4, <1>7, <1>8

\* A base is one of Bases.
LEMMA RuntimeBase == ASSUME NEW rt \in Runtime PROVE rt.base \in Bases /\ \A f \in Files : rt.base[f] \in Notes
  BY DEF Runtime, Bases, Notes

\* The machine of a scope.
LEMMA MachineType ==
    ASSUME NEW s \in States, s # "none", NEW e \in {"fail", "localGone", "mount", "syncStart", "syncSettled", "conflict", "disconnect"}
    PROVE  Machine(s, e) \in States /\ Machine(s, e) # "none"
  BY DEF Machine, States

\* The version a pass goes back to.
LEMMA Earliest ==
    ASSUME NEW S \in SUBSET (Nat \ {0}), S # {}
    PROVE  Min(S) \in S /\ Min(S) - 1 \in Nat /\ \A w \in S : Min(S) <= w
  <1>1. \E m \in S : \A w \in S : m <= w
    <2> DEFINE Below == OpToRel(<, Nat)
    <2>1. IsWellFoundedOn(Below, Nat)
      BY NatLessThanWellFounded, Zenon
    <2>2. \A w, m \in Nat : w < m => <<w, m>> \in Below
      BY Zenon DEF OpToRel
    <2> HIDE DEF Below
    <2>3. PICK m \in S : \A w \in S : <<w, m>> \notin Below
      BY <2>1, WFMin
    <2>4. ASSUME NEW w \in S PROVE m <= w
      <3>1. ~(w < m)
        BY <2>2, <2>3, Zenon
      <3>2. w \in Nat /\ m \in Nat
        OBVIOUS
      <3> QED
        BY <3>1, <3>2
    <2> QED
      BY <2>4
  <1>2. Min(S) \in S /\ \A w \in S : Min(S) <= w
    BY <1>1, Zenon DEF Min
  <1>3. PICK m \in Nat \ {0} : m = Min(S)
    BY <1>2
  <1> QED
    BY <1>2, <1>3

\* What the decision says of the three notes.
LEMMA Decided ==
    ASSUME NEW l, NEW b, NEW r
    PROVE  LET d == Decision!Decide(l, b, r) IN
           /\ d \in {"inSync", "push", "deleteLocal", "keepLocal", "pull", "deleteRemote", "editWinsPull", "conflict", "merge"}
           /\ d = "inSync" => l = r
           /\ d = "push" => l # {} /\ b = r
           /\ d = "deleteLocal" => l # {} /\ r = {} /\ l = b
           /\ d = "keepLocal" => l # {} /\ r = {}
           /\ d = "pull" => r # {} /\ l = b
           /\ d = "editWinsPull" => r # {} /\ l = {}
           /\ d = "deleteRemote" => l = {} /\ r # {} /\ b = r
           /\ d = "conflict" => l # {} /\ r # {} /\ b = {}
           /\ d = "merge" => l # {} /\ r # {} /\ b # {}
  BY DEF Decision!Decide

\* What finalize makes of it.
LEMMA Outcomes ==
    ASSUME NEW f
    PROVE  LET out == Outcome(f)  l == local[f]  b == pass.rt.base[f]  row == pass.rows[f] IN
           /\ out = "agree" => l = row.note
           /\ out = "push" => l # {}
           /\ out = "pull" => row.note # {} /\ (l = b \/ l = {})
           /\ out = "remove" => l = b /\ row.tomb
           /\ out = "tombstone" => l = {} /\ b = row.note /\ b # {}
           /\ out = "merge" => l # {} /\ row.note # {}
           /\ out \in {"copy", "conflict", "merge"} => l # {} /\ row.note # {}
           /\ out = "hold" => mount.kind = "shared"
  <1> DEFINE d == Decision!Decide(local[f], pass.rt.base[f], pass.rows[f].note)
  <1>1. Outcome(f) = Finalize(d, pass.rows[f])
    BY DEF Outcome
  <1>2. /\ d \in {"inSync", "push", "deleteLocal", "keepLocal", "pull", "deleteRemote", "editWinsPull", "conflict", "merge"}
        /\ d = "inSync" => local[f] = pass.rows[f].note
        /\ d = "push" => local[f] # {} /\ pass.rt.base[f] = pass.rows[f].note
        /\ d = "deleteLocal" => local[f] # {} /\ pass.rows[f].note = {} /\ local[f] = pass.rt.base[f]
        /\ d = "keepLocal" => local[f] # {} /\ pass.rows[f].note = {}
        /\ d = "pull" => pass.rows[f].note # {} /\ local[f] = pass.rt.base[f]
        /\ d = "editWinsPull" => pass.rows[f].note # {} /\ local[f] = {}
        /\ d = "deleteRemote" => local[f] = {} /\ pass.rows[f].note # {} /\ pass.rt.base[f] = pass.rows[f].note
        /\ d = "conflict" => local[f] # {} /\ pass.rows[f].note # {}
        /\ d = "merge" => local[f] # {} /\ pass.rows[f].note # {}
    BY Decided
  <1> HIDE DEF d
  <1> QED
    BY <1>1, <1>2 DEF Finalize

\* A pass has a file behind it.
LEMMA ThroughSound ==
    ASSUME pass \in Passes, NEW f \in Files, NEW b \in Notes, NEW r, r = Through(f, b)
    PROVE  /\ r \in Passes /\ r.todo = pass.todo \ {f} /\ r.step = pass.step /\ r.orphan = pass.orphan
           /\ r.rows = pass.rows /\ r.removed = pass.removed /\ r.held = pass.held /\ r.ro = pass.ro
           /\ r.conflict = pass.conflict /\ r.failed = pass.failed /\ r.rt \in Runtime
           /\ r.rt.base[f] = b /\ \A g \in Files \ {f} : r.rt.base[g] = pass.rt.base[g]
  <1>1. PICK base : base = [pass.rt.base EXCEPT ![f] = b]
    OBVIOUS
  <1>2. pass.rt \in Runtime /\ pass.rt.base \in Bases
    BY RuntimeBase DEF Passes
  <1>3. base \in Bases /\ base[f] = b /\ \A g \in Files \ {f} : base[g] = pass.rt.base[g]
    BY <1>1, <1>2 DEF Bases
  <1>4. PICK rt : rt = [pass.rt EXCEPT !.base = base]
    OBVIOUS
  <1>5. rt \in Runtime /\ rt.base = base
    BY <1>2, <1>3, <1>4 DEF Runtime, Bases, Notes
  <1>6. PICK todo : todo = pass.todo \ {f}
    OBVIOUS
  <1>7. r = [pass EXCEPT !.todo = todo, !.rt = rt]
    BY <1>1, <1>4, <1>6, Zenon DEF Through
  <1>8. todo \in SUBSET Files
    BY <1>6 DEF Passes
  <1>9. /\ r \in Passes /\ r.todo = todo /\ r.step = pass.step /\ r.orphan = pass.orphan
        /\ r.rows = pass.rows /\ r.removed = pass.removed /\ r.held = pass.held /\ r.ro = pass.ro
        /\ r.conflict = pass.conflict /\ r.failed = pass.failed /\ r.rt = rt
    BY <1>5, <1>7, <1>8 DEF Passes
  <1> QED
    BY <1>3, <1>5, <1>6, <1>9

\* A pass leaves a file for later.
LEMMA FailedSound ==
    ASSUME pass \in Passes, NEW f \in Files, NEW r, r = Failed(f)
    PROVE  /\ r \in Passes /\ r.todo = pass.todo \ {f} /\ r.step = pass.step /\ r.orphan = pass.orphan
           /\ r.rows = pass.rows /\ r.removed = pass.removed /\ r.held = pass.held /\ r.rt = pass.rt
           /\ pass.failed \subseteq r.failed
           /\ Spent(f) \/ pass.rows[f].version \in r.failed
  <1>1. PICK todo : todo = pass.todo \ {f}
    OBVIOUS
  <1>2. PICK failed : failed = IF Spent(f) THEN pass.failed ELSE pass.failed \cup {pass.rows[f].version}
    OBVIOUS
  <1>3. r = [pass EXCEPT !.todo = todo, !.failed = failed]
    BY <1>1, <1>2, Zenon DEF Failed
  <1>4. todo \in SUBSET Files
    BY <1>1 DEF Passes
  <1>5. pass.rows[f].version \in Nat /\ (pass.rows[f].version = 0 => Spent(f))
    BY DEF Passes, Row, Spent
  <1>6. failed \in SUBSET (Nat \ {0}) /\ pass.failed \subseteq failed
    BY <1>2, <1>5 DEF Passes
  <1>7. /\ r \in Passes /\ r.todo = todo /\ r.step = pass.step /\ r.orphan = pass.orphan
        /\ r.rows = pass.rows /\ r.removed = pass.removed /\ r.held = pass.held /\ r.rt = pass.rt /\ r.failed = failed
    BY <1>3, <1>4, <1>6 DEF Passes
  <1> QED
    BY <1>1, <1>2, <1>6, <1>7

\* What a pass starts from.
LEMMA ReadySound ==
    ASSUME scope \in Scopes, store \in [Points -> Runtime], mount \in Mount, scope # NoScope => scope.state # "none"
    PROVE  /\ Ready \in Scopes /\ Ready.state # "none" /\ (Ready.state # "localGone" => Ready.state \in States \ {"failed"})
           /\ Ready.rt = IF scope = NoScope THEN store[mount.point] ELSE scope.rt
           /\ Ready.force = (scope # NoScope /\ scope.force)
           /\ scope = NoScope => Ready.state = "mounting"
           /\ scope # NoScope => /\ Ready.state = "localGone" => scope.state = "localGone"
                                 /\ Ready.state \notin {"mounting", "localGone"} => Ready.state = scope.state
  <1> DEFINE built == IF scope = NoScope THEN [NoScope EXCEPT !.state = "detached", !.rt = store[mount.point]] ELSE scope
             st == IF built.state = "localGone" THEN built.state ELSE Machine(Machine(built.state, "reset"), "mount")
             fails == IF built.state = "failed" THEN 0 ELSE built.fails
  <1>1. store[mount.point] \in Runtime
    BY DEF Mount
  <1>2. /\ built.state = IF scope = NoScope THEN "detached" ELSE scope.state
        /\ built.rt = IF scope = NoScope THEN store[mount.point] ELSE scope.rt
        /\ built.force = (scope # NoScope /\ scope.force) /\ built.fails \in Nat
        /\ built = [state |-> built.state, fails |-> built.fails, force |-> built.force, rt |-> built.rt]
    <2>1. CASE scope = NoScope
      <3>1. PICK rt \in Runtime : rt = store[mount.point]
        BY <1>1
      <3>2. built = [NoScope EXCEPT !.state = "detached", !.rt = rt]
        BY <2>1, <3>1, Zenon
      <3>3. built = [state |-> "detached", fails |-> 0, force |-> FALSE, rt |-> rt]
        BY <3>2 DEF NoScope
      <3> HIDE DEF built
      <3> QED
        BY <2>1, <3>1, <3>3
    <2>2. CASE scope # NoScope
      <3>1. built = scope
        BY <2>2
      <3>2. scope.force \in BOOLEAN /\ scope.fails \in Nat
            /\ scope = [state |-> scope.state, fails |-> scope.fails, force |-> scope.force, rt |-> scope.rt]
        BY DEF Scopes
      <3> HIDE DEF built
      <3> QED
        BY <2>2, <3>1, <3>2
    <2> QED
      BY <2>1, <2>2
  <1>3. Ready = [built EXCEPT !.state = st, !.fails = fails]
    BY Zenon DEF Ready
  <1> HIDE DEF built
  <1>4. Ready.rt = built.rt /\ Ready.force = built.force /\ Ready.state = st /\ Ready.fails = fails
        /\ Ready = [state |-> st, fails |-> fails, force |-> built.force, rt |-> built.rt]
    BY <1>2, <1>3
  <1>5. scope.state \in States /\ scope.rt \in Runtime
    BY DEF Scopes
  <1>6. /\ st \in States /\ st # "none" /\ st # "failed"
        /\ scope = NoScope => st = "mounting"
        /\ scope # NoScope => (st = "localGone" => scope.state = "localGone") /\ (st \notin {"mounting", "localGone"} => st = scope.state)
    BY <1>2, <1>5 DEF Machine, States
  <1>7. fails \in Nat /\ built.force \in BOOLEAN /\ built.rt \in Runtime
    BY <1>1, <1>2, <1>5 DEF Scopes
  <1> HIDE DEF st, fails
  <1>8. Ready \in Scopes
    BY <1>4, <1>6, <1>7 DEF Scopes
  <1> QED
    BY <1>2, <1>4, <1>6, <1>8

-----------------------------------------------------------------------------
(* The invariant *)

\* Who may act when: a pass and the keeper exclude each other, both need a mount; a pass whose
\* scope was replaced is an orphan; the settings are saved with every command.
Order ==
    /\ keeping # {} => mount.on /\ pass = NoPass /\ (scope = NoScope \/ scope.force)
    /\ pass # NoPass => mount.on /\ pass.step # "none" /\ (pass.orphan <=> scope = NoScope)
    /\ scope # NoScope => mount.on /\ scope.state # "none"
    /\ ptaking.file # NoFile => ~mount.on
    /\ disk.mount = mount
    /\ echo = {}

\* Edits that are nowhere but in the folder.
Loose == unsent \ kept

\* The bases of f, in memory and saved; the notes of f that a server has, had or is told to have.
Known(f) ==
    {scope.rt.base[f], pass.rt.base[f]} \cup {store[q].base[f] : q \in Points} \cup {disk.store[q].base[f] : q \in Points}

Served(f) == {source[f].note, pass.rows[f].note, pserver[f], pbase[f], disk.pbase[f]}

\* A base holds a loose edit only where the user kept the note out of a shared source
\* (keepBulkPushes): the note is still there, and the source knows nothing of it.
Fit(n, f) ==
    /\ n \subseteq 1 .. edits
    /\ n \cap Loose # {} =>
          /\ mount.kind = "shared" /\ n \cap Loose \subseteq local[f]
          /\ source[f].note = {} /\ ~source[f].tomb

Sent(n) == n \subseteq 1 .. edits /\ n \cap unsent = {}

Data ==
    /\ NoEditLost
    /\ unsent \subseteq 1 .. edits /\ ptaking.note \subseteq 1 .. edits
    /\ \A f \in Files :
          /\ local[f] \subseteq 1 .. edits
          /\ \A n \in Known(f) : Fit(n, f)
          /\ \A n \in Served(f) : Sent(n)

\* What a pass was told is no older than its base.
PassFit == \A f \in Files : pass.rt.base[f] \cap Loose # {} => pass.rows[f].note = {} /\ ~pass.rows[f].tomb

\* What the keeper is about to remove is in a copy.
KeepFit == \A f \in keeping : local[f] \cap Loose = {}

HeldFit == held # {} \/ pass.held # {} => mount.kind = "shared"

IInv == Types /\ Order /\ Data /\ PassFit /\ KeepFit /\ HeldFit

\* What a step may do to notes and edits: a note of the folder loses only edits that are elsewhere
\* (or that the user deletes), and the source changes where no base relies on it.
LEMMA DataMoves ==
    ASSUME Types, Data, edits' \in Nat, edits <= edits', kept \subseteq kept',
           unsent' \subseteq 1 .. edits', ptaking'.note \subseteq 1 .. edits',
           \A e \in unsent' : e \in unsent \/ (e \notin 1 .. edits /\ \E f \in Files : e \in local'[f]),
           mount'.kind = mount.kind,
           \A f \in Files : local'[f] \subseteq 1 .. edits',
           \A f \in Files : local[f] \subseteq local'[f] \/ local[f] \cap Loose' = {},
           \A f \in Files : \/ source'[f].note = source[f].note /\ (source'[f].tomb => source[f].tomb)
                            \/ local[f] \cap Loose' = {}
                            \/ \A n \in Known(f) : n \cap Loose = {},
           \A f \in Files : \A n \in Known(f)' : n \in Known(f) \/ Fit(n, f)',
           \A f \in Files : \A n \in Served(f)' : n \in Served(f) \/ Sent(n)'
    PROVE  Data'
  <1>1. edits \in Nat /\ 1 .. edits \subseteq 1 .. edits'
    <2>1. edits \in Nat
      BY Bounds DEF Types, FolderTypes
    <2> QED
      BY <2>1
  <1>2. ASSUME NEW e \in Loose', e \in 1 .. edits PROVE e \in Loose
    BY <1>2 DEF Loose
  <1>3. NoEditLost'
    <2> SUFFICES ASSUME NEW e \in unsent', e \notin kept' PROVE \E f \in Files : e \in local'[f]
      BY DEF NoEditLost
    <2>1. CASE e \in unsent
      <3>1. PICK f \in Files : e \in local[f]
        BY <2>1 DEF Data, NoEditLost
      <3>2. e \in Loose'
        BY DEF Loose
      <3> QED
        BY <3>1, <3>2
    <2> QED
      BY <2>1
  <1>4. ASSUME NEW f \in Files, NEW n \in Known(f)' PROVE Fit(n, f)'
    <2>1. CASE Fit(n, f)'
      BY <2>1
    <2>2. CASE n \in Known(f)
      <3>1. Fit(n, f)
        BY <2>2 DEF Data
      <3>2. n \subseteq 1 .. edits'
        BY <1>1, <3>1 DEF Fit
      <3>3. ASSUME NEW e \in n \cap Loose'
            PROVE  mount'.kind = "shared" /\ n \cap Loose' \subseteq local'[f] /\ source'[f].note = {} /\ ~source'[f].tomb
        <4>1. e \in n \cap Loose
          BY <1>2, <3>1, <3>3 DEF Fit
        <4>2. /\ mount.kind = "shared" /\ n \cap Loose \subseteq local[f]
              /\ source[f].note = {} /\ ~source[f].tomb
          BY <3>1, <4>1 DEF Fit
        <4>3. e \in local[f] \cap Loose'
          BY <3>3, <4>1, <4>2
        <4>4. local[f] \subseteq local'[f]
          BY <4>3
        <4>5. n \cap Loose' \subseteq n \cap Loose
          BY <1>2, <3>1 DEF Fit
        <4>6. source'[f].note = source[f].note /\ (source'[f].tomb => source[f].tomb)
          BY <2>2, <4>1, <4>3
        <4> QED
          BY <4>2, <4>4, <4>5, <4>6
      <3> QED
        BY <3>2, <3>3 DEF Fit
    <2> QED
      BY <2>1, <2>2
  <1>5. ASSUME NEW f \in Files, NEW n \in Served(f)' PROVE Sent(n)'
    <2>1. CASE n \in Served(f)
      <3>1. n \subseteq 1 .. edits /\ n \cap unsent = {}
        BY <2>1 DEF Data, Sent
      <3> QED
        BY <1>1, <3>1 DEF Sent
    <2> QED
      BY <2>1
  <1> QED
    BY <1>3, <1>4, <1>5 DEF Data

\* A step that leaves the folder and the source alone, and takes bases over or drops them.
LEMMA DataStill ==
    ASSUME Types, Data, UNCHANGED <<local, kept, unsent, source, edits, pserver>>,
           mount'.kind = mount.kind, ptaking'.note \in {ptaking.note, {}},
           \A f \in Files : Known(f)' \subseteq Known(f) \cup {{}},
           \A f \in Files : Served(f)' \subseteq Served(f) \cup {{}}
    PROVE  Data'
  <1>1. edits \in Nat
    BY Bounds DEF Types, FolderTypes
  <1>2. Loose' = Loose
    BY DEF Loose
  <1>3. \A f \in Files : Fit({}, f)'
    BY DEF Fit
  <1>4. Sent({})'
    BY DEF Sent
  <1>5. \A f \in Files : \A n \in Known(f)' : n \in Known(f) \/ Fit(n, f)'
    BY <1>3
  <1>6. \A f \in Files : \A n \in Served(f)' : n \in Served(f) \/ Sent(n)'
    BY <1>4
  <1>7. /\ \A f \in Files : local'[f] \subseteq 1 .. edits'
        /\ unsent' \subseteq 1 .. edits' /\ ptaking'.note \subseteq 1 .. edits'
    BY DEF Data
  <1>8. edits' \in Nat /\ edits <= edits'
    BY <1>1
  <1>9. /\ \A f \in Files : local[f] \subseteq local'[f] \/ local[f] \cap Loose' = {}
        /\ \A e \in unsent' : e \in unsent \/ (e \notin 1 .. edits /\ \E f \in Files : e \in local'[f])
        /\ \A f \in Files : \/ source'[f].note = source[f].note /\ (source'[f].tomb => source[f].tomb)
                            \/ local[f] \cap Loose' = {}
                            \/ \A n \in Known(f) : n \cap Loose = {}
        /\ kept \subseteq kept'
    OBVIOUS
  <1> QED
    BY <1>5, <1>6, <1>7, <1>8, <1>9, DataMoves

\* The parts of the invariant that a step may rely on.
LEMMA Parts ==
    ASSUME IInv
    PROVE  /\ local \in Bases /\ kept \in Notes /\ unsent \in Notes /\ discarded \in Notes /\ deleted \in SUBSET Files
           /\ edits \in 0 .. MaxEdits /\ edits \in Nat
           /\ source \in [Files -> Row] /\ top \in Nat /\ floor \in Nat
           /\ mount \in Mount /\ store \in [Points -> Runtime] /\ disk \in Disk /\ mount.point \in Points
           /\ scope \in Scopes /\ pass \in Passes /\ scope.rt \in Runtime /\ pass.rt \in Runtime
           /\ roEdits \in SUBSET Files /\ held \in SUBSET Files /\ keeping \in SUBSET Files /\ echo \in SUBSET Files
           /\ pbase \in Bases /\ pserver \in Bases /\ ptaking \in [file : Files \cup {NoFile}, note : Notes]
           /\ disk.store \in [Points -> Runtime] /\ disk.pbase \in Bases
           /\ Types /\ Order /\ Data /\ PassFit /\ KeepFit /\ HeldFit
  <1>1. mount \in Mount /\ disk \in Disk /\ scope \in Scopes /\ pass \in Passes
    BY DEF IInv, Types, SavedTypes, ScopeTypes
  <1>2. mount.point \in Points /\ disk.store \in [Points -> Runtime] /\ disk.pbase \in Bases
        /\ scope.rt \in Runtime /\ pass.rt \in Runtime
    BY <1>1 DEF Mount, Disk, Scopes, Passes
  <1>3. edits \in Nat
    BY Bounds DEF IInv, Types, FolderTypes
  <1> QED
    BY <1>1, <1>2, <1>3 DEF IInv, Types, FolderTypes, SourceTypes, SavedTypes, ScopeTypes, PrimaryTypes

-----------------------------------------------------------------------------
(* Commands *)

\* Commands change the settings, drop the scope and its bases, or bring back what was saved.
LEMMA SettingsKeep ==
    ASSUME IInv, UNCHANGED <<local, kept, unsent, discarded, source, top, floor, edits, pserver>>,
           deleted' \in SUBSET Files, mount' \in Mount, mount'.kind = mount.kind,
           store' \in [Points -> Runtime], \A q \in Points : store'[q] \in {store[q], disk.store[q], NoState},
           disk' \in Disk, \A q \in Points : disk'.store[q] \in {store[q], disk.store[q], NoState},
           pbase' \in {pbase, disk.pbase, NoBase}, disk'.pbase \in {pbase, disk.pbase, NoBase},
           scope' \in {scope, NoScope}, pass' \in Passes,
           pass' = NoPass \/ (pass'.rt = pass.rt /\ pass'.rows = pass.rows /\ pass'.held = pass.held),
           roEdits' \in {roEdits, {}}, held' \in {held, {}}, keeping' \in {keeping, {}}, echo' \in {echo, {}},
           ptaking' \in {ptaking, [file |-> NoFile, note |-> {}]},
           Order'
    PROVE  IInv'
  <1>1. Types'
    <2>1. FolderTypes' /\ SourceTypes' /\ SavedTypes'
      BY Parts DEF FolderTypes, SourceTypes, SavedTypes
    <2>2. scope' \in Scopes /\ pbase' \in Bases
      BY Parts, Nothing
    <2>3. ptaking' \in [file : Files \cup {NoFile}, note : Notes]
      <3>1. {} \in Notes
        BY DEF Notes
      <3>2. [file |-> NoFile, note |-> {}] \in [file : Files \cup {NoFile}, note : Notes]
        BY <3>1
      <3>3. ptaking \in [file : Files \cup {NoFile}, note : Notes]
        BY Parts
      <3> QED
        BY <3>2, <3>3, Zenon
    <2>4. ScopeTypes' /\ PrimaryTypes'
      BY <2>2, <2>3, Parts DEF ScopeTypes, PrimaryTypes
    <2> QED
      BY <2>1, <2>4 DEF Types
  <1>2. Loose' = Loose
    BY DEF Loose
  <1>3. \A f \in Files : Known(f)' \subseteq Known(f) \cup {{}}
    <2> SUFFICES ASSUME NEW f \in Files, NEW n \in Known(f)' PROVE n \in Known(f) \cup {{}}
      OBVIOUS
    <2>1. CASE n = scope'.rt.base[f]
      BY <2>1, Nothing DEF Known
    <2>2. CASE n = pass'.rt.base[f]
      BY <2>2, Nothing DEF Known
    <2>3. ASSUME NEW q \in Points, n = store'[q].base[f] \/ n = disk'.store[q].base[f] PROVE n \in Known(f) \cup {{}}
      BY <2>3, Nothing DEF Known
    <2> QED
      BY <2>1, <2>2, <2>3 DEF Known
  <1>4. \A f \in Files : Served(f)' \subseteq Served(f) \cup {{}}
    <2> SUFFICES ASSUME NEW f \in Files PROVE Served(f)' \subseteq Served(f) \cup {{}}
      OBVIOUS
    <2>1. pass'.rows[f].note \in {pass.rows[f].note, {}}
      BY Nothing
    <2>2. pbase'[f] \in {pbase[f], disk.pbase[f], {}} /\ disk'.pbase[f] \in {pbase[f], disk.pbase[f], {}}
      BY Nothing
    <2> QED
      BY <2>1, <2>2 DEF Served
  <1>5. ptaking'.note \in {ptaking.note, {}}
    OBVIOUS
  <1>6. Data'
    BY <1>3, <1>4, <1>5, Parts, DataStill
  <1>7. PassFit'
    BY <1>2, Parts, Nothing DEF PassFit
  <1>8. KeepFit'
    BY <1>2, Parts DEF KeepFit
  <1>9. HeldFit'
    BY Parts, Nothing DEF HeldFit
  <1> QED
    BY <1>1, <1>6, <1>7, <1>8, <1>9 DEF IInv

\* What is saved.
LEMMA SaveSound ==
    ASSUME SaveAll, mount' \in Mount, store' \in [Points -> Runtime], pbase' \in Bases
    PROVE  disk' \in Disk /\ disk'.mount = mount' /\ disk'.store = store' /\ disk'.pbase = pbase'
  BY DEF SaveAll, Disk

\* A pass becomes an orphan.
LEMMA DroppedSound ==
    ASSUME IInv, Dropped
    PROVE  /\ pass' \in Passes
           /\ pass = NoPass => pass' = NoPass
           /\ pass # NoPass => /\ pass'.rt = pass.rt /\ pass'.rows = pass.rows /\ pass'.held = pass.held /\ pass'.step = pass.step
                               /\ pass'.orphan /\ pass' # NoPass /\ pass'.removed = pass.removed
  <1>1. CASE pass = NoPass
    BY <1>1, Nothing DEF Dropped
  <1>2. CASE pass # NoPass
    <2>1. pass' = [pass EXCEPT !.orphan = TRUE]
      BY <1>2 DEF Dropped
    <2>2. /\ pass' \in Passes /\ pass'.rt = pass.rt /\ pass'.rows = pass.rows /\ pass'.held = pass.held /\ pass'.step = pass.step
          /\ pass'.orphan /\ pass'.removed = pass.removed
      BY <2>1, Parts DEF Passes
    <2>3. pass' # NoPass
      BY <2>2, Nothing
    <2> QED
      BY <1>2, <2>2, <2>3
  <1> QED
    BY <1>1, <1>2

LEMMA AddMountKeeps ==
    ASSUME IInv, RacyMoves = {}, NEW dir \in {"pull", "sync"}, AddMount(dir)
    PROVE  IInv'
  <1>1. mount' \in Mount /\ mount'.kind = mount.kind /\ mount'.on
    BY Parts DEF AddMount, Mount
  <1>2. pbase' = NoBase /\ NoBase \in Bases /\ store' = store
    BY Nothing DEF AddMount, Forgotten
  <1>3. disk' \in Disk /\ disk'.mount = mount' /\ disk'.store = store' /\ disk'.pbase = pbase'
    BY <1>1, <1>2, Parts, SaveSound DEF AddMount
  <1>4. Order'
    BY <1>1, <1>3, Parts DEF AddMount, Order, reviews
  <1>5. /\ UNCHANGED <<local, kept, unsent, discarded, source, top, floor, edits, pserver>>
        /\ UNCHANGED <<scope, pass, roEdits, held, keeping, echo, ptaking>> /\ deleted' = {}
    BY DEF AddMount, remote, reviews, bounds
  <1> QED
    BY <1>1, <1>2, <1>3, <1>4, <1>5, Parts, SettingsKeep

LEMMA RemoveMountKeeps ==
    ASSUME IInv, RacyMoves = {}, RemoveMount
    PROVE  IInv'
  <1>1. mount' \in Mount /\ mount'.kind = mount.kind
    BY Parts DEF RemoveMount, Mount
  <1>2. /\ pbase' = NoBase /\ NoBase \in Bases /\ store' \in [Points -> Runtime]
        /\ \A q \in Points : store'[q] \in {store[q], NoState}
    BY Nothing, Parts DEF RemoveMount, Forgotten
  <1>3. disk' \in Disk /\ disk'.mount = mount' /\ disk'.store = store' /\ disk'.pbase = pbase'
    BY <1>1, <1>2, Parts, SaveSound DEF RemoveMount
  <1>4. pass = NoPass /\ pass' = NoPass /\ scope' = NoScope
    BY DEF RemoveMount, Dropped
  <1>5. /\ UNCHANGED <<local, kept, unsent, discarded, source, top, floor, edits, pserver>>
        /\ UNCHANGED <<keeping, echo, ptaking>> /\ deleted' = {} /\ roEdits' = {} /\ held' = {} /\ keeping = {}
    BY DEF RemoveMount, remote, NoReviews
  <1>6. ptaking.file = NoFile
    BY Parts DEF RemoveMount, Order
  <1>7. Order'
    BY <1>3, <1>4, <1>5, <1>6, Parts DEF Order
  <1>8. pass' \in Passes
    BY <1>4, Nothing
  <1>9. \A q \in Points : disk'.store[q] \in {store[q], disk.store[q], NoState}
    BY <1>2, <1>3
  <1> QED
    BY <1>1, <1>2, <1>3, <1>4, <1>5, <1>7, <1>8, <1>9, SettingsKeep

LEMMA UpdateMountDirectionKeeps ==
    ASSUME IInv, UpdateMountDirection
    PROVE  IInv'
  <1>1. mount' \in Mount /\ mount'.kind = mount.kind /\ mount'.on
    BY Parts DEF UpdateMountDirection, Mount
  <1>2. pbase' = pbase /\ store' = store
    BY DEF UpdateMountDirection
  <1>3. disk' \in Disk /\ disk'.mount = mount' /\ disk'.store = store' /\ disk'.pbase = pbase'
    BY <1>1, <1>2, Parts, SaveSound DEF UpdateMountDirection
  <1>4. /\ pass' \in Passes /\ (pass = NoPass => pass' = NoPass)
        /\ (pass # NoPass => /\ pass'.rt = pass.rt /\ pass'.rows = pass.rows /\ pass'.held = pass.held
                             /\ pass'.step = pass.step /\ pass'.orphan)
    BY DroppedSound DEF UpdateMountDirection
  <1>5. /\ UNCHANGED <<local, kept, unsent, discarded, source, top, floor, edits, pserver>>
        /\ UNCHANGED <<keeping, echo, ptaking, deleted, held>> /\ roEdits' = {} /\ scope' = NoScope /\ mount.on
    BY DEF UpdateMountDirection, remote, folder
  <1>6. Order'
    BY <1>1, <1>3, <1>4, <1>5, Parts DEF Order
  <1> QED
    BY <1>1, <1>2, <1>3, <1>4, <1>5, <1>6, Parts, SettingsKeep

LEMMA ReinstateMountKeeps ==
    ASSUME IInv, ReinstateMount
    PROVE  IInv'
  <1>1. mount' = mount /\ mount' \in Mount
    BY Parts DEF ReinstateMount
  <1>2. /\ pbase' = pbase /\ store' \in [Points -> Runtime]
        /\ \A q \in Points : store'[q] \in {store[q], NoState}
    BY Nothing, Parts DEF ReinstateMount
  <1>3. disk' \in Disk /\ disk'.mount = mount' /\ disk'.store = store' /\ disk'.pbase = pbase'
    BY <1>1, <1>2, Parts, SaveSound DEF ReinstateMount
  <1>4. /\ pass' \in Passes /\ (pass = NoPass => pass' = NoPass)
        /\ (pass # NoPass => /\ pass'.rt = pass.rt /\ pass'.rows = pass.rows /\ pass'.held = pass.held
                             /\ pass'.step = pass.step /\ pass'.orphan)
    BY DroppedSound DEF ReinstateMount
  <1>5. /\ UNCHANGED <<local, kept, unsent, discarded, source, top, floor, edits, pserver>>
        /\ UNCHANGED <<keeping, echo, ptaking>> /\ deleted' = {} /\ roEdits' = {} /\ held' = {}
        /\ scope' = NoScope /\ mount.on
    BY DEF ReinstateMount, remote, NoReviews
  <1>6. Order'
    BY <1>1, <1>3, <1>4, <1>5, Parts DEF Order
  <1>7. \A q \in Points : disk'.store[q] \in {store[q], disk.store[q], NoState}
    BY <1>2, <1>3
  <1> QED
    BY <1>1, <1>2, <1>3, <1>4, <1>5, <1>6, <1>7, Parts, SettingsKeep

LEMMA FollowMountPointRenameKeeps ==
    ASSUME IInv, NEW q \in Points, FollowMountPointRename(q)
    PROVE  IInv'
  <1>1. mount' \in Mount /\ mount'.kind = mount.kind /\ mount'.on
    BY Parts DEF FollowMountPointRename, Mount
  <1>2. pbase' = pbase /\ store' = store
    BY DEF FollowMountPointRename
  <1>3. disk' \in Disk /\ disk'.mount = mount' /\ disk'.store = store' /\ disk'.pbase = pbase'
    BY <1>1, <1>2, Parts, SaveSound DEF FollowMountPointRename
  <1>5. /\ UNCHANGED <<local, kept, unsent, discarded, source, top, floor, edits, pserver>>
        /\ UNCHANGED <<keeping, echo, ptaking, deleted, roEdits, held, pass>> /\ scope' = NoScope /\ mount.on
        /\ pass = NoPass /\ keeping = {}
    BY DEF FollowMountPointRename, remote, folder, reviews
  <1>6. Order'
    BY <1>1, <1>3, <1>5, Parts DEF Order
  <1> QED
    BY <1>1, <1>2, <1>3, <1>5, <1>6, Parts, SettingsKeep

LEMMA PersistKeeps ==
    ASSUME IInv, Persist
    PROVE  IInv'
  <1>1. mount' = mount /\ pbase' = pbase /\ store' = store
    BY DEF Persist
  <1>2. disk' \in Disk /\ disk'.mount = mount' /\ disk'.store = store' /\ disk'.pbase = pbase'
    BY <1>1, Parts, SaveSound DEF Persist
  <1>3. /\ UNCHANGED <<local, kept, unsent, discarded, source, top, floor, edits, pserver>>
        /\ UNCHANGED <<scope, keeping, echo, ptaking, deleted, roEdits, held, pass>>
    BY DEF Persist, remote, folder, reviews, bounds
  <1>4. Order'
    BY <1>1, <1>2, <1>3, Parts DEF Order
  <1> QED
    BY <1>1, <1>2, <1>3, <1>4, Parts, SettingsKeep

\* What is loaded at the start was saved, or is nothing.
LEMMA LoadedSound ==
    ASSUME IInv
    PROVE  Loaded(disk) \in [Points -> Runtime] /\ \A q \in Points : Loaded(disk)[q] \in {disk.store[q], NoState}
  <1>1. disk.store \in [Points -> Runtime]
    BY Parts
  <1> QED
    BY <1>1, Nothing DEF Loaded

LEMMA CrashKeeps ==
    ASSUME IInv, Crash
    PROVE  IInv'
  <1>1. /\ mount' = disk.mount /\ mount' = mount /\ pbase' = disk.pbase /\ disk' = disk
        /\ store' \in [Points -> Runtime] /\ \A q \in Points : store'[q] \in {disk.store[q], NoState}
    BY Parts, LoadedSound DEF Crash, Order
  <1>2. /\ UNCHANGED <<local, kept, unsent, discarded, source, top, floor, edits, pserver>>
        /\ UNCHANGED deleted /\ roEdits' = {} /\ held' = {} /\ keeping' = {} /\ echo' = {}
        /\ pass' = NoPass /\ scope' = NoScope /\ ptaking' = [file |-> NoFile, note |-> {}]
    BY DEF Crash, remote, folder
  <1>3. Order'
    BY <1>1, <1>2, Parts DEF Order
  <1>4. pass' \in Passes
    BY <1>2, Nothing
  <1> QED
    BY <1>1, <1>2, <1>3, <1>4, Parts, SettingsKeep

-----------------------------------------------------------------------------
(* The folder and the source *)

\* A change in the folder asks for a full pass.
LEMMA NudgedSound ==
    ASSUME IInv, NEW S, S # {}, Nudged(S)
    PROVE  /\ echo' = {} /\ scope' \in Scopes /\ scope'.rt = scope.rt /\ scope'.state = scope.state
           /\ (scope' = NoScope <=> scope = NoScope) /\ (mount.on /\ scope # NoScope => scope'.force)
           /\ (scope.force => scope'.force)
  <1>1. echo = {} /\ (scope # NoScope => scope.state # "none") /\ scope \in Scopes
    BY Parts DEF Order
  <1>2. PICK late \in {TRUE} \cup {~(S \subseteq echo)} :
           /\ echo' = IF late THEN {} ELSE echo
           /\ scope' = IF late /\ mount.on /\ scope # NoScope THEN [scope EXCEPT !.force = TRUE] ELSE scope
    BY Zenon DEF Nudged
  <1>3. late = TRUE
    BY <1>1, <1>2
  <1>4. echo' = {} /\ scope' = IF mount.on /\ scope # NoScope THEN [scope EXCEPT !.force = TRUE] ELSE scope
    BY <1>2, <1>3
  <1>5. /\ scope' \in Scopes /\ scope'.rt = scope.rt /\ scope'.state = scope.state
        /\ (mount.on /\ scope # NoScope => scope'.force) /\ (scope.force => scope'.force)
    BY <1>1, <1>4 DEF Scopes
  <1>6. scope' = NoScope <=> scope = NoScope
    BY <1>1, <1>4, <1>5, Nothing
  <1> QED
    BY <1>4, <1>5, <1>6

\* The bases do not change.
LEMMA KnownSame ==
    ASSUME UNCHANGED <<store, disk>>, scope'.rt = scope.rt, pass'.rt = pass.rt
    PROVE  \A f \in Files : Known(f)' = Known(f)
  BY DEF Known

\* Nothing a server has changes.
LEMMA ServedSame ==
    ASSUME UNCHANGED <<source, pserver, pbase, disk>>, pass'.rows = pass.rows
    PROVE  \A f \in Files : Served(f)' = Served(f)
  BY DEF Served

\* A write to the source.
LEMMA WrittenSound ==
    ASSUME IInv, NEW f \in Files, NEW note \in Notes, Written(f, note)
    PROVE  /\ SourceTypes' /\ source'[f].note = note /\ (source'[f].tomb <=> note = {}) /\ source'[f].version = top + 1
           /\ \A g \in Files \ {f} : source'[g] = source[g]
           /\ floor' = floor /\ top' = top + 1
  <1>0. PICK tomb \in BOOLEAN : tomb = (note = {})
    BY Zenon
  <1>1. PICK row : row = [note |-> note, version |-> top + 1, tomb |-> tomb]
    OBVIOUS
  <1>2. row \in Row /\ row.note = note /\ (row.tomb <=> note = {}) /\ row.version = top + 1
    <2>1. top + 1 \in Nat
      BY Parts
    <2>2. row \in Row /\ row.note = note /\ row.tomb = tomb /\ row.version = top + 1
      BY <1>1, <2>1 DEF Row, Notes
    <2> QED
      BY <1>0, <2>2, Zenon
  <1>3. source' = [source EXCEPT ![f] = row] /\ top' = top + 1 /\ floor' = floor
    BY <1>0, <1>1, Zenon DEF Written
  <1>4. source \in [Files -> Row] /\ top \in Nat /\ floor \in Nat
    BY Parts
  <1> QED
    BY <1>2, <1>3, <1>4 DEF SourceTypes

LEMMA EditKeeps ==
    ASSUME IInv, RacyMoves = {}, NEW f \in Files, Edit(f)
    PROVE  IInv'
  <1> DEFINE e == edits + 1
  <1>1. e \in 1 .. MaxEdits /\ e \notin 1 .. edits /\ edits' = e /\ e \in 1 .. edits' /\ edits' \in 0 .. MaxEdits
        /\ 1 .. edits \subseteq 1 .. edits' /\ edits' \in Nat /\ edits <= edits'
    BY Bounds, Parts DEF Edit
  <1> HIDE DEF e
  <1>2. /\ unsent' = unsent \cup {e}
        /\ local' = [local EXCEPT ![f] = local[f] \cup {e}]
        /\ UNCHANGED <<kept, deleted, discarded, source, top, floor, mount, store, disk, pass, roEdits, held, keeping,
                       pbase, pserver, ptaking>>
        /\ f \notin keeping
    BY <1>1 DEF Edit, remote, saved, reviews, primary
  <1>3. /\ echo' = {} /\ scope' \in Scopes /\ scope'.rt = scope.rt /\ scope'.state = scope.state
        /\ (scope' = NoScope <=> scope = NoScope) /\ (scope.force => scope'.force)
    BY NudgedSound DEF Edit
  <1>4. local \in Bases /\ local' \in Bases /\ unsent' \in Notes /\ local'[f] = local[f] \cup {e}
        /\ (\A g \in Files : local[g] \subseteq local'[g]) /\ (\A g \in Files \ {f} : local'[g] = local[g])
    BY <1>1, <1>2, Parts DEF Bases, Notes
  <1>5. Types'
    BY <1>1, <1>2, <1>3, <1>4, Parts
       DEF Types, FolderTypes, SourceTypes, SavedTypes, ScopeTypes, PrimaryTypes
  <1>6. Order'
    BY <1>2, <1>3, Parts DEF Order
  <1>7. \A n : n \subseteq 1 .. edits => n \cap Loose' = n \cap Loose
    BY <1>1, <1>2 DEF Loose
  <1>8. /\ \A g \in Files : local[g] \subseteq 1 .. edits
        /\ unsent \subseteq 1 .. edits /\ ptaking.note \subseteq 1 .. edits
    BY Parts DEF Data
  <1>9. /\ \A g \in Files : local'[g] \subseteq 1 .. edits'
        /\ unsent' \subseteq 1 .. edits' /\ ptaking'.note \subseteq 1 .. edits'
    BY <1>1, <1>2, <1>4, <1>8
  <1>10. \A x \in unsent' : x \in unsent \/ (x \notin 1 .. edits /\ \E g \in Files : x \in local'[g])
    BY <1>1, <1>2, <1>4
  <1>11. \A g \in Files : Known(g)' = Known(g) /\ Served(g)' = Served(g)
    BY <1>2, <1>3, KnownSame, ServedSame
  <1>12. Data'
    BY <1>1, <1>2, <1>4, <1>9, <1>10, <1>11, Parts, DataMoves
  <1>13. PassFit'
    <2>1. \A g \in Files : pass.rt.base[g] \subseteq 1 .. edits
      BY Parts DEF Data, Known, Fit
    <2> QED
      BY <1>2, <1>7, <2>1, Parts DEF PassFit
  <1>14. KeepFit'
    BY <1>2, <1>4, <1>7, <1>8, Parts DEF KeepFit
  <1>15. HeldFit'
    BY <1>2, Parts DEF HeldFit
  <1> QED
    BY <1>5, <1>6, <1>12, <1>13, <1>14, <1>15 DEF IInv

LEMMA DeleteKeeps ==
    ASSUME IInv, RacyMoves = {}, NEW S \in SUBSET Files, Delete(S)
    PROVE  IInv'
  <1>1. /\ pass = NoPass /\ keeping = {} /\ S # {}
        /\ local' = [f \in Files |-> IF f \in S THEN {} ELSE local[f]]
        /\ unsent' = unsent \ UNION {local[f] : f \in S}
        /\ deleted' = deleted \cup S
        /\ discarded' = discarded \cup IF mount.on THEN {} ELSE UNION {local[f] : f \in S}
        /\ UNCHANGED <<kept, source, top, floor, mount, store, disk, pass, roEdits, held, keeping,
                       pbase, pserver, ptaking, edits>>
    BY DEF Delete, remote, saved, reviews, primary
  <1>2. /\ echo' = {} /\ scope' \in Scopes /\ scope'.rt = scope.rt /\ scope'.state = scope.state
        /\ (scope' = NoScope <=> scope = NoScope) /\ (scope.force => scope'.force)
    BY NudgedSound DEF Delete
  <1>3. \A f \in Files : local[f] \in Notes
    BY Parts DEF Bases
  <1>4. local' \in Bases /\ unsent' \in Notes /\ discarded' \in Notes /\ deleted' \in SUBSET Files
    <2>1. UNION {local[f] : f \in S} \in Notes
      BY <1>3 DEF Notes
    <2>2. local' \in Bases
      BY <1>1, <1>3 DEF Bases, Notes
    <2>3. unsent \in Notes /\ discarded \in Notes /\ deleted \in SUBSET Files
      BY Parts
    <2>4. unsent' \in Notes /\ discarded' \in Notes
      BY <1>1, <2>1, <2>3 DEF Notes
    <2> QED
      BY <1>1, <2>2, <2>3, <2>4
  <1>5. Types'
    BY <1>1, <1>2, <1>4, Parts
       DEF Types, FolderTypes, SourceTypes, SavedTypes, ScopeTypes, PrimaryTypes
  <1>6. Order'
    BY <1>1, <1>2, Parts DEF Order
  <1>7. Loose' \subseteq Loose /\ unsent' \subseteq unsent
    BY <1>1 DEF Loose
  <1>8. \A f \in Files : local[f] \subseteq local'[f] \/ local[f] \cap Loose' = {}
    <2> SUFFICES ASSUME NEW f \in Files PROVE local[f] \subseteq local'[f] \/ local[f] \cap Loose' = {}
      OBVIOUS
    <2>1. CASE f \in S
      BY <1>1, <2>1 DEF Loose
    <2>2. CASE f \notin S
      BY <1>1, <2>2
    <2> QED
      BY <2>1, <2>2
  <1>9. /\ \A g \in Files : local'[g] \subseteq 1 .. edits'
        /\ unsent' \subseteq 1 .. edits' /\ ptaking'.note \subseteq 1 .. edits'
    BY <1>1, <1>7, Parts DEF Data
  <1>10. \A g \in Files : Known(g)' = Known(g) /\ Served(g)' = Served(g)
    BY <1>1, <1>2, KnownSame, ServedSame
  <1>11. Data'
    BY <1>1, <1>7, <1>8, <1>9, <1>10, Parts, DataMoves
  <1>12. PassFit' /\ KeepFit' /\ HeldFit'
    BY <1>1, <1>7, Parts DEF PassFit, KeepFit, HeldFit
  <1> QED
    BY <1>5, <1>6, <1>11, <1>12 DEF IInv

\* A step of the source alone.
LEMMA SourceKeeps ==
    ASSUME IInv, SourceTypes', edits' \in 0 .. MaxEdits, edits <= edits',
           UNCHANGED <<folder, saved, scope, pass, reviews, echo, primary>>,
           \A f \in Files : \/ source'[f] = source[f]
                            \/ /\ \A n \in Known(f) : n \cap Loose = {}
                               /\ Sent(source[f].note)'
    PROVE  IInv'
  <1>1. UNCHANGED <<local, kept, unsent, deleted, discarded, mount, store, disk, scope, pass, roEdits, held, keeping, echo,
                    pbase, pserver, ptaking>>
    BY DEF folder, saved, reviews, primary
  <1>2. edits' \in Nat
    BY Bounds
  <1>3. Types'
    BY <1>1, Parts DEF Types, FolderTypes, SavedTypes, ScopeTypes, PrimaryTypes
  <1>4. Order' /\ PassFit' /\ KeepFit' /\ HeldFit'
    BY <1>1, Parts DEF Order, PassFit, KeepFit, HeldFit, Loose
  <1>5. 1 .. edits \subseteq 1 .. edits'
    BY <1>2, Parts
  <1>6. /\ \A g \in Files : local'[g] \subseteq 1 .. edits'
        /\ unsent' \subseteq 1 .. edits' /\ ptaking'.note \subseteq 1 .. edits'
    BY <1>1, <1>5, Parts DEF Data
  <1>7. \A g \in Files : Known(g)' = Known(g)
    BY <1>1, KnownSame
  <1>8. \A g \in Files : \A n \in Served(g)' : n \in Served(g) \/ Sent(n)'
    BY <1>1 DEF Served
  <1>9. Data'
    BY <1>1, <1>2, <1>6, <1>7, <1>8, Parts, DataMoves
  <1> QED
    BY <1>3, <1>4, <1>9 DEF IInv

LEMMA PeerEditKeeps ==
    ASSUME IInv, RacyMoves = {}, NEW f \in Files, PeerEdit(f)
    PROVE  IInv'
  <1> DEFINE e == edits + 1
  <1>1. e \in 1 .. MaxEdits /\ e \notin 1 .. edits /\ edits' = e /\ e \in 1 .. edits' /\ edits' \in 0 .. MaxEdits
        /\ 1 .. edits \subseteq 1 .. edits' /\ edits <= edits'
    BY Bounds, Parts DEF PeerEdit
  <1> HIDE DEF e
  <1>2. Written(f, source[f].note \cup {e}) /\ ~LocalOnly(f) /\ UNCHANGED <<folder, saved, scope, pass, reviews, echo, primary>>
    BY <1>1 DEF PeerEdit
  <1>3. source[f].note \cup {e} \in Notes
    BY <1>1, Parts DEF Notes, Row
  <1>4. SourceTypes' /\ source'[f].note = source[f].note \cup {e} /\ \A g \in Files \ {f} : source'[g] = source[g]
    BY <1>2, <1>3, WrittenSound
  <1>5. \A n \in Known(f) : n \cap Loose = {}
    BY <1>2 DEF LocalOnly, Known, Loose
  <1>6. Sent(source[f].note)'
    <2>1. source[f].note \subseteq 1 .. edits /\ source[f].note \cap unsent = {} /\ unsent \subseteq 1 .. edits
      BY Parts DEF Data, Served, Sent
    <2>2. unsent' = unsent
      BY <1>2 DEF folder
    <2>3. source'[f].note \subseteq 1 .. edits' /\ source'[f].note \cap unsent' = {}
      BY <1>1, <1>4, <2>1, <2>2
    <2> QED
      BY <2>3 DEF Sent
  <1> QED
    BY <1>1, <1>2, <1>4, <1>5, <1>6, SourceKeeps

LEMMA PeerDeleteKeeps ==
    ASSUME IInv, NEW f \in Files, PeerDelete(f)
    PROVE  IInv'
  <1>1. /\ Written(f, {}) /\ source[f].note # {}
        /\ UNCHANGED <<folder, saved, scope, pass, reviews, echo, primary>> /\ edits' = edits
    BY DEF PeerDelete
  <1>2. {} \in Notes
    BY DEF Notes
  <1>3. SourceTypes' /\ source'[f].note = {} /\ \A g \in Files \ {f} : source'[g] = source[g]
    BY <1>1, <1>2, WrittenSound
  <1>4. \A n \in Known(f) : n \cap Loose = {}
    BY <1>1, Parts DEF Data, Fit
  <1>5. Sent(source[f].note)'
    BY <1>3 DEF Sent
  <1>6. edits' \in 0 .. MaxEdits /\ edits <= edits'
    BY <1>1, Parts
  <1> QED
    BY <1>1, <1>3, <1>4, <1>5, <1>6, SourceKeeps

LEMMA SourceResetKeeps ==
    ASSUME IInv, SourceReset
    PROVE  IInv'
  <1>1. /\ source' = [f \in Files |-> IF source[f].tomb THEN NoRow ELSE source[f]]
        /\ top' = top + 1 /\ floor' = top + 1 /\ edits' = edits
        /\ UNCHANGED <<folder, saved, scope, pass, reviews, echo, primary>>
    BY DEF SourceReset
  <1>2. SourceTypes'
    BY <1>1, Parts, Nothing DEF SourceTypes
  <1>3. ASSUME NEW f \in Files, source'[f] # source[f]
        PROVE  (\A n \in Known(f) : n \cap Loose = {}) /\ Sent(source[f].note)'
    <2>1. source[f].tomb /\ source'[f] = NoRow
      BY <1>1, <1>3
    <2>2. \A n \in Known(f) : n \cap Loose = {}
      BY <2>1, Parts DEF Data, Fit
    <2>3. source'[f].note = {}
      BY <2>1, Nothing
    <2> QED
      BY <2>2, <2>3 DEF Sent
  <1>4. edits' \in 0 .. MaxEdits /\ edits <= edits'
    BY <1>1, Parts
  <1> QED
    BY <1>1, <1>2, <1>3, <1>4, SourceKeeps

-----------------------------------------------------------------------------
(* A pass *)

\* A step of the pass that touches neither the folder nor the source.
LEMMA PassMoves ==
    ASSUME IInv, UNCHANGED <<folder, remote, mount, disk, keeping, echo, primary, edits>>,
           scope' \in Scopes, pass' \in Passes, store' \in [Points -> Runtime],
           roEdits' \in SUBSET Files, held' \in SUBSET Files,
           keeping = {}, mount.on, ptaking.file = NoFile,
           scope' # NoScope => scope'.state # "none",
           pass' # NoPass => pass'.step # "none" /\ (pass'.orphan <=> scope' = NoScope),
           \A f \in Files : Known(f)' \subseteq Known(f) \cup {{}},
           \A f \in Files : pass'.rows[f].note \in {pass.rows[f].note, source[f].note, {}},
           PassFit', HeldFit'
    PROVE  IInv'
  <1>1. UNCHANGED <<local, kept, unsent, deleted, discarded, source, top, floor, mount, disk, keeping, echo,
                    pbase, pserver, ptaking, edits>>
    BY DEF folder, remote, primary
  <1>2. Types'
    BY <1>1, Parts DEF Types, FolderTypes, SourceTypes, SavedTypes, ScopeTypes, PrimaryTypes
  <1>3. Order'
    BY <1>1, Parts DEF Order
  <1>4. \A f \in Files : Served(f)' \subseteq Served(f) \cup {{}}
    BY <1>1 DEF Served
  <1>5. Data'
    BY <1>1, <1>4, Parts, DataStill
  <1>6. KeepFit'
    BY <1>1 DEF KeepFit
  <1> QED
    BY <1>2, <1>3, <1>5, <1>6 DEF IInv

\* While a pass runs, nobody else holds the mount.
LEMMA Running ==
    ASSUME IInv, pass # NoPass
    PROVE  /\ keeping = {} /\ mount.on /\ ptaking.file = NoFile /\ (pass.orphan <=> scope = NoScope)
           /\ (scope # NoScope => scope.state # "none")
  BY Parts DEF Order

LEMMA BeginKeeps ==
    ASSUME IInv, Begin
    PROVE  IInv'
  <1>1. /\ pass = NoPass /\ keeping = {} /\ mount.on /\ ptaking.file = NoFile
        /\ (scope # NoScope => scope.state # "none")
    BY Parts DEF Begin, Order
  <1>2. /\ Ready \in Scopes /\ Ready.state # "none"
        /\ Ready.rt = IF scope = NoScope THEN store[mount.point] ELSE scope.rt
    BY <1>1, Parts, ReadySound
  <1>3. PICK rt \in Runtime : rt = Ready.rt
    BY <1>2 DEF Scopes
  <1>4. PICK full \in BOOLEAN : full = (Ready.state \in {"mounting", "offline"} \/ Ready.force)
    BY Zenon
  <1>5. PICK mode : mode = IF full \/ (rt.floor # 0 /\ floor > rt.floor) THEN "full" ELSE IF top = rt.cursor THEN "noop" ELSE "delta"
    OBVIOUS
  <1>6. PICK step : step = IF mode = "full" THEN "guard" ELSE "apply"
    OBVIOUS
  <1>7. PICK todo : todo = IF mode = "delta" THEN {f \in Files : source[f].version > rt.cursor} ELSE {}
    OBVIOUS
  <1>8. PICK st : st = Machine(Ready.state, "syncStart")
    OBVIOUS
  <1>9. PICK dir \in {"pull", "sync"} : dir = mount.dir
    BY Parts DEF Mount
  <1>10. /\ scope' = [Ready EXCEPT !.state = st, !.force = FALSE]
         /\ pass' = [NoPass EXCEPT !.step = step, !.full = full, !.dir = dir, !.rt = rt, !.rows = source, !.top = top,
                                   !.floor = floor, !.todo = todo]
         /\ store' = IF Ready.state = "live" THEN [store EXCEPT ![mount.point] = rt] ELSE store
         /\ UNCHANGED <<folder, remote, mount, disk, unsaved, reviews, echo, primary, bounds>>
    BY <1>3, <1>4, <1>5, <1>6, <1>7, <1>8, <1>9, Zenon DEF Begin
  <1>11. st \in States /\ st # "none"
    BY <1>2, <1>8, MachineType DEF Scopes
  <1>12. scope' \in Scopes /\ scope'.rt = rt /\ scope'.state = st
    BY <1>2, <1>3, <1>10, <1>11 DEF Scopes
  <1>13. todo \in SUBSET Files /\ step \in {"guard", "apply"}
    BY <1>6, <1>7
  <1>14. /\ pass' \in Passes /\ pass'.rt = rt /\ pass'.rows = source /\ pass'.step = step /\ pass'.orphan = FALSE
         /\ pass'.held = {}
    BY <1>3, <1>4, <1>9, <1>10, <1>13, Parts, Nothing, ZenonT(40) DEF Passes
  <1>15. store' \in [Points -> Runtime] /\ \A q \in Points : store'[q] \in {store[q], rt}
    BY <1>3, <1>10, Parts
  <1>16. \A f \in Files : rt.base[f] \in Known(f)
    BY <1>2, <1>3, Parts DEF Known
  <1>17. UNCHANGED <<disk, unsent, kept, held, roEdits, keeping, edits, mount>>
    BY <1>10 DEF folder, reviews, bounds
  <1>18. \A f \in Files : Known(f)' \subseteq Known(f) \cup {{}}
    <2> SUFFICES ASSUME NEW f \in Files, NEW n \in Known(f)' PROVE n \in Known(f)
      OBVIOUS
    <2>1. CASE n = scope'.rt.base[f] \/ n = pass'.rt.base[f]
      BY <1>12, <1>14, <1>16, <2>1
    <2>2. ASSUME NEW q \in Points, n = store'[q].base[f] PROVE n \in Known(f)
      BY <1>15, <1>16, <2>2 DEF Known
    <2>3. ASSUME NEW q \in Points, n = disk'.store[q].base[f] PROVE n \in Known(f)
      BY <1>17, <2>3 DEF Known
    <2> QED
      BY <2>1, <2>2, <2>3 DEF Known
  <1>19. Loose' = Loose
    BY <1>17 DEF Loose
  <1>20. PassFit'
    <2> SUFFICES ASSUME NEW f \in Files, rt.base[f] \cap Loose # {} PROVE source[f].note = {} /\ ~source[f].tomb
      BY <1>14, <1>19 DEF PassFit
    <2> QED
      BY <1>16, Parts DEF Data, Fit
  <1>21. HeldFit'
    BY <1>14, <1>17, Parts DEF HeldFit
  <1>22. roEdits' \in SUBSET Files /\ held' \in SUBSET Files
    BY <1>17, Parts
  <1>23. scope' # NoScope
    BY <1>11, <1>12, Nothing
  <1>24. \A f \in Files : pass'.rows[f].note \in {pass.rows[f].note, source[f].note, {}}
    BY <1>14
  <1>25. pass'.step # "none" /\ (pass'.orphan <=> scope' = NoScope) /\ scope'.state # "none"
    BY <1>11, <1>12, <1>13, <1>14, <1>23
  <1>26. UNCHANGED <<folder, remote, mount, disk, keeping, echo, primary, edits>>
    BY <1>10, <1>17
  <1> QED
    BY <1>1, <1>12, <1>14, <1>15, <1>18, <1>20, <1>21, <1>22, <1>24, <1>25, <1>26, PassMoves

\* A pass ends and hands its runtime over, unless its scope was replaced.
LEMMA EndKeeps ==
    ASSUME IInv, pass # NoPass, pass' = NoPass, UNCHANGED <<folder, remote, mount, disk, keeping, echo, primary, edits>>,
           NEW rt \in Runtime, rt.base = pass.rt.base,
           roEdits' \in SUBSET Files, held' \subseteq held \cup pass.held,
           \/ pass.orphan /\ UNCHANGED <<scope, store>>
           \/ /\ ~pass.orphan /\ scope' \in Scopes /\ scope'.state # "none" /\ scope'.rt = rt
              /\ store' = [store EXCEPT ![mount.point] = rt]
    PROVE  IInv'
  <1>1. /\ keeping = {} /\ mount.on /\ ptaking.file = NoFile /\ (pass.orphan <=> scope = NoScope)
        /\ (scope # NoScope => scope.state # "none")
    BY Running
  <1>2. /\ scope' \in Scopes /\ (scope' # NoScope => scope'.state # "none") /\ scope'.rt \in {scope.rt, rt}
        /\ store' \in [Points -> Runtime] /\ \A q \in Points : store'[q] \in {store[q], rt}
    BY <1>1, Parts
  <1>3. pass' \in Passes
    BY Nothing
  <1>4. \A f \in Files : Known(f)' \subseteq Known(f) \cup {{}}
    <2> SUFFICES ASSUME NEW f \in Files, NEW n \in Known(f)' PROVE n \in Known(f) \cup {{}}
      OBVIOUS
    <2>0. rt.base[f] \in Known(f)
      BY DEF Known
    <2>1. CASE n = scope'.rt.base[f]
      BY <1>2, <2>0, <2>1 DEF Known
    <2>2. CASE n = pass'.rt.base[f]
      BY <2>2, Nothing
    <2>3. ASSUME NEW q \in Points, n = store'[q].base[f] PROVE n \in Known(f)
      BY <1>2, <2>0, <2>3 DEF Known
    <2>4. ASSUME NEW q \in Points, n = disk'.store[q].base[f] PROVE n \in Known(f)
      BY <2>4 DEF Known
    <2> QED
      BY <2>1, <2>2, <2>3, <2>4 DEF Known
  <1>5. PassFit'
    BY Nothing DEF PassFit
  <1>6. HeldFit'
    BY Parts, Nothing DEF HeldFit
  <1>7. \A f \in Files : pass'.rows[f].note \in {pass.rows[f].note, source[f].note, {}}
    BY Nothing
  <1>8. held' \in SUBSET Files
    BY Parts DEF Passes
  <1> QED
    BY <1>1, <1>2, <1>3, <1>4, <1>5, <1>6, <1>7, <1>8, PassMoves

LEMMA GuardKeeps ==
    ASSUME IInv, Guard
    PROVE  IInv'
  <1>1. /\ pass # NoPass /\ UNCHANGED <<folder, remote, mount, disk, roEdits, held, keeping, echo, primary, edits>>
        /\ pass.step = "guard"
    BY Nothing DEF Guard, reviews, bounds
  <1>2. CASE MassLocalDeletion
    <2>1. pass' = NoPass
      BY <1>2 DEF Guard
    <2>2. CASE pass.orphan
      <3>1. UNCHANGED <<scope, store>>
        BY <1>2, <2>2 DEF Guard
      <3> QED
        BY <1>1, <2>1, <2>2, <3>1, Parts, EndKeeps
    <2>3. CASE ~pass.orphan
      <3>1. PICK st : st = Machine(scope.state, "localGone")
        OBVIOUS
      <3>2. scope' = [scope EXCEPT !.state = st, !.rt = pass.rt] /\ store' = [store EXCEPT ![mount.point] = pass.rt]
        BY <1>2, <2>3, <3>1, Zenon DEF Guard
      <3>3. scope.state \in States /\ scope.state # "none"
        BY <1>1, <2>3, Parts, Running DEF Scopes
      <3>4. st \in States /\ st # "none"
        BY <3>1, <3>3, MachineType
      <3>5. scope' \in Scopes /\ scope'.state # "none" /\ scope'.rt = pass.rt
        BY <3>2, <3>4, Parts DEF Scopes
      <3> QED
        BY <1>1, <2>1, <2>3, <3>2, <3>5, Parts, EndKeeps
    <2> QED
      BY <2>2, <2>3
  <1>3. CASE ~MassLocalDeletion
    <2>1. pass' = [pass EXCEPT !.step = "list"] /\ UNCHANGED <<scope, store>>
      BY <1>3 DEF Guard
    <2>2. /\ pass' \in Passes /\ pass'.rt = pass.rt /\ pass'.rows = pass.rows /\ pass'.held = pass.held /\ pass'.orphan = pass.orphan
          /\ pass'.step = "list"
      BY <2>1, Parts DEF Passes
    <2>3. \A f \in Files : Known(f)' \subseteq Known(f) \cup {{}}
      BY <1>1, <2>1, <2>2 DEF Known
    <2>4. PassFit' /\ HeldFit'
      BY <1>1, <2>1, <2>2, Parts DEF PassFit, HeldFit, Loose, folder
    <2>5. \A f \in Files : pass'.rows[f].note \in {pass.rows[f].note, source[f].note, {}}
      BY <2>2
    <2> QED
      BY <1>1, <2>1, <2>2, <2>3, <2>4, <2>5, Running, Parts, PassMoves
  <1> QED
    BY <1>2, <1>3

LEMMA ListKeeps ==
    ASSUME IInv, List
    PROVE  IInv'
  <1>1. PICK listed : listed = {f \in Files : local[f] # {}}
    OBVIOUS
  <1>2. PICK todo : todo = listed \cup Tracked(pass.rt) \cup {f \in Files : source[f].note # {}}
    OBVIOUS
  <1>3. PICK hold \in BOOLEAN : hold = (mount.kind = "shared" /\ Cardinality({f \in listed \ Tracked(pass.rt) : source[f].note = {} /\ ~source[f].tomb}) > PushFloor)
    BY Zenon
  <1>4. /\ pass' = [pass EXCEPT !.step = "apply", !.rows = source, !.top = top, !.listed = listed, !.todo = todo, !.hold = hold]
        /\ pass.step = "list"
        /\ UNCHANGED <<folder, remote, saved, scope, reviews, echo, primary, bounds>>
    BY <1>1, <1>2, <1>3, Zenon DEF List
  <1>5. listed \in SUBSET Files /\ todo \in SUBSET Files
    BY <1>1, <1>2, SMTT(30) DEF Tracked
  <1>6. /\ pass' \in Passes /\ pass'.rt = pass.rt /\ pass'.rows = source /\ pass'.held = pass.held /\ pass'.orphan = pass.orphan
        /\ pass'.step = "apply"
    BY <1>3, <1>4, <1>5, Parts DEF Passes
  <1>7. UNCHANGED <<folder, remote, mount, store, disk, scope, roEdits, held, keeping, echo, primary, edits>> /\ pass # NoPass
    BY <1>4, Nothing DEF saved, reviews, bounds
  <1>8. \A f \in Files : Known(f)' \subseteq Known(f) \cup {{}}
    BY <1>6, <1>7 DEF Known
  <1>9. PassFit'
    <2>1. Loose' = Loose
      BY <1>7 DEF Loose, folder
    <2> SUFFICES ASSUME NEW f \in Files, pass.rt.base[f] \cap Loose # {} PROVE source[f].note = {} /\ ~source[f].tomb
      BY <1>6, <2>1 DEF PassFit
    <2> QED
      BY Parts DEF Data, Fit, Known
  <1>10. HeldFit'
    BY <1>6, <1>7, Parts DEF HeldFit
  <1>11. \A f \in Files : pass'.rows[f].note \in {pass.rows[f].note, source[f].note, {}}
    BY <1>6
  <1> QED
    BY <1>6, <1>7, <1>8, <1>9, <1>10, <1>11, Running, Parts, PassMoves

\* A file is left for later.
LEMMA FailedKeeps ==
    ASSUME IInv, NEW f \in Files, pass.step = "apply", pass' = Failed(f),
           UNCHANGED <<folder, remote, saved, scope, reviews, echo, primary, edits>>
    PROVE  IInv'
  <1>1. /\ pass' \in Passes /\ pass'.rt = pass.rt /\ pass'.rows = pass.rows /\ pass'.held = pass.held /\ pass'.orphan = pass.orphan
        /\ pass'.step = "apply"
    BY Parts, FailedSound
  <1>2. UNCHANGED <<folder, remote, mount, store, disk, scope, roEdits, held, keeping, echo, primary, edits>> /\ pass # NoPass
    BY Nothing DEF saved, reviews
  <1>3. \A g \in Files : Known(g)' \subseteq Known(g) \cup {{}}
    BY <1>1, <1>2 DEF Known
  <1>4. PassFit' /\ HeldFit'
    BY <1>1, <1>2, Parts DEF PassFit, HeldFit, Loose, folder
  <1>5. \A g \in Files : pass'.rows[g].note \in {pass.rows[g].note, source[g].note, {}}
    BY <1>1
  <1> QED
    BY <1>1, <1>2, <1>3, <1>4, <1>5, Running, Parts, PassMoves

LEMMA SettleKeeps ==
    ASSUME IInv, Settle
    PROVE  IInv'
  <1>1. /\ pass # NoPass /\ pass' = NoPass /\ UNCHANGED <<folder, remote, mount, disk, keeping, echo, primary, edits>>
    BY Nothing DEF Settle, bounds
  <1>2. CASE pass.orphan
    <2>1. UNCHANGED <<scope, store, roEdits, held>>
      BY <1>2 DEF Settle
    <2> QED
      BY <1>1, <1>2, <2>1, Parts, EndKeeps
  <1>3. CASE ~pass.orphan
    <2>1. PICK cursor : cursor = IF pass.failed = {} THEN pass.top ELSE Min(pass.failed) - 1
      OBVIOUS
    <2>2. cursor \in Nat
      BY <2>1, Parts, Earliest DEF Passes
    <2>3. PICK fl : fl = IF pass.floor > pass.rt.floor THEN pass.floor ELSE pass.rt.floor
      OBVIOUS
    <2>4. fl \in Nat
      BY <2>3, Parts DEF Passes, Runtime
    <2>5. PICK rt : rt = [pass.rt EXCEPT !.cursor = cursor, !.floor = fl]
      OBVIOUS
    <2>6. rt \in Runtime /\ rt.base = pass.rt.base
      BY <2>2, <2>4, <2>5, Parts DEF Runtime
    <2>7. PICK st : st = Machine(scope.state, IF pass.conflict THEN "conflict" ELSE "syncSettled")
      OBVIOUS
    <2>8. /\ scope' = [scope EXCEPT !.rt = rt, !.fails = 0, !.state = st]
          /\ store' = [store EXCEPT ![mount.point] = rt]
          /\ roEdits' = (IF pass.full THEN {} ELSE roEdits) \cup pass.ro
          /\ held' = (IF pass.full THEN {} ELSE held) \cup pass.held
      BY <1>3, <2>1, <2>3, <2>5, <2>7, Zenon DEF Settle
    <2>9. scope.state \in States /\ scope.state # "none"
      BY <1>1, <1>3, Parts, Running DEF Scopes
    <2>10. st \in States /\ st # "none"
      BY <2>7, <2>9, MachineType
    <2>11. scope' \in Scopes /\ scope'.state # "none" /\ scope'.rt = rt
      BY <2>6, <2>8, <2>10, Parts DEF Scopes
    <2>12. roEdits' \in SUBSET Files /\ held' \subseteq held \cup pass.held
      BY <2>8, Parts DEF Passes
    <2> QED
      BY <1>1, <1>3, <2>6, <2>8, <2>11, <2>12, EndKeeps
  <1> QED
    BY <1>2, <1>3

LEMMA PassFailsKeeps ==
    ASSUME IInv, PassFails
    PROVE  IInv'
  <1>1. /\ pass # NoPass /\ pass' = NoPass /\ UNCHANGED <<folder, remote, mount, disk, roEdits, held, keeping, echo, primary, edits>>
    BY Nothing DEF PassFails, reviews
  <1>2. CASE pass.orphan
    <2>1. UNCHANGED <<scope, store>>
      BY <1>2 DEF PassFails
    <2> QED
      BY <1>1, <1>2, <2>1, Parts, EndKeeps
  <1>3. CASE ~pass.orphan
    <2>1. PICK st : st = Machine(scope.state, IF scope.fails + 1 >= MaxFails THEN "fail" ELSE "disconnect")
      OBVIOUS
    <2>2. PICK fails : fails = scope.fails + 1
      OBVIOUS
    <2>3. scope' = [scope EXCEPT !.fails = fails, !.rt = pass.rt, !.state = st] /\ store' = [store EXCEPT ![mount.point] = pass.rt]
      BY <1>3, <2>1, <2>2, Zenon DEF PassFails
    <2>4. scope.state \in States /\ scope.state # "none" /\ fails \in Nat
      BY <1>1, <1>3, <2>2, Parts, Running DEF Scopes
    <2>5. st \in States /\ st # "none"
      BY <2>1, <2>4, MachineType
    <2>6. scope' \in Scopes /\ scope'.state # "none" /\ scope'.rt = pass.rt
      BY <2>3, <2>4, <2>5, Parts DEF Scopes
    <2> QED
      BY <1>1, <1>3, <2>3, <2>6, Parts, EndKeeps
  <1> QED
    BY <1>2, <1>3

-----------------------------------------------------------------------------
(* The files of a pass *)

\* A pass is done with one file: what it wrote here, at the source and into the base.
LEMMA FileMoves ==
    ASSUME IInv, NEW f \in Files, pass.step = "apply",
           UNCHANGED <<saved, scope, reviews, primary, edits, discarded>>,
           pass' \in Passes, pass'.step = "apply", pass'.orphan = pass.orphan, pass'.rows = pass.rows,
           pass'.held # {} => pass.held # {} \/ mount.kind = "shared",
           \A g \in Files \ {f} : pass'.rt.base[g] = pass.rt.base[g],
           local' \in Bases, \A g \in Files \ {f} : local'[g] = local[g],
           kept' \in Notes, kept \subseteq kept', unsent' \subseteq unsent, deleted' \in SUBSET Files, echo' = {},
           SourceTypes', \A g \in Files \ {f} : source'[g] = source[g],
           local'[f] \subseteq 1 .. edits,
           local[f] \subseteq local'[f] \/ local[f] \cap Loose' = {},
           source'[f] = source[f] \/ (local[f] \cap Loose' = {} /\ Sent(source[f].note)'),
           \/ pass'.rt.base[f] = pass.rt.base[f]
           \/ pass'.rt.base[f] \subseteq 1 .. edits /\ pass'.rt.base[f] \cap unsent' = {}
    PROVE  IInv'
  <1>1. UNCHANGED <<mount, store, disk, scope, roEdits, held, keeping, pbase, pserver, ptaking, edits>>
    BY DEF saved, reviews, primary
  <1>2. pass # NoPass /\ keeping = {} /\ pass' # NoPass
    BY Running, Nothing
  <1>3. unsent' \in Notes
    BY Parts DEF Notes
  <1>4. Types'
    BY <1>1, <1>3, Parts DEF Types, FolderTypes, SavedTypes, ScopeTypes, PrimaryTypes
  <1>5. Order'
    BY <1>1, <1>2, Parts DEF Order
  <1>6. Loose' \subseteq Loose
    BY DEF Loose
  <1>7. \A g \in Files : \A n \in Known(g)' : n \in Known(g) \/ Fit(n, g)'
    <2> SUFFICES ASSUME NEW g \in Files, NEW n \in Known(g)', n \notin Known(g) PROVE Fit(n, g)'
      OBVIOUS
    <2>1. n = pass'.rt.base[g]
      BY <1>1 DEF Known
    <2>2. g = f /\ n # pass.rt.base[f]
      BY <2>1 DEF Known
    <2>3. n \subseteq 1 .. edits' /\ n \cap Loose' = {}
      BY <1>1, <2>1, <2>2 DEF Loose
    <2> QED
      BY <2>3 DEF Fit
  <1>8. \A g \in Files : \A n \in Served(g)' : n \in Served(g) \/ Sent(n)'
    <2> SUFFICES ASSUME NEW g \in Files, NEW n \in Served(g)', n \notin Served(g) PROVE Sent(n)'
      OBVIOUS
    <2>1. n = source'[g].note
      BY <1>1 DEF Served
    <2>2. g = f /\ source'[f] # source[f]
      BY <2>1 DEF Served
    <2> QED
      BY <2>1, <2>2
  <1>9. /\ \A g \in Files : local[g] \subseteq 1 .. edits
        /\ unsent' \subseteq 1 .. edits' /\ ptaking'.note \subseteq 1 .. edits'
    BY <1>1, Parts DEF Data
  <1>10. \A g \in Files : local'[g] \subseteq 1 .. edits'
    BY <1>1, <1>9
  <1>11. edits' \in Nat /\ edits <= edits'
    BY <1>1, Parts
  <1>12. /\ \A g \in Files : local[g] \subseteq local'[g] \/ local[g] \cap Loose' = {}
         /\ \A x \in unsent' : x \in unsent \/ (x \notin 1 .. edits /\ \E g \in Files : x \in local'[g])
         /\ \A g \in Files : \/ source'[g].note = source[g].note /\ (source'[g].tomb => source[g].tomb)
                             \/ local[g] \cap Loose' = {}
                             \/ \A n \in Known(g) : n \cap Loose = {}
         /\ mount'.kind = mount.kind
    BY <1>1
  <1>13. Data'
    BY <1>7, <1>8, <1>9, <1>10, <1>11, <1>12, Parts, DataMoves
  <1>14. PassFit'
    <2> SUFFICES ASSUME NEW g \in Files, pass'.rt.base[g] \cap Loose' # {}
                 PROVE  pass.rows[g].note = {} /\ ~pass.rows[g].tomb
      BY DEF PassFit
    <2>1. pass'.rt.base[g] = pass.rt.base[g]
      BY DEF Loose
    <2> QED
      BY <1>6, <2>1, Parts DEF PassFit
  <1>15. KeepFit' /\ HeldFit'
    BY <1>1, <1>2, Parts DEF KeepFit, HeldFit
  <1> QED
    BY <1>4, <1>5, <1>13, <1>14, <1>15 DEF IInv

LEMMA ApplyKeeps ==
    ASSUME IInv, RacyMoves = {}, NEW f \in Files, Apply(f)
    PROVE  IInv'
  <1> DEFINE out == Outcome(f)  row == pass.rows[f]
  <1>1. /\ pass.step = "apply" /\ UNCHANGED <<saved, scope, reviews, primary, bounds>>
        /\ UNCHANGED <<saved, scope, reviews, primary, edits>>
    BY DEF Apply, bounds
  <1>2. /\ out = "agree" => local[f] = row.note
        /\ out = "pull" => row.note # {} /\ (local[f] = pass.rt.base[f] \/ local[f] = {})
        /\ out = "remove" => local[f] = pass.rt.base[f] /\ row.tomb
        /\ out = "tombstone" => local[f] = {}
        /\ out = "hold" => mount.kind = "shared"
    BY Outcomes
  <1>3. local[f] \in Notes /\ row.note \in Notes /\ {} \in Notes /\ pass.rt.base[f] \in Notes /\ local \in Bases
    <2>1. local[f] \in Notes /\ local \in Bases
      BY Parts DEF Bases
    <2>2. row \in Row
      BY Parts DEF Passes
    <2>3. pass.rt.base[f] \in Notes
      BY Parts, RuntimeBase
    <2> QED
      BY <2>1, <2>2, <2>3 DEF Row, Notes
  <1>4. local[f] \subseteq 1 .. edits /\ row.note \subseteq 1 .. edits /\ row.note \cap unsent = {} /\ pass.rt.base[f] \subseteq 1 .. edits
    BY Parts DEF Data, Served, Sent, Known, Fit
  <1>5. pass.rt.base[f] \cap Loose # {} => row.note = {} /\ ~row.tomb
    BY Parts DEF PassFit
  <1>6. kept \in Notes /\ unsent \in Notes /\ deleted \in SUBSET Files /\ echo = {} /\ SourceTypes /\ pass \in Passes
    BY Parts DEF Order, SourceTypes
  <1>7. ASSUME NEW note \in Notes, Writes(f, note)
        PROVE  local' \in Bases /\ local'[f] = note /\ (\A g \in Files \ {f} : local'[g] = local[g]) /\ echo' = {} /\ deleted' \in SUBSET Files
    BY <1>3, <1>6, <1>7 DEF Writes, Bases
  <1>8. ASSUME UNCHANGED <<source, top, floor>> PROVE SourceTypes' /\ \A g \in Files \ {f} : source'[g] = source[g]
    BY <1>6, <1>8 DEF SourceTypes
  <1> HIDE DEF out, row
  <1>a. ASSUME out = "agree", pass' = Through(f, local[f]), UNCHANGED <<folder, remote, echo>> PROVE IInv'
    <2>1. UNCHANGED <<local, kept, unsent, deleted, discarded, source, top, floor, echo>>
      BY <1>a DEF folder, remote
    <2>2. /\ pass' \in Passes /\ pass'.step = pass.step /\ pass'.orphan = pass.orphan /\ pass'.rows = pass.rows /\ pass'.held = pass.held
          /\ pass'.rt.base[f] = local[f] /\ \A g \in Files \ {f} : pass'.rt.base[g] = pass.rt.base[g]
      BY <1>a, <1>3, <1>6, ThroughSound
    <2> QED
      BY <1>a, <1>1, <1>2, <1>3, <1>4, <1>6, <1>8, <2>1, <2>2, FileMoves
  <1>b. ASSUME out \in {"keep", "report", "hold"}, UNCHANGED <<folder, remote, echo>>,
               pass' = [Through(f, pass.rt.base[f])
                          EXCEPT !.ro = IF out = "report" THEN @ \cup {f} ELSE @, !.held = IF out = "hold" THEN @ \cup {f} ELSE @]
        PROVE  IInv'
    <2>1. UNCHANGED <<local, kept, unsent, deleted, discarded, source, top, floor, echo>>
      BY <1>b DEF folder, remote
    <2>2. PICK r : r = Through(f, pass.rt.base[f])
      OBVIOUS
    <2>3. /\ r \in Passes /\ r.step = pass.step /\ r.orphan = pass.orphan /\ r.rows = pass.rows /\ r.held = pass.held
          /\ r.rt \in Runtime
          /\ r.rt.base[f] = pass.rt.base[f] /\ \A g \in Files \ {f} : r.rt.base[g] = pass.rt.base[g]
      BY <1>3, <1>6, <2>2, ThroughSound
    <2>4. PICK ro, hd : ro = (IF out = "report" THEN r.ro \cup {f} ELSE r.ro) /\ hd = (IF out = "hold" THEN r.held \cup {f} ELSE r.held)
      OBVIOUS
    <2>5. pass' = [r EXCEPT !.ro = ro, !.held = hd]
      BY <1>b, <2>2, <2>4, Zenon
    <2>6. ro \in SUBSET Files /\ hd \in SUBSET Files /\ (hd # {} => r.held # {} \/ out = "hold")
      BY <2>3, <2>4 DEF Passes
    <2>7. /\ pass' \in Passes /\ pass'.step = pass.step /\ pass'.orphan = pass.orphan /\ pass'.rows = pass.rows /\ pass'.held = hd
          /\ pass'.rt = r.rt
      BY <2>3, <2>5, <2>6 DEF Passes
    <2> QED
      BY <1>1, <1>2, <1>3, <1>4, <1>6, <1>8, <2>1, <2>3, <2>6, <2>7, FileMoves
  <1>c. ASSUME Written(f, local[f]), unsent' = unsent \ local[f], pass' = Through(f, local[f]),
               UNCHANGED <<local, kept, deleted, discarded, echo>>
        PROVE  IInv'
    <2>1. /\ pass' \in Passes /\ pass'.step = pass.step /\ pass'.orphan = pass.orphan /\ pass'.rows = pass.rows /\ pass'.held = pass.held
          /\ pass'.rt.base[f] = local[f] /\ \A g \in Files \ {f} : pass'.rt.base[g] = pass.rt.base[g]
      BY <1>c, <1>3, <1>6, ThroughSound
    <2>2. SourceTypes' /\ source'[f].note = local[f] /\ \A g \in Files \ {f} : source'[g] = source[g]
      BY <1>c, <1>3, WrittenSound
    <2>3. local[f] \cap unsent' = {} /\ local[f] \cap Loose' = {} /\ unsent' \subseteq unsent
      BY <1>c DEF Loose
    <2>4. Sent(source[f].note)'
      BY <1>1, <1>4, <2>2, <2>3 DEF Sent
    <2> QED
      BY <1>c, <1>1, <1>3, <1>4, <1>6, <2>1, <2>2, <2>3, <2>4, FileMoves
  <1>d. ASSUME out = "pull", Writes(f, row.note), pass' = Through(f, row.note), UNCHANGED <<kept, unsent, discarded, remote>>
        PROVE  IInv'
    <2>1. /\ pass' \in Passes /\ pass'.step = pass.step /\ pass'.orphan = pass.orphan /\ pass'.rows = pass.rows /\ pass'.held = pass.held
          /\ pass'.rt.base[f] = row.note /\ \A g \in Files \ {f} : pass'.rt.base[g] = pass.rt.base[g]
      BY <1>d, <1>3, <1>6, ThroughSound
    <2>2. local' \in Bases /\ local'[f] = row.note /\ (\A g \in Files \ {f} : local'[g] = local[g]) /\ echo' = {} /\ deleted' \in SUBSET Files
      BY <1>d, <1>3, <1>7
    <2>3. UNCHANGED <<source, top, floor>>
      BY <1>d DEF remote
    <2>4. local[f] \cap Loose' = {}
      <3>1. Loose' = Loose
        BY <1>d DEF Loose
      <3> QED
        BY <1>d, <1>2, <1>5, <3>1
    <2> QED
      BY <1>d, <1>1, <1>3, <1>4, <1>6, <1>8, <2>1, <2>2, <2>3, <2>4, FileMoves
  <1>e. ASSUME out = "remove", local' = [local EXCEPT ![f] = {}], pass' = Through(f, {}),
               UNCHANGED <<kept, unsent, deleted, discarded, remote, echo>>
        PROVE  IInv'
    <2>1. /\ pass' \in Passes /\ pass'.step = pass.step /\ pass'.orphan = pass.orphan /\ pass'.rows = pass.rows /\ pass'.held = pass.held
          /\ pass'.rt.base[f] = {} /\ \A g \in Files \ {f} : pass'.rt.base[g] = pass.rt.base[g]
      BY <1>e, <1>3, <1>6, ThroughSound
    <2>2. local' \in Bases /\ local'[f] = {} /\ (\A g \in Files \ {f} : local'[g] = local[g])
      BY <1>e, <1>3 DEF Bases
    <2>3. UNCHANGED <<source, top, floor>>
      BY <1>e DEF remote
    <2>4. local[f] \cap Loose' = {}
      <3>1. Loose' = Loose
        BY <1>e DEF Loose
      <3> QED
        BY <1>e, <1>2, <1>5, <3>1
    <2> QED
      BY <1>e, <1>1, <1>3, <1>4, <1>6, <1>8, <2>1, <2>2, <2>3, <2>4, FileMoves, ZenonT(40)
  <1>f. ASSUME out = "tombstone", Written(f, {}), pass' = [Through(f, {}) EXCEPT !.removed = @ \cup {f}], UNCHANGED <<folder, echo>>
        PROVE  IInv'
    <2>1. UNCHANGED <<local, kept, unsent, deleted, discarded, echo>>
      BY <1>f DEF folder
    <2>2. PICK r : r = Through(f, {})
      OBVIOUS
    <2>3. /\ r \in Passes /\ r.step = pass.step /\ r.orphan = pass.orphan /\ r.rows = pass.rows /\ r.held = pass.held
          /\ r.rt \in Runtime
          /\ r.rt.base[f] = {} /\ \A g \in Files \ {f} : r.rt.base[g] = pass.rt.base[g]
      BY <1>3, <1>6, <2>2, ThroughSound
    <2>4. PICK removed : removed = r.removed \cup {f}
      OBVIOUS
    <2>5. pass' = [r EXCEPT !.removed = removed]
      BY <1>f, <2>2, <2>4, Zenon
    <2>6. removed \in SUBSET Files
      BY <2>3, <2>4 DEF Passes
    <2>7. /\ pass' \in Passes /\ pass'.step = pass.step /\ pass'.orphan = pass.orphan /\ pass'.rows = pass.rows /\ pass'.held = pass.held
          /\ pass'.rt = r.rt
      BY <2>3, <2>5, <2>6 DEF Passes
    <2>8. SourceTypes' /\ source'[f].note = {} /\ \A g \in Files \ {f} : source'[g] = source[g]
      BY <1>f, <1>3, WrittenSound
    <2>9. Sent(source[f].note)'
      BY <2>8 DEF Sent
    <2>10. local[f] = {}
      BY <1>f, <1>2
    <2> QED
      BY <1>1, <1>3, <1>4, <1>6, <2>1, <2>3, <2>7, <2>8, <2>9, <2>10, FileMoves, ZenonT(40)
  <1>g. ASSUME Written(f, local[f] \cup row.note), Writes(f, local[f] \cup row.note), unsent' = unsent \ local[f],
               pass' = Through(f, local[f] \cup row.note), UNCHANGED <<kept, discarded>>
        PROVE  IInv'
    <2>0. local[f] \cup row.note \in Notes
      BY <1>3 DEF Notes
    <2>1. /\ pass' \in Passes /\ pass'.step = pass.step /\ pass'.orphan = pass.orphan /\ pass'.rows = pass.rows /\ pass'.held = pass.held
          /\ pass'.rt.base[f] = local[f] \cup row.note /\ \A g \in Files \ {f} : pass'.rt.base[g] = pass.rt.base[g]
      <3>1. PICK note \in Notes : note = local[f] \cup row.note
        BY <2>0
      <3>2. pass' = Through(f, note)
        BY <1>g, <3>1, Zenon
      <3>3. PICK r : r = Through(f, note)
        OBVIOUS
      <3>4. /\ r \in Passes /\ r.step = pass.step /\ r.orphan = pass.orphan /\ r.rows = pass.rows /\ r.held = pass.held
            /\ r.rt.base[f] = note /\ \A g \in Files \ {f} : r.rt.base[g] = pass.rt.base[g]
        BY <3>3, <1>6, ThroughSound
      <3> QED
        BY <3>1, <3>2, <3>3, <3>4, Zenon
    <2>2. SourceTypes' /\ source'[f].note = local[f] \cup row.note /\ \A g \in Files \ {f} : source'[g] = source[g]
      BY <1>g, <2>0, WrittenSound
    <2>3. /\ (local[f] \cup row.note) \cap unsent' = {} /\ local[f] \cap Loose' = {} /\ unsent' \subseteq unsent
          /\ local[f] \cup row.note \subseteq 1 .. edits
      BY <1>g, <1>4 DEF Loose
    <2>4. Sent(source[f].note)'
      BY <1>1, <2>2, <2>3 DEF Sent
    <2>5. /\ local' \in Bases /\ local'[f] = local[f] \cup row.note /\ (\A g \in Files \ {f} : local'[g] = local[g])
          /\ echo' = {} /\ deleted' \in SUBSET Files
      BY <1>g, <2>0, <1>7
    <2> QED
      BY <1>g, <1>1, <1>6, <2>1, <2>2, <2>3, <2>4, <2>5, FileMoves
  <1>h. ASSUME kept' = kept \cup local[f], Writes(f, row.note), pass' = [Through(f, row.note) EXCEPT !.conflict = TRUE],
               UNCHANGED <<unsent, discarded, remote>>
        PROVE  IInv'
    <2>1. PICK r : r = Through(f, row.note)
      OBVIOUS
    <2>2. /\ r \in Passes /\ r.step = pass.step /\ r.orphan = pass.orphan /\ r.rows = pass.rows /\ r.held = pass.held
          /\ r.rt \in Runtime
          /\ r.rt.base[f] = row.note /\ \A g \in Files \ {f} : r.rt.base[g] = pass.rt.base[g]
      BY <1>3, <1>6, <2>1, ThroughSound
    <2>3. pass' = [r EXCEPT !.conflict = TRUE]
      BY <1>h, <2>1, Zenon
    <2>4. /\ pass' \in Passes /\ pass'.step = pass.step /\ pass'.orphan = pass.orphan /\ pass'.rows = pass.rows /\ pass'.held = pass.held
          /\ pass'.rt = r.rt
      BY <2>2, <2>3 DEF Passes
    <2>5. local' \in Bases /\ local'[f] = row.note /\ (\A g \in Files \ {f} : local'[g] = local[g]) /\ echo' = {} /\ deleted' \in SUBSET Files
      BY <1>h, <1>3, <1>7
    <2>6. UNCHANGED <<source, top, floor>>
      BY <1>h DEF remote
    <2>7. kept' \in Notes /\ kept \subseteq kept' /\ local[f] \cap Loose' = {}
      BY <1>h, <1>3, <1>6 DEF Loose, Notes
    <2>8. SourceTypes' /\ (\A g \in Files \ {f} : source'[g] = source[g]) /\ source'[f] = source[f]
      BY <1>8, <2>6
    <2>9. pass'.rt.base[f] \subseteq 1 .. edits /\ pass'.rt.base[f] \cap unsent' = {} /\ unsent' \subseteq unsent /\ local'[f] \subseteq 1 .. edits
      BY <1>h, <1>4, <2>2, <2>4, <2>5
    <2>10. \A g \in Files \ {f} : pass'.rt.base[g] = pass.rt.base[g]
      BY <2>2, <2>4
    <2>11. UNCHANGED discarded
      BY <1>h
    <2> QED
      BY <1>1, <2>4, <2>5, <2>7, <2>8, <2>9, <2>10, <2>11, FileMoves
  <1>9. \/ /\ out = "agree"
           /\ pass' = Through(f, local[f])
           /\ UNCHANGED <<folder, remote, echo>>
        \/ /\ out \in {"keep", "report", "hold"}
           /\ pass' = [Through(f, pass.rt.base[f])
                         EXCEPT !.ro = IF out = "report" THEN @ \cup {f} ELSE @,
                                !.held = IF out = "hold" THEN @ \cup {f} ELSE @]
           /\ UNCHANGED <<folder, remote, echo>>
        \/ /\ Written(f, local[f])
           /\ unsent' = unsent \ local[f]
           /\ pass' = Through(f, local[f])
           /\ UNCHANGED <<local, kept, deleted, discarded, echo>>
        \/ /\ out = "pull"
           /\ Writes(f, row.note)
           /\ pass' = Through(f, row.note)
           /\ UNCHANGED <<kept, unsent, discarded, remote>>
        \/ /\ out = "remove"
           /\ local' = [local EXCEPT ![f] = {}]
           /\ pass' = Through(f, {})
           /\ UNCHANGED <<kept, unsent, deleted, discarded, remote, echo>>
        \/ /\ out = "tombstone"
           /\ Written(f, {})
           /\ pass' = [Through(f, {}) EXCEPT !.removed = @ \cup {f}]
           /\ UNCHANGED <<folder, echo>>
        \/ /\ Written(f, local[f] \cup row.note)
           /\ Writes(f, local[f] \cup row.note)
           /\ unsent' = unsent \ local[f]
           /\ pass' = Through(f, local[f] \cup row.note)
           /\ UNCHANGED <<kept, discarded>>
        \/ /\ kept' = kept \cup local[f]
           /\ Writes(f, row.note)
           /\ pass' = [Through(f, row.note) EXCEPT !.conflict = TRUE]
           /\ UNCHANGED <<unsent, discarded, remote>>
    BY Zenon DEF Apply, out, row
  <1> QED
    BY <1>9, <1>a, <1>b, <1>c, <1>d, <1>e, <1>f, <1>g, <1>h, Zenon

LEMMA ApplyRefusedKeeps ==
    ASSUME IInv, NEW f \in Files, ApplyRefused(f)
    PROVE  IInv'
  <1>1. pass.step = "apply" /\ pass' = Failed(f) /\ UNCHANGED <<folder, remote, saved, scope, reviews, echo, primary, edits>>
    BY DEF ApplyRefused, bounds
  <1> QED
    BY <1>1, FailedKeeps

LEMMA ApplyFailsKeeps ==
    ASSUME IInv, NEW f \in Files, ApplyFails(f)
    PROVE  IInv'
  <1>1. pass.step = "apply" /\ pass' = Failed(f) /\ UNCHANGED <<folder, remote, saved, scope, reviews, echo, primary, edits>>
    BY DEF ApplyFails
  <1> QED
    BY <1>1, FailedKeeps

-----------------------------------------------------------------------------
(* Answers *)

\* An answer of the user changes the base of the mount, in the scope and in the store.
LEMMA AnswerKnown ==
    ASSUME IInv, NEW rt, NEW st, scope'.rt = rt, store' = [store EXCEPT ![mount.point] = st], UNCHANGED <<disk, pass>>,
           NEW f \in Files, NEW n \in Known(f)'
    PROVE  n \in Known(f) \/ n = rt.base[f] \/ n = st.base[f]
  <1>1. CASE n = scope'.rt.base[f] \/ n = pass'.rt.base[f]
    BY <1>1 DEF Known
  <1>2. ASSUME NEW q \in Points, n = store'[q].base[f] \/ n = disk'.store[q].base[f] PROVE n \in Known(f) \/ n = st.base[f]
    BY <1>2, Parts DEF Known
  <1> QED
    BY <1>1, <1>2 DEF Known

\* A runtime with another base.
LEMMA Rebased ==
    ASSUME NEW old \in Runtime, NEW b \in Bases, NEW rt, rt = [old EXCEPT !.base = b]
    PROVE  rt \in Runtime /\ rt.base = b
  BY DEF Runtime, Bases, Notes

LEMMA KeepRoMountEditsKeeps ==
    ASSUME IInv, KeepRoMountEdits
    PROVE  IInv'
  <1>1. /\ pass = NoPass /\ keeping = {} /\ scope # NoScope /\ mount.on /\ ptaking.file = NoFile /\ scope.state # "none"
    BY Parts DEF KeepRoMountEdits, Order
  <1>2. PICK S : S = {f \in roEdits : local[f] # {}}
    OBVIOUS
  <1>3. S \in SUBSET Files
    BY <1>2, Parts
  <1>4. PICK b : b = [f \in Files |-> IF f \in S THEN {} ELSE scope.rt.base[f]]
    OBVIOUS
  <1>5. PICK c : c = [f \in Files |-> IF f \in S THEN {} ELSE store[mount.point].base[f]]
    OBVIOUS
  <1>6. PICK rt : rt = [scope.rt EXCEPT !.base = b]
    OBVIOUS
  <1>7. PICK st : st = [store[mount.point] EXCEPT !.base = c]
    OBVIOUS
  <1>8. /\ kept' = kept \cup UNION {local[f] : f \in S}
        /\ scope' = [scope EXCEPT !.rt = rt, !.force = TRUE]
        /\ store' = [store EXCEPT ![mount.point] = st]
        /\ keeping' = S /\ roEdits' = {}
        /\ UNCHANGED <<local, unsent, deleted, discarded, remote, mount, disk, pass, held, echo, primary, edits>>
    BY <1>2, <1>4, <1>5, <1>6, <1>7, Zenon DEF KeepRoMountEdits
  <1>9. UNCHANGED <<local, unsent, deleted, discarded, source, top, floor, mount, disk, pass, held, echo, pbase, pserver, ptaking, edits>>
    BY <1>8 DEF remote, primary
  <1>10. store[mount.point] \in Runtime /\ scope.rt \in Runtime
    BY Parts
  <1>11. b \in Bases /\ c \in Bases
    <2>1. \A f \in Files : scope.rt.base[f] \in Notes /\ store[mount.point].base[f] \in Notes
      BY <1>10, RuntimeBase
    <2> QED
      BY <1>4, <1>5, <2>1 DEF Bases, Notes
  <1>12. rt \in Runtime /\ rt.base = b /\ st \in Runtime /\ st.base = c
    BY <1>6, <1>7, <1>10, <1>11, Rebased
  <1>13. scope' \in Scopes /\ scope'.rt = rt /\ scope'.force /\ scope'.state = scope.state
    BY <1>8, <1>12, Parts DEF Scopes
  <1>14. store' \in [Points -> Runtime]
    BY <1>8, <1>12, Parts
  <1>15. kept' \in Notes /\ kept \subseteq kept'
    <2>1. \A f \in Files : local[f] \in Notes
      BY Parts DEF Bases
    <2>2. kept \in Notes
      BY Parts
    <2> QED
      BY <1>3, <1>8, <2>1, <2>2 DEF Notes
  <1>16. Types'
    <2>1. FolderTypes' /\ SourceTypes'
      BY <1>9, <1>15, Parts DEF FolderTypes, SourceTypes
    <2>2. SavedTypes' /\ PrimaryTypes'
      BY <1>9, <1>14, Parts DEF SavedTypes, PrimaryTypes
    <2>3. ScopeTypes'
      BY <1>3, <1>8, <1>9, <1>13, Parts DEF ScopeTypes
    <2> QED
      BY <2>1, <2>2, <2>3 DEF Types
  <1>17. Order'
    BY <1>1, <1>9, <1>13, Parts DEF Order
  <1>18. \A f \in Files : \A n \in Known(f)' : n \in Known(f) \/ Fit(n, f)'
    <2> SUFFICES ASSUME NEW f \in Files, NEW n \in Known(f)' PROVE n \in Known(f) \/ Fit(n, f)'
      OBVIOUS
    <2>1. n \in Known(f) \/ n = rt.base[f] \/ n = st.base[f]
      BY <1>8, <1>9, <1>13, AnswerKnown
    <2>2. rt.base[f] \in {{}, scope.rt.base[f]} /\ st.base[f] \in {{}, store[mount.point].base[f]}
      BY <1>4, <1>5, <1>12
    <2>3. n \in Known(f) \/ n = {}
      BY <2>1, <2>2, Parts DEF Known
    <2>4. Fit({}, f)'
      BY DEF Fit
    <2> QED
      BY <2>3, <2>4
  <1>19. \A f \in Files : Served(f)' = Served(f)
    BY <1>9, ServedSame
  <1>20. edits' \in Nat /\ edits <= edits'
    BY <1>9, Parts
  <1>21. /\ \A g \in Files : local'[g] \subseteq 1 .. edits'
         /\ unsent' \subseteq 1 .. edits' /\ ptaking'.note \subseteq 1 .. edits'
    BY <1>9, Parts DEF Data
  <1>22. Data'
    BY <1>9, <1>15, <1>18, <1>19, <1>20, <1>21, Parts, DataMoves
  <1>23. KeepFit'
    BY <1>8, <1>9 DEF KeepFit, Loose
  <1>24. PassFit' /\ HeldFit'
    BY <1>1, <1>9, Parts, Nothing DEF PassFit, HeldFit
  <1> QED
    BY <1>16, <1>17, <1>22, <1>23, <1>24 DEF IInv

LEMMA KeepRemovesKeeps ==
    ASSUME IInv, KeepRemoves
    PROVE  IInv'
  <1>1. /\ local' = [f \in Files |-> IF f \in keeping THEN {} ELSE local[f]] /\ keeping' = {}
        /\ UNCHANGED <<kept, unsent, deleted, discarded, source, top, floor, mount, store, disk, scope, pass, roEdits, held, echo,
                       pbase, pserver, ptaking, edits>>
    BY DEF KeepRemoves, remote, saved, primary, bounds
  <1>2. local' \in Bases
    BY <1>1, Parts DEF Bases, Notes
  <1>3. Types'
    BY <1>1, <1>2, Parts DEF Types, FolderTypes, SourceTypes, SavedTypes, ScopeTypes, PrimaryTypes
  <1>4. Order'
    BY <1>1, Parts DEF Order
  <1>5. Loose' = Loose
    BY <1>1 DEF Loose
  <1>6. \A f \in Files : local[f] \subseteq local'[f] \/ local[f] \cap Loose' = {}
    BY <1>1, <1>5, Parts DEF KeepFit
  <1>7. \A f \in Files : Known(f)' = Known(f) /\ Served(f)' = Served(f)
    BY <1>1, KnownSame, ServedSame
  <1>8. edits' \in Nat /\ edits <= edits'
    BY <1>1, Parts
  <1>9. /\ \A g \in Files : local'[g] \subseteq 1 .. edits'
        /\ unsent' \subseteq 1 .. edits' /\ ptaking'.note \subseteq 1 .. edits'
    BY <1>1, Parts DEF Data
  <1>10. /\ kept \subseteq kept' /\ mount'.kind = mount.kind
         /\ \A x \in unsent' : x \in unsent \/ (x \notin 1 .. edits /\ \E f \in Files : x \in local'[f])
         /\ \A f \in Files : \/ source'[f].note = source[f].note /\ (source'[f].tomb => source[f].tomb)
                             \/ local[f] \cap Loose' = {}
                             \/ \A n \in Known(f) : n \cap Loose = {}
    BY <1>1
  <1>11. /\ \A f \in Files : \A n \in Known(f)' : n \in Known(f) \/ Fit(n, f)'
         /\ \A f \in Files : \A n \in Served(f)' : n \in Served(f) \/ Sent(n)'
    BY <1>7
  <1>12. Types /\ Data
    BY Parts
  <1>13. Data'
    BY <1>6, <1>8, <1>9, <1>10, <1>11, <1>12, DataMoves
  <1>14. PassFit' /\ KeepFit' /\ HeldFit'
    BY <1>1, <1>5, Parts DEF PassFit, KeepFit, HeldFit
  <1> QED
    BY <1>3, <1>4, <1>13, <1>14 DEF IInv

\* What the user's consent sends to the source.
LEMMA AcceptSound ==
    ASSUME AcceptBulkPushes
    PROVE  \E sent \in SUBSET {f \in held : local[f] # {} /\ source[f].note = {}} :
              /\ source' = [f \in Files |-> IF f \in sent THEN [note |-> local[f], version |-> top + 1, tomb |-> FALSE]
                                            ELSE source[f]]
              /\ top' = top + 1
              /\ unsent' = unsent \ UNION {local[f] : f \in sent}
              /\ scope' = [scope EXCEPT !.rt = [scope.rt EXCEPT !.base = [f \in Files |-> IF f \in sent THEN local[f] ELSE @[f]]]]
              /\ store' = [store EXCEPT ![mount.point] =
                              [scope.rt EXCEPT !.base = [f \in Files |-> IF f \in sent THEN local[f] ELSE @[f]]]]
  BY Zenon DEF AcceptBulkPushes

LEMMA AcceptBulkPushesKeeps ==
    ASSUME IInv, AcceptBulkPushes
    PROVE  IInv'
  <1>1. /\ pass = NoPass /\ scope # NoScope /\ scope.state # "none"
    BY Parts DEF AcceptBulkPushes, Order
  <1>2. PICK sent \in SUBSET {f \in held : local[f] # {} /\ source[f].note = {}} :
           /\ source' = [f \in Files |-> IF f \in sent THEN [note |-> local[f], version |-> top + 1, tomb |-> FALSE]
                                         ELSE source[f]]
           /\ top' = top + 1
           /\ unsent' = unsent \ UNION {local[f] : f \in sent}
           /\ scope' = [scope EXCEPT !.rt = [scope.rt EXCEPT !.base = [f \in Files |-> IF f \in sent THEN local[f] ELSE @[f]]]]
           /\ store' = [store EXCEPT ![mount.point] =
                           [scope.rt EXCEPT !.base = [f \in Files |-> IF f \in sent THEN local[f] ELSE @[f]]]]
    BY AcceptSound, Zenon
  <1>3. sent \in SUBSET Files
    BY Parts
  <1>4. PICK b : b = [f \in Files |-> IF f \in sent THEN local[f] ELSE scope.rt.base[f]]
    OBVIOUS
  <1>5. PICK rt : rt = [scope.rt EXCEPT !.base = b]
    OBVIOUS
  <1>6. /\ source' = [f \in Files |-> IF f \in sent THEN [note |-> local[f], version |-> top + 1, tomb |-> FALSE]
                                      ELSE source[f]]
        /\ top' = top + 1
        /\ unsent' = unsent \ UNION {local[f] : f \in sent}
        /\ scope' = [scope EXCEPT !.rt = rt]
        /\ store' = [store EXCEPT ![mount.point] = rt]
        /\ held' = {}
        /\ UNCHANGED <<local, kept, deleted, discarded, floor, mount, disk, pass, roEdits, keeping, echo, primary, edits>>
    BY <1>2, <1>4, <1>5, Zenon DEF AcceptBulkPushes
  <1>7. UNCHANGED <<local, kept, deleted, discarded, floor, mount, disk, pass, roEdits, keeping, echo, pbase, pserver, ptaking, edits>>
    BY <1>6 DEF primary
  <1>8. \A f \in Files : local[f] \in Notes
    BY Parts DEF Bases
  <1>9. SourceTypes' /\ (\A f \in sent : source'[f].note = local[f]) /\ \A f \in Files \ sent : source'[f] = source[f]
    <2>1. top + 1 \in Nat /\ top' \in Nat /\ floor' \in Nat
      BY <1>6, <1>7, Parts
    <2>2. \A f \in Files : [note |-> local[f], version |-> top + 1, tomb |-> FALSE] \in Row
      BY <1>8, <2>1 DEF Row, Notes
    <2>3. source' \in [Files -> Row]
      BY <1>6, <2>2, Parts
    <2>4. (\A f \in sent : source'[f].note = local[f]) /\ \A f \in Files \ sent : source'[f] = source[f]
      BY <1>3, <1>6
    <2> QED
      BY <2>1, <2>3, <2>4 DEF SourceTypes
  <1>10. unsent' \subseteq unsent /\ unsent' \in Notes /\ Loose' \subseteq Loose
    BY <1>6, <1>7, Parts DEF Notes, Loose
  <1>11. b \in Bases /\ scope.rt \in Runtime
    <2>1. \A f \in Files : scope.rt.base[f] \in Notes
      BY Parts, RuntimeBase
    <2> QED
      BY <1>4, <1>8, <2>1, Parts DEF Bases
  <1>12. rt \in Runtime /\ rt.base = b
    BY <1>5, <1>11, Rebased
  <1>13. scope' \in Scopes /\ scope'.rt = rt /\ scope'.force = scope.force /\ scope'.state = scope.state
    BY <1>6, <1>12, Parts DEF Scopes
  <1>14. store' \in [Points -> Runtime]
    BY <1>6, <1>12, Parts
  <1>15. Types'
    <2>1. FolderTypes' /\ SavedTypes' /\ PrimaryTypes'
      BY <1>7, <1>10, <1>14, Parts DEF FolderTypes, SavedTypes, PrimaryTypes
    <2>2. ScopeTypes'
      BY <1>6, <1>7, <1>13, Parts DEF ScopeTypes
    <2> QED
      BY <1>9, <2>1, <2>2 DEF Types
  <1>16. Order'
    BY <1>1, <1>7, <1>13, Parts DEF Order
  <1>17. \A f \in sent : local[f] \cap unsent' = {} /\ local[f] \cap Loose' = {}
    BY <1>6 DEF Loose
  <1>18. \A f \in Files : local[f] \subseteq 1 .. edits'
    BY <1>7, Parts DEF Data
  <1>19. \A f \in Files : \A n \in Known(f)' : n \in Known(f) \/ Fit(n, f)'
    <2> SUFFICES ASSUME NEW f \in Files, NEW n \in Known(f)' PROVE n \in Known(f) \/ Fit(n, f)'
      OBVIOUS
    <2>1. n \in Known(f) \/ n = rt.base[f]
      BY <1>6, <1>7, <1>13, AnswerKnown, ZenonT(40)
    <2>2. CASE f \in sent
      <3>1. Fit(rt.base[f], f)'
        <4>1. rt.base[f] = local[f]
          BY <1>4, <1>12, <2>2
        <4> QED
          BY <1>17, <1>18, <2>2, <4>1 DEF Fit
      <3> QED
        BY <2>1, <3>1
    <2>3. CASE f \notin sent
      BY <1>4, <1>12, <2>1, <2>3 DEF Known
    <2> QED
      BY <2>2, <2>3
  <1>20. \A f \in Files : \A n \in Served(f)' : n \in Served(f) \/ Sent(n)'
    <2> SUFFICES ASSUME NEW f \in Files, NEW n \in Served(f)', n \notin Served(f) PROVE Sent(n)'
      OBVIOUS
    <2>1. n = source'[f].note /\ f \in sent
      BY <1>7, <1>9 DEF Served
    <2>2. n = local[f]
      BY <1>9, <2>1
    <2> QED
      BY <1>17, <1>18, <2>1, <2>2 DEF Sent
  <1>21. edits' \in Nat /\ edits <= edits'
    BY <1>7, Parts
  <1>22. unsent' \subseteq 1 .. edits' /\ ptaking'.note \subseteq 1 .. edits' /\ \A f \in Files : local'[f] \subseteq 1 .. edits'
    BY <1>7, <1>10, <1>18, Parts DEF Data
  <1>23. \A f \in Files : \/ source'[f].note = source[f].note /\ (source'[f].tomb => source[f].tomb)
                          \/ local[f] \cap Loose' = {}
                          \/ \A n \in Known(f) : n \cap Loose = {}
    BY <1>9, <1>17
  <1>24. Data'
    BY <1>7, <1>10, <1>19, <1>20, <1>21, <1>22, <1>23, Parts, DataMoves
  <1>25. KeepFit' /\ PassFit' /\ HeldFit'
    BY <1>1, <1>6, <1>7, <1>10, Parts, Nothing DEF KeepFit, PassFit, HeldFit
  <1> QED
    BY <1>15, <1>16, <1>24, <1>25 DEF IInv

LEMMA KeepBulkPushesKeeps ==
    ASSUME IInv, RacyMoves = {}, KeepBulkPushes
    PROVE  IInv'
  <1>1. /\ pass = NoPass /\ scope # NoScope /\ scope.state # "none" /\ mount.kind = "shared"
        /\ \A f \in held : source[f].note = {}
    BY Parts DEF KeepBulkPushes, Order, HeldFit
  <1>2. PICK S : S = {f \in held : local[f] # {} /\ ~source[f].tomb}
    OBVIOUS
  <1>3. S \in SUBSET Files /\ \A f \in S : source[f].note = {} /\ ~source[f].tomb
    BY <1>1, <1>2, Parts
  <1>4. PICK b : b = [f \in Files |-> IF f \in S THEN local[f] ELSE scope.rt.base[f]]
    OBVIOUS
  <1>5. PICK rt : rt = [scope.rt EXCEPT !.base = b]
    OBVIOUS
  <1>6. /\ scope' = [scope EXCEPT !.rt = rt]
        /\ store' = [store EXCEPT ![mount.point] = rt]
        /\ held' = {}
        /\ UNCHANGED <<folder, remote, mount, disk, pass, roEdits, keeping, echo, primary, edits>>
    BY <1>2, <1>4, <1>5, Zenon DEF KeepBulkPushes
  <1>7. UNCHANGED <<local, kept, unsent, deleted, discarded, source, top, floor, mount, disk, pass, roEdits, keeping, echo,
                    pbase, pserver, ptaking, edits>>
    BY <1>6 DEF primary, folder, remote
  <1>8. \A f \in Files : local[f] \in Notes
    BY Parts DEF Bases
  <1>9. b \in Bases /\ scope.rt \in Runtime
    <2>1. \A f \in Files : scope.rt.base[f] \in Notes
      BY Parts, RuntimeBase
    <2> QED
      BY <1>4, <1>8, <2>1, Parts DEF Bases
  <1>10. rt \in Runtime /\ rt.base = b
    BY <1>5, <1>9, Rebased
  <1>11. scope' \in Scopes /\ scope'.rt = rt /\ scope'.force = scope.force /\ scope'.state = scope.state
    BY <1>6, <1>10, Parts DEF Scopes
  <1>12. store' \in [Points -> Runtime]
    BY <1>6, <1>10, Parts
  <1>13. Types'
    BY <1>6, <1>7, <1>11, <1>12, Parts DEF Types, FolderTypes, SourceTypes, SavedTypes, ScopeTypes, PrimaryTypes
  <1>14. Order'
    BY <1>1, <1>7, <1>11, Parts DEF Order
  <1>15. \A f \in Files : local[f] \subseteq 1 .. edits'
    BY <1>7, Parts DEF Data
  <1>16. \A f \in Files : \A n \in Known(f)' : n \in Known(f) \/ Fit(n, f)'
    <2> SUFFICES ASSUME NEW f \in Files, NEW n \in Known(f)', n \notin Known(f) PROVE Fit(n, f)'
      OBVIOUS
    <2>1. n \in Known(f) \/ n = rt.base[f]
      BY <1>6, <1>7, <1>11, AnswerKnown
    <2>2. f \in S /\ n = local[f]
      BY <1>4, <1>10, <2>1 DEF Known
    <2> QED
      BY <1>1, <1>3, <1>7, <1>15, <2>2 DEF Fit
  <1>17. \A f \in Files : Served(f)' = Served(f)
    BY <1>7, ServedSame
  <1>18. edits' \in Nat /\ edits <= edits'
    BY <1>7, Parts
  <1>19. unsent' \subseteq 1 .. edits' /\ ptaking'.note \subseteq 1 .. edits' /\ \A f \in Files : local'[f] \subseteq 1 .. edits'
    BY <1>7, <1>15, Parts DEF Data
  <1>20. Data'
    BY <1>7, <1>16, <1>17, <1>18, <1>19, Parts, DataMoves
  <1>21. KeepFit' /\ PassFit' /\ HeldFit'
    BY <1>1, <1>6, <1>7, Parts, Nothing DEF KeepFit, PassFit, HeldFit, Loose
  <1> QED
    BY <1>13, <1>14, <1>20, <1>21 DEF IInv

-----------------------------------------------------------------------------
(* The primary scope *)

\* While no mount claims the folder there is no scope and no pass.
LEMMA PrimaryMoves ==
    ASSUME IInv, UNCHANGED <<remote, saved, scope, pass, reviews, echo, edits, deleted, discarded>>,
           ~mount.on, local' \in Bases, kept' \in Notes, kept \subseteq kept', unsent' \subseteq unsent,
           PrimaryTypes', ptaking'.note \subseteq 1 .. edits,
           \A f \in Files : local'[f] \subseteq 1 .. edits,
           \A f \in Files : local[f] \subseteq local'[f] \/ local[f] \cap Loose' = {},
           \A f \in Files : /\ pserver'[f] \in Served(f) \/ Sent(pserver[f])'
                            /\ pbase'[f] \in Served(f) \/ Sent(pbase[f])'
    PROVE  IInv'
  <1>1. UNCHANGED <<source, top, floor, mount, store, disk, scope, pass, roEdits, held, keeping, echo, edits>>
    BY DEF remote, saved, reviews
  <1>2. pass = NoPass /\ keeping = {} /\ scope = NoScope
    BY Parts DEF Order
  <1>3. unsent' \in Notes
    BY Parts DEF Notes
  <1>4. Types'
    <2>1. FolderTypes'
      BY <1>1, <1>3, Parts DEF FolderTypes
    <2>2. SourceTypes' /\ SavedTypes' /\ ScopeTypes'
      BY <1>1, Parts DEF SourceTypes, SavedTypes, ScopeTypes
    <2> QED
      BY <2>1, <2>2 DEF Types
  <1>5. Order'
    BY <1>1, <1>2, Parts DEF Order
  <1>6. \A f \in Files : Known(f)' = Known(f)
    BY <1>1, KnownSame
  <1>7. \A f \in Files : \A n \in Served(f)' : n \in Served(f) \/ Sent(n)'
    BY <1>1 DEF Served
  <1>8. edits' \in Nat /\ edits <= edits'
    BY <1>1, Parts
  <1>9. unsent' \subseteq 1 .. edits' /\ ptaking'.note \subseteq 1 .. edits' /\ \A f \in Files : local'[f] \subseteq 1 .. edits'
    BY <1>1, Parts DEF Data
  <1>10. Data'
    BY <1>1, <1>6, <1>7, <1>8, <1>9, Parts, DataMoves
  <1>11. PassFit' /\ KeepFit' /\ HeldFit'
    BY <1>1, <1>2, Parts, Nothing DEF PassFit, KeepFit, HeldFit
  <1> QED
    BY <1>4, <1>5, <1>10, <1>11 DEF IInv

LEMMA PrimaryPathKeeps ==
    ASSUME IInv, NEW f \in Files, PrimaryPath(f)
    PROVE  IInv'
  <1> DEFINE act == Decision!Decide(local[f], pbase[f], pserver[f])
  <1>1. /\ act = "inSync" => local[f] = pserver[f]
        /\ act = "pull" => local[f] = pbase[f]
        /\ act = "editWinsPull" => local[f] = {}
    BY Decided
  <1>2. ~mount.on /\ UNCHANGED <<remote, saved, scope, pass, reviews, echo, edits>>
    BY DEF PrimaryPath, bounds
  <1>3. local \in Bases /\ pbase \in Bases /\ pserver \in Bases /\ local[f] \in Notes /\ pserver[f] \in Notes /\ kept \in Notes
    BY Parts DEF Bases
  <1>4. /\ \A g \in Files : local[g] \subseteq 1 .. edits /\ pserver[g] \subseteq 1 .. edits
        /\ \A g \in Files : pbase[g] \cap unsent = {}
        /\ ptaking.note \subseteq 1 .. edits
    BY Parts DEF Data, Served, Sent
  <1>5. ptaking \in [file : Files \cup {NoFile}, note : Notes]
    BY Parts
  <1>6. \A g \in Files : {pserver[g], pbase[g]} \subseteq Served(g)
    BY DEF Served
  <1> HIDE DEF act
  <1>a. ASSUME act = "inSync", pbase' = [pbase EXCEPT ![f] = local[f]], UNCHANGED <<folder, pserver, ptaking>> PROVE IInv'
    <2>1. UNCHANGED <<local, kept, unsent, deleted, discarded>>
      BY <1>a DEF folder
    <2>2. PrimaryTypes'
      BY <1>a, <1>3, <1>5 DEF PrimaryTypes, Bases
    <2>3. \A g \in Files : pserver'[g] \in Served(g) /\ pbase'[g] \in Served(g)
      BY <1>a, <1>1, <1>3, <1>6 DEF Bases
    <2> QED
      BY <1>a, <1>2, <1>3, <1>4, <2>1, <2>2, <2>3, PrimaryMoves
  <1>b. ASSUME NEW note \in Notes, ptaking' = [file |-> f, note |-> note], note \subseteq 1 .. edits, UNCHANGED <<folder, pbase, pserver>>
        PROVE  IInv'
    <2>1. UNCHANGED <<local, kept, unsent, deleted, discarded>>
      BY <1>b DEF folder
    <2>2. PrimaryTypes' /\ ptaking'.note \subseteq 1 .. edits
      BY <1>b, <1>3 DEF PrimaryTypes
    <2>3. \A g \in Files : pserver'[g] \in Served(g) /\ pbase'[g] \in Served(g)
      BY <1>b, <1>6
    <2> QED
      BY <1>2, <1>3, <1>4, <2>1, <2>2, <2>3, PrimaryMoves
  <1>c. ASSUME local' = [local EXCEPT ![f] = pserver[f]], pbase' = [pbase EXCEPT ![f] = pserver[f]],
               UNCHANGED <<unsent, deleted, discarded, pserver, ptaking>>,
               kept' \in Notes, kept \subseteq kept', local[f] \cap Loose' = {}
        PROVE  IInv'
    <2>1. PrimaryTypes'
      BY <1>c, <1>3, <1>5 DEF PrimaryTypes, Bases
    <2>2. local' \in Bases /\ local'[f] = pserver[f] /\ \A g \in Files \ {f} : local'[g] = local[g]
      BY <1>c, <1>3 DEF Bases
    <2>3. \A g \in Files : pserver'[g] \in Served(g) /\ pbase'[g] \in Served(g)
      BY <1>c, <1>3, <1>6 DEF Bases
    <2>4. /\ \A g \in Files : local'[g] \subseteq 1 .. edits
          /\ \A g \in Files : local[g] \subseteq local'[g] \/ local[g] \cap Loose' = {}
      BY <1>c, <1>4, <2>2
    <2> QED
      BY <1>c, <1>2, <1>4, <2>1, <2>2, <2>3, <2>4, PrimaryMoves
  <1>d. ASSUME pserver' = [pserver EXCEPT ![f] = {}], pbase' = [pbase EXCEPT ![f] = {}], UNCHANGED <<folder, ptaking>>
        PROVE  IInv'
    <2>1. UNCHANGED <<local, kept, unsent, deleted, discarded>>
      BY <1>d DEF folder
    <2>2. PrimaryTypes'
      BY <1>d, <1>3, <1>5 DEF PrimaryTypes, Bases, Notes
    <2>3. \A g \in Files : /\ pserver'[g] = {} \/ pserver'[g] \in Served(g)
                           /\ pbase'[g] = {} \/ pbase'[g] \in Served(g)
      BY <1>d, <1>3, <1>6 DEF Bases
    <2>4. \A g \in Files : /\ pserver'[g] \in Served(g) \/ Sent(pserver[g])'
                           /\ pbase'[g] \in Served(g) \/ Sent(pbase[g])'
      BY <2>3 DEF Sent
    <2> QED
      BY <1>d, <1>2, <1>3, <1>4, <2>1, <2>2, <2>4, PrimaryMoves
  <1>7. PICK m : m = IF act = "merge" THEN pserver[f] ELSE {}
    OBVIOUS
  <1>8. \/ act = "inSync" /\ pbase' = [pbase EXCEPT ![f] = local[f]] /\ UNCHANGED <<folder, pserver, ptaking>>
        \/ ptaking' = [file |-> f, note |-> local[f] \cup m] /\ UNCHANGED <<folder, pbase, pserver>>
        \/ /\ act \in {"pull", "editWinsPull"}
           /\ local' = [local EXCEPT ![f] = pserver[f]]
           /\ pbase' = [pbase EXCEPT ![f] = pserver[f]]
           /\ UNCHANGED <<kept, unsent, deleted, discarded, pserver, ptaking>>
        \/ /\ pserver' = [pserver EXCEPT ![f] = {}]
           /\ pbase' = [pbase EXCEPT ![f] = {}]
           /\ UNCHANGED <<folder, ptaking>>
        \/ /\ kept' = kept \cup local[f]
           /\ local' = [local EXCEPT ![f] = pserver[f]]
           /\ pbase' = [pbase EXCEPT ![f] = pserver[f]]
           /\ UNCHANGED <<unsent, deleted, discarded, pserver, ptaking>>
    BY <1>7, Zenon DEF PrimaryPath, act
  <1>9. ASSUME ptaking' = [file |-> f, note |-> local[f] \cup m], UNCHANGED <<folder, pbase, pserver>> PROVE IInv'
    <2>1. PICK note : note = local[f] \cup m
      OBVIOUS
    <2>2. note \in Notes /\ note \subseteq 1 .. edits
      BY <1>3, <1>4, <1>7, <2>1 DEF Notes
    <2>3. ptaking' = [file |-> f, note |-> note]
      BY <1>9, <2>1, Zenon
    <2> QED
      BY <1>9, <1>b, <2>2, <2>3
  <1>10. ASSUME act \in {"pull", "editWinsPull"}, local' = [local EXCEPT ![f] = pserver[f]], pbase' = [pbase EXCEPT ![f] = pserver[f]],
                UNCHANGED <<kept, unsent, deleted, discarded, pserver, ptaking>>
         PROVE  IInv'
    <2>1. local[f] \cap Loose' = {}
      BY <1>10, <1>1, <1>4 DEF Loose
    <2> QED
      BY <1>10, <1>c, <1>3, <2>1
  <1>11. ASSUME kept' = kept \cup local[f], local' = [local EXCEPT ![f] = pserver[f]], pbase' = [pbase EXCEPT ![f] = pserver[f]],
                UNCHANGED <<unsent, deleted, discarded, pserver, ptaking>>
         PROVE  IInv'
    <2>1. local[f] \cap Loose' = {} /\ kept' \in Notes /\ kept \subseteq kept'
      BY <1>11, <1>3 DEF Loose, Notes
    <2> QED
      BY <1>11, <1>c, <2>1
  <1> QED
    BY <1>8, <1>a, <1>9, <1>10, <1>d, <1>11, Zenon

LEMMA PrimaryPushedKeeps ==
    ASSUME IInv, PrimaryPushed
    PROVE  IInv'
  <1>1. PICK note : note = ptaking.note
    OBVIOUS
  <1>2. PICK f : f = ptaking.file
    OBVIOUS
  <1>3. /\ f # NoFile /\ pserver' = [pserver EXCEPT ![f] = note] /\ pbase' = [pbase EXCEPT ![f] = note]
        /\ unsent' = unsent \ note /\ ptaking' = [file |-> NoFile, note |-> {}]
        /\ UNCHANGED <<local, kept, deleted, discarded, remote, saved, scope, pass, reviews, echo, edits>>
    BY <1>1, <1>2, Zenon DEF PrimaryPushed, bounds
  <1>4. f \in Files /\ note \in Notes /\ {} \in Notes
    <2>1. ptaking.file \in Files \cup {NoFile} /\ ptaking.note \in Notes
      BY Parts
    <2> QED
      BY <1>1, <1>2, <1>3, <2>1 DEF Notes
  <1>5. ~mount.on
    BY <1>2, <1>3, Parts DEF Order
  <1>6. note \subseteq 1 .. edits /\ \A g \in Files : local[g] \subseteq 1 .. edits
    BY <1>1, Parts DEF Data
  <1>7. PrimaryTypes' /\ ptaking'.note \subseteq 1 .. edits
    <2>1. pserver' \in Bases /\ pbase' \in Bases
      BY <1>3, <1>4, Parts DEF Bases
    <2>2. ptaking' \in [file : Files \cup {NoFile}, note : Notes] /\ ptaking'.note = {}
      BY <1>3, <1>4
    <2> QED
      BY <2>1, <2>2 DEF PrimaryTypes
  <1>8. \A g \in Files : /\ pserver'[g] = note \/ pserver'[g] = pserver[g]
                         /\ pbase'[g] = note \/ pbase'[g] = pbase[g]
    BY <1>3, Parts DEF Bases
  <1>9. \A g \in Files : /\ pserver'[g] \in Served(g) \/ Sent(pserver[g])'
                         /\ pbase'[g] \in Served(g) \/ Sent(pbase[g])'
    BY <1>3, <1>6, <1>8 DEF Sent, Served
  <1>10. local' \in Bases /\ kept' \in Notes
    BY <1>3, Parts
  <1> QED
    BY <1>3, <1>5, <1>6, <1>7, <1>9, <1>10, PrimaryMoves

-----------------------------------------------------------------------------
(* Theorems *)

LEMMA InitIInv == Init => IInv
  <1> SUFFICES ASSUME Init PROVE IInv
    OBVIOUS
  <1>1. PICK q \in Points : q = CHOOSE p \in Points : TRUE
    BY Bounds
  <1>2. mount \in [on : {FALSE}, dir : {"pull"}, point : {q}, kind : Kinds]
    BY <1>1, Zenon DEF Init
  <1>3. Kinds \subseteq {"own", "shared"}
    BY MountsAssumption
  <1>4. mount \in Mount /\ ~mount.on
    BY <1>2, <1>3 DEF Mount
  <1>5. /\ local = NoBase /\ kept = {} /\ unsent = {} /\ deleted = {} /\ discarded = {}
        /\ source = [f \in Files |-> NoRow] /\ top = 1 /\ floor = 1
        /\ store = [p \in Points |-> NoState]
        /\ disk = [mount |-> mount, store |-> store, pbase |-> NoBase]
        /\ scope = NoScope /\ pass = NoPass
        /\ roEdits = {} /\ held = {} /\ keeping = {} /\ echo = {}
        /\ pbase = NoBase /\ pserver = NoBase /\ ptaking = [file |-> NoFile, note |-> {}]
        /\ edits = 0
    BY DEF Init
  <1>6. store \in [Points -> Runtime] /\ \A p \in Points : store[p] = NoState
    BY <1>5, Nothing
  <1>7. disk \in Disk /\ disk.mount = mount /\ disk.store = store /\ disk.pbase = NoBase
    BY <1>4, <1>5, <1>6, Nothing DEF Disk
  <1>8. source \in [Files -> Row] /\ \A f \in Files : source[f] = NoRow
    BY <1>5, Nothing
  <1>9. Types
    <2>1. {} \in Notes /\ edits \in 0 .. MaxEdits
      BY <1>5, Bounds DEF Notes
    <2>2. ptaking \in [file : Files \cup {NoFile}, note : Notes]
      BY <1>5, <2>1
    <2> QED
      BY <1>4, <1>5, <1>6, <1>7, <1>8, <2>1, <2>2, Nothing
         DEF Types, FolderTypes, SourceTypes, SavedTypes, ScopeTypes, PrimaryTypes
  <1>10. Order
    BY <1>4, <1>5, <1>7 DEF Order
  <1>11. \A f \in Files : Known(f) \subseteq {{}} /\ Served(f) \subseteq {{}} /\ local[f] = {}
    BY <1>5, <1>6, <1>7, <1>8, Nothing DEF Known, Served
  <1>12. Data
    <2>1. \A f \in Files : Fit({}, f) /\ Sent({})
      BY DEF Fit, Sent
    <2>2. NoEditLost
      BY <1>5 DEF NoEditLost
    <2>3. unsent = {} /\ ptaking.note = {}
      BY <1>5
    <2> QED
      BY <1>11, <2>1, <2>2, <2>3 DEF Data
  <1>13. PassFit /\ KeepFit /\ HeldFit
    BY <1>5, Nothing DEF PassFit, KeepFit, HeldFit
  <1> QED
    BY <1>9, <1>10, <1>12, <1>13 DEF IInv

LEMMA StutterKeeps ==
    ASSUME IInv, UNCHANGED vars
    PROVE  IInv'
  <1>1. UNCHANGED <<local, kept, unsent, deleted, discarded, source, top, floor, mount, store, disk, scope, pass,
                    roEdits, held, keeping, echo, pbase, pserver, ptaking, edits>>
    BY DEF vars, folder, remote, saved, reviews, primary, bounds
  <1>2. Types' /\ Order' /\ PassFit' /\ KeepFit' /\ HeldFit'
    BY <1>1, Parts DEF Types, FolderTypes, SourceTypes, SavedTypes, ScopeTypes, PrimaryTypes, Order, PassFit, KeepFit, HeldFit, Loose
  <1>3. \A f \in Files : Known(f)' = Known(f) /\ Served(f)' = Served(f)
    BY <1>1, KnownSame, ServedSame
  <1>4. Data'
    BY <1>1, <1>3, Parts, DataStill
  <1> QED
    BY <1>2, <1>4 DEF IInv

LEMMA Step == ASSUME IInv, RacyMoves = {}, [Next]_vars PROVE IInv'
  <1>1. CASE UNCHANGED vars
    BY <1>1, StutterKeeps
  <1>2. ASSUME NEW f \in Files, Edit(f) \/ PeerEdit(f) \/ PeerDelete(f) \/ ApplyFails(f) \/ PrimaryPath(f) \/ Apply(f) \/ ApplyRefused(f)
        PROVE  IInv'
    BY <1>2, EditKeeps, PeerEditKeeps, PeerDeleteKeeps, ApplyFailsKeeps, PrimaryPathKeeps, ApplyKeeps, ApplyRefusedKeeps
  <1>3. ASSUME NEW S \in SUBSET Files, Delete(S) PROVE IInv'
    BY <1>3, DeleteKeeps
  <1>4. ASSUME NEW dir \in {"pull", "sync"}, AddMount(dir) PROVE IInv'
    BY <1>4, AddMountKeeps
  <1>5. ASSUME NEW q \in Points, FollowMountPointRename(q) PROVE IInv'
    BY <1>5, FollowMountPointRenameKeeps
  <1>6. CASE RemoveMount \/ UpdateMountDirection \/ ReinstateMount \/ Persist \/ Crash \/ SourceReset
    BY <1>6, RemoveMountKeeps, UpdateMountDirectionKeeps, ReinstateMountKeeps, PersistKeeps, CrashKeeps, SourceResetKeeps
  <1>7. CASE Begin \/ Guard \/ List \/ Settle \/ PassFails
    BY <1>7, BeginKeeps, GuardKeeps, ListKeeps, SettleKeeps, PassFailsKeeps
  <1>8. CASE KeepRoMountEdits \/ KeepRemoves \/ AcceptBulkPushes \/ KeepBulkPushes \/ PrimaryPushed
    BY <1>8, KeepRoMountEditsKeeps, KeepRemovesKeeps, AcceptBulkPushesKeeps, KeepBulkPushesKeeps, PrimaryPushedKeeps
  <1> QED
    BY <1>1, <1>2, <1>3, <1>4, <1>5, <1>6, <1>7, <1>8, Zenon DEF Next, PassStep

\* The invariant holds throughout.
LEMMA Invariant == ASSUME RacyMoves = {} PROVE Spec => []IInv
  <1>1. IInv /\ [Next]_vars => IInv'
    BY Step
  <1> QED
    BY <1>1, InitIInv, PTL DEF Spec

\* A pass that begins was not there before.
LEMMA BeginsPass == ASSUME Begin PROVE pass = NoPass /\ pass' # NoPass
  <1>1. PICK rt : rt = Ready.rt
    OBVIOUS
  <1>2. PICK full : full = (Ready.state \in {"mounting", "offline"} \/ Ready.force)
    OBVIOUS
  <1>3. PICK mode : mode = IF full \/ (rt.floor # 0 /\ floor > rt.floor) THEN "full" ELSE IF top = rt.cursor THEN "noop" ELSE "delta"
    OBVIOUS
  <1>4. PICK todo : todo = IF mode = "delta" THEN {f \in Files : source[f].version > rt.cursor} ELSE {}
    OBVIOUS
  <1>5. PICK step \in {"guard", "apply"} : step = IF mode = "full" THEN "guard" ELSE "apply"
    BY Zenon
  <1>6. pass' = [NoPass EXCEPT !.step = step, !.full = full, !.dir = mount.dir, !.rt = rt, !.rows = source, !.top = top,
                               !.floor = floor, !.todo = todo]
    BY <1>5, <1>1, <1>2, <1>3, <1>4, Zenon DEF Begin
  <1>7. pass'.step = step
    BY <1>6, Nothing DEF Passes
  <1> QED
    BY <1>7, Nothing DEF Begin

\* The retry budget, and the files it is spent on.
RetryTypes == tries \in [Files -> [version : Nat, count : Nat]] /\ givenUp \in SUBSET Files

LEMMA RetryStep == ASSUME IInv, RetryTypes, [Next]_vars PROVE RetryTypes'
  <1>1. NoTries \in [Files -> [version : Nat, count : Nat]]
    BY DEF NoTries
  <1>2. CASE Begin
    <2>1. tries' = tries /\ \E S : givenUp' = {} \/ givenUp' = givenUp \ S
      BY <1>2, Zenon DEF Begin
    <2> QED
      BY <2>1 DEF RetryTypes
  <1>3. ASSUME NEW f \in Files, ApplyFails(f) \/ ApplyRefused(f) PROVE RetryTypes'
    <2>1. Retried(f)
      BY <1>3 DEF ApplyFails, ApplyRefused
    <2>2. pass.rows[f].version \in Nat
      BY Parts DEF Passes, Row
    <2>3. PICK n : n = IF Spent(f) THEN MaxRetries ELSE Count(f)
      OBVIOUS
    <2>4. n \in Nat
      BY <2>3, MountsAssumption DEF Count, RetryTypes
    <2>5. PICK t : t = [version |-> pass.rows[f].version, count |-> n]
      OBVIOUS
    <2>6. t \in [version : Nat, count : Nat]
      BY <2>2, <2>4, <2>5
    <2>7. tries' = tries \/ tries' = [tries EXCEPT ![f] = t]
      BY <2>1, <2>3, <2>5, Zenon DEF Retried
    <2>8. givenUp' \in SUBSET Files
      BY <2>1 DEF Retried, RetryTypes
    <2> QED
      BY <2>6, <2>7, <2>8 DEF RetryTypes
  <1>4. ASSUME NEW f \in Files, Apply(f) PROVE RetryTypes'
    <2>1. givenUp' = givenUp /\ (tries' = tries \/ tries' = [tries EXCEPT ![f] = NoTries[f]])
      BY <1>4, Zenon DEF Apply
    <2> QED
      BY <1>1, <2>1 DEF RetryTypes
  <1>5. ASSUME UNCHANGED retries PROVE RetryTypes'
    BY <1>5 DEF RetryTypes, retries
  <1>6. CASE \/ RemoveMount \/ UpdateMountDirection \/ ReinstateMount \/ Crash
             \/ \E q \in Points : FollowMountPointRename(q)
    <2>1. tries' = NoTries /\ givenUp' = givenUp
      BY <1>6, Zenon DEF RemoveMount, UpdateMountDirection, ReinstateMount, Crash, FollowMountPointRename
    <2> QED
      BY <1>1, <2>1 DEF RetryTypes
  <1>7. CASE \/ \E f \in Files : Edit(f) \/ PeerEdit(f) \/ PeerDelete(f) \/ PrimaryPath(f)
             \/ \E S \in SUBSET Files : Delete(S)
             \/ \E dir \in {"pull", "sync"} : AddMount(dir)
    <2>1. UNCHANGED retries
      BY <1>7, Zenon DEF Edit, PeerEdit, PeerDelete, PrimaryPath, Delete, AddMount
    <2> QED
      BY <1>5, <2>1
  <1>8. CASE \/ Persist \/ SourceReset \/ Guard \/ List \/ Settle \/ PassFails
             \/ KeepRoMountEdits \/ KeepRemoves \/ AcceptBulkPushes \/ KeepBulkPushes \/ PrimaryPushed \/ UNCHANGED vars
    <2>1. UNCHANGED retries
      BY <1>8, Zenon DEF Persist, SourceReset, Guard, List, Settle, PassFails, KeepRoMountEdits, KeepRemoves, AcceptBulkPushes,
         KeepBulkPushes, PrimaryPushed, vars
    <2> QED
      BY <1>5, <2>1
  <1> QED
    BY <1>2, <1>3, <1>4, <1>6, <1>7, <1>8, Zenon DEF Next, PassStep

\* The states of the mount, its scope and its passes stay in their types, whatever happens.
THEOREM TypeCorrect == ASSUME RacyMoves = {} PROVE Spec => []TypeOK
  <1>1. IInv /\ RetryTypes => TypeOK
    <2> SUFFICES ASSUME IInv, RetryTypes PROVE TypeOK
      OBVIOUS
    <2>1. scope.state \in States /\ pass.step \in {"none", "guard", "list", "apply"}
      BY Parts DEF Scopes, Passes
    <2>2. {pass.rt, scope.rt} \cup {store[q] : q \in Points} \subseteq Runtime
      BY Parts
    <2> QED
      BY <2>1, <2>2, Parts DEF TypeOK, States, Bases, Notes, RetryTypes
  <1>2. Init => RetryTypes
    BY DEF Init, RetryTypes, NoTries
  <1>3. IInv /\ RetryTypes /\ [Next]_vars => RetryTypes'
    BY RetryStep
  <1> QED
    BY <1>1, <1>2, <1>3, Invariant, PTL DEF Spec

\* Mounting, passes, answers, renames, resets of the source and crashes lose no edit of the user.
THEOREM NoEditLostHolds == ASSUME RacyMoves = {} PROVE Spec => []NoEditLost
  <1>1. IInv => NoEditLost
    BY DEF IInv, Data
  <1> QED
    BY <1>1, Invariant, PTL

-----------------------------------------------------------------------------
(* The primary vault *)

\* What the primary knows of f its server has, and what the server has is in the folder, but for what
\* the user deleted.
PrimaryFit(b, f) ==
    /\ b[f] \subseteq pserver[f] \cup discarded
    /\ b[f] # {} => b[f] \subseteq local[f] \cup discarded /\ pserver[f] \subseteq local[f] \cup discarded

\* Forgotten while the folder is mounted; and a push in flight replaces nothing that is not in it.
PrimaryInv ==
    /\ mount.on => pbase = NoBase /\ disk.pbase = NoBase
    /\ \A f \in Files : PrimaryFit(pbase, f) /\ PrimaryFit(disk.pbase, f)
    /\ ptaking.file # NoFile =>
          /\ pserver[ptaking.file] \subseteq ptaking.note \cup discarded
          /\ ptaking.note \subseteq local[ptaking.file] \cup discarded

\* No note of the primary's server loses an edit the user has not deleted.
Spared == \A f \in Files : pserver[f] \subseteq pserver'[f] \cup discarded

\* A step that leaves the primary's server alone.
LEMMA BasesKept ==
    ASSUME IInv, PrimaryInv, UNCHANGED pserver, discarded \subseteq discarded',
           mount.on \/ \A f \in Files : local[f] \subseteq local'[f] \cup discarded',
           pbase' \in {pbase, disk.pbase, NoBase}, disk'.pbase \in {pbase, disk.pbase, NoBase},
           ptaking' \in {ptaking, [file |-> NoFile, note |-> {}]},
           mount'.on => mount.on \/ (pbase' = NoBase /\ disk'.pbase = NoBase)
    PROVE  PrimaryInv' /\ Spared
  <1>1. Spared
    BY DEF Spared
  <1>2. mount'.on => pbase' = NoBase /\ disk'.pbase = NoBase
    BY DEF PrimaryInv
  <1>3. \A f \in Files : PrimaryFit(pbase, f)' /\ PrimaryFit(disk.pbase, f)'
    <2>1. CASE mount.on
      <3>1. pbase' = NoBase /\ disk'.pbase = NoBase
        BY <2>1 DEF PrimaryInv
      <3> QED
        BY <3>1, Nothing DEF PrimaryFit
    <2>2. CASE ~mount.on
      <3> SUFFICES ASSUME NEW f \in Files, NEW b \in {pbase, disk.pbase, NoBase}, NEW x, x = b[f]
                   PROVE  /\ x \subseteq pserver'[f] \cup discarded'
                          /\ x # {} => x \subseteq local'[f] \cup discarded' /\ pserver'[f] \subseteq local'[f] \cup discarded'
        BY DEF PrimaryFit
      <3>1. /\ x \subseteq pserver[f] \cup discarded
            /\ x # {} => x \subseteq local[f] \cup discarded /\ pserver[f] \subseteq local[f] \cup discarded
        BY Nothing DEF PrimaryInv, PrimaryFit
      <3>2. local[f] \subseteq local'[f] \cup discarded'
        BY <2>2
      <3> QED
        BY <3>1, <3>2
    <2> QED
      BY <2>1, <2>2
  <1>4. ASSUME ptaking'.file # NoFile
        PROVE  /\ pserver'[ptaking'.file] \subseteq ptaking'.note \cup discarded'
               /\ ptaking'.note \subseteq local'[ptaking'.file] \cup discarded'
    <2>1. ptaking' = ptaking
      BY <1>4
    <2>2. ~mount.on /\ ptaking.file \in Files
      BY <1>4, <2>1, Parts DEF Order
    <2> QED
      BY <1>4, <2>1, <2>2 DEF PrimaryInv
  <1> QED
    BY <1>1, <1>2, <1>3, <1>4 DEF PrimaryInv

\* The steps of the primary itself.
LEMMA PrimaryPathSpares ==
    ASSUME IInv, PrimaryInv, NEW f \in Files, PrimaryPath(f)
    PROVE  PrimaryInv' /\ Spared
  <1> DEFINE act == Decision!Decide(local[f], pbase[f], pserver[f])
  <1>1. /\ act = "inSync" => local[f] = pserver[f]
        /\ act = "push" => pbase[f] = pserver[f]
        /\ act \in {"deleteLocal", "keepLocal"} => pserver[f] = {}
        /\ act = "merge" => pbase[f] # {}
        /\ act = "deleteRemote" => local[f] = {} /\ pserver[f] # {} /\ pbase[f] = pserver[f]
    BY Decided
  <1>2. ~mount.on /\ UNCHANGED <<mount, disk>> /\ ptaking.file = NoFile
    BY DEF PrimaryPath, saved
  <1>3. local \in Bases /\ pbase \in Bases /\ pserver \in Bases /\ disk.pbase \in Bases
    BY Parts
  <1>4. /\ \A g \in Files : PrimaryFit(pbase, g) /\ PrimaryFit(disk.pbase, g)
    BY DEF PrimaryInv
  <1> HIDE DEF act
  <1>a. ASSUME act = "inSync", pbase' = [pbase EXCEPT ![f] = local[f]], UNCHANGED <<folder, pserver, ptaking>>
        PROVE  PrimaryInv' /\ Spared
    <2>1. UNCHANGED <<local, discarded>>
      BY <1>a DEF folder
    <2>2. pbase'[f] = pserver[f] /\ local[f] = pserver[f] /\ \A g \in Files \ {f} : pbase'[g] = pbase[g]
      BY <1>a, <1>1, <1>3 DEF Bases
    <2>3. \A g \in Files : PrimaryFit(pbase, g)' /\ PrimaryFit(disk.pbase, g)'
      BY <1>a, <1>2, <1>4, <2>1, <2>2 DEF PrimaryFit
    <2> QED
      BY <1>a, <1>2, <2>3 DEF PrimaryInv, Spared
  <1>b. ASSUME NEW note, ptaking' = [file |-> f, note |-> note], UNCHANGED <<folder, pbase, pserver>>,
               pserver[f] \subseteq note \cup discarded, note \subseteq local[f] \cup discarded
        PROVE  PrimaryInv' /\ Spared
    <2>1. UNCHANGED <<local, discarded>>
      BY <1>b DEF folder
    <2>2. ptaking'.file = f /\ ptaking'.note = note
      BY <1>b
    <2>3. \A g \in Files : PrimaryFit(pbase, g)' /\ PrimaryFit(disk.pbase, g)'
      BY <1>b, <1>2, <1>4, <2>1 DEF PrimaryFit
    <2> QED
      BY <1>b, <1>2, <2>1, <2>2, <2>3 DEF PrimaryInv, Spared
  <1>c. ASSUME local' = [local EXCEPT ![f] = pserver[f]], pbase' = [pbase EXCEPT ![f] = pserver[f]],
               UNCHANGED <<discarded, pserver, ptaking>>
        PROVE  PrimaryInv' /\ Spared
    <2>1. pbase'[f] = pserver[f] /\ local'[f] = pserver[f] /\ \A g \in Files \ {f} : pbase'[g] = pbase[g] /\ local'[g] = local[g]
      BY <1>c, <1>3 DEF Bases
    <2>2. \A g \in Files : PrimaryFit(pbase, g)' /\ PrimaryFit(disk.pbase, g)'
      BY <1>c, <1>2, <1>4, <2>1 DEF PrimaryFit
    <2> QED
      BY <1>c, <1>2, <2>2 DEF PrimaryInv, Spared
  <1>d. ASSUME act = "deleteRemote", pserver' = [pserver EXCEPT ![f] = {}], pbase' = [pbase EXCEPT ![f] = {}], UNCHANGED <<folder, ptaking>>
        PROVE  PrimaryInv' /\ Spared
    <2>1. UNCHANGED <<local, discarded>>
      BY <1>d DEF folder
    <2>2. pbase'[f] = {} /\ pserver'[f] = {} /\ \A g \in Files \ {f} : pbase'[g] = pbase[g] /\ pserver'[g] = pserver[g]
      BY <1>d, <1>3 DEF Bases
    <2>3. pserver[f] \subseteq discarded
      BY <1>d, <1>1, <1>4 DEF PrimaryFit
    <2>4. Spared
      BY <2>2, <2>3 DEF Spared
    <2>5. PrimaryFit(pbase, f)' /\ PrimaryFit(disk.pbase, f)'
      BY <1>2, <1>4, <2>1, <2>2, <2>3 DEF PrimaryFit
    <2>6. \A g \in Files \ {f} : PrimaryFit(pbase, g)' /\ PrimaryFit(disk.pbase, g)'
      BY <1>2, <1>4, <2>1, <2>2 DEF PrimaryFit
    <2> QED
      BY <1>d, <1>2, <2>4, <2>5, <2>6 DEF PrimaryInv
  <1>5. PICK m : m = IF act = "merge" THEN pserver[f] ELSE {}
    OBVIOUS
  <1>6. \/ act = "inSync" /\ pbase' = [pbase EXCEPT ![f] = local[f]] /\ UNCHANGED <<folder, pserver, ptaking>>
        \/ /\ act \in {"push", "keepLocal", "deleteLocal", "merge"}
           /\ ptaking' = [file |-> f, note |-> local[f] \cup m] /\ UNCHANGED <<folder, pbase, pserver>>
        \/ /\ local' = [local EXCEPT ![f] = pserver[f]]
           /\ pbase' = [pbase EXCEPT ![f] = pserver[f]]
           /\ UNCHANGED <<discarded, pserver, ptaking>>
        \/ /\ act = "deleteRemote"
           /\ pserver' = [pserver EXCEPT ![f] = {}]
           /\ pbase' = [pbase EXCEPT ![f] = {}]
           /\ UNCHANGED <<folder, ptaking>>
    BY <1>5, Zenon DEF PrimaryPath, act
  <1>7. ASSUME act \in {"push", "keepLocal", "deleteLocal", "merge"},
               ptaking' = [file |-> f, note |-> local[f] \cup m], UNCHANGED <<folder, pbase, pserver>>
        PROVE  PrimaryInv' /\ Spared
    <2>1. PICK note : note = local[f] \cup m
      OBVIOUS
    <2>2. ptaking' = [file |-> f, note |-> note]
      BY <1>7, <2>1, Zenon
    <2>3. pbase[f] # {} => pserver[f] \subseteq local[f] \cup discarded
      BY <1>4 DEF PrimaryFit
    <2>4. pserver[f] \subseteq note \cup discarded
      BY <1>7, <1>1, <1>5, <2>1, <2>3
    <2>5. note \subseteq local[f] \cup discarded
      BY <1>7, <1>1, <1>5, <2>1, <2>3
    <2> QED
      BY <1>7, <1>b, <2>2, <2>4, <2>5
  <1> QED
    BY <1>6, <1>a, <1>7, <1>c, <1>d, Zenon

LEMMA PrimaryPushedSpares ==
    ASSUME IInv, PrimaryInv, PrimaryPushed
    PROVE  PrimaryInv' /\ Spared
  <1>1. PICK note : note = ptaking.note
    OBVIOUS
  <1>2. PICK f : f = ptaking.file
    OBVIOUS
  <1>3. /\ f # NoFile /\ pserver' = [pserver EXCEPT ![f] = note] /\ pbase' = [pbase EXCEPT ![f] = note]
        /\ ptaking' = [file |-> NoFile, note |-> {}] /\ UNCHANGED <<local, discarded, mount, disk>>
    BY <1>1, <1>2, Zenon DEF PrimaryPushed, saved
  <1>4. f \in Files /\ ~mount.on
    BY <1>2, <1>3, Parts DEF Order
  <1>5. pserver[f] \subseteq note \cup discarded /\ note \subseteq local[f] \cup discarded
    BY <1>1, <1>2, <1>3 DEF PrimaryInv
  <1>6. /\ pserver'[f] = note /\ pbase'[f] = note
        /\ \A g \in Files \ {f} : pserver'[g] = pserver[g] /\ pbase'[g] = pbase[g]
    BY <1>3, <1>4, Parts DEF Bases
  <1>7. \A g \in Files : PrimaryFit(pbase, g) /\ PrimaryFit(disk.pbase, g)
    BY DEF PrimaryInv
  <1>8. \A g \in Files : PrimaryFit(pbase, g)' /\ PrimaryFit(disk.pbase, g)'
    BY <1>3, <1>5, <1>6, <1>7 DEF PrimaryFit
  <1>9. Spared
    BY <1>5, <1>6 DEF Spared
  <1>10. ptaking'.file = NoFile
    BY <1>3
  <1> QED
    BY <1>3, <1>4, <1>8, <1>9, <1>10 DEF PrimaryInv

\* A step of everybody else.
LEMMA OthersSpare ==
    ASSUME IInv, PrimaryInv, RacyMoves = {}, [Next]_vars,
           \A f \in Files : ~PrimaryPath(f), ~PrimaryPushed
    PROVE  PrimaryInv' /\ Spared
  <1>1. ASSUME UNCHANGED <<folder, mount, disk, primary>> PROVE PrimaryInv' /\ Spared
    BY <1>1, BasesKept DEF folder, primary
  <1>2. ASSUME mount.on, UNCHANGED <<discarded, mount, disk, primary>> PROVE PrimaryInv' /\ Spared
    BY <1>2, BasesKept DEF primary
  <1>3. pass # NoPass \/ keeping # {} \/ scope # NoScope => mount.on
    BY Parts DEF Order
  <1>4. CASE UNCHANGED vars
    BY <1>1, <1>4 DEF vars, saved
  <1>5. ASSUME NEW f \in Files, Edit(f) PROVE PrimaryInv' /\ Spared
    <2>1. UNCHANGED <<discarded, mount, disk, pbase, pserver, ptaking>> /\ \A g \in Files : local[g] \subseteq local'[g]
      BY <1>5, Parts DEF Edit, saved, primary, Bases
    <2> QED
      BY <2>1, BasesKept
  <1>6. ASSUME NEW f \in Files, PeerEdit(f) \/ PeerDelete(f) PROVE PrimaryInv' /\ Spared
    BY <1>1, <1>6 DEF PeerEdit, PeerDelete, saved
  <1>7. ASSUME NEW f \in Files, ApplyFails(f) \/ ApplyRefused(f) PROVE PrimaryInv' /\ Spared
    BY <1>1, <1>7 DEF ApplyFails, ApplyRefused, saved
  <1>8. ASSUME NEW f \in Files, Apply(f) PROVE PrimaryInv' /\ Spared
    <2>1. pass.step = "apply" /\ UNCHANGED <<mount, disk, primary>>
      BY <1>8 DEF Apply, saved
    <2>2. pass # NoPass
      BY <2>1, Nothing
    <2>3. UNCHANGED discarded
      BY <1>8, Zenon DEF Apply, folder
    <2> QED
      BY <1>2, <1>3, <2>1, <2>2, <2>3
  <1>9. ASSUME NEW S \in SUBSET Files, Delete(S) PROVE PrimaryInv' /\ Spared
    <2>1. /\ local' = [f \in Files |-> IF f \in S THEN {} ELSE local[f]]
          /\ discarded' = discarded \cup IF mount.on THEN {} ELSE UNION {local[f] : f \in S}
          /\ UNCHANGED <<mount, disk, pbase, pserver, ptaking>>
      BY <1>9 DEF Delete, saved, primary
    <2>2. mount.on \/ \A f \in Files : local[f] \subseteq local'[f] \cup discarded'
      BY <2>1
    <2>3. discarded \subseteq discarded'
      BY <2>1
    <2> QED
      BY <2>1, <2>2, <2>3, BasesKept
  <1>10. ASSUME NEW dir \in {"pull", "sync"}, AddMount(dir) PROVE PrimaryInv' /\ Spared
    <2>1. pbase' = NoBase /\ disk'.pbase = NoBase /\ UNCHANGED <<local, discarded, pserver, ptaking>>
      BY <1>10 DEF AddMount, Forgotten, SaveAll
    <2> QED
      BY <2>1, BasesKept
  <1>11. CASE RemoveMount
    <2>1. pbase' = NoBase /\ disk'.pbase = NoBase /\ UNCHANGED <<local, discarded, pserver, ptaking>>
      BY <1>11 DEF RemoveMount, Forgotten, SaveAll
    <2> QED
      BY <2>1, BasesKept
  <1>12. CASE UpdateMountDirection \/ ReinstateMount \/ \E q \in Points : FollowMountPointRename(q)
    <2>1. mount.on /\ pbase' = pbase /\ disk'.pbase = pbase /\ UNCHANGED <<discarded, pserver, ptaking>>
      BY <1>12 DEF UpdateMountDirection, ReinstateMount, FollowMountPointRename, SaveAll, folder
    <2> QED
      BY <2>1, BasesKept
  <1>13. CASE Persist
    <2>1. mount' = mount /\ pbase' = pbase /\ disk'.pbase = pbase /\ UNCHANGED <<local, discarded, pserver, ptaking>>
      BY <1>13 DEF Persist, SaveAll, folder
    <2> QED
      BY <2>1, BasesKept
  <1>14. CASE Crash
    <2>1. /\ mount' = mount /\ pbase' = disk.pbase /\ disk' = disk /\ UNCHANGED <<local, discarded, pserver>>
          /\ ptaking' = [file |-> NoFile, note |-> {}]
      BY <1>14, Parts DEF Crash, Order, folder
    <2> QED
      BY <2>1, BasesKept
  <1>15. CASE SourceReset \/ Begin \/ Guard \/ List \/ Settle \/ PassFails
    BY <1>1, <1>15 DEF SourceReset, Begin, Guard, List, Settle, PassFails, saved
  <1>16. CASE KeepRoMountEdits \/ KeepRemoves \/ AcceptBulkPushes \/ KeepBulkPushes
    <2>1. mount.on
      BY <1>3, <1>16 DEF KeepRoMountEdits, KeepRemoves, AcceptBulkPushes, KeepBulkPushes
    <2>2. UNCHANGED <<discarded, mount, disk, primary>>
      BY <1>16 DEF KeepRoMountEdits, KeepRemoves, AcceptBulkPushes, KeepBulkPushes, saved, folder
    <2> QED
      BY <1>2, <2>1, <2>2
  <1> QED
    BY <1>4, <1>5, <1>6, <1>7, <1>8, <1>9, <1>10, <1>11, <1>12, <1>13, <1>14, <1>15, <1>16, Zenon DEF Next, PassStep

LEMMA PrimaryStep ==
    ASSUME IInv, PrimaryInv, RacyMoves = {}, [Next]_vars
    PROVE  PrimaryInv' /\ Spared
  BY OthersSpare, PrimaryPathSpares, PrimaryPushedSpares

\* What a mount brings or takes never costs the primary vault an edit the user has not deleted.
THEOREM PrimarySparedHolds == ASSUME RacyMoves = {} PROVE Spec => PrimarySpared
  <1>1. Init => PrimaryInv
    <2> SUFFICES ASSUME Init PROVE PrimaryInv
      OBVIOUS
    <2>1. pbase = NoBase /\ disk.pbase = NoBase /\ ptaking.file = NoFile
      BY DEF Init
    <2> QED
      BY <2>1, Nothing DEF PrimaryInv, PrimaryFit
  <1>2. IInv /\ PrimaryInv /\ [Next]_vars => PrimaryInv'
    BY PrimaryStep
  <1>3. IInv /\ PrimaryInv /\ [Next]_vars => [\A f \in Files : pserver[f] \subseteq pserver'[f] \cup discarded]_vars
    BY PrimaryStep DEF Spared
  <1> QED
    BY <1>1, <1>2, <1>3, Invariant, PTL DEF Spec, PrimarySpared

-----------------------------------------------------------------------------
(* The mass deletion guard *)

\* What the mount had and the folder has not: a full pass may delete it at the source.
Gone(rt) == {f \in Files : rt.base[f] # {} /\ local[f] = {}}

\* A pass that is past its guard removed little, and little is left to remove; so it is for a scope
\* whose next pass may go without the guard.
GuardInv ==
    /\ pass # NoPass /\ scope # NoScope => scope.state \in {"mounting", "syncing", "diverged", "offline"}
    /\ pass.step \in {"none", "guard"} => pass.removed = {}
    /\ pass.step \in {"list", "apply"} => Cardinality(pass.removed \cup Gone(pass.rt)) < BulkMin
    /\ scope # NoScope /\ pass = NoPass /\ ~scope.force /\ scope.state \in {"live", "syncing", "diverged"} =>
          Cardinality(Gone(scope.rt)) < BulkMin

\* Part of little is little.
LEMMA Fewer ==
    ASSUME NEW S \in SUBSET Files, Cardinality(S) < BulkMin, NEW T \in SUBSET S
    PROVE  Cardinality(T) < BulkMin
  <1>1. IsFiniteSet(S)
    BY Bounds, FS_Subset
  <1>2. Cardinality(S) \in Nat /\ Cardinality(T) \in Nat /\ Cardinality(T) <= Cardinality(S)
    BY <1>1, FS_Subset, FS_CardinalityType
  <1> QED
    BY <1>2, Bounds

LEMMA NoneRemoved == Cardinality({}) < BulkMin
  BY Bounds, FS_EmptySet

\* A step that neither ends nor starts a pass, and after which no more is gone.
LEMMA GuardStays ==
    ASSUME IInv, GuardInv, pass' \in Passes, pass'.step = pass.step, pass'.removed = pass.removed, pass'.rt = pass.rt,
           pass' = NoPass <=> pass = NoPass,
           scope' = NoScope \/ (scope # NoScope /\ scope'.state = scope.state /\ (scope.force => scope'.force)),
           pass # NoPass => Gone(pass.rt)' \subseteq Gone(pass.rt),
           scope' # NoScope /\ pass = NoPass => scope'.force \/ Gone(scope.rt)' \subseteq Gone(scope.rt)
    PROVE  GuardInv'
  <1>1. pass'.step \in {"list", "apply"} => Cardinality(pass'.removed \cup Gone(pass.rt)') < BulkMin
    <2> SUFFICES ASSUME pass.step \in {"list", "apply"} PROVE Cardinality(pass.removed \cup Gone(pass.rt)') < BulkMin
      OBVIOUS
    <2>1. Cardinality(pass.removed \cup Gone(pass.rt)) < BulkMin
      BY DEF GuardInv
    <2>2. pass # NoPass
      BY Nothing
    <2>3. pass.removed \cup Gone(pass.rt) \in SUBSET Files
      BY Parts DEF Passes, Gone
    <2>4. pass.removed \cup Gone(pass.rt)' \in SUBSET (pass.removed \cup Gone(pass.rt))
      BY <2>2
    <2> QED
      BY <2>1, <2>3, <2>4, Fewer
  <1>2. ASSUME scope' # NoScope, pass' = NoPass, ~scope'.force, scope'.state \in {"live", "syncing", "diverged"}
        PROVE  Cardinality(Gone(scope.rt)') < BulkMin
    <2>1. Cardinality(Gone(scope.rt)) < BulkMin
      BY <1>2 DEF GuardInv
    <2>2. Gone(scope.rt) \in SUBSET Files
      BY DEF Gone
    <2>3. Gone(scope.rt)' \in SUBSET Gone(scope.rt)
      BY <1>2
    <2> QED
      BY <2>1, <2>2, <2>3, Fewer
  <1>3. pass' # NoPass /\ scope' # NoScope => scope'.state \in {"mounting", "syncing", "diverged", "offline"}
    BY DEF GuardInv
  <1>4. pass'.step \in {"none", "guard"} => pass'.removed = {}
    BY DEF GuardInv
  <1> QED
    BY <1>1, <1>2, <1>3, <1>4 DEF GuardInv

\* A pass that is over.
LEMMA GuardEnds ==
    ASSUME pass' = NoPass,
           scope' # NoScope /\ ~scope'.force /\ scope'.state \in {"live", "syncing", "diverged"} =>
               Cardinality(Gone(scope.rt)') < BulkMin
    PROVE  GuardInv'
  BY Nothing DEF GuardInv

LEMMA BeginGuarded ==
    ASSUME IInv, GuardInv, Begin
    PROVE  GuardInv'
  <1>1. /\ pass = NoPass /\ Ready.state # "localGone" /\ (scope # NoScope => scope.state # "none") /\ UNCHANGED local
    BY Parts DEF Begin, Order, folder
  <1>2. /\ Ready \in Scopes /\ Ready.state \in States \ {"none", "failed", "localGone"}
        /\ Ready.force = (scope # NoScope /\ scope.force)
        /\ scope = NoScope => Ready.state = "mounting"
        /\ scope # NoScope => Ready.rt = scope.rt /\ (Ready.state # "mounting" => Ready.state = scope.state)
    BY <1>1, Parts, ReadySound
  <1>3. PICK rt \in Runtime : rt = Ready.rt
    BY <1>2 DEF Scopes
  <1>4. PICK full \in BOOLEAN : full = (Ready.state \in {"mounting", "offline"} \/ Ready.force)
    BY Zenon
  <1>5. PICK mode : mode = IF full \/ (rt.floor # 0 /\ floor > rt.floor) THEN "full" ELSE IF top = rt.cursor THEN "noop" ELSE "delta"
    OBVIOUS
  <1>6. PICK step : step = IF mode = "full" THEN "guard" ELSE "apply"
    OBVIOUS
  <1>7. PICK todo : todo = IF mode = "delta" THEN {f \in Files : source[f].version > rt.cursor} ELSE {}
    OBVIOUS
  <1>8. PICK st : st = Machine(Ready.state, "syncStart")
    OBVIOUS
  <1>9. /\ scope' = [Ready EXCEPT !.state = st, !.force = FALSE]
        /\ pass' = [NoPass EXCEPT !.step = step, !.full = full, !.dir = mount.dir, !.rt = rt, !.rows = source, !.top = top,
                                  !.floor = floor, !.todo = todo]
    BY <1>3, <1>4, <1>5, <1>6, <1>7, <1>8, Zenon DEF Begin
  <1>10. st \in {"mounting", "syncing", "diverged", "offline"}
    BY <1>2, <1>8 DEF Machine, States
  <1>11. scope'.state = st
    BY <1>2, <1>9 DEF Scopes
  <1>12. pass'.step = step /\ pass'.rt = rt /\ pass'.removed = {} /\ step \in {"guard", "apply"}
    BY <1>6, <1>9 DEF NoPass
  <1>13. pass' # NoPass
    BY <1>12, Nothing
  <1>14. ASSUME step = "apply" PROVE Cardinality(pass'.removed \cup Gone(pass.rt)') < BulkMin
    <2>1. ~full
      BY <1>5, <1>6, <1>14
    <2>2. Ready.state \in {"live", "syncing", "diverged"} /\ ~Ready.force
      BY <1>2, <1>4, <2>1 DEF States
    <2>3. scope # NoScope /\ ~scope.force /\ scope.state \in {"live", "syncing", "diverged"} /\ rt = scope.rt
      BY <1>2, <1>3, <2>2
    <2>4. Cardinality(Gone(scope.rt)) < BulkMin
      BY <1>1, <2>3 DEF GuardInv
    <2>5. pass'.removed \cup Gone(pass.rt)' = Gone(scope.rt)
      BY <1>1, <1>12, <2>3 DEF Gone
    <2> QED
      BY <2>4, <2>5
  <1> QED
    BY <1>10, <1>11, <1>12, <1>13, <1>14 DEF GuardInv

LEMMA GuardGuarded ==
    ASSUME IInv, GuardInv, Guard
    PROVE  GuardInv'
  <1>1. pass.step = "guard" /\ UNCHANGED local
    BY DEF Guard, folder
  <1>2. pass # NoPass
    BY <1>1, Nothing
  <1>3. CASE MassLocalDeletion
    <2>1. pass' = NoPass
      BY <1>3 DEF Guard
    <2>2. CASE pass.orphan
      <3>1. scope' = NoScope
        BY <1>2, <1>3, <2>2, Running DEF Guard
      <3> QED
        BY <2>1, <3>1, GuardEnds
    <2>3. CASE ~pass.orphan
      <3>1. scope.state \in {"mounting", "syncing", "diverged", "offline"}
        BY <1>2, <2>3, Running DEF GuardInv
      <3>2. Machine(scope.state, "localGone") = "localGone"
        BY <3>1 DEF Machine
      <3>3. scope' = [scope EXCEPT !.state = "localGone", !.rt = pass.rt]
        BY <1>3, <2>3, <3>2, Zenon DEF Guard
      <3>4. scope'.state = "localGone"
        BY <3>3, Parts DEF Scopes
      <3> QED
        BY <2>1, <3>4, GuardEnds
    <2> QED
      BY <2>2, <2>3
  <1>4. CASE ~MassLocalDeletion
    <2>1. pass' = [pass EXCEPT !.step = "list"] /\ UNCHANGED <<scope, store>>
      BY <1>4 DEF Guard
    <2>2. pass'.rt = pass.rt /\ pass'.step = "list" /\ pass'.removed = {}
      BY <1>1, <2>1, Parts DEF Passes, GuardInv
    <2>3. PICK absent : absent = {f \in Tracked(pass.rt) : local[f] = {}}
      OBVIOUS
    <2>4. absent = {} \/ ~(Cardinality(absent) >= BulkMin)
      BY <1>4, <2>3 DEF MassLocalDeletion
    <2>5. absent \in SUBSET Files /\ absent = Gone(pass.rt)
      BY <2>3 DEF Tracked, Gone
    <2>6. Cardinality(absent) \in Nat
      BY <2>5, Bounds, FS_Subset, FS_CardinalityType
    <2>7. Cardinality(absent) < BulkMin
      BY <2>4, <2>6, Bounds, NoneRemoved
    <2>8. pass'.removed \cup Gone(pass.rt)' = absent
      BY <1>1, <2>2, <2>5 DEF Gone
    <2>9. pass' # NoPass
      BY <2>2, Nothing
    <2> QED
      BY <1>2, <2>1, <2>2, <2>7, <2>8, <2>9 DEF GuardInv
  <1> QED
    BY <1>3, <1>4

LEMMA ListGuarded ==
    ASSUME IInv, GuardInv, List
    PROVE  GuardInv'
  <1>1. PICK listed : listed = {f \in Files : local[f] # {}}
    OBVIOUS
  <1>2. PICK todo : todo = listed \cup Tracked(pass.rt) \cup {f \in Files : source[f].note # {}}
    OBVIOUS
  <1>3. PICK hold \in BOOLEAN : hold = (mount.kind = "shared" /\ Cardinality({f \in listed \ Tracked(pass.rt) : source[f].note = {} /\ ~source[f].tomb}) > PushFloor)
    BY Zenon
  <1>4. /\ pass' = [pass EXCEPT !.step = "apply", !.rows = source, !.top = top, !.listed = listed, !.todo = todo, !.hold = hold]
        /\ pass.step = "list" /\ UNCHANGED <<local, scope>>
    BY <1>1, <1>2, <1>3, Zenon DEF List, folder
  <1>5. pass'.rt = pass.rt /\ pass'.removed = pass.removed /\ pass'.step = "apply"
    BY <1>4, Parts DEF Passes
  <1>6. pass # NoPass /\ pass' # NoPass
    BY <1>4, <1>5, Nothing
  <1>7. pass'.removed \cup Gone(pass.rt)' = pass.removed \cup Gone(pass.rt)
    BY <1>4, <1>5 DEF Gone
  <1> QED
    BY <1>4, <1>5, <1>6, <1>7 DEF GuardInv

\* A pass is done with one file.
LEMMA FileGuarded ==
    ASSUME IInv, GuardInv, pass.step = "apply", pass'.step = "apply", NEW f \in Files, UNCHANGED scope,
           \A g \in Files \ {f} : pass'.rt.base[g] = pass.rt.base[g] /\ local'[g] = local[g],
           \/ /\ pass'.removed = pass.removed
              /\ pass'.rt.base[f] = {} \/ local'[f] # {} \/ (pass'.rt.base[f] = pass.rt.base[f] /\ local'[f] = local[f])
           \/ /\ pass'.removed = pass.removed \cup {f} /\ pass'.rt.base[f] = {}
              /\ pass.rt.base[f] # {} /\ local[f] = {}
    PROVE  GuardInv'
  <1>1. pass # NoPass /\ pass' # NoPass
    BY Nothing
  <1>2. Cardinality(pass.removed \cup Gone(pass.rt)) < BulkMin
    BY DEF GuardInv
  <1>3. pass.removed \cup Gone(pass.rt) \in SUBSET Files
    BY Parts DEF Passes, Gone
  <1>4. pass'.removed \cup Gone(pass.rt)' \in SUBSET (pass.removed \cup Gone(pass.rt))
    BY DEF Gone
  <1>5. Cardinality(pass'.removed \cup Gone(pass.rt)') < BulkMin
    BY <1>2, <1>3, <1>4, Fewer
  <1> QED
    BY <1>1, <1>5 DEF GuardInv

LEMMA ApplyGuarded ==
    ASSUME IInv, GuardInv, NEW f \in Files, Apply(f)
    PROVE  GuardInv'
  <1> DEFINE out == Outcome(f)  row == pass.rows[f]
  <1>1. pass.step = "apply" /\ UNCHANGED scope /\ local \in Bases /\ pass \in Passes
    BY Parts DEF Apply
  <1>2. /\ out = "pull" => row.note # {}
        /\ out = "tombstone" => local[f] = {} /\ pass.rt.base[f] # {}
        /\ out = "merge" => local[f] # {}
        /\ out \in {"copy", "conflict", "merge"} => row.note # {}
    BY Outcomes
  <1>3. local[f] \in Notes /\ row.note \in Notes /\ {} \in Notes /\ pass.rt.base[f] \in Notes
    <2>1. local[f] \in Notes
      BY Parts DEF Bases
    <2>2. row \in Row
      BY Parts DEF Passes
    <2>3. pass.rt.base[f] \in Notes
      BY Parts, RuntimeBase
    <2> QED
      BY <2>1, <2>2, <2>3 DEF Row, Notes
  <1>4. ASSUME NEW b \in Notes, NEW r, r = Through(f, b)
        PROVE  /\ r \in Passes /\ r.step = "apply" /\ r.removed = pass.removed /\ r.rt.base[f] = b
               /\ \A g \in Files \ {f} : r.rt.base[g] = pass.rt.base[g]
    BY <1>1, <1>4, ThroughSound
  <1>5. ASSUME NEW note, Writes(f, note) PROVE local'[f] = note /\ \A g \in Files \ {f} : local'[g] = local[g]
    BY <1>1, <1>5 DEF Writes, Bases
  <1> HIDE DEF out, row
  <1>a. ASSUME pass' = Through(f, local[f]), UNCHANGED local PROVE GuardInv'
    <2>1. /\ pass'.step = "apply" /\ pass'.removed = pass.removed /\ pass'.rt.base[f] = local[f]
          /\ \A g \in Files \ {f} : pass'.rt.base[g] = pass.rt.base[g]
      BY <1>a, <1>3, <1>4
    <2>2. pass'.rt.base[f] = {} \/ local'[f] # {}
      BY <1>a, <2>1, SMTT(30)
    <2> QED
      BY <1>a, <1>1, <2>1, <2>2, FileGuarded
  <1>b. ASSUME UNCHANGED local,
               pass' = [Through(f, pass.rt.base[f])
                          EXCEPT !.ro = IF out = "report" THEN @ \cup {f} ELSE @, !.held = IF out = "hold" THEN @ \cup {f} ELSE @]
        PROVE  GuardInv'
    <2>1. PICK r : r = Through(f, pass.rt.base[f])
      OBVIOUS
    <2>2. /\ r \in Passes /\ r.step = "apply" /\ r.removed = pass.removed /\ r.rt.base[f] = pass.rt.base[f]
          /\ \A g \in Files \ {f} : r.rt.base[g] = pass.rt.base[g]
      BY <1>3, <1>4, <2>1
    <2>3. PICK ro, hd : ro = (IF out = "report" THEN r.ro \cup {f} ELSE r.ro) /\ hd = (IF out = "hold" THEN r.held \cup {f} ELSE r.held)
      OBVIOUS
    <2>4. pass' = [r EXCEPT !.ro = ro, !.held = hd]
      BY <1>b, <2>1, <2>3, Zenon
    <2>5. pass'.step = "apply" /\ pass'.removed = pass.removed /\ pass'.rt = r.rt
      BY <2>2, <2>4 DEF Passes
    <2> QED
      BY <1>b, <1>1, <2>2, <2>5, FileGuarded
  <1>d. ASSUME row.note # {}, Writes(f, row.note), pass' = Through(f, row.note) PROVE GuardInv'
    <2>1. /\ pass'.step = "apply" /\ pass'.removed = pass.removed /\ \A g \in Files \ {f} : pass'.rt.base[g] = pass.rt.base[g]
      BY <1>d, <1>3, <1>4
    <2>2. local'[f] = row.note /\ \A g \in Files \ {f} : local'[g] = local[g]
      BY <1>d, <1>5
    <2> QED
      BY <1>d, <1>1, <2>1, <2>2, FileGuarded
  <1>e. ASSUME local' = [local EXCEPT ![f] = {}], pass' = Through(f, {}) PROVE GuardInv'
    <2>1. /\ pass'.step = "apply" /\ pass'.removed = pass.removed /\ pass'.rt.base[f] = {}
          /\ \A g \in Files \ {f} : pass'.rt.base[g] = pass.rt.base[g]
      BY <1>e, <1>3, <1>4
    <2>2. \A g \in Files \ {f} : local'[g] = local[g]
      BY <1>e, <1>1 DEF Bases
    <2> QED
      BY <1>1, <2>1, <2>2, FileGuarded
  <1>f. ASSUME out = "tombstone", pass' = [Through(f, {}) EXCEPT !.removed = @ \cup {f}], UNCHANGED local
        PROVE  GuardInv'
    <2>1. PICK r : r = Through(f, {})
      OBVIOUS
    <2>2. /\ r \in Passes /\ r.step = "apply" /\ r.removed = pass.removed /\ r.rt.base[f] = {}
          /\ \A g \in Files \ {f} : r.rt.base[g] = pass.rt.base[g]
      BY <1>3, <1>4, <2>1
    <2>3. PICK removed : removed = r.removed \cup {f}
      OBVIOUS
    <2>4. pass' = [r EXCEPT !.removed = removed]
      BY <1>f, <2>1, <2>3, Zenon
    <2>5. pass'.step = "apply" /\ pass'.removed = removed /\ pass'.rt = r.rt
      BY <2>2, <2>4 DEF Passes
    <2>6. pass'.removed = pass.removed \cup {f}
      BY <2>2, <2>3, <2>5
    <2> QED
      BY <1>f, <1>1, <1>2, <2>2, <2>5, <2>6, FileGuarded
  <1>g. ASSUME out = "merge", Writes(f, local[f] \cup row.note), pass' = Through(f, local[f] \cup row.note) PROVE GuardInv'
    <2>1. PICK note : note = local[f] \cup row.note
      OBVIOUS
    <2>2. note \in Notes /\ note # {}
      BY <1>g, <1>2, <1>3, <2>1 DEF Notes
    <2>3. Writes(f, note) /\ pass' = Through(f, note)
      BY <1>g, <2>1, Zenon
    <2>4. /\ pass'.step = "apply" /\ pass'.removed = pass.removed /\ \A g \in Files \ {f} : pass'.rt.base[g] = pass.rt.base[g]
      BY <1>4, <2>2, <2>3
    <2>5. local'[f] = note /\ \A g \in Files \ {f} : local'[g] = local[g]
      BY <1>5, <2>3
    <2> QED
      BY <1>1, <2>2, <2>4, <2>5, FileGuarded
  <1>h. ASSUME row.note # {}, Writes(f, row.note), pass' = [Through(f, row.note) EXCEPT !.conflict = TRUE] PROVE GuardInv'
    <2>1. PICK r : r = Through(f, row.note)
      OBVIOUS
    <2>2. /\ r \in Passes /\ r.step = "apply" /\ r.removed = pass.removed
          /\ \A g \in Files \ {f} : r.rt.base[g] = pass.rt.base[g]
      BY <1>3, <1>4, <2>1
    <2>3. pass' = [r EXCEPT !.conflict = TRUE]
      BY <1>h, <2>1, Zenon
    <2>4. pass'.step = "apply" /\ pass'.removed = pass.removed /\ pass'.rt = r.rt
      BY <2>2, <2>3 DEF Passes
    <2>5. local'[f] = row.note /\ \A g \in Files \ {f} : local'[g] = local[g]
      BY <1>h, <1>5
    <2> QED
      BY <1>h, <1>1, <2>2, <2>4, <2>5, FileGuarded
  <1>6. \/ pass' = Through(f, local[f]) /\ UNCHANGED local
        \/ /\ pass' = [Through(f, pass.rt.base[f])
                         EXCEPT !.ro = IF out = "report" THEN @ \cup {f} ELSE @,
                                !.held = IF out = "hold" THEN @ \cup {f} ELSE @]
           /\ UNCHANGED local
        \/ out = "pull" /\ Writes(f, row.note) /\ pass' = Through(f, row.note)
        \/ local' = [local EXCEPT ![f] = {}] /\ pass' = Through(f, {})
        \/ out = "tombstone" /\ pass' = [Through(f, {}) EXCEPT !.removed = @ \cup {f}] /\ UNCHANGED local
        \/ out = "merge" /\ Writes(f, local[f] \cup row.note) /\ pass' = Through(f, local[f] \cup row.note)
        \/ out \in {"copy", "conflict", "merge"} /\ Writes(f, row.note) /\ pass' = [Through(f, row.note) EXCEPT !.conflict = TRUE]
    BY Zenon DEF Apply, out, row, folder
  <1> QED
    BY <1>6, <1>2, <1>a, <1>b, <1>d, <1>e, <1>f, <1>g, <1>h, Zenon

LEMMA SettleGuarded ==
    ASSUME IInv, GuardInv, Settle
    PROVE  GuardInv'
  <1>1. pass.step = "apply" /\ pass' = NoPass /\ UNCHANGED local
    BY DEF Settle, folder
  <1>2. pass # NoPass
    BY <1>1, Nothing
  <1>3. CASE pass.orphan
    <2>1. scope' = NoScope
      BY <1>2, <1>3, Running DEF Settle
    <2> QED
      BY <1>1, <2>1, GuardEnds
  <1>4. CASE ~pass.orphan
    <2>1. PICK rt : rt = [pass.rt EXCEPT !.cursor = IF pass.failed = {} THEN pass.top ELSE Min(pass.failed) - 1,
                                         !.floor = IF pass.floor > @ THEN pass.floor ELSE @]
      OBVIOUS
    <2>2. PICK st : st = Machine(scope.state, IF pass.conflict THEN "conflict" ELSE "syncSettled")
      OBVIOUS
    <2>3. scope' = [scope EXCEPT !.rt = rt, !.fails = 0, !.state = st]
      BY <1>4, <2>1, <2>2, Zenon DEF Settle
    <2>4. rt.base = pass.rt.base
      BY <2>1, Parts DEF Runtime
    <2>5. scope'.rt = rt
      BY <2>3, Parts DEF Scopes
    <2>6. Cardinality(pass.removed \cup Gone(pass.rt)) < BulkMin
      BY <1>1 DEF GuardInv
    <2>7. pass.removed \cup Gone(pass.rt) \in SUBSET Files
      BY Parts DEF Passes, Gone
    <2>8. Gone(scope.rt)' \in SUBSET (pass.removed \cup Gone(pass.rt))
      BY <1>1, <2>4, <2>5 DEF Gone
    <2>9. Cardinality(Gone(scope.rt)') < BulkMin
      BY <2>6, <2>7, <2>8, Fewer
    <2> QED
      BY <1>1, <2>9, GuardEnds
  <1> QED
    BY <1>3, <1>4

LEMMA PassFailsGuarded ==
    ASSUME IInv, GuardInv, PassFails
    PROVE  GuardInv'
  <1>1. pass.step \in {"list", "apply"} /\ pass' = NoPass
    BY DEF PassFails
  <1>2. pass # NoPass
    BY <1>1, Nothing
  <1>3. CASE pass.orphan
    <2>1. scope' = NoScope
      BY <1>2, <1>3, Running DEF PassFails
    <2> QED
      BY <1>1, <2>1, GuardEnds
  <1>4. CASE ~pass.orphan
    <2>1. PICK e \in {"fail", "disconnect"} : e = IF scope.fails + 1 >= MaxFails THEN "fail" ELSE "disconnect"
      BY Zenon
    <2>2. PICK st : st = Machine(scope.state, e)
      OBVIOUS
    <2>3. PICK fails : fails = scope.fails + 1
      OBVIOUS
    <2>4. scope' = [scope EXCEPT !.fails = fails, !.rt = pass.rt, !.state = st]
      BY <1>4, <2>1, <2>2, <2>3, Zenon DEF PassFails
    <2>5. scope.state \in {"mounting", "syncing", "diverged", "offline"}
      BY <1>2, <1>4, Running DEF GuardInv
    <2>6. st \in {"failed", "offline"}
      BY <2>1, <2>2, <2>5 DEF Machine
    <2>7. scope'.state = st
      BY <2>4, Parts DEF Scopes
    <2> QED
      BY <1>1, <2>6, <2>7, GuardEnds
  <1> QED
    BY <1>3, <1>4

\* An answer: what gets a base is in the folder.
LEMMA AnswerGuarded ==
    ASSUME IInv, GuardInv, pass = NoPass, scope # NoScope, UNCHANGED <<pass, local>>, NEW S, NEW rt,
           \A f \in S : local[f] # {},
           rt = [scope.rt EXCEPT !.base = [f \in Files |-> IF f \in S THEN local[f] ELSE @[f]]],
           scope' = [scope EXCEPT !.rt = rt]
    PROVE  GuardInv'
  <1>1. PICK b : b = [f \in Files |-> IF f \in S THEN local[f] ELSE scope.rt.base[f]]
    OBVIOUS
  <1>2. rt = [scope.rt EXCEPT !.base = b]
    BY <1>1, Zenon
  <1>3. rt.base = b
    BY <1>2, Parts DEF Runtime
  <1>4. scope'.rt = rt /\ scope'.state = scope.state /\ scope'.force = scope.force
    BY Parts DEF Scopes
  <1>5. Gone(scope.rt)' \subseteq Gone(scope.rt)
    <2>1. scope'.rt.base = b
      BY <1>3, <1>4
    <2>2. ASSUME NEW f \in Files, b[f] # {}, local[f] = {} PROVE scope.rt.base[f] # {}
      BY <1>1, <2>2
    <2> QED
      BY <2>1, <2>2 DEF Gone
  <1>6. pass' \in Passes
    BY Parts
  <1> QED
    BY <1>4, <1>5, <1>6, GuardStays

LEMMA GuardStep ==
    ASSUME IInv, GuardInv, RacyMoves = {}, [Next]_vars
    PROVE  GuardInv'
  <1>1. ASSUME UNCHANGED <<local, scope, pass>> PROVE GuardInv'
    BY <1>1, Parts, GuardStays DEF Gone
  <1>2. ASSUME pass' = NoPass, scope' = NoScope PROVE GuardInv'
    BY <1>2, GuardEnds
  <1>3. ASSUME scope' = NoScope, Dropped, UNCHANGED local PROVE GuardInv'
    <2>1. CASE pass = NoPass
      BY <1>2, <1>3, <2>1, DroppedSound
    <2>2. CASE pass # NoPass
      <3>1. /\ pass' \in Passes /\ pass'.rt = pass.rt /\ pass'.step = pass.step /\ pass' # NoPass /\ pass'.removed = pass.removed
        BY <1>3, <2>2, DroppedSound
      <3>2. Gone(pass.rt)' \subseteq Gone(pass.rt)
        BY <1>3, <3>1 DEF Gone
      <3> QED
        BY <1>3, <2>2, <3>1, <3>2, GuardStays
    <2> QED
      BY <2>1, <2>2
  <1>4. CASE UNCHANGED vars
    BY <1>1, <1>4 DEF vars, folder
  <1>5. ASSUME NEW f \in Files, Edit(f) PROVE GuardInv'
    <2>1. /\ scope'.rt = scope.rt /\ scope'.state = scope.state
          /\ (scope' = NoScope <=> scope = NoScope) /\ (scope.force => scope'.force)
      BY <1>5, NudgedSound DEF Edit
    <2>2. UNCHANGED pass /\ \A g \in Files : local[g] \subseteq local'[g]
      BY <1>5, Parts DEF Edit, Bases
    <2>3. Gone(pass.rt)' \subseteq Gone(pass.rt) /\ Gone(scope.rt)' \subseteq Gone(scope.rt)
      BY <2>1, <2>2 DEF Gone
    <2> QED
      BY <2>1, <2>2, <2>3, Parts, GuardStays
  <1>6. ASSUME NEW S \in SUBSET Files, Delete(S) PROVE GuardInv'
    <2>1. /\ (scope' = NoScope <=> scope = NoScope) /\ (mount.on /\ scope # NoScope => scope'.force)
      BY <1>6, NudgedSound DEF Delete
    <2>2. pass = NoPass /\ pass' = NoPass /\ (scope # NoScope => mount.on)
      BY <1>6, Parts DEF Delete, Order
    <2> QED
      BY <2>1, <2>2, GuardEnds
  <1>7. ASSUME NEW f \in Files, PeerEdit(f) \/ PeerDelete(f) PROVE GuardInv'
    BY <1>1, <1>7 DEF PeerEdit, PeerDelete, folder
  <1>8. ASSUME NEW f \in Files, ApplyFails(f) \/ ApplyRefused(f) PROVE GuardInv'
    <2>1. pass.step = "apply" /\ pass' = Failed(f) /\ UNCHANGED <<local, scope>>
      BY <1>8 DEF ApplyFails, ApplyRefused, folder
    <2>2. pass' \in Passes /\ pass'.step = pass.step /\ pass'.removed = pass.removed /\ pass'.rt = pass.rt
      BY <2>1, Parts, FailedSound
    <2>3. pass # NoPass /\ pass' # NoPass
      BY <2>1, <2>2, Nothing
    <2>4. Gone(pass.rt)' \subseteq Gone(pass.rt)
      BY <2>1, <2>2 DEF Gone
    <2> QED
      BY <2>1, <2>2, <2>3, <2>4, GuardStays
  <1>9. ASSUME NEW f \in Files, Apply(f) PROVE GuardInv'
    BY <1>9, ApplyGuarded
  <1>10. ASSUME NEW f \in Files, PrimaryPath(f) PROVE GuardInv'
    BY <1>2, <1>10, Parts DEF PrimaryPath, Order
  <1>11. ASSUME NEW dir \in {"pull", "sync"}, AddMount(dir) PROVE GuardInv'
    BY <1>1, <1>11 DEF AddMount
  <1>12. CASE RemoveMount \/ UpdateMountDirection \/ ReinstateMount
    BY <1>3, <1>12 DEF RemoveMount, UpdateMountDirection, ReinstateMount, folder
  <1>13. CASE Crash \/ \E q \in Points : FollowMountPointRename(q)
    BY <1>2, <1>13 DEF Crash, FollowMountPointRename
  <1>14. CASE Persist \/ SourceReset \/ PrimaryPushed
    BY <1>1, <1>14 DEF Persist, SourceReset, PrimaryPushed, folder
  <1>15. CASE Begin \/ Guard \/ List \/ Settle \/ PassFails
    BY <1>15, BeginGuarded, GuardGuarded, ListGuarded, SettleGuarded, PassFailsGuarded
  <1>16. CASE KeepRoMountEdits
    <2>1. pass' = NoPass
      BY <1>16 DEF KeepRoMountEdits
    <2>2. PICK rt : scope' = [scope EXCEPT !.rt = rt, !.force = TRUE]
      BY <1>16, Zenon DEF KeepRoMountEdits
    <2>3. scope'.force
      BY <2>2, Parts DEF Scopes
    <2> QED
      BY <2>1, <2>3, GuardEnds
  <1>17. CASE KeepRemoves
    BY <1>17, Parts, GuardEnds DEF KeepRemoves, Order
  <1>18. CASE AcceptBulkPushes
    <2>1. PICK S \in SUBSET {f \in held : local[f] # {} /\ source[f].note = {}} :
             scope' = [scope EXCEPT !.rt = [scope.rt EXCEPT !.base = [f \in Files |-> IF f \in S THEN local[f] ELSE @[f]]]]
      BY <1>18, AcceptSound, Zenon
    <2>2. PICK rt : rt = [scope.rt EXCEPT !.base = [f \in Files |-> IF f \in S THEN local[f] ELSE @[f]]]
      OBVIOUS
    <2>3. pass = NoPass /\ scope # NoScope /\ UNCHANGED <<pass, local>> /\ scope' = [scope EXCEPT !.rt = rt]
      BY <1>18, <2>1, <2>2, Zenon DEF AcceptBulkPushes
    <2>4. \A f \in S : local[f] # {}
      BY <2>1
    <2> QED
      BY <2>2, <2>3, <2>4, AnswerGuarded
  <1>19. CASE KeepBulkPushes
    <2>1. PICK S : S = {f \in held : local[f] # {} /\ ~source[f].tomb}
      OBVIOUS
    <2>2. PICK rt : rt = [scope.rt EXCEPT !.base = [f \in Files |-> IF f \in S THEN local[f] ELSE @[f]]]
      OBVIOUS
    <2>3. pass = NoPass /\ scope # NoScope /\ UNCHANGED <<pass, local>> /\ scope' = [scope EXCEPT !.rt = rt]
      BY <1>19, <2>1, <2>2, Zenon DEF KeepBulkPushes, folder
    <2>4. \A f \in S : local[f] # {}
      BY <2>1
    <2> QED
      BY <2>2, <2>3, <2>4, AnswerGuarded
  <1> QED
    BY <1>4, <1>5, <1>6, <1>7, <1>8, <1>9, <1>10, <1>11, <1>12, <1>13, <1>14, <1>15, <1>16, <1>17, <1>18, <1>19, Zenon
       DEF Next, PassStep

\* No pass, with or without the guard, deletes BulkMin notes or more at the source.
THEOREM SourceSparedHolds == ASSUME RacyMoves = {} PROVE Spec => []SourceSpared
  <1>1. Init => GuardInv
    <2> SUFFICES ASSUME Init PROVE GuardInv
      OBVIOUS
    <2>1. pass = NoPass /\ scope = NoScope
      BY DEF Init
    <2> QED
      BY <2>1, Nothing DEF GuardInv
  <1>2. IInv /\ GuardInv /\ [Next]_vars => GuardInv'
    BY GuardStep
  <1>3. IInv /\ GuardInv => SourceSpared
    <2> SUFFICES ASSUME IInv, GuardInv PROVE Cardinality(pass.removed) < BulkMin
      BY DEF SourceSpared
    <2>1. CASE pass.step \in {"none", "guard"}
      <3>1. pass.removed = {}
        BY <2>1 DEF GuardInv
      <3> QED
        BY <3>1, NoneRemoved
    <2>2. CASE pass.step \in {"list", "apply"}
      <3>1. Cardinality(pass.removed \cup Gone(pass.rt)) < BulkMin
        BY <2>2 DEF GuardInv
      <3>2. pass.removed \cup Gone(pass.rt) \in SUBSET Files
        BY Parts DEF Passes, Gone
      <3> QED
        BY <3>1, <3>2, Fewer
    <2>3. pass.step \in {"none", "guard", "list", "apply"}
      BY Parts DEF Passes
    <2> QED
      BY <2>1, <2>2, <2>3
  <1> QED
    BY <1>1, <1>2, <1>3, Invariant, PTL DEF Spec

-----------------------------------------------------------------------------
(* Edits on their way to the source *)

\* Every row has a version the source has reached, and a note only if it was ever written.
Dated(row, t) == row.version <= t /\ (row.version = 0 => row.note = {})

SourceAged == 1 <= floor /\ floor <= top /\ \A f \in Files : Dated(source[f], top)

\* No cursor and no floor on record is ahead of the source.
Aged(rt) == rt.cursor <= top /\ rt.floor <= floor

KnownAged == Aged(scope.rt) /\ Aged(pass.rt) /\ \A q \in Points : Aged(store[q]) /\ Aged(disk.store[q])

\* What a pass was told when it began.
PassAged ==
    pass # NoPass =>
        /\ scope # NoScope => pass.dir = mount.dir
        /\ pass.floor # 0 /\ pass.floor <= floor /\ pass.top <= top /\ pass.rt.floor <= pass.floor
        /\ \A w \in pass.failed : w <= pass.top
        /\ pass.step \in {"guard", "list"} => pass.failed = {}

\* The source was rebuilt after the pass had read it: the next pass is a full one.
Rebuilt == floor > pass.top /\ floor > pass.floor

\* What a pass was told of f is what the source has, or the next pass hears of the difference.
RowAged(f) ==
    /\ Dated(pass.rows[f], pass.top)
    /\ \/ source[f] = pass.rows[f]
       \/ source[f].version > pass.top
       \/ Rebuilt /\ source[f].note = {}

RowsAged == pass.step = "apply" => \A f \in Files : RowAged(f)

\* The pass will come to f, or the cursor it leaves is before the version of f, or f is given up.
Left(f) ==
    \/ f \in pass.todo
    \/ f \in givenUp
    \/ source[f].version > pass.top
    \/ \E w \in pass.failed : w <= source[f].version
    \/ Rebuilt

\* The next pass will come to f, unless f is given up.
Behind(rt, f) ==
    \/ source[f].version > rt.cursor
    \/ floor > rt.floor /\ floor > rt.cursor
    \/ f \in givenUp

\* The mounts NoSilentEdit is about.
TwoWay == mount.dir = "sync" /\ mount.kind = "own"

Unsent(f) == local[f] \cap Loose # {}

PassPending ==
    pass.step = "apply" /\ scope # NoScope /\ TwoWay /\ ~scope.force => \A f \in Files : Unsent(f) => Left(f)

ScopePending ==
    scope # NoScope /\ pass = NoPass /\ scope.state \in {"live", "syncing", "diverged"} =>
        /\ scope.rt.floor # 0
        /\ TwoWay /\ ~scope.force => \A f \in Files : Unsent(f) => Behind(scope.rt, f)

EditInv == SourceAged /\ KnownAged /\ PassAged /\ RowsAged /\ PassPending /\ ScopePending

\* What a step may do to the source.
SourceOn ==
    /\ top <= top' /\ floor <= floor'
    /\ \A f \in Files : \/ source'[f] = source[f]
                        \/ source'[f].version > top
                        \/ source'[f].note = {} /\ floor' > top

\* A file that is given up stays so until the next pass begins.
GivenKept == pass # NoPass \/ pass' = NoPass => givenUp \subseteq givenUp'

SourceMoves == SourceOn /\ GivenKept

\* The numbers the arguments below compare.
LEMMA Numbers ==
    ASSUME IInv
    PROVE  /\ top \in Nat /\ floor \in Nat /\ pass.top \in Nat /\ pass.floor \in Nat
           /\ \A f \in Files : source[f].version \in Nat /\ pass.rows[f].version \in Nat
           /\ scope.rt.cursor \in Nat /\ scope.rt.floor \in Nat /\ pass.rt.cursor \in Nat /\ pass.rt.floor \in Nat
           /\ \A q \in Points : /\ store[q].cursor \in Nat /\ store[q].floor \in Nat
                                /\ disk.store[q].cursor \in Nat /\ disk.store[q].floor \in Nat
           /\ pass.failed \subseteq Nat \ {0}
  <1>1. top \in Nat /\ floor \in Nat
    BY Parts
  <1>2. pass.top \in Nat /\ pass.floor \in Nat /\ pass.rows \in [Files -> Row] /\ pass.failed \subseteq Nat \ {0}
    BY Parts DEF Passes
  <1>3. \A f \in Files : source[f] \in Row /\ pass.rows[f] \in Row
    BY <1>2, Parts
  <1>4. \A r \in Row : r.version \in Nat
    BY DEF Row
  <1>5. \A r \in Runtime : r.cursor \in Nat /\ r.floor \in Nat
    BY DEF Runtime
  <1>6. scope.rt \in Runtime /\ pass.rt \in Runtime /\ \A q \in Points : store[q] \in Runtime /\ disk.store[q] \in Runtime
    BY Parts
  <1> QED
    BY <1>1, <1>2, <1>3, <1>4, <1>5, <1>6

LEMMA WrittenMoves ==
    ASSUME IInv, SourceAged, NEW f \in Files, NEW note \in Notes, Written(f, note)
    PROVE  SourceOn /\ SourceAged'
  <1>1. /\ source'[f].version = top + 1 /\ (\A g \in Files \ {f} : source'[g] = source[g])
        /\ floor' = floor /\ top' = top + 1
    BY WrittenSound
  <1>2. top \in Nat /\ floor \in Nat /\ \A g \in Files : source[g].version \in Nat
    BY Numbers
  <1>3. SourceOn
    BY <1>1, <1>2 DEF SourceOn
  <1>4. Dated(source[f], top)'
    BY <1>1, <1>2 DEF Dated
  <1>5. ASSUME NEW g \in Files \ {f} PROVE Dated(source[g], top)'
    BY <1>1, <1>2 DEF Dated, SourceAged
  <1>6. 1 <= floor' /\ floor' <= top'
    BY <1>1, <1>2 DEF SourceAged
  <1> QED
    BY <1>3, <1>4, <1>5, <1>6 DEF SourceAged

LEMMA SourceStill ==
    ASSUME IInv, SourceAged, UNCHANGED remote
    PROVE  SourceOn /\ SourceAged'
  <1>1. UNCHANGED <<source, top, floor>> /\ top \in Nat /\ floor \in Nat
    BY Numbers DEF remote
  <1> QED
    BY <1>1 DEF SourceOn, SourceAged, Dated

\* Every step only moves the source on.
LEMMA SourceOnStep ==
    ASSUME IInv, SourceAged, [Next]_vars
    PROVE  SourceOn /\ SourceAged'
  <1>1. CASE UNCHANGED vars
    BY <1>1, SourceStill DEF vars
  <1>2. ASSUME NEW f \in Files, PeerEdit(f) PROVE SourceOn /\ SourceAged'
    <2>1. PICK e : e = edits + 1
      OBVIOUS
    <2>2. Written(f, source[f].note \cup {e}) /\ e \in 1 .. MaxEdits
      BY <1>2, <2>1, Parts, Bounds DEF PeerEdit
    <2>3. source[f].note \cup {e} \in Notes
      BY <2>2, Parts DEF Notes, Row
    <2> QED
      BY <2>2, <2>3, WrittenMoves
  <1>3. ASSUME NEW f \in Files, PeerDelete(f) PROVE SourceOn /\ SourceAged'
    <2>1. Written(f, {}) /\ {} \in Notes
      BY <1>3 DEF PeerDelete, Notes
    <2> QED
      BY <2>1, WrittenMoves
  <1>4. CASE SourceReset
    <2>1. /\ source' = [f \in Files |-> IF source[f].tomb THEN NoRow ELSE source[f]]
          /\ top' = top + 1 /\ floor' = top + 1
      BY <1>4 DEF SourceReset
    <2>2. top \in Nat /\ floor \in Nat /\ \A f \in Files : source[f].version \in Nat
      BY Numbers
    <2>3. NoRow.note = {} /\ NoRow.version = 0
      BY DEF NoRow
    <2>4. \A f \in Files : source'[f] = source[f] \/ source'[f] = NoRow
      BY <2>1
    <2>5. SourceOn
      BY <2>1, <2>2, <2>3, <2>4 DEF SourceOn, SourceAged
    <2>6. ASSUME NEW f \in Files PROVE Dated(source[f], top)'
      <3>1. CASE source'[f] = source[f]
        BY <2>1, <2>2, <3>1 DEF Dated, SourceAged
      <3>2. CASE source'[f] = NoRow
        BY <2>1, <2>2, <2>3, <3>2 DEF Dated
      <3> QED
        BY <2>4, <3>1, <3>2
    <2>7. 1 <= floor' /\ floor' <= top'
      BY <2>1, <2>2
    <2> QED
      BY <2>5, <2>6, <2>7 DEF SourceAged
  <1>5. ASSUME NEW f \in Files, Apply(f) PROVE SourceOn /\ SourceAged'
    <2>1. local[f] \in Notes /\ {} \in Notes /\ local[f] \cup pass.rows[f].note \in Notes
      <3>1. local[f] \in Notes
        BY Parts DEF Bases
      <3>2. pass.rows[f] \in Row
        BY Parts DEF Passes
      <3> QED
        BY <3>1, <3>2 DEF Notes, Row
    <2>2. UNCHANGED remote \/ Written(f, local[f]) \/ Written(f, {}) \/ Written(f, local[f] \cup pass.rows[f].note)
      BY <1>5, Zenon DEF Apply
    <2>3. CASE UNCHANGED remote
      BY <2>3, SourceStill
    <2>4. CASE Written(f, local[f])
      BY <2>1, <2>4, WrittenMoves
    <2>5. CASE Written(f, {})
      BY <2>1, <2>5, WrittenMoves
    <2>6. CASE Written(f, local[f] \cup pass.rows[f].note)
      BY <2>1, <2>6, WrittenMoves
    <2> QED
      BY <2>2, <2>3, <2>4, <2>5, <2>6
  <1>6. CASE AcceptBulkPushes
    <2>1. PICK sent \in SUBSET {f \in held : local[f] # {} /\ source[f].note = {}} :
           /\ source' = [f \in Files |-> IF f \in sent THEN [note |-> local[f], version |-> top + 1, tomb |-> FALSE]
                                         ELSE source[f]]
           /\ top' = top + 1
           /\ unsent' = unsent \ UNION {local[f] : f \in sent}
           /\ scope' = [scope EXCEPT !.rt = [scope.rt EXCEPT !.base = [f \in Files |-> IF f \in sent THEN local[f] ELSE @[f]]]]
           /\ store' = [store EXCEPT ![mount.point] =
                           [scope.rt EXCEPT !.base = [f \in Files |-> IF f \in sent THEN local[f] ELSE @[f]]]]
      BY <1>6, AcceptSound, Zenon
    <2>2. /\ source' = [f \in Files |-> IF f \in sent THEN [note |-> local[f], version |-> top + 1, tomb |-> FALSE]
                                        ELSE source[f]]
          /\ top' = top + 1 /\ floor' = floor
      BY <1>6, <2>1, Zenon DEF AcceptBulkPushes
    <2>3. top \in Nat /\ floor \in Nat /\ \A f \in Files : source[f].version \in Nat
      BY Numbers
    <2>4. \A f \in Files : source'[f] = source[f] \/ source'[f].version = top + 1
      BY <2>2
    <2>5. SourceOn
      BY <2>2, <2>3, <2>4 DEF SourceOn
    <2>6. ASSUME NEW f \in Files PROVE Dated(source[f], top)'
      <3>1. CASE source'[f] = source[f]
        BY <2>2, <2>3, <3>1 DEF Dated, SourceAged
      <3>2. CASE source'[f].version = top + 1
        BY <2>2, <2>3, <3>2 DEF Dated
      <3> QED
        BY <2>4, <3>1, <3>2
    <2>7. 1 <= floor' /\ floor' <= top'
      BY <2>2, <2>3 DEF SourceAged
    <2> QED
      BY <2>5, <2>6, <2>7 DEF SourceAged
  <1>7. ASSUME NEW f \in Files, Edit(f) \/ ApplyFails(f) \/ ApplyRefused(f) \/ PrimaryPath(f) PROVE SourceOn /\ SourceAged'
    BY <1>7, SourceStill DEF Edit, ApplyFails, ApplyRefused, PrimaryPath
  <1>8. ASSUME NEW S \in SUBSET Files, Delete(S) PROVE SourceOn /\ SourceAged'
    BY <1>8, SourceStill DEF Delete
  <1>9. ASSUME NEW dir \in {"pull", "sync"}, AddMount(dir) PROVE SourceOn /\ SourceAged'
    BY <1>9, SourceStill DEF AddMount
  <1>10. ASSUME NEW q \in Points, FollowMountPointRename(q) PROVE SourceOn /\ SourceAged'
    BY <1>10, SourceStill DEF FollowMountPointRename
  <1>11. CASE RemoveMount \/ UpdateMountDirection \/ ReinstateMount \/ Persist \/ Crash
    BY <1>11, SourceStill DEF RemoveMount, UpdateMountDirection, ReinstateMount, Persist, Crash
  <1>12. CASE Begin \/ Guard \/ List \/ Settle \/ PassFails
    BY <1>12, SourceStill DEF Begin, Guard, List, Settle, PassFails
  <1>13. CASE KeepRoMountEdits \/ KeepRemoves \/ KeepBulkPushes \/ PrimaryPushed
    BY <1>13, SourceStill DEF KeepRoMountEdits, KeepRemoves, KeepBulkPushes, PrimaryPushed
  <1> QED
    BY <1>1, <1>2, <1>3, <1>4, <1>5, <1>6, <1>7, <1>8, <1>9, <1>10, <1>11, <1>12, <1>13, Zenon DEF Next, PassStep

\* Files are given up when they fail, and taken up again when a pass begins.
LEMMA GivenStep == ASSUME IInv, [Next]_vars PROVE GivenKept
  <1>1. CASE Begin
    <2>1. pass = NoPass /\ pass' # NoPass
      BY <1>1, BeginsPass
    <2> QED
      BY <2>1 DEF GivenKept
  <1>2. ASSUME NEW f \in Files, ApplyFails(f) \/ ApplyRefused(f) PROVE GivenKept
    <2>1. Retried(f)
      BY <1>2 DEF ApplyFails, ApplyRefused
    <2> QED
      BY <2>1 DEF Retried, GivenKept
  <1>3. ASSUME UNCHANGED givenUp PROVE GivenKept
    BY <1>3 DEF GivenKept
  <1>4. CASE \/ \E f \in Files : Edit(f) \/ PeerEdit(f) \/ PeerDelete(f) \/ PrimaryPath(f) \/ Apply(f)
             \/ \E S \in SUBSET Files : Delete(S)
             \/ \E dir \in {"pull", "sync"} : AddMount(dir)
             \/ \E q \in Points : FollowMountPointRename(q)
    <2>1. UNCHANGED givenUp
      BY <1>4, Zenon DEF Edit, PeerEdit, PeerDelete, PrimaryPath, Apply, Delete, AddMount, FollowMountPointRename, retries
    <2> QED
      BY <1>3, <2>1
  <1>5. CASE \/ RemoveMount \/ UpdateMountDirection \/ ReinstateMount \/ Persist \/ Crash \/ SourceReset
             \/ Guard \/ List \/ Settle \/ PassFails
             \/ KeepRoMountEdits \/ KeepRemoves \/ AcceptBulkPushes \/ KeepBulkPushes \/ PrimaryPushed \/ UNCHANGED vars
    <2>1. UNCHANGED givenUp
      BY <1>5, Zenon DEF RemoveMount, UpdateMountDirection, ReinstateMount, Persist, Crash, SourceReset, Guard, List, Settle,
         PassFails, KeepRoMountEdits, KeepRemoves, AcceptBulkPushes, KeepBulkPushes, PrimaryPushed, vars, retries
    <2> QED
      BY <1>3, <2>1
  <1> QED
    BY <1>1, <1>2, <1>4, <1>5, Zenon DEF Next, PassStep

LEMMA SourceStep ==
    ASSUME IInv, SourceAged, [Next]_vars
    PROVE  SourceMoves /\ SourceAged'
  BY SourceOnStep, GivenStep DEF SourceMoves

LEMMA NoStateAged == ASSUME IInv PROVE Aged(NoState)
  <1>1. top \in Nat /\ floor \in Nat
    BY Numbers
  <1> QED
    BY <1>1 DEF NoState, Aged

\* A runtime does not get ahead of the source by a step of the source.
LEMMA KnownStays ==
    ASSUME IInv, IInv', SourceMoves, Aged(scope'.rt), Aged(pass'.rt),
           \A q \in Points : Aged(store'[q]) /\ Aged(disk'.store[q])
    PROVE  KnownAged'
  <1>1. top \in Nat /\ floor \in Nat /\ top' \in Nat /\ floor' \in Nat /\ top <= top' /\ floor <= floor'
    BY Numbers DEF IInv, Types, SourceTypes, SourceMoves, SourceOn
  <1>2. /\ scope' \in Scopes /\ pass' \in Passes /\ store' \in [Points -> Runtime] /\ disk' \in Disk
    BY DEF IInv, Types, ScopeTypes, SavedTypes
  <1>3. scope'.rt \in Runtime /\ pass'.rt \in Runtime /\ \A q \in Points : store'[q] \in Runtime /\ disk'.store[q] \in Runtime
    BY <1>2 DEF Scopes, Passes, Disk
  <1>4. ASSUME NEW rt \in Runtime, Aged(rt) PROVE rt.cursor <= top' /\ rt.floor <= floor'
    <2>1. rt.cursor \in Nat /\ rt.floor \in Nat
      BY DEF Runtime
    <2> QED
      BY <1>1, <1>4, <2>1 DEF Aged
  <1>5. Aged(scope.rt)' /\ Aged(pass.rt)'
    BY <1>3, <1>4 DEF Aged
  <1>6. ASSUME NEW q \in Points PROVE Aged(store[q])' /\ Aged(disk.store[q])'
    <2>1. store'[q] \in Runtime /\ disk'.store[q] \in Runtime /\ Aged(store'[q]) /\ Aged(disk'.store[q])
      BY <1>3
    <2>2. /\ store'[q].cursor <= top' /\ store'[q].floor <= floor'
          /\ disk'.store[q].cursor <= top' /\ disk'.store[q].floor <= floor'
      BY <1>4, <2>1
    <2> QED
      BY <2>2 DEF Aged
  <1> QED
    BY <1>5, <1>6 DEF KnownAged

\* What the next pass will come to, it still will after a step of the source.
LEMMA BehindStays ==
    ASSUME IInv, IInv', SourceAged, SourceMoves, NEW f \in Files, NEW rt \in Runtime, Aged(rt), Behind(rt, f),
           pass # NoPass \/ pass' = NoPass
    PROVE  source'[f].version > rt.cursor \/ (floor' > rt.floor /\ floor' > rt.cursor) \/ f \in givenUp'
  <1>1. rt.cursor \in Nat /\ rt.floor \in Nat
    BY DEF Runtime
  <1>2. top \in Nat /\ floor \in Nat /\ source[f].version \in Nat
    BY Numbers
  <1>3. floor' \in Nat /\ source'[f].version \in Nat
    BY DEF IInv, Types, SourceTypes, Row
  <1>4. rt.cursor <= top /\ rt.floor <= floor /\ floor <= top /\ floor <= floor'
    BY DEF Aged, SourceAged, SourceMoves, SourceOn
  <1>8. f \in givenUp => f \in givenUp'
    BY DEF SourceMoves, GivenKept
  <1>5. CASE source'[f] = source[f]
    BY <1>1, <1>2, <1>3, <1>4, <1>5, <1>8 DEF Behind
  <1>6. CASE source'[f].version > top
    BY <1>1, <1>2, <1>3, <1>4, <1>6
  <1>7. CASE floor' > top
    BY <1>1, <1>2, <1>3, <1>4, <1>7
  <1> QED
    BY <1>5, <1>6, <1>7 DEF SourceMoves, SourceOn

LEMMA RebuiltStays ==
    ASSUME IInv, IInv', pass # NoPass, PassAged, SourceAged, SourceMoves, pass'.top = pass.top, pass'.floor = pass.floor
    PROVE  /\ Rebuilt => Rebuilt'
           /\ floor' > top => Rebuilt'
  <1>1. top \in Nat /\ floor \in Nat /\ pass.top \in Nat /\ pass.floor \in Nat
    BY Numbers
  <1>2. floor' \in Nat
    BY DEF IInv, Types, SourceTypes
  <1>3. pass.floor <= floor /\ pass.top <= top /\ floor <= top /\ floor <= floor'
    BY DEF PassAged, SourceAged, SourceMoves, SourceOn
  <1> QED
    BY <1>1, <1>2, <1>3 DEF Rebuilt

LEMMA LeftStays ==
    ASSUME IInv, IInv', pass # NoPass, PassAged, SourceAged, SourceMoves, pass'.top = pass.top, pass'.floor = pass.floor,
           NEW f \in Files, f \in pass.todo => f \in pass'.todo, pass.failed \subseteq pass'.failed, Left(f)
    PROVE  Left(f)'
  <1>1. top \in Nat /\ pass.top \in Nat /\ source[f].version \in Nat
    BY Numbers
  <1>2. source'[f].version \in Nat
    BY DEF IInv, Types, SourceTypes, Row
  <1>3. pass.top <= top
    BY DEF PassAged
  <1>7. f \in givenUp => f \in givenUp'
    BY DEF SourceMoves, GivenKept
  <1>4. CASE source'[f] = source[f]
    BY <1>4, <1>7, RebuiltStays DEF Left
  <1>5. CASE source'[f].version > top
    <2>1. source'[f].version > pass'.top
      BY <1>1, <1>2, <1>3, <1>5
    <2> QED
      BY <2>1 DEF Left
  <1>6. CASE floor' > top
    BY <1>6, RebuiltStays DEF Left
  <1> QED
    BY <1>4, <1>5, <1>6 DEF SourceMoves, SourceOn

LEMMA RowStays ==
    ASSUME IInv, IInv', pass # NoPass, PassAged, SourceAged, SourceMoves, pass'.top = pass.top, pass'.floor = pass.floor,
           pass'.rows = pass.rows, NEW f \in Files, RowAged(f)
    PROVE  RowAged(f)'
  <1>1. top \in Nat /\ pass.top \in Nat
    BY Numbers
  <1>2. source'[f].version \in Nat
    BY DEF IInv, Types, SourceTypes, Row
  <1>3. pass.top <= top
    BY DEF PassAged
  <1>4. Dated(pass.rows[f], pass.top)'
    BY DEF RowAged, Dated
  <1>5. CASE source'[f] = source[f]
    BY <1>4, <1>5, RebuiltStays DEF RowAged
  <1>6. CASE source'[f].version > top
    <2>1. source'[f].version > pass'.top
      BY <1>1, <1>2, <1>3, <1>6
    <2> QED
      BY <1>4, <2>1 DEF RowAged
  <1>7. CASE source'[f].note = {} /\ floor' > top
    BY <1>4, <1>7, RebuiltStays DEF RowAged
  <1> QED
    BY <1>5, <1>6, <1>7 DEF SourceMoves, SourceOn

\* A step that neither starts nor ends a pass, nor adds to the folder unless it asks for a full pass.
LEMMA EditStays ==
    ASSUME IInv, IInv', EditInv, SourceMoves, SourceAged', KnownAged',
           pass'.top = pass.top, pass'.floor = pass.floor, pass'.rt = pass.rt, pass'.rows = pass.rows, pass'.failed = pass.failed,
           pass'.step = pass.step, pass'.todo = pass.todo, pass'.dir = pass.dir, pass' = NoPass <=> pass = NoPass,
           \/ scope' = NoScope
           \/ /\ scope # NoScope /\ scope'.state = scope.state /\ (scope.force => scope'.force)
              /\ scope'.rt.cursor = scope.rt.cursor /\ scope'.rt.floor = scope.rt.floor
              /\ mount'.kind = mount.kind /\ mount'.dir = mount.dir
              /\ scope'.force \/ mount.kind # "own" \/ \A f \in Files : Unsent(f)' => Unsent(f)
    PROVE  EditInv'
  <1>1. SourceAged /\ KnownAged /\ PassAged /\ RowsAged /\ PassPending /\ ScopePending
    BY DEF EditInv
  <1>2. PassAged'
    <2> SUFFICES ASSUME pass' # NoPass
                 PROVE  /\ scope' # NoScope => pass'.dir = mount'.dir
                        /\ pass'.floor # 0 /\ pass'.floor <= floor' /\ pass'.top <= top' /\ pass'.rt.floor <= pass'.floor
                        /\ \A w \in pass'.failed : w <= pass'.top
                        /\ pass'.step \in {"guard", "list"} => pass'.failed = {}
      BY DEF PassAged
    <2>1. /\ (scope # NoScope => pass.dir = mount.dir)
          /\ pass.floor # 0 /\ pass.floor <= floor /\ pass.top <= top /\ pass.rt.floor <= pass.floor
          /\ (\A w \in pass.failed : w <= pass.top)
          /\ (pass.step \in {"guard", "list"} => pass.failed = {})
      BY <1>1 DEF PassAged
    <2>2. top \in Nat /\ floor \in Nat /\ pass.top \in Nat /\ pass.floor \in Nat
      BY Numbers
    <2>3. top' \in Nat /\ floor' \in Nat /\ top <= top' /\ floor <= floor'
      BY DEF IInv, Types, SourceTypes, SourceMoves, SourceOn
    <2>4. pass'.floor <= floor' /\ pass'.top <= top'
      BY <2>1, <2>2, <2>3
    <2> QED
      BY <2>1, <2>4
  <1>3. RowsAged'
    <2> SUFFICES ASSUME pass'.step = "apply", NEW f \in Files PROVE RowAged(f)'
      BY DEF RowsAged
    <2>1. pass # NoPass /\ RowAged(f)
      BY <1>1, Nothing DEF RowsAged
    <2> QED
      BY <1>1, <2>1, RowStays
  <1>4. PassPending'
    <2> SUFFICES ASSUME pass'.step = "apply", scope' # NoScope, TwoWay', ~scope'.force, NEW f \in Files, Unsent(f)' PROVE Left(f)'
      BY DEF PassPending
    <2>1. pass # NoPass /\ Unsent(f) /\ TwoWay /\ ~scope.force /\ scope # NoScope
      BY Nothing DEF TwoWay
    <2>2. Left(f)
      BY <1>1, <2>1 DEF PassPending
    <2> QED
      BY <1>1, <2>1, <2>2, LeftStays
  <1>5. ScopePending'
    <2> SUFFICES ASSUME scope' # NoScope, pass' = NoPass, scope'.state \in {"live", "syncing", "diverged"}
                 PROVE  /\ scope'.rt.floor # 0
                        /\ TwoWay' /\ ~scope'.force => \A f \in Files : Unsent(f)' => Behind(scope.rt, f)'
      BY DEF ScopePending
    <2>1. scope.rt.floor # 0 /\ scope # NoScope /\ pass = NoPass /\ scope.state \in {"live", "syncing", "diverged"}
      BY <1>1 DEF ScopePending
    <2>2. ASSUME TwoWay', ~scope'.force, NEW f \in Files, Unsent(f)' PROVE Behind(scope.rt, f)'
      <3>1. Unsent(f) /\ TwoWay /\ ~scope.force
        BY <2>2 DEF TwoWay
      <3>2. Behind(scope.rt, f) /\ Aged(scope.rt) /\ scope.rt \in Runtime
        BY <1>1, <2>1, <3>1, Parts DEF ScopePending, KnownAged
      <3>3. source'[f].version > scope.rt.cursor \/ (floor' > scope.rt.floor /\ floor' > scope.rt.cursor) \/ f \in givenUp'
        BY <1>1, <3>2, BehindStays
      <3>4. scope'.rt.cursor = scope.rt.cursor /\ scope'.rt.floor = scope.rt.floor
        OBVIOUS
      <3> QED
        BY <3>3, <3>4 DEF Behind
    <2> QED
      BY <2>1, <2>2
  <1> QED
    BY <1>2, <1>3, <1>4, <1>5 DEF EditInv

\* A step that ends the pass, or comes when none runs.
LEMMA EditEnds ==
    ASSUME SourceAged', KnownAged', pass' = NoPass, scope' # NoScope => ScopePending'
    PROVE  EditInv'
  <1>1. PassAged'
    BY DEF PassAged
  <1>2. RowsAged' /\ PassPending'
    BY Nothing DEF RowsAged, PassPending
  <1>3. ScopePending'
    BY DEF ScopePending
  <1> QED
    BY <1>1, <1>2, <1>3 DEF EditInv

\* The fields of a pass that the files do not change.
LEMMA ThroughRest ==
    ASSUME pass \in Passes, NEW f \in Files, NEW b \in Notes, NEW r, r = Through(f, b)
    PROVE  /\ r.top = pass.top /\ r.floor = pass.floor /\ r.dir = pass.dir
           /\ r.rt.cursor = pass.rt.cursor /\ r.rt.floor = pass.rt.floor
  <1>1. PICK base : base = [pass.rt.base EXCEPT ![f] = b]
    OBVIOUS
  <1>2. PICK rt : rt = [pass.rt EXCEPT !.base = base]
    OBVIOUS
  <1>3. rt.cursor = pass.rt.cursor /\ rt.floor = pass.rt.floor
    BY <1>2 DEF Passes, Runtime
  <1>4. PICK todo : todo = pass.todo \ {f}
    OBVIOUS
  <1>5. r = [pass EXCEPT !.todo = todo, !.rt = rt]
    BY <1>1, <1>2, <1>4, Zenon DEF Through
  <1>6. r.top = pass.top /\ r.floor = pass.floor /\ r.dir = pass.dir /\ r.rt = rt
    BY <1>5 DEF Passes
  <1> QED
    BY <1>3, <1>6

LEMMA FailedRest ==
    ASSUME pass \in Passes, NEW f \in Files, NEW r, r = Failed(f)
    PROVE  /\ r.top = pass.top /\ r.floor = pass.floor /\ r.dir = pass.dir
           /\ r.failed \subseteq pass.failed \cup {pass.rows[f].version}
  <1>1. PICK todo : todo = pass.todo \ {f}
    OBVIOUS
  <1>2. PICK failed : failed = IF Spent(f) THEN pass.failed ELSE pass.failed \cup {pass.rows[f].version}
    OBVIOUS
  <1>3. r = [pass EXCEPT !.todo = todo, !.failed = failed]
    BY <1>1, <1>2, Zenon DEF Failed
  <1>4. r.top = pass.top /\ r.floor = pass.floor /\ r.dir = pass.dir /\ r.failed = failed
    BY <1>3 DEF Passes
  <1> QED
    BY <1>2, <1>4

\* A pass is done with one file: the source has its edits, or the next pass comes back for it.
LEMMA FileEdits ==
    ASSUME IInv, IInv', EditInv, SourceMoves, SourceAged', NEW f \in Files, pass.step = "apply", pass'.step = "apply",
           pass'.top = pass.top, pass'.floor = pass.floor, pass'.dir = pass.dir, pass'.rows = pass.rows,
           pass'.rt.cursor = pass.rt.cursor, pass'.rt.floor = pass.rt.floor, pass'.todo = pass.todo \ {f},
           pass.failed \subseteq pass'.failed, \A w \in pass'.failed : w <= pass.top,
           UNCHANGED <<scope, store, disk, mount>>, \A g \in Files \ {f} : local'[g] = local[g], Loose' \subseteq Loose,
           scope # NoScope /\ TwoWay /\ ~scope.force /\ Unsent(f)' => Left(f)'
    PROVE  EditInv'
  <1>1. SourceAged /\ KnownAged /\ PassAged /\ RowsAged /\ PassPending /\ ScopePending
    BY DEF EditInv
  <1>2. pass # NoPass /\ pass' # NoPass
    BY Nothing
  <1>3. KnownAged'
    <2>1. Aged(scope'.rt) /\ Aged(pass'.rt) /\ \A q \in Points : Aged(store'[q]) /\ Aged(disk'.store[q])
      BY <1>1 DEF KnownAged, Aged
    <2> QED
      BY <2>1, KnownStays
  <1>4. PassAged'
    <2>1. /\ (scope # NoScope => pass.dir = mount.dir)
          /\ pass.floor # 0 /\ pass.floor <= floor /\ pass.top <= top /\ pass.rt.floor <= pass.floor
      BY <1>1, <1>2 DEF PassAged
    <2>2. top \in Nat /\ floor \in Nat /\ pass.top \in Nat /\ pass.floor \in Nat
      BY Numbers
    <2>3. top' \in Nat /\ floor' \in Nat /\ top <= top' /\ floor <= floor'
      BY DEF IInv, Types, SourceTypes, SourceMoves, SourceOn
    <2>4. pass'.floor <= floor' /\ pass'.top <= top'
      BY <2>1, <2>2, <2>3
    <2> QED
      BY <2>1, <2>4 DEF PassAged
  <1>5. RowsAged'
    <2> SUFFICES ASSUME NEW g \in Files PROVE RowAged(g)'
      BY DEF RowsAged
    <2>1. RowAged(g)
      BY <1>1 DEF RowsAged
    <2> QED
      BY <1>1, <1>2, <2>1, RowStays
  <1>6. PassPending'
    <2> SUFFICES ASSUME scope # NoScope, TwoWay, ~scope.force, NEW g \in Files, Unsent(g)' PROVE Left(g)'
      BY DEF PassPending, TwoWay
    <2>1. CASE g = f
      BY <2>1
    <2>2. CASE g # f
      <3>1. Unsent(g)
        BY <2>2 DEF Unsent
      <3>2. Left(g)
        BY <1>1, <3>1 DEF PassPending
      <3>3. g \in pass.todo => g \in pass'.todo
        BY <2>2
      <3> QED
        BY <1>1, <1>2, <3>2, <3>3, LeftStays
    <2> QED
      BY <2>1, <2>2
  <1>7. ScopePending'
    BY <1>2 DEF ScopePending
  <1> QED
    BY <1>3, <1>4, <1>5, <1>6, <1>7 DEF EditInv

\* In a two-way mount of one's own vault a file the pass is through with has no loose edit.
LEMMA ApplySends ==
    ASSUME IInv, NEW f \in Files, Apply(f), pass.dir = "sync", mount.kind = "own"
    PROVE  ~Unsent(f)'
  <1> DEFINE out == Outcome(f)  row == pass.rows[f]
  <1>1. local \in Bases /\ row.note \cap unsent = {}
    BY Parts DEF Data, Served, Sent
  <1>2. out \notin {"keep", "report", "hold"}
    <2> DEFINE d == Decision!Decide(local[f], pass.rt.base[f], pass.rows[f].note)
    <2>1. out = Finalize(d, row)
      BY DEF Outcome
    <2>2. d \in {"inSync", "push", "deleteLocal", "keepLocal", "pull", "deleteRemote", "editWinsPull", "conflict", "merge"}
      BY Decided
    <2> HIDE DEF d, out, row
    <2> QED
      BY <2>1, <2>2 DEF Finalize
  <1>3. (out = "agree" => local[f] = row.note) /\ (out = "tombstone" => local[f] = {})
    BY Outcomes
  <1>4. ASSUME NEW note, Writes(f, note) PROVE local'[f] = note
    BY <1>1, <1>4 DEF Writes, Bases
  <1> HIDE DEF out, row
  <1>5. \/ out = "agree" /\ UNCHANGED <<local, unsent>>
        \/ unsent' = unsent \ local[f] /\ UNCHANGED local
        \/ Writes(f, row.note) /\ UNCHANGED unsent
        \/ local' = [local EXCEPT ![f] = {}]
        \/ out = "tombstone" /\ UNCHANGED local
        \/ Writes(f, local[f] \cup row.note) /\ unsent' = unsent \ local[f]
    BY <1>2, Zenon DEF Apply, out, row, folder
  <1>6. local'[f] \cap unsent' = {}
    <2>1. CASE out = "agree" /\ UNCHANGED <<local, unsent>>
      BY <1>1, <1>3, <2>1
    <2>2. CASE unsent' = unsent \ local[f] /\ UNCHANGED local
      BY <2>2
    <2>3. CASE Writes(f, row.note) /\ UNCHANGED unsent
      BY <1>1, <1>4, <2>3
    <2>4. CASE local' = [local EXCEPT ![f] = {}]
      BY <1>1, <2>4 DEF Bases
    <2>5. CASE out = "tombstone" /\ UNCHANGED local
      BY <1>3, <2>5
    <2>6. CASE Writes(f, local[f] \cup row.note) /\ unsent' = unsent \ local[f]
      <3>1. local'[f] = local[f] \cup row.note
        BY <1>4, <2>6
      <3> QED
        BY <1>1, <2>6, <3>1
    <2> QED
      BY <1>5, <2>1, <2>2, <2>3, <2>4, <2>5, <2>6
  <1> QED
    BY <1>6 DEF Unsent, Loose

LEMMA ApplyEdits ==
    ASSUME IInv, IInv', EditInv, SourceMoves, SourceAged', NEW f \in Files, Apply(f)
    PROVE  EditInv'
  <1>1. pass.step = "apply" /\ UNCHANGED <<scope, store, disk, mount>>
    BY DEF Apply, saved
  <1>2. local[f] \in Notes /\ pass.rows[f].note \in Notes /\ {} \in Notes /\ pass.rt.base[f] \in Notes /\ local \in Bases /\ pass \in Passes
    <2>1. local[f] \in Notes /\ local \in Bases /\ pass \in Passes
      BY Parts DEF Bases
    <2>2. pass.rows[f] \in Row
      BY Parts DEF Passes
    <2>3. pass.rt.base[f] \in Notes
      BY Parts, RuntimeBase
    <2> QED
      BY <2>1, <2>2, <2>3 DEF Row, Notes
  <1> DEFINE Keeps(r) == /\ r.step = pass.step /\ r.top = pass.top /\ r.floor = pass.floor /\ r.dir = pass.dir /\ r.rows = pass.rows
                         /\ r.rt.cursor = pass.rt.cursor /\ r.rt.floor = pass.rt.floor
                         /\ r.todo = pass.todo \ {f} /\ r.failed = pass.failed
  <1>3. ASSUME NEW b \in Notes, NEW r, r = Through(f, b) PROVE Keeps(r) /\ r \in Passes
    BY <1>2, <1>3, ThroughSound, ThroughRest
  <1>4. ASSUME NEW r \in Passes, Keeps(r), NEW ro, NEW hd, pass' = [r EXCEPT !.ro = ro, !.held = hd] PROVE Keeps(pass')
    BY <1>4 DEF Passes
  <1>5. ASSUME NEW r \in Passes, Keeps(r), NEW removed, pass' = [r EXCEPT !.removed = removed] PROVE Keeps(pass')
    BY <1>5 DEF Passes
  <1>6. ASSUME NEW r \in Passes, Keeps(r), pass' = [r EXCEPT !.conflict = TRUE] PROVE Keeps(pass')
    BY <1>6 DEF Passes
  <1> HIDE DEF Keeps
  <1>7. \E b \in Notes : \/ pass' = Through(f, b)
                         \/ \E ro, hd : pass' = [Through(f, b) EXCEPT !.ro = ro, !.held = hd]
                         \/ \E removed : pass' = [Through(f, b) EXCEPT !.removed = removed]
                         \/ pass' = [Through(f, b) EXCEPT !.conflict = TRUE]
    <2>1. PICK note : note = local[f] \cup pass.rows[f].note
      OBVIOUS
    <2>2. note \in Notes
      BY <1>2, <2>1 DEF Notes
    <2>3. \/ pass' = Through(f, local[f])
          \/ \E ro, hd : pass' = [Through(f, pass.rt.base[f]) EXCEPT !.ro = ro, !.held = hd]
          \/ pass' = Through(f, pass.rows[f].note)
          \/ pass' = Through(f, {})
          \/ \E removed : pass' = [Through(f, {}) EXCEPT !.removed = removed]
          \/ pass' = Through(f, note)
          \/ pass' = [Through(f, pass.rows[f].note) EXCEPT !.conflict = TRUE]
      BY <2>1, Zenon DEF Apply
    <2> QED
      BY <1>2, <2>2, <2>3, Zenon
  <1>8. Keeps(pass')
    <2>1. PICK b \in Notes : \/ pass' = Through(f, b)
                             \/ \E ro, hd : pass' = [Through(f, b) EXCEPT !.ro = ro, !.held = hd]
                             \/ \E removed : pass' = [Through(f, b) EXCEPT !.removed = removed]
                             \/ pass' = [Through(f, b) EXCEPT !.conflict = TRUE]
      BY <1>7, Zenon
    <2>2. PICK r : r = Through(f, b)
      OBVIOUS
    <2>3. Keeps(r) /\ r \in Passes
      BY <1>3, <2>2
    <2> QED
      BY <1>4, <1>5, <1>6, <2>1, <2>2, <2>3, Zenon
  <1>9. kept \subseteq kept' /\ unsent' \subseteq unsent /\ \A g \in Files \ {f} : local'[g] = local[g]
    <2>1. /\ \/ kept' = kept \/ kept' = kept \cup local[f]
          /\ \/ unsent' = unsent \/ unsent' = unsent \ local[f]
          /\ \/ local' = local \/ \E note : local' = [local EXCEPT ![f] = note]
      BY Zenon DEF Apply, Writes, folder
    <2> QED
      BY <1>2, <2>1 DEF Bases
  <1>10. Loose' \subseteq Loose
    BY <1>9 DEF Loose
  <1>11. scope # NoScope /\ TwoWay /\ ~scope.force /\ Unsent(f)' => Left(f)'
    <2> SUFFICES ASSUME scope # NoScope, TwoWay PROVE ~Unsent(f)'
      OBVIOUS
    <2>1. pass.dir = "sync" /\ mount.kind = "own"
      BY <1>1, Nothing DEF EditInv, PassAged, TwoWay
    <2> QED
      BY <2>1, ApplySends
  <1>12. \A w \in pass.failed : w <= pass.top
    BY <1>1, Nothing DEF EditInv, PassAged
  <1>13. /\ pass'.step = pass.step /\ pass'.top = pass.top /\ pass'.floor = pass.floor /\ pass'.dir = pass.dir /\ pass'.rows = pass.rows
         /\ pass'.rt.cursor = pass.rt.cursor /\ pass'.rt.floor = pass.rt.floor
         /\ pass'.todo = pass.todo \ {f} /\ pass'.failed = pass.failed
    BY <1>8 DEF Keeps
  <1> QED
    BY <1>1, <1>9, <1>10, <1>11, <1>12, <1>13, FileEdits

\* A file the pass leaves for later: its version is among the failed ones, or it is given up, unless
\* the source has moved on.
LEMMA FailedEdits ==
    ASSUME IInv, IInv', EditInv, SourceMoves, SourceAged', NEW f \in Files, pass.step = "apply", pass' = Failed(f), Retried(f),
           UNCHANGED <<folder, remote, scope, store, disk, mount>>
    PROVE  EditInv'
  <1>1. /\ pass'.step = pass.step /\ pass'.rows = pass.rows /\ pass'.rt = pass.rt /\ pass'.todo = pass.todo \ {f}
        /\ pass.failed \subseteq pass'.failed /\ (Spent(f) \/ pass.rows[f].version \in pass'.failed)
        /\ pass'.top = pass.top /\ pass'.floor = pass.floor /\ pass'.dir = pass.dir
        /\ pass'.failed \subseteq pass.failed \cup {pass.rows[f].version}
    BY Parts, FailedSound, FailedRest
  <1>2. PassAged /\ RowAged(f) /\ pass # NoPass
    BY Nothing DEF EditInv, RowsAged
  <1>3. \A w \in pass'.failed : w <= pass.top
    BY <1>1, <1>2 DEF PassAged, RowAged, Dated
  <1>4. UNCHANGED <<local, kept, unsent, source, top, floor>>
    BY DEF folder, remote
  <1>5. pass.rows[f].version \in Nat /\ source[f].version \in Nat
    BY Numbers
  <1>6. TwoWay /\ Unsent(f)' => Left(f)'
    <2> SUFFICES ASSUME TwoWay, Unsent(f)' PROVE Left(f)'
      OBVIOUS
    <2>2. CASE source[f].version > pass.top
      BY <1>1, <1>4, <2>2 DEF Left
    <2>3. CASE Rebuilt
      <3>1. Rebuilt'
        BY <1>1, <1>4, <2>3 DEF Rebuilt
      <3> QED
        BY <3>1 DEF Left
    <2>4. CASE source[f] = pass.rows[f]
      <3>1. CASE Spent(f)
        BY <3>1 DEF Retried, Left
      <3>2. CASE ~Spent(f)
        <4>1. pass.rows[f].version \in pass'.failed /\ pass.rows[f].version <= source[f].version
          BY <1>1, <1>5, <2>4, <3>2
        <4> QED
          BY <1>4, <4>1 DEF Left
      <3> QED
        BY <3>1, <3>2
    <2> QED
      BY <1>2, <2>2, <2>3, <2>4 DEF RowAged
  <1>7. Loose' \subseteq Loose /\ \A g \in Files \ {f} : local'[g] = local[g]
    BY <1>4 DEF Loose
  <1> QED
    BY <1>1, <1>3, <1>6, <1>7, FileEdits

\* A pass that does not list the folder comes to every file whose edit waits for it.
LEMMA BeginEdits ==
    ASSUME IInv, IInv', EditInv, SourceMoves, SourceAged', Begin
    PROVE  EditInv'
  <1>1. /\ pass = NoPass /\ keeping = {} /\ mount.on /\ Ready.state # "localGone"
        /\ (scope # NoScope => scope.state # "none")
    BY Parts DEF Begin, Order
  <1>2. /\ Ready \in Scopes /\ Ready.state # "none" /\ (Ready.state # "localGone" => Ready.state \in States \ {"failed"})
        /\ Ready.rt = IF scope = NoScope THEN store[mount.point] ELSE scope.rt
        /\ Ready.force = (scope # NoScope /\ scope.force)
        /\ scope = NoScope => Ready.state = "mounting"
        /\ scope # NoScope => (Ready.state \notin {"mounting", "localGone"} => Ready.state = scope.state)
    BY <1>1, Parts, ReadySound
  <1>3. PICK rt \in Runtime : rt = Ready.rt
    BY <1>2 DEF Scopes
  <1>4. PICK full \in BOOLEAN : full = (Ready.state \in {"mounting", "offline"} \/ Ready.force)
    BY Zenon
  <1>5. PICK mode : mode = IF full \/ (rt.floor # 0 /\ floor > rt.floor) THEN "full" ELSE IF top = rt.cursor THEN "noop" ELSE "delta"
    OBVIOUS
  <1>6. PICK step : step = IF mode = "full" THEN "guard" ELSE "apply"
    OBVIOUS
  <1>7. PICK todo : todo = IF mode = "delta" THEN {f \in Files : source[f].version > rt.cursor} ELSE {}
    OBVIOUS
  <1>8. PICK st : st = Machine(Ready.state, "syncStart")
    OBVIOUS
  <1>9. PICK dir \in {"pull", "sync"} : dir = mount.dir
    BY Parts DEF Mount
  <1>10. /\ scope' = [Ready EXCEPT !.state = st, !.force = FALSE]
         /\ pass' = [NoPass EXCEPT !.step = step, !.full = full, !.dir = dir, !.rt = rt, !.rows = source, !.top = top,
                                   !.floor = floor, !.todo = todo]
         /\ store' = IF Ready.state = "live" THEN [store EXCEPT ![mount.point] = rt] ELSE store
         /\ givenUp' = IF mode = "full" THEN {} ELSE givenUp \ todo
         /\ UNCHANGED <<folder, remote, mount, disk>>
    BY <1>3, <1>4, <1>5, <1>6, <1>7, <1>8, <1>9, Zenon DEF Begin
  <1>11. scope'.rt = rt
    BY <1>2, <1>3, <1>10 DEF Scopes
  <1>12. NoPass.failed = {} /\ NoPass \in Passes
    BY Nothing DEF NoPass
  <1>13. /\ pass'.rt = rt /\ pass'.rows = source /\ pass'.step = step /\ pass'.top = top /\ pass'.floor = floor
         /\ pass'.todo = todo /\ pass'.dir = dir /\ pass'.failed = {}
    BY <1>10, <1>12 DEF Passes
  <1>14. UNCHANGED <<local, kept, unsent, source, top, floor, mount, disk>>
    BY <1>10 DEF folder, remote
  <1>15. SourceAged /\ KnownAged /\ ScopePending
    BY DEF EditInv
  <1>16. Aged(rt)
    BY <1>2, <1>3, <1>15, Parts DEF KnownAged
  <1>17. KnownAged'
    <2>1. \A q \in Points : store'[q] \in {store[q], rt}
      BY <1>10, Parts
    <2>2. \A q \in Points : Aged(store'[q]) /\ Aged(disk'.store[q])
      BY <1>14, <1>15, <1>16, <2>1 DEF KnownAged
    <2>3. Aged(scope'.rt) /\ Aged(pass'.rt)
      BY <1>11, <1>13, <1>16
    <2> QED
      BY <2>2, <2>3, KnownStays
  <1>18. pass' # NoPass
    BY <1>6, <1>13, Nothing
  <1>19. top \in Nat /\ floor \in Nat /\ rt.floor \in Nat /\ rt.cursor \in Nat /\ \A f \in Files : source[f].version \in Nat
    BY Numbers DEF Runtime
  <1>20. PassAged'
    BY <1>9, <1>13, <1>14, <1>15, <1>16, <1>19 DEF PassAged, SourceAged, Aged
  <1>21. RowsAged'
    BY <1>13, <1>14, <1>15 DEF RowsAged, RowAged, SourceAged, Dated
  <1>22. PassPending'
    <2> SUFFICES ASSUME step = "apply", TwoWay, NEW f \in Files, Unsent(f), f \notin givenUp PROVE f \in todo
      BY <1>6, <1>10, <1>13, <1>14 DEF PassPending, TwoWay, Unsent, Loose, Left
    <2>1. mode # "full"
      BY <1>6
    <2>2. ~full /\ ~(rt.floor # 0 /\ floor > rt.floor) /\ (mode = "noop" => top = rt.cursor) /\ mode \in {"noop", "delta"}
      BY <1>5, <2>1
    <2>3. Ready.state \notin {"mounting", "offline"} /\ ~Ready.force
      BY <1>4, <2>2
    <2>4. scope # NoScope /\ ~scope.force /\ scope.state \in {"live", "syncing", "diverged"}
      BY <1>1, <1>2, <2>3 DEF States
    <2>5. rt.floor # 0 /\ Behind(rt, f)
      BY <1>1, <1>2, <1>3, <1>15, <2>4 DEF ScopePending
    <2>6. source[f].version > rt.cursor /\ source[f].version <= top
      BY <1>15, <1>19, <2>2, <2>5 DEF Behind, SourceAged, Dated
    <2>7. mode = "delta"
      BY <1>19, <2>2, <2>6
    <2> QED
      BY <1>7, <2>6, <2>7
  <1>23. ScopePending'
    BY <1>18 DEF ScopePending
  <1> QED
    BY <1>17, <1>20, <1>21, <1>22, <1>23 DEF EditInv

LEMMA GuardEdits ==
    ASSUME IInv, IInv', GuardInv, EditInv, SourceMoves, SourceAged', Guard
    PROVE  EditInv'
  <1>1. pass.step = "guard" /\ pass # NoPass /\ UNCHANGED <<folder, remote, mount, disk>>
    BY Nothing DEF Guard
  <1>2. KnownAged /\ PassAged
    BY DEF EditInv
  <1>3. CASE MassLocalDeletion
    <2>1. pass' = NoPass
      BY <1>3 DEF Guard
    <2>2. CASE pass.orphan
      <3>1. scope' = NoScope /\ scope = NoScope /\ store' = store
        BY <1>1, <1>3, <2>2, Running DEF Guard
      <3>2. Aged(scope'.rt) /\ Aged(pass'.rt) /\ \A q \in Points : Aged(store'[q]) /\ Aged(disk'.store[q])
        BY <1>1, <1>2, <2>1, <3>1, Nothing, NoStateAged DEF KnownAged
      <3> QED
        BY <2>1, <3>1, <3>2, KnownStays, EditEnds
    <2>3. CASE ~pass.orphan
      <3>1. PICK st : st = Machine(scope.state, "localGone")
        OBVIOUS
      <3>2. scope' = [scope EXCEPT !.state = st, !.rt = pass.rt] /\ store' = [store EXCEPT ![mount.point] = pass.rt]
        BY <1>3, <2>3, <3>1, Zenon DEF Guard
      <3>3. scope.state \in {"mounting", "syncing", "diverged", "offline"}
        BY <1>1, <2>3, Running DEF GuardInv
      <3>4. st = "localGone"
        BY <3>1, <3>3 DEF Machine
      <3>5. scope'.state = "localGone" /\ scope'.rt = pass.rt
        BY <3>2, <3>4, Parts DEF Scopes
      <3>6. \A q \in Points : store'[q] \in {store[q], pass.rt}
        BY <3>2, Parts
      <3>7. Aged(scope'.rt) /\ Aged(pass'.rt) /\ \A q \in Points : Aged(store'[q]) /\ Aged(disk'.store[q])
        BY <1>1, <1>2, <2>1, <3>5, <3>6, Nothing, NoStateAged DEF KnownAged
      <3>8. ScopePending'
        BY <3>5 DEF ScopePending
      <3> QED
        BY <2>1, <3>7, <3>8, KnownStays, EditEnds
    <2> QED
      BY <2>2, <2>3
  <1>4. CASE ~MassLocalDeletion
    <2>1. pass' = [pass EXCEPT !.step = "list"] /\ UNCHANGED <<scope, store>>
      BY <1>4 DEF Guard
    <2>2. /\ pass'.step = "list" /\ pass'.rt = pass.rt /\ pass'.top = pass.top /\ pass'.floor = pass.floor
          /\ pass'.failed = pass.failed /\ pass'.dir = pass.dir
      BY <2>1, Parts DEF Passes
    <2>3. Aged(scope'.rt) /\ Aged(pass'.rt) /\ \A q \in Points : Aged(store'[q]) /\ Aged(disk'.store[q])
      BY <1>1, <1>2, <2>1, <2>2 DEF KnownAged
    <2>4. UNCHANGED <<top, floor, mount, scope>>
      BY <1>1, <2>1 DEF remote
    <2>5. PassAged'
      BY <1>1, <1>2, <2>2, <2>4 DEF PassAged
    <2>6. RowsAged' /\ PassPending'
      BY <2>2 DEF RowsAged, PassPending
    <2>7. ScopePending'
      BY <2>2, Nothing DEF ScopePending
    <2> QED
      BY <2>3, <2>5, <2>6, <2>7, KnownStays DEF EditInv
  <1> QED
    BY <1>3, <1>4

LEMMA ListEdits ==
    ASSUME IInv, IInv', EditInv, SourceMoves, SourceAged', List
    PROVE  EditInv'
  <1>1. /\ pass.step = "list" /\ pass # NoPass /\ UNCHANGED <<folder, remote, saved, scope>>
    BY Nothing DEF List
  <1>2. PICK listed : listed = {f \in Files : local[f] # {}}
    OBVIOUS
  <1>3. PICK todo : todo = listed \cup Tracked(pass.rt) \cup {f \in Files : source[f].note # {}}
    OBVIOUS
  <1>4. PICK hold : hold = (mount.kind = "shared" /\ Cardinality({f \in listed \ Tracked(pass.rt) : source[f].note = {} /\ ~source[f].tomb}) > PushFloor)
    OBVIOUS
  <1>5. pass' = [pass EXCEPT !.step = "apply", !.rows = source, !.top = top, !.listed = listed, !.todo = todo, !.hold = hold]
    BY <1>2, <1>3, <1>4, Zenon DEF List
  <1>6. /\ pass'.step = "apply" /\ pass'.rows = source /\ pass'.top = top /\ pass'.todo = todo
        /\ pass'.rt = pass.rt /\ pass'.floor = pass.floor /\ pass'.failed = pass.failed /\ pass'.dir = pass.dir
    BY <1>5, Parts DEF Passes
  <1>7. UNCHANGED <<local, kept, unsent, source, top, floor, mount, scope, store, disk>>
    BY <1>1 DEF folder, remote, saved
  <1>8. SourceAged /\ KnownAged /\ PassAged
    BY DEF EditInv
  <1>9. KnownAged'
    <2>1. Aged(scope'.rt) /\ Aged(pass'.rt) /\ \A q \in Points : Aged(store'[q]) /\ Aged(disk'.store[q])
      BY <1>6, <1>7, <1>8 DEF KnownAged
    <2> QED
      BY <2>1, KnownStays
  <1>10. top \in Nat
    BY Numbers
  <1>11. PassAged'
    BY <1>1, <1>6, <1>7, <1>8, <1>10 DEF PassAged
  <1>12. RowsAged'
    BY <1>6, <1>7, <1>8 DEF RowsAged, RowAged, SourceAged, Dated
  <1>13. PassPending'
    <2>1. ASSUME NEW f \in Files, Unsent(f)' PROVE Left(f)'
      <3>1. f \in todo
        BY <1>2, <1>3, <1>7, <2>1 DEF Unsent
      <3> QED
        BY <1>6, <3>1 DEF Left
    <2> QED
      BY <2>1 DEF PassPending
  <1>14. ScopePending'
    BY <1>6, Nothing DEF ScopePending
  <1> QED
    BY <1>9, <1>11, <1>12, <1>13, <1>14 DEF EditInv

\* The cursor the pass leaves is before every file it did not get through.
LEMMA SettleEdits ==
    ASSUME IInv, IInv', EditInv, SourceMoves, SourceAged', Settle
    PROVE  EditInv'
  <1>1. /\ pass.step = "apply" /\ pass.todo = {} /\ pass # NoPass /\ pass' = NoPass /\ UNCHANGED <<folder, remote, mount, disk, givenUp>>
    BY Nothing DEF Settle, retries
  <1>2. KnownAged /\ PassAged /\ PassPending
    BY DEF EditInv
  <1>3. CASE pass.orphan
    <2>1. scope' = NoScope /\ scope = NoScope /\ store' = store
      BY <1>1, <1>3, Running DEF Settle
    <2>2. Aged(scope'.rt) /\ Aged(pass'.rt) /\ \A q \in Points : Aged(store'[q]) /\ Aged(disk'.store[q])
      BY <1>1, <1>2, <2>1, Nothing, NoStateAged DEF KnownAged
    <2> QED
      BY <1>1, <2>1, <2>2, KnownStays, EditEnds
  <1>4. CASE ~pass.orphan
    <2>1. PICK cursor : cursor = IF pass.failed = {} THEN pass.top ELSE Min(pass.failed) - 1
      OBVIOUS
    <2>2. PICK fl : fl = IF pass.floor > pass.rt.floor THEN pass.floor ELSE pass.rt.floor
      OBVIOUS
    <2>3. PICK rt : rt = [pass.rt EXCEPT !.cursor = cursor, !.floor = fl]
      OBVIOUS
    <2>4. PICK st : st = Machine(scope.state, IF pass.conflict THEN "conflict" ELSE "syncSettled")
      OBVIOUS
    <2>5. scope' = [scope EXCEPT !.rt = rt, !.fails = 0, !.state = st] /\ store' = [store EXCEPT ![mount.point] = rt]
      BY <1>4, <2>1, <2>2, <2>3, <2>4, Zenon DEF Settle
    <2>6. top \in Nat /\ floor \in Nat /\ pass.top \in Nat /\ pass.floor \in Nat /\ pass.rt.floor \in Nat
          /\ pass.failed \in SUBSET (Nat \ {0}) /\ \A f \in Files : source[f].version \in Nat
      BY Numbers
    <2>7. /\ pass.floor # 0 /\ pass.floor <= floor /\ pass.top <= top /\ pass.rt.floor <= pass.floor
          /\ \A w \in pass.failed : w <= pass.top
      BY <1>1, <1>2 DEF PassAged
    <2>8. fl = pass.floor
      BY <2>2, <2>6, <2>7
    <2>9. /\ cursor \in Nat /\ cursor <= pass.top /\ (\A w \in pass.failed : cursor < w)
      <3>1. CASE pass.failed = {}
        BY <2>1, <2>6, <3>1
      <3>2. CASE pass.failed # {}
        <4>1. PICK m : m = Min(pass.failed)
          OBVIOUS
        <4>2. m \in pass.failed /\ m - 1 \in Nat /\ (\A w \in pass.failed : m <= w)
          BY <2>6, <3>2, <4>1, Earliest
        <4>3. cursor = m - 1 /\ m \in Nat
          BY <2>1, <2>6, <3>2, <4>1, <4>2
        <4> QED
          BY <2>6, <2>7, <4>2, <4>3
      <3> QED
        BY <3>1, <3>2
    <2>10. rt.cursor = cursor /\ rt.floor = pass.floor /\ Aged(rt)
      <3>1. rt.cursor = cursor /\ rt.floor = pass.floor
        BY <2>3, <2>8, Parts DEF Runtime
      <3> QED
        BY <2>6, <2>7, <2>9, <3>1 DEF Aged
    <2>11. scope'.rt = rt /\ scope'.force = scope.force /\ scope # NoScope
      BY <1>1, <1>4, <2>5, Parts, Running DEF Scopes
    <2>12. KnownAged'
      <3>1. \A q \in Points : store'[q] \in {store[q], rt}
        BY <2>5, Parts
      <3>2. Aged(scope'.rt) /\ Aged(pass'.rt) /\ \A q \in Points : Aged(store'[q]) /\ Aged(disk'.store[q])
        BY <1>1, <1>2, <2>10, <2>11, <3>1, Nothing, NoStateAged DEF KnownAged
      <3> QED
        BY <3>2, KnownStays
    <2>13. UNCHANGED <<local, kept, unsent, source, top, floor, mount>>
      BY <1>1 DEF folder, remote
    <2>14. ScopePending'
      <3>1. scope'.rt.floor # 0
        BY <2>7, <2>10, <2>11
      <3>2. ASSUME TwoWay', ~scope'.force, NEW f \in Files, Unsent(f)' PROVE Behind(scope.rt, f)'
        <4>1. Left(f)
          BY <1>1, <1>2, <2>11, <2>13, <3>2 DEF PassPending, TwoWay, Unsent, Loose
        <4>2. source[f].version > cursor \/ (floor > pass.floor /\ floor > cursor) \/ f \in givenUp
          <5>1. CASE source[f].version > pass.top
            BY <2>6, <2>9, <5>1
          <5>2. ASSUME NEW w \in pass.failed, w <= source[f].version PROVE source[f].version > cursor
            <6>1. cursor < w /\ w \in Nat
              BY <2>6, <2>9
            <6> QED
              BY <2>6, <2>9, <5>2, <6>1
          <5>3. CASE Rebuilt
            BY <2>6, <2>9, <5>3 DEF Rebuilt
          <5> QED
            BY <1>1, <4>1, <5>1, <5>2, <5>3 DEF Left
        <4> QED
          BY <1>1, <2>10, <2>11, <2>13, <4>2 DEF Behind
      <3> QED
        BY <3>1, <3>2 DEF ScopePending
    <2> QED
      BY <1>1, <2>12, <2>14, EditEnds
  <1> QED
    BY <1>3, <1>4

LEMMA PassFailsEdits ==
    ASSUME IInv, IInv', GuardInv, EditInv, SourceMoves, SourceAged', PassFails
    PROVE  EditInv'
  <1>1. /\ pass # NoPass /\ pass' = NoPass /\ UNCHANGED <<folder, remote, mount, disk>>
    BY Nothing DEF PassFails
  <1>2. KnownAged
    BY DEF EditInv
  <1>3. CASE pass.orphan
    <2>1. scope' = NoScope /\ scope = NoScope /\ store' = store
      BY <1>1, <1>3, Running DEF PassFails
    <2>2. Aged(scope'.rt) /\ Aged(pass'.rt) /\ \A q \in Points : Aged(store'[q]) /\ Aged(disk'.store[q])
      BY <1>1, <1>2, <2>1, Nothing, NoStateAged DEF KnownAged
    <2> QED
      BY <1>1, <2>1, <2>2, KnownStays, EditEnds
  <1>4. CASE ~pass.orphan
    <2>1. PICK e \in {"fail", "disconnect"} : e = IF scope.fails + 1 >= MaxFails THEN "fail" ELSE "disconnect"
      BY Zenon
    <2>2. PICK st : st = Machine(scope.state, e)
      OBVIOUS
    <2>3. PICK fails : fails = scope.fails + 1
      OBVIOUS
    <2>4. scope' = [scope EXCEPT !.fails = fails, !.rt = pass.rt, !.state = st] /\ store' = [store EXCEPT ![mount.point] = pass.rt]
      BY <1>4, <2>1, <2>2, <2>3, Zenon DEF PassFails
    <2>5. scope.state \in {"mounting", "syncing", "diverged", "offline"}
      BY <1>1, <1>4, Running DEF GuardInv
    <2>6. st \in {"failed", "offline"}
      BY <2>1, <2>2, <2>5 DEF Machine
    <2>7. scope'.state = st /\ scope'.rt = pass.rt
      BY <2>4, Parts DEF Scopes
    <2>8. \A q \in Points : store'[q] \in {store[q], pass.rt}
      BY <2>4, Parts
    <2>9. Aged(scope'.rt) /\ Aged(pass'.rt) /\ \A q \in Points : Aged(store'[q]) /\ Aged(disk'.store[q])
      BY <1>1, <1>2, <2>7, <2>8, Nothing, NoStateAged DEF KnownAged
    <2>10. ScopePending'
      BY <2>6, <2>7 DEF ScopePending
    <2> QED
      BY <1>1, <2>9, <2>10, KnownStays, EditEnds
  <1> QED
    BY <1>3, <1>4

\* An answer changes bases, in the scope and in the store.
LEMMA AnswerEdits ==
    ASSUME IInv, IInv', EditInv, SourceMoves, SourceAged', pass = NoPass, scope # NoScope, UNCHANGED <<pass, mount, disk>>,
           NEW rt, NEW st, rt.cursor = scope.rt.cursor, rt.floor = scope.rt.floor,
           \/ st.cursor = scope.rt.cursor /\ st.floor = scope.rt.floor
           \/ st.cursor = store[mount.point].cursor /\ st.floor = store[mount.point].floor,
           scope'.rt = rt, scope'.state = scope.state, scope.force => scope'.force, scope'.force \/ mount.kind # "own",
           store' = [store EXCEPT ![mount.point] = st]
    PROVE  EditInv'
  <1>1. KnownAged
    BY DEF EditInv
  <1>2. Aged(rt) /\ Aged(st)
    BY <1>1, Parts DEF KnownAged, Aged
  <1>3. \A q \in Points : store'[q] \in {store[q], st}
    BY Parts
  <1>4. Aged(scope'.rt) /\ Aged(pass'.rt) /\ \A q \in Points : Aged(store'[q]) /\ Aged(disk'.store[q])
    BY <1>1, <1>2, <1>3 DEF KnownAged
  <1>5. KnownAged'
    BY <1>4, KnownStays
  <1> QED
    BY <1>5, EditStays

\* A command drops the scope; a pass that runs reports to nobody.
LEMMA CommandEdits ==
    ASSUME IInv, IInv', EditInv, SourceMoves, SourceAged', scope' = NoScope, pass' = NoPass \/ Dropped,
           \A q \in Points : /\ store'[q] \in {store[q], disk.store[q], NoState}
                             /\ disk'.store[q] \in {store[q], disk.store[q], NoState}
    PROVE  EditInv'
  <1>1. KnownAged
    BY DEF EditInv
  <1>2. ASSUME pass'.rt \in {pass.rt, NoState} PROVE KnownAged'
    <2>1. Aged(scope'.rt) /\ Aged(pass'.rt) /\ \A q \in Points : Aged(store'[q]) /\ Aged(disk'.store[q])
      BY <1>1, <1>2, Nothing, NoStateAged DEF KnownAged
    <2> QED
      BY <2>1, KnownStays
  <1>3. CASE pass' = NoPass
    BY <1>2, <1>3, Nothing, EditEnds
  <1>4. CASE Dropped /\ pass # NoPass
    <2>1. pass' = [pass EXCEPT !.orphan = TRUE]
      BY <1>4 DEF Dropped
    <2>2. /\ pass'.top = pass.top /\ pass'.floor = pass.floor /\ pass'.rt = pass.rt /\ pass'.rows = pass.rows
          /\ pass'.failed = pass.failed /\ pass'.step = pass.step /\ pass'.todo = pass.todo /\ pass'.dir = pass.dir
      BY <2>1, Parts DEF Passes
    <2>3. pass' # NoPass
      BY <1>4, DroppedSound
    <2> QED
      BY <1>2, <1>4, <2>2, <2>3, EditStays
  <1>5. CASE Dropped /\ pass = NoPass
    <2>1. pass' = NoPass
      BY <1>5 DEF Dropped
    <2> QED
      BY <1>2, <2>1, Nothing, EditEnds
  <1> QED
    BY <1>3, <1>4, <1>5

\* A step outside the mount: the folder gets a new edit only with a nudge.
LEMMA OutsideEdits ==
    ASSUME IInv, IInv', EditInv, SourceMoves, SourceAged', UNCHANGED <<pass, store, mount>>,
           \A q \in Points : disk'.store[q] \in {store[q], disk.store[q]},
           scope'.rt = scope.rt, scope'.state = scope.state, scope' = NoScope <=> scope = NoScope, scope.force => scope'.force,
           scope = NoScope \/ scope'.force \/ \A f \in Files : Unsent(f)' => Unsent(f)
    PROVE  EditInv'
  <1>1. KnownAged
    BY DEF EditInv
  <1>2. Aged(scope'.rt) /\ Aged(pass'.rt) /\ \A q \in Points : Aged(store'[q]) /\ Aged(disk'.store[q])
    BY <1>1 DEF KnownAged
  <1>3. KnownAged'
    BY <1>2, KnownStays
  <1> QED
    BY <1>3, EditStays

LEMMA EditStep ==
    ASSUME IInv, GuardInv, EditInv, RacyMoves = {}, [Next]_vars
    PROVE  EditInv'
  <1>1. IInv' /\ SourceMoves /\ SourceAged'
    BY Step, SourceStep DEF EditInv
  <1>2. ASSUME UNCHANGED <<local, unsent, kept, scope, pass, store, mount, disk>> PROVE EditInv'
    BY <1>1, <1>2, OutsideEdits DEF Unsent, Loose
  <1>3. CASE UNCHANGED vars
    BY <1>2, <1>3 DEF vars, folder, saved
  <1>4. ASSUME NEW f \in Files, Edit(f) PROVE EditInv'
    <2>1. /\ scope'.rt = scope.rt /\ scope'.state = scope.state /\ (scope' = NoScope <=> scope = NoScope)
          /\ (mount.on /\ scope # NoScope => scope'.force) /\ (scope.force => scope'.force)
      BY <1>4, NudgedSound DEF Edit
    <2>2. UNCHANGED <<pass, store, mount, disk>> /\ (scope # NoScope => mount.on)
      BY <1>4, Parts DEF Edit, saved, Order
    <2> QED
      BY <1>1, <2>1, <2>2, OutsideEdits
  <1>5. ASSUME NEW S \in SUBSET Files, Delete(S) PROVE EditInv'
    <2>1. /\ scope'.rt = scope.rt /\ scope'.state = scope.state /\ (scope' = NoScope <=> scope = NoScope)
          /\ (mount.on /\ scope # NoScope => scope'.force) /\ (scope.force => scope'.force)
      BY <1>5, NudgedSound DEF Delete
    <2>2. UNCHANGED <<pass, store, mount, disk>> /\ (scope # NoScope => mount.on)
      BY <1>5, Parts DEF Delete, saved, Order
    <2> QED
      BY <1>1, <2>1, <2>2, OutsideEdits
  <1>6. ASSUME NEW f \in Files, PeerEdit(f) \/ PeerDelete(f) PROVE EditInv'
    BY <1>2, <1>6 DEF PeerEdit, PeerDelete, folder, saved
  <1>7. CASE SourceReset
    BY <1>2, <1>7 DEF SourceReset, folder, saved
  <1>8. ASSUME NEW f \in Files, ApplyFails(f) PROVE EditInv'
    <2>1. pass.step = "apply" /\ pass' = Failed(f) /\ Retried(f) /\ UNCHANGED <<folder, remote, scope, store, disk, mount>>
      BY <1>8 DEF ApplyFails, saved
    <2> QED
      BY <1>1, <2>1, FailedEdits
  <1>9. ASSUME NEW f \in Files, ApplyRefused(f) PROVE EditInv'
    <2>1. pass.step = "apply" /\ pass' = Failed(f) /\ Retried(f) /\ UNCHANGED <<folder, remote, scope, store, disk, mount>>
      BY <1>9 DEF ApplyRefused, saved
    <2> QED
      BY <1>1, <2>1, FailedEdits
  <1>10. ASSUME NEW f \in Files, Apply(f) PROVE EditInv'
    BY <1>1, <1>10, ApplyEdits
  <1>11. ASSUME NEW f \in Files, PrimaryPath(f) PROVE EditInv'
    <2>1. scope = NoScope /\ UNCHANGED <<scope, pass, store, mount, disk>>
      BY <1>11, Parts DEF PrimaryPath, Order, saved
    <2> QED
      BY <1>1, <2>1, OutsideEdits
  <1>12. ASSUME NEW dir \in {"pull", "sync"}, AddMount(dir) PROVE EditInv'
    <2>1. scope' = NoScope /\ pass' = NoPass /\ store' = store /\ disk'.store = store'
      BY <1>12, Parts DEF AddMount, Order, SaveAll
    <2> QED
      BY <1>1, <2>1, CommandEdits
  <1>13. CASE RemoveMount \/ ReinstateMount
    <2>1. scope' = NoScope /\ Dropped /\ store' = [store EXCEPT ![mount.point] = NoState] /\ disk'.store = store'
      BY <1>13 DEF RemoveMount, ReinstateMount, SaveAll
    <2>2. \A q \in Points : store'[q] \in {store[q], NoState} /\ disk'.store[q] \in {store[q], NoState}
      BY <2>1, Parts
    <2> QED
      BY <1>1, <2>1, <2>2, CommandEdits
  <1>14. CASE UpdateMountDirection
    <2>1. scope' = NoScope /\ Dropped /\ store' = store /\ disk'.store = store'
      BY <1>14 DEF UpdateMountDirection, SaveAll
    <2> QED
      BY <1>1, <2>1, CommandEdits
  <1>15. ASSUME NEW q \in Points, FollowMountPointRename(q) PROVE EditInv'
    <2>1. scope' = NoScope /\ pass' = NoPass /\ store' = store /\ disk'.store = store'
      BY <1>15 DEF FollowMountPointRename, SaveAll
    <2> QED
      BY <1>1, <2>1, CommandEdits
  <1>16. CASE Crash
    <2>1. scope' = NoScope /\ pass' = NoPass /\ (\A q \in Points : store'[q] \in {disk.store[q], NoState}) /\ disk' = disk
      BY <1>16, LoadedSound DEF Crash
    <2> QED
      BY <1>1, <2>1, CommandEdits
  <1>17. CASE Persist
    <2>1. UNCHANGED <<local, unsent, kept, scope, pass, store, mount>> /\ disk'.store = store'
      BY <1>17 DEF Persist, SaveAll, folder
    <2> QED
      BY <1>1, <2>1, OutsideEdits DEF Unsent, Loose
  <1>18. CASE Begin \/ Guard \/ List \/ Settle \/ PassFails
    BY <1>1, <1>18, BeginEdits, GuardEdits, ListEdits, SettleEdits, PassFailsEdits
  <1>19. CASE KeepRoMountEdits
    <2>1. PICK S : S = {f \in roEdits : local[f] # {}}
      OBVIOUS
    <2>2. PICK b : b = [f \in Files |-> IF f \in S THEN {} ELSE scope.rt.base[f]]
      OBVIOUS
    <2>3. PICK c : c = [f \in Files |-> IF f \in S THEN {} ELSE store[mount.point].base[f]]
      OBVIOUS
    <2>4. PICK rt : rt = [scope.rt EXCEPT !.base = b]
      OBVIOUS
    <2>5. PICK st : st = [store[mount.point] EXCEPT !.base = c]
      OBVIOUS
    <2>6. /\ scope' = [scope EXCEPT !.rt = rt, !.force = TRUE] /\ store' = [store EXCEPT ![mount.point] = st]
          /\ pass = NoPass /\ scope # NoScope /\ UNCHANGED <<pass, mount, disk>>
      BY <1>19, <2>1, <2>2, <2>3, <2>4, <2>5, Zenon DEF KeepRoMountEdits
    <2>7. scope.rt \in Runtime /\ store[mount.point] \in Runtime
      BY Parts
    <2>8. /\ rt.cursor = scope.rt.cursor /\ rt.floor = scope.rt.floor
          /\ st.cursor = store[mount.point].cursor /\ st.floor = store[mount.point].floor
      BY <2>4, <2>5, <2>7 DEF Runtime
    <2>9. scope'.rt = rt /\ scope'.state = scope.state /\ scope'.force
      BY <2>6, Parts DEF Scopes
    <2> QED
      BY <1>1, <2>6, <2>8, <2>9, AnswerEdits
  <1>20. CASE KeepRemoves
    <2>1. /\ local' = [f \in Files |-> IF f \in keeping THEN {} ELSE local[f]]
          /\ UNCHANGED <<kept, unsent, scope, pass, store, mount, disk>>
      BY <1>20 DEF KeepRemoves, saved
    <2>2. \A f \in Files : Unsent(f)' => Unsent(f)
      BY <2>1 DEF Unsent, Loose
    <2> QED
      BY <1>1, <2>1, <2>2, OutsideEdits
  <1>21. CASE AcceptBulkPushes \/ KeepBulkPushes
    <2>1. pass = NoPass /\ scope # NoScope /\ held # {} /\ UNCHANGED <<pass, mount, disk>>
      BY <1>21 DEF AcceptBulkPushes, KeepBulkPushes
    <2>2. \E S : LET rt == [scope.rt EXCEPT !.base = [f \in Files |-> IF f \in S THEN local[f] ELSE @[f]]] IN
                 scope' = [scope EXCEPT !.rt = rt] /\ store' = [store EXCEPT ![mount.point] = rt]
      BY <1>21, AcceptSound, Zenon DEF KeepBulkPushes
    <2>3. PICK S, b : /\ b = [f \in Files |-> IF f \in S THEN local[f] ELSE scope.rt.base[f]]
                      /\ scope' = [scope EXCEPT !.rt = [scope.rt EXCEPT !.base = b]]
                      /\ store' = [store EXCEPT ![mount.point] = [scope.rt EXCEPT !.base = b]]
      BY <2>2, ZenonT(40)
    <2>4. PICK rt : rt = [scope.rt EXCEPT !.base = b]
      OBVIOUS
    <2>5. scope' = [scope EXCEPT !.rt = rt] /\ store' = [store EXCEPT ![mount.point] = rt]
      BY <2>3, <2>4, Zenon
    <2>6. rt.cursor = scope.rt.cursor /\ rt.floor = scope.rt.floor
      BY <2>4, Parts DEF Runtime
    <2>7. scope'.rt = rt /\ scope'.state = scope.state /\ scope'.force = scope.force
      BY <2>5, Parts DEF Scopes
    <2>8. mount.kind # "own"
      BY <2>1, Parts DEF HeldFit
    <2> QED
      BY <1>1, <2>1, <2>5, <2>6, <2>7, <2>8, AnswerEdits
  <1>22. CASE PrimaryPushed
    <2>1. UNCHANGED <<local, kept, scope, pass, store, mount, disk>> /\ unsent' = unsent \ ptaking.note
      BY <1>22 DEF PrimaryPushed, saved
    <2>2. \A f \in Files : Unsent(f)' => Unsent(f)
      BY <2>1 DEF Unsent, Loose
    <2> QED
      BY <1>1, <2>1, <2>2, OutsideEdits
  <1> QED
    BY <1>3, <1>4, <1>5, <1>6, <1>7, <1>8, <1>9, <1>10, <1>11, <1>12, <1>13, <1>14, <1>15, <1>16, <1>17, <1>18, <1>19, <1>20,
       <1>21, <1>22, Zenon DEF Next, PassStep

\* The invariants the theorems below share.
LEMMA EditInvariant == ASSUME RacyMoves = {} PROVE Spec => [](IInv /\ GuardInv /\ EditInv)
  <1>1. Init => GuardInv /\ EditInv
    <2> SUFFICES ASSUME Init PROVE GuardInv /\ EditInv
      OBVIOUS
    <2>1. pass = NoPass /\ scope = NoScope /\ top = 1 /\ floor = 1
      BY DEF Init
    <2>2. GuardInv
      BY <2>1, Nothing DEF GuardInv
    <2>3. NoRow.version = 0 /\ NoRow.note = {} /\ \A f \in Files : source[f] = NoRow
      BY DEF NoRow, Init
    <2>4. SourceAged
      BY <2>1, <2>3 DEF SourceAged, Dated
    <2>5. disk.store = store /\ \A q \in Points : store[q] = NoState
      BY DEF Init
    <2>6. Aged(NoState)
      BY InitIInv, NoStateAged
    <2>7. KnownAged
      BY <2>1, <2>5, <2>6, Nothing DEF KnownAged
    <2>8. PassAged /\ RowsAged /\ PassPending /\ ScopePending
      BY <2>1, Nothing DEF PassAged, RowsAged, PassPending, ScopePending
    <2> QED
      BY <2>2, <2>4, <2>7, <2>8 DEF EditInv
  <1>2. IInv /\ GuardInv /\ EditInv /\ [Next]_vars => GuardInv' /\ EditInv'
    BY GuardStep, EditStep
  <1> QED
    BY <1>1, <1>2, Invariant, PTL DEF Spec

\* An edit in a two-way mount of one's own vault that the source has not got waits for a pass that
\* lists it, through refused and failed transfers, until the retry budget of its file is spent.
THEOREM NoSilentEditHolds == ASSUME RacyMoves = {} PROVE Spec => []NoSilentEdit
  <1>1. IInv /\ EditInv => NoSilentEdit
    <2> SUFFICES ASSUME IInv, EditInv, mount.on, mount.dir = "sync", mount.kind = "own", pass = NoPass,
                        scope.state = "live", ~scope.force, scope.rt.cursor = top, NEW f \in Files \ givenUp
                 PROVE  local[f] \cap unsent \subseteq kept
      BY DEF NoSilentEdit
    <2>1. scope # NoScope
      BY Nothing
    <2>2. Unsent(f) => Behind(scope.rt, f)
      BY <2>1 DEF EditInv, ScopePending, TwoWay
    <2>3. top \in Nat /\ floor \in Nat /\ source[f].version \in Nat
      BY Numbers
    <2>4. source[f].version <= top /\ floor <= top
      BY DEF EditInv, SourceAged, Dated
    <2>5. ~Unsent(f)
      BY <2>2, <2>3, <2>4 DEF Behind
    <2> QED
      BY <2>5 DEF Unsent, Loose
  <1> QED
    BY <1>1, EditInvariant, PTL

-----------------------------------------------------------------------------
(* The source, as the folder shows it *)

\* The user sees what the source has of f, or has deleted it.
Shown(f) == source[f].note \subseteq local[f] \/ f \in deleted

\* The bases that the passes of this mount work with, or will.
LiveBases ==
    {scope.rt.base, pass.rt.base, store[mount.point].base}
        \cup (IF unsaved THEN {} ELSE {disk.store[mount.point].base})

\* Nothing is known of a folder that is not mounted.
OffClean == ~mount.on => \A b \in LiveBases, f \in Files : b[f] = {}

\* Where a base agrees with the source, the folder has the note: a pass takes it for deleted
\* (or changed) by the user only if it was.
BasesShown == \A b \in LiveBases, f \in Files : b[f] = source[f].note => Shown(f)

\* What a pass was told of a file it will come to: no base knows better.
RowShown(f) ==
    /\ \A b \in LiveBases : b[f] = source[f].note => source[f].note = {} \/ pass.rows[f].note = source[f].note
    /\ pass.rows[f].note = pass.rt.base[f] => pass.rows[f].note \subseteq local[f] \/ f \in deleted

RowsShown == pass.step = "apply" => \A f \in pass.todo : RowShown(f)

\* What the keeper is about to remove is in no base, so that it is pulled again.
KeepDropped == \A b \in LiveBases, f \in keeping : b[f] = {}

BaseInv == OffClean /\ BasesShown /\ RowsShown /\ KeepDropped

\* What a pass is through with is shown, and so is what the next pass will not come to.
PassShown == pass.step = "apply" => \A f \in Files : Shown(f) \/ Left(f)

ScopeShown ==
    scope # NoScope /\ pass = NoPass /\ scope.state \in {"live", "syncing", "diverged"} /\ ~scope.force =>
        \A f \in Files : Shown(f) \/ Behind(scope.rt, f)

ShowInv == PassShown /\ ScopeShown

\* The mount is given only names it does not have a state for.
FreshName == mount'.point # mount.point => store[mount'.point] = NoState

\* A base after a step says of f what one said before, or nothing.
Inherits(f) == \A c \in LiveBases' : c[f] = {} \/ \E b \in LiveBases : c[f] = b[f]

\* A step makes no note of the source that a base knows.
NoEcho(f) == \/ source'[f].note = source[f].note
             \/ source'[f].note = {}
             \/ \A b \in LiveBases : b[f] # source'[f].note

\* A step leaves f in the folder, or the user deletes it.
Stays(f) == f \in deleted' \/ (local[f] \subseteq local'[f] /\ f \notin deleted)

\* A base knows only edits that were made.
LEMMA LiveKnown ==
    ASSUME IInv, NEW b \in LiveBases, NEW f \in Files
    PROVE  b[f] \in Known(f) /\ b[f] \subseteq 1 .. edits /\ b[f] \in Notes
  <1>1. mount.point \in Points
    BY Parts
  <1>2. b[f] \in Known(f)
    BY <1>1 DEF LiveBases, Known
  <1>3. b[f] \subseteq 1 .. edits
    BY <1>2, Parts DEF Data, Fit
  <1>4. scope.rt \in Runtime /\ pass.rt \in Runtime /\ store[mount.point] \in Runtime /\ disk.store[mount.point] \in Runtime
    BY Parts
  <1>5. b[f] \in Notes
    BY <1>4, RuntimeBase DEF LiveBases
  <1> QED
    BY <1>2, <1>3, <1>5

\* One file: a base that agrees with the source after a step did so before it, or has what the
\* folder has.
LEMMA FileShown ==
    ASSUME BasesShown, NEW f \in Files,
           \A c \in LiveBases' : c[f] = {} \/ c[f] = local'[f] \/ \E b \in LiveBases : c[f] = b[f],
           \/ source'[f].note = source[f].note
           \/ source'[f].note \subseteq local'[f]
           \/ \A b \in LiveBases : b[f] # source'[f].note,
           Shown(f) => Shown(f)' \/ source'[f].note = {} \/ \A b \in LiveBases : b[f] # source'[f].note,
           NEW c \in LiveBases', c[f] = source'[f].note
    PROVE  Shown(f)'
  <1>1. CASE source'[f].note \subseteq local'[f]
    BY <1>1 DEF Shown
  <1>2. CASE c[f] = {} \/ c[f] = local'[f]
    BY <1>2 DEF Shown
  <1>3. ASSUME NEW b \in LiveBases, c[f] = b[f] PROVE Shown(f)'
    <2>1. b[f] = source'[f].note
      BY <1>3
    <2>2. CASE source'[f].note = source[f].note
      <3>1. Shown(f)
        BY <2>1, <2>2 DEF BasesShown
      <3>2. CASE source'[f].note = {}
        BY <3>2 DEF Shown
      <3> QED
        BY <2>1, <3>1, <3>2
    <2> QED
      BY <1>1, <2>1, <2>2
  <1> QED
    BY <1>2, <1>3

\* One row: nothing happened to the file that the pass should have been told.
LEMMA RowStaysShown ==
    ASSUME NEW f \in Files, RowShown(f), Inherits(f), NoEcho(f), Stays(f),
           pass'.rows[f].note = pass.rows[f].note, pass'.rt.base[f] = pass.rt.base[f]
    PROVE  RowShown(f)'
  <1>1. ASSUME NEW c \in LiveBases', c[f] = source'[f].note
        PROVE  source'[f].note = {} \/ pass'.rows[f].note = source'[f].note
    <2>1. CASE c[f] = {}
      BY <1>1, <2>1
    <2>2. ASSUME NEW b \in LiveBases, c[f] = b[f] PROVE source'[f].note = {} \/ pass'.rows[f].note = source'[f].note
      <3>1. b[f] = source'[f].note
        BY <1>1, <2>2
      <3>2. CASE source'[f].note = source[f].note
        BY <3>1, <3>2 DEF RowShown
      <3> QED
        BY <3>1, <3>2 DEF NoEcho
    <2> QED
      BY <2>1, <2>2 DEF Inherits
  <1>2. pass'.rows[f].note = pass'.rt.base[f] => pass'.rows[f].note \subseteq local'[f] \/ f \in deleted'
    BY DEF RowShown, Stays
  <1> QED
    BY <1>1, <1>2 DEF RowShown

\* A step of which the bases learn nothing new, and a pass that was just told of the source.
LEMMA BaseStays ==
    ASSUME BaseInv, pass'.todo \subseteq Files,
           \A f \in Files : Inherits(f) /\ NoEcho(f),
           \A f \in Files : Stays(f) \/ (\A c \in LiveBases' : c[f] = {}),
           pass'.step # "apply" \/ pass'.rows = source' \/
               /\ pass.step = "apply" /\ pass'.todo = pass.todo /\ pass'.rows = pass.rows /\ pass'.rt.base = pass.rt.base
               /\ \A f \in Files : Stays(f),
           pass'.rt.base \in LiveBases',
           \A f \in keeping' : f \in keeping \/ \A c \in LiveBases' : c[f] = {},
           keeping' \subseteq Files,
           mount'.on \/ ~mount.on \/ \A c \in LiveBases', f \in Files : c[f] = {}
    PROVE  BaseInv'
  <1>1. OffClean /\ BasesShown /\ RowsShown /\ KeepDropped
    BY DEF BaseInv
  <1>2. OffClean'
    <2> SUFFICES ASSUME ~mount'.on, NEW c \in LiveBases', NEW f \in Files PROVE c[f] = {}
      BY DEF OffClean
    <2>1. CASE ~mount.on
      BY <1>1, <2>1 DEF OffClean, Inherits
    <2> QED
      BY <2>1
  <1>3. ASSUME NEW c \in LiveBases', NEW f \in Files, c[f] = source'[f].note PROVE Shown(f)'
    <2>1. CASE \A d \in LiveBases' : d[f] = {}
      BY <1>3, <2>1 DEF Shown
    <2>2. CASE Stays(f)
      <3>1. Shown(f) => Shown(f)' \/ source'[f].note = {} \/ \A b \in LiveBases : b[f] # source'[f].note
        BY <2>2 DEF Shown, Stays, NoEcho
      <3>2. \/ source'[f].note = source[f].note
            \/ source'[f].note \subseteq local'[f]
            \/ \A b \in LiveBases : b[f] # source'[f].note
        BY DEF NoEcho
      <3>3. \A d \in LiveBases' : d[f] = {} \/ d[f] = local'[f] \/ \E b \in LiveBases : d[f] = b[f]
        BY DEF Inherits
      <3> QED
        BY <1>1, <1>3, <3>1, <3>2, <3>3, FileShown
    <2> QED
      BY <2>1, <2>2
  <1>4. BasesShown'
    BY <1>3 DEF BasesShown
  <1>5. RowsShown'
    <2> SUFFICES ASSUME pass'.step = "apply", NEW f \in pass'.todo PROVE RowShown(f)'
      BY DEF RowsShown
    <2>0. f \in Files
      OBVIOUS
    <2>1. CASE pass'.rows = source'
      BY <1>3, <2>0, <2>1 DEF RowShown, Shown
    <2>2. CASE /\ pass.step = "apply" /\ pass'.todo = pass.todo /\ pass'.rows = pass.rows /\ pass'.rt.base = pass.rt.base
               /\ \A g \in Files : Stays(g)
      <3>1. RowShown(f)
        BY <1>1, <2>2 DEF RowsShown
      <3> QED
        BY <2>0, <2>2, <3>1, RowStaysShown
    <2> QED
      BY <2>1, <2>2
  <1>6. KeepDropped'
    <2> SUFFICES ASSUME NEW c \in LiveBases', NEW f \in keeping' PROVE c[f] = {}
      BY DEF KeepDropped
    <2>1. CASE f \in keeping
      <3>1. c[f] = {} \/ \E b \in LiveBases : c[f] = b[f]
        BY DEF Inherits
      <3> QED
        BY <1>1, <2>1, <3>1 DEF KeepDropped
    <2> QED
      BY <2>1
  <1> QED
    BY <1>2, <1>4, <1>5, <1>6 DEF BaseInv

\* Where the bases of a step come from.
LEMMA LiveFrom ==
    ASSUME {scope'.rt.base, pass'.rt.base, store'[mount'.point].base} \subseteq LiveBases \cup {NoBase},
           unsaved' \/ disk'.store[mount'.point].base \in LiveBases \cup {NoBase}
    PROVE  (\A f \in Files : Inherits(f)) /\ pass'.rt.base \in LiveBases'
  <1>1. \A c \in LiveBases' : c \in LiveBases \cup {NoBase}
    BY SMTT(30) DEF LiveBases
  <1>2. pass'.rt.base \in LiveBases'
    BY DEF LiveBases
  <1> QED
    BY <1>1, <1>2, Nothing DEF Inherits

LEMMA LiveNone ==
    ASSUME {scope'.rt, pass'.rt, store'[mount'.point]} \subseteq {NoState}, unsaved' \/ disk'.store[mount'.point] = NoState
    PROVE  /\ \A c \in LiveBases', f \in Files : c[f] = {}
           /\ (\A f \in Files : Inherits(f)) /\ pass'.rt.base \in LiveBases'
  <1>1. \A c \in LiveBases' : c = NoBase
    BY Nothing DEF LiveBases
  <1>2. pass'.rt.base \in LiveBases'
    BY DEF LiveBases
  <1> QED
    BY <1>1, <1>2, Nothing DEF Inherits

LEMMA LiveSame ==
    ASSUME UNCHANGED <<mount, store, disk, unsaved, pass>>, scope'.rt = scope.rt
    PROVE  LiveBases' = LiveBases /\ (\A f \in Files : Inherits(f)) /\ pass'.rt.base \in LiveBases'
  <1>1. LiveBases' = LiveBases
    BY DEF LiveBases
  <1>2. pass'.rt.base \in LiveBases'
    BY DEF LiveBases
  <1> QED
    BY <1>1, <1>2 DEF Inherits

\* What does not change, stays; what only grows, too.
LEMMA StaysSame == ASSUME UNCHANGED <<local, deleted>> PROVE \A f \in Files : Stays(f)
  BY DEF Stays

LEMMA NoEchoSame == ASSUME UNCHANGED source PROVE \A f \in Files : NoEcho(f)
  BY DEF NoEcho

\* A step outside the mount.
LEMMA OutsideShown ==
    ASSUME IInv, BaseInv, UNCHANGED <<mount, store, disk, unsaved, pass>>, scope'.rt = scope.rt, keeping' \subseteq keeping,
           \A f \in Files : NoEcho(f),
           \A f \in Files : Stays(f) \/ \A b \in LiveBases : b[f] = {},
           pass.step = "apply" => \A f \in Files : Stays(f)
    PROVE  BaseInv'
  <1>1. LiveBases' = LiveBases /\ (\A f \in Files : Inherits(f)) /\ pass'.rt.base \in LiveBases'
    BY LiveSame
  <1>2. pass'.todo \subseteq Files /\ keeping' \subseteq Files
    BY Parts DEF Passes
  <1>3. pass'.step # "apply" \/ pass'.rows = source' \/
               /\ pass.step = "apply" /\ pass'.todo = pass.todo /\ pass'.rows = pass.rows /\ pass'.rt.base = pass.rt.base
               /\ \A f \in Files : Stays(f)
    OBVIOUS
  <1>4. \A f \in keeping' : f \in keeping \/ \A c \in LiveBases' : c[f] = {}
    OBVIOUS
  <1>5. mount'.on \/ ~mount.on \/ \A c \in LiveBases', f \in Files : c[f] = {}
    OBVIOUS
  <1>6. \A f \in Files : Stays(f) \/ \A c \in LiveBases' : c[f] = {}
    BY <1>1
  <1>7. \A f \in Files : Inherits(f) /\ NoEcho(f)
    BY <1>1
  <1> QED
    BY <1>1, <1>2, <1>3, <1>4, <1>5, <1>6, <1>7, BaseStays

\* A step that leaves the folder and the source alone, and no pass at its files, or tells it of the source.
LEMMA InsideShown ==
    ASSUME IInv, IInv', BaseInv, UNCHANGED <<local, deleted, source, mount>>,
           {scope'.rt.base, pass'.rt.base, store'[mount.point].base} \subseteq LiveBases \cup {NoBase},
           unsaved' \/ disk'.store[mount.point].base \in LiveBases \cup {NoBase},
           pass'.step # "apply" \/ pass'.rows = source, keeping' \subseteq keeping
    PROVE  BaseInv'
  <1>1. (\A f \in Files : Inherits(f)) /\ pass'.rt.base \in LiveBases'
    BY LiveFrom
  <1>2. (\A f \in Files : Stays(f)) /\ \A f \in Files : NoEcho(f)
    BY StaysSame, NoEchoSame
  <1>3. pass' \in Passes /\ keeping' \subseteq Files
    BY DEF IInv, Types, ScopeTypes
  <1>4. pass'.todo \subseteq Files
    BY <1>3 DEF Passes
  <1>5. pass'.step # "apply" \/ pass'.rows = source' \/
               /\ pass.step = "apply" /\ pass'.todo = pass.todo /\ pass'.rows = pass.rows /\ pass'.rt.base = pass.rt.base
               /\ \A f \in Files : Stays(f)
    OBVIOUS
  <1>6. \A f \in keeping' : f \in keeping \/ \A c \in LiveBases' : c[f] = {}
    OBVIOUS
  <1>7. mount'.on \/ ~mount.on \/ \A c \in LiveBases', f \in Files : c[f] = {}
    OBVIOUS
  <1>8. \A f \in Files : Inherits(f) /\ NoEcho(f)
    BY <1>1, <1>2
  <1>9. \A f \in Files : Stays(f) \/ \A c \in LiveBases' : c[f] = {}
    BY <1>2
  <1> QED
    BY <1>1, <1>3, <1>4, <1>5, <1>6, <1>7, <1>8, <1>9, BaseStays

\* A step after which nothing is known of the folder.
LEMMA NothingKnown ==
    ASSUME IInv', BaseInv, \A c \in LiveBases', f \in Files : c[f] = {}, pass' = NoPass
    PROVE  BaseInv'
  <1>1. OffClean'
    BY DEF OffClean
  <1>2. BasesShown'
    BY DEF BasesShown, Shown
  <1>3. RowsShown'
    BY Nothing DEF RowsShown
  <1>4. keeping' \subseteq Files
    BY DEF IInv, Types, ScopeTypes
  <1>5. KeepDropped'
    BY <1>4 DEF KeepDropped
  <1> QED
    BY <1>1, <1>2, <1>3, <1>5 DEF BaseInv

\* What the parts of LiveBases are.
LEMMA LiveParts ==
    /\ scope.rt.base \in LiveBases /\ pass.rt.base \in LiveBases /\ store[mount.point].base \in LiveBases
    /\ ~unsaved => disk.store[mount.point].base \in LiveBases
  BY DEF LiveBases

LEMMA CommandsShown ==
    ASSUME IInv, IInv', GuardInv, BaseInv, RacyMoves = {}, FreshName,
           \/ \E dir \in {"pull", "sync"} : AddMount(dir)
           \/ RemoveMount \/ ReinstateMount \/ UpdateMountDirection
           \/ \E q \in Points : FollowMountPointRename(q)
    PROVE  BaseInv'
  <1>1. ASSUME NEW dir, AddMount(dir) PROVE BaseInv'
    <2>1. /\ ~mount.on /\ pass' = NoPass /\ UNCHANGED <<scope, pass, store>> /\ mount' = [mount EXCEPT !.on = TRUE, !.dir = dir]
          /\ disk'.store = store' /\ pass = NoPass
      BY <1>1 DEF AddMount, SaveAll
    <2>2. mount'.point = mount.point
      BY <2>1, Parts DEF Mount
    <2>3. LiveBases' \subseteq LiveBases
      BY <2>1, <2>2 DEF LiveBases
    <2>4. \A c \in LiveBases', f \in Files : c[f] = {}
      BY <2>1, <2>3 DEF BaseInv, OffClean
    <2> QED
      BY <2>1, <2>4, NothingKnown
  <1>2. CASE RemoveMount \/ ReinstateMount
    <2>1. /\ scope' = NoScope /\ Dropped /\ store' = [store EXCEPT ![mount.point] = NoState] /\ disk'.store = store'
          /\ mount' = mount \/ mount' = [mount EXCEPT !.on = FALSE]
      BY <1>2 DEF RemoveMount, ReinstateMount, SaveAll
    <2>2. mount'.point = mount.point /\ store'[mount.point] = NoState
      BY <2>1, Parts DEF Mount
    <2>3. pass = NoPass
      <3>1. CASE RemoveMount
        BY <3>1 DEF RemoveMount
      <3>2. CASE ReinstateMount
        <4>1. scope.state = "localGone"
          BY <3>2 DEF ReinstateMount
        <4>2. scope # NoScope
          BY <4>1, Nothing
        <4> QED
          BY <4>1, <4>2 DEF GuardInv
      <3> QED
        BY <1>2, <3>1, <3>2
    <2>4. pass' = NoPass
      BY <2>1, <2>3, DroppedSound
    <2>5. {scope'.rt, pass'.rt, store'[mount'.point]} \subseteq {NoState} /\ disk'.store[mount'.point] = NoState
      BY <2>1, <2>2, <2>4, Nothing
    <2> QED
      BY <2>4, <2>5, LiveNone, NothingKnown
  <1>3. CASE UpdateMountDirection
    <2>1. /\ scope' = NoScope /\ Dropped /\ store' = store /\ disk'.store = store' /\ UNCHANGED <<local, deleted, source, keeping>>
          /\ mount' = [mount EXCEPT !.dir = IF @ = "pull" THEN "sync" ELSE "pull"]
      BY <1>3 DEF UpdateMountDirection, SaveAll, folder, remote
    <2>2. mount'.point = mount.point /\ mount'.on = mount.on
      BY <2>1, Parts DEF Mount
    <2>3. {scope'.rt.base, pass'.rt.base, store'[mount'.point].base} \subseteq LiveBases \cup {NoBase}
      BY <2>1, <2>2, DroppedSound, LiveParts, Nothing
    <2>4. disk'.store[mount'.point].base \in LiveBases \cup {NoBase}
      BY <2>1, <2>2, LiveParts
    <2>5. (\A f \in Files : Inherits(f)) /\ pass'.rt.base \in LiveBases'
      BY <2>3, <2>4, LiveFrom
    <2>6. (\A f \in Files : Stays(f)) /\ (\A f \in Files : NoEcho(f))
      BY <2>1, StaysSame, NoEchoSame
    <2>7. pass'.todo \subseteq Files /\ keeping' \subseteq Files
      BY DEF IInv, Types, ScopeTypes, Passes
    <2>8. pass'.step # "apply" \/
               /\ pass.step = "apply" /\ pass'.todo = pass.todo /\ pass'.rows = pass.rows /\ pass'.rt.base = pass.rt.base
      <3>1. CASE pass = NoPass
        BY <2>1, <3>1, DroppedSound, Nothing
      <3>2. CASE pass # NoPass
        <4>1. pass' = [pass EXCEPT !.orphan = TRUE]
          BY <2>1, <3>2 DEF Dropped
        <4>2. pass'.todo = pass.todo /\ pass'.rows = pass.rows /\ pass'.rt = pass.rt /\ pass'.step = pass.step
          BY <4>1, Parts DEF Passes
        <4> QED
          BY <4>2
      <3> QED
        BY <3>1, <3>2
    <2>9. \A f \in Files : Inherits(f) /\ NoEcho(f)
      BY <2>5, <2>6
    <2>10. \A f \in Files : Stays(f) \/ \A c \in LiveBases' : c[f] = {}
      BY <2>6
    <2>11. pass'.step # "apply" \/ pass'.rows = source' \/
               /\ pass.step = "apply" /\ pass'.todo = pass.todo /\ pass'.rows = pass.rows /\ pass'.rt.base = pass.rt.base
               /\ \A f \in Files : Stays(f)
      BY <2>6, <2>8
    <2>12. \A f \in keeping' : f \in keeping \/ \A c \in LiveBases' : c[f] = {}
      BY <2>1
    <2>13. mount'.on \/ ~mount.on \/ \A c \in LiveBases', f \in Files : c[f] = {}
      BY <2>2
    <2> QED
      BY <2>5, <2>7, <2>9, <2>10, <2>11, <2>12, <2>13, BaseStays
  <1>4. ASSUME NEW q \in Points, FollowMountPointRename(q) PROVE BaseInv'
    <2>1. /\ scope' = NoScope /\ pass' = NoPass /\ store' = store /\ disk'.store = store' /\ q # mount.point
          /\ mount' = [mount EXCEPT !.point = q]
      BY <1>4 DEF FollowMountPointRename, SaveAll
    <2>2. mount'.point = q
      BY <2>1, Parts DEF Mount
    <2>3. store[q] = NoState
      BY <2>1, <2>2 DEF FreshName
    <2>4. {scope'.rt, pass'.rt, store'[mount'.point]} \subseteq {NoState} /\ disk'.store[mount'.point] = NoState
      BY <2>1, <2>2, <2>3, Nothing
    <2> QED
      BY <2>1, <2>4, LiveNone, NothingKnown
  <1> QED
    BY <1>1, <1>2, <1>3, <1>4

\* How a pass begins; one that does not list the folder comes to all that is newer than the cursor.
LEMMA BeginSound ==
    ASSUME IInv, Begin
    PROVE  /\ pass = NoPass /\ mount.on /\ pass' # NoPass /\ UNCHANGED <<folder, remote, mount, disk, unsaved, keeping>>
           /\ scope'.rt = Ready.rt /\ pass'.rt = Ready.rt /\ pass'.rows = source /\ pass'.top = top
           /\ Ready.rt = (IF scope = NoScope THEN store[mount.point] ELSE scope.rt) /\ Ready.rt \in Runtime
           /\ \A q \in Points : store'[q] = store[q] \/ (q = mount.point /\ store'[q] = Ready.rt)
           /\ pass'.step = "apply" =>
                /\ scope # NoScope /\ ~scope.force /\ scope.state \in {"live", "syncing", "diverged"}
                /\ ~(scope.rt.floor # 0 /\ floor > scope.rt.floor)
                /\ \A f \in Files : source[f].version > scope.rt.cursor /\ source[f].version <= top => f \in pass'.todo
                /\ givenUp \subseteq givenUp' \cup pass'.todo
  <1>1. /\ pass = NoPass /\ keeping = {} /\ mount.on /\ Ready.state # "localGone"
        /\ (scope # NoScope => scope.state # "none")
    BY Parts DEF Begin, Order
  <1>2. /\ Ready \in Scopes /\ Ready.state # "none" /\ (Ready.state # "localGone" => Ready.state \in States \ {"failed"})
        /\ Ready.rt = IF scope = NoScope THEN store[mount.point] ELSE scope.rt
        /\ Ready.force = (scope # NoScope /\ scope.force)
        /\ scope = NoScope => Ready.state = "mounting"
        /\ scope # NoScope => (Ready.state \notin {"mounting", "localGone"} => Ready.state = scope.state)
    BY <1>1, Parts, ReadySound
  <1>3. PICK rt \in Runtime : rt = Ready.rt
    BY <1>2 DEF Scopes
  <1>4. PICK full \in BOOLEAN : full = (Ready.state \in {"mounting", "offline"} \/ Ready.force)
    BY Zenon
  <1>5. PICK mode : mode = IF full \/ (rt.floor # 0 /\ floor > rt.floor) THEN "full" ELSE IF top = rt.cursor THEN "noop" ELSE "delta"
    OBVIOUS
  <1>6. PICK step : step = IF mode = "full" THEN "guard" ELSE "apply"
    OBVIOUS
  <1>7. PICK todo : todo = IF mode = "delta" THEN {f \in Files : source[f].version > rt.cursor} ELSE {}
    OBVIOUS
  <1>8. PICK st : st = Machine(Ready.state, "syncStart")
    OBVIOUS
  <1>9. /\ scope' = [Ready EXCEPT !.state = st, !.force = FALSE]
        /\ pass' = [NoPass EXCEPT !.step = step, !.full = full, !.dir = mount.dir, !.rt = rt, !.rows = source, !.top = top,
                                  !.floor = floor, !.todo = todo]
        /\ store' = IF Ready.state = "live" THEN [store EXCEPT ![mount.point] = rt] ELSE store
        /\ givenUp' = IF mode = "full" THEN {} ELSE givenUp \ todo
        /\ UNCHANGED <<folder, remote, mount, disk, unsaved, keeping>>
    BY <1>3, <1>4, <1>5, <1>6, <1>7, <1>8, Zenon DEF Begin, reviews
  <1>10. scope'.rt = rt
    BY <1>2, <1>3, <1>9 DEF Scopes
  <1>11. pass'.rt = rt /\ pass'.rows = source /\ pass'.step = step /\ pass'.top = top /\ pass'.todo = todo
    BY <1>9, Nothing DEF Passes
  <1>12. pass' # NoPass
    BY <1>6, <1>11, Nothing
  <1>13. \A q \in Points : store'[q] = store[q] \/ (q = mount.point /\ store'[q] = rt)
    BY <1>9, Parts
  <1>14. ASSUME step = "apply"
         PROVE  /\ scope # NoScope /\ ~scope.force /\ scope.state \in {"live", "syncing", "diverged"}
                /\ ~(rt.floor # 0 /\ floor > rt.floor) /\ rt = scope.rt
                /\ \A f \in Files : source[f].version > rt.cursor /\ source[f].version <= top => f \in todo
                /\ givenUp \subseteq givenUp' \cup todo
    <2>6. givenUp \subseteq givenUp' \cup todo
      BY <1>6, <1>9, <1>14
    <2>1. ~full /\ ~(rt.floor # 0 /\ floor > rt.floor) /\ (mode = "noop" => top = rt.cursor) /\ mode \in {"noop", "delta"}
      BY <1>5, <1>6, <1>14
    <2>2. Ready.state \notin {"mounting", "offline"} /\ ~Ready.force
      BY <1>4, <2>1
    <2>3. scope # NoScope /\ ~scope.force /\ scope.state \in {"live", "syncing", "diverged"}
      BY <1>1, <1>2, <2>2 DEF States
    <2>4. top \in Nat /\ rt.cursor \in Nat /\ \A f \in Files : source[f].version \in Nat
      BY Numbers DEF Runtime
    <2>5. ASSUME NEW f \in Files, source[f].version > rt.cursor, source[f].version <= top PROVE f \in todo
      <3>1. mode = "delta"
        BY <2>1, <2>4, <2>5
      <3> QED
        BY <1>7, <2>5, <3>1
    <2> QED
      BY <1>2, <1>3, <2>1, <2>3, <2>5, <2>6
  <1> QED
    BY <1>1, <1>2, <1>3, <1>9, <1>10, <1>11, <1>12, <1>13, <1>14

\* How a pass settles: the cursor is before all that it left.
LEMMA SettleSound ==
    ASSUME IInv, EditInv, Settle
    PROVE  /\ pass.step = "apply" /\ pass.todo = {} /\ pass # NoPass /\ pass' = NoPass
           /\ UNCHANGED <<folder, remote, mount, disk, unsaved, keeping, givenUp>>
           /\ pass.orphan => scope' = NoScope /\ store' = store
           /\ ~pass.orphan =>
                /\ scope'.rt.base = pass.rt.base /\ scope'.force = scope.force /\ store' = [store EXCEPT ![mount.point] = scope'.rt]
                /\ \A f \in Files : Left(f) => source[f].version > scope'.rt.cursor
                                                  \/ (floor > scope'.rt.floor /\ floor > scope'.rt.cursor) \/ f \in givenUp
  <1>1. /\ pass.step = "apply" /\ pass.todo = {} /\ pass # NoPass /\ pass' = NoPass
        /\ UNCHANGED <<folder, remote, mount, disk, unsaved, keeping, givenUp>>
    BY Nothing DEF Settle, retries
  <1>2. PassAged
    BY DEF EditInv
  <1>3. pass.orphan => scope' = NoScope /\ store' = store
    BY <1>1, Running DEF Settle
  <1>4. ASSUME ~pass.orphan
        PROVE  /\ scope'.rt.base = pass.rt.base /\ scope'.force = scope.force /\ store' = [store EXCEPT ![mount.point] = scope'.rt]
               /\ \A f \in Files : Left(f) => source[f].version > scope'.rt.cursor
                                                  \/ (floor > scope'.rt.floor /\ floor > scope'.rt.cursor) \/ f \in givenUp
    <2>1. PICK cursor : cursor = IF pass.failed = {} THEN pass.top ELSE Min(pass.failed) - 1
      OBVIOUS
    <2>2. PICK fl : fl = IF pass.floor > pass.rt.floor THEN pass.floor ELSE pass.rt.floor
      OBVIOUS
    <2>3. PICK rt : rt = [pass.rt EXCEPT !.cursor = cursor, !.floor = fl]
      OBVIOUS
    <2>4. PICK st : st = Machine(scope.state, IF pass.conflict THEN "conflict" ELSE "syncSettled")
      OBVIOUS
    <2>5. scope' = [scope EXCEPT !.rt = rt, !.fails = 0, !.state = st] /\ store' = [store EXCEPT ![mount.point] = rt]
      BY <1>4, <2>1, <2>2, <2>3, <2>4, Zenon DEF Settle
    <2>6. floor \in Nat /\ pass.top \in Nat /\ pass.floor \in Nat /\ pass.rt.floor \in Nat
          /\ pass.failed \in SUBSET (Nat \ {0}) /\ \A f \in Files : source[f].version \in Nat
      BY Numbers
    <2>7. pass.rt.floor <= pass.floor /\ \A w \in pass.failed : w <= pass.top
      BY <1>1, <1>2 DEF PassAged
    <2>8. fl = pass.floor
      BY <2>2, <2>6, <2>7
    <2>9. /\ cursor \in Nat /\ cursor <= pass.top /\ (\A w \in pass.failed : cursor < w)
      <3>1. CASE pass.failed = {}
        BY <2>1, <2>6, <3>1
      <3>2. CASE pass.failed # {}
        <4>1. PICK m : m = Min(pass.failed)
          OBVIOUS
        <4>2. m \in pass.failed /\ m - 1 \in Nat /\ (\A w \in pass.failed : m <= w)
          BY <2>6, <3>2, <4>1, Earliest
        <4>3. cursor = m - 1 /\ m \in Nat
          BY <2>1, <2>6, <3>2, <4>1, <4>2
        <4> QED
          BY <2>6, <2>7, <4>2, <4>3
      <3> QED
        BY <3>1, <3>2
    <2>10. rt.cursor = cursor /\ rt.floor = pass.floor /\ rt.base = pass.rt.base
      BY <2>3, <2>8, Parts DEF Runtime
    <2>11. scope'.rt = rt /\ scope'.force = scope.force
      BY <2>5, Parts DEF Scopes
    <2>12. ASSUME NEW f \in Files, Left(f)
           PROVE  source[f].version > cursor \/ (floor > pass.floor /\ floor > cursor) \/ f \in givenUp
      <3>1. CASE source[f].version > pass.top
        BY <2>6, <2>9, <3>1
      <3>2. ASSUME NEW w \in pass.failed, w <= source[f].version PROVE source[f].version > cursor
        <4>1. cursor < w /\ w \in Nat
          BY <2>6, <2>9
        <4> QED
          BY <2>6, <2>9, <3>2, <4>1
      <3>3. CASE Rebuilt
        BY <2>6, <2>9, <3>3 DEF Rebuilt
      <3> QED
        BY <1>1, <2>12, <3>1, <3>2, <3>3 DEF Left
    <2> QED
      BY <2>5, <2>10, <2>11, <2>12
  <1> QED
    BY <1>1, <1>3, <1>4

\* How a pass ends early, at its guard or because the source is out of reach: the scope waits for a
\* full pass, or for the user.
LEMMA StopSound ==
    ASSUME IInv, GuardInv, Guard \/ PassFails
    PROVE  /\ UNCHANGED <<folder, remote, mount, disk, unsaved, keeping>> /\ pass # NoPass
           /\ \/ /\ pass' = NoPass
                 /\ \/ scope' = NoScope /\ store' = store
                    \/ /\ scope'.rt = pass.rt /\ scope'.state \in {"localGone", "failed", "offline"}
                       /\ store' = [store EXCEPT ![mount.point] = pass.rt]
              \/ /\ UNCHANGED <<scope, store>> /\ pass'.step = "list" /\ pass'.rt = pass.rt /\ pass' # NoPass
  <1>1. pass # NoPass /\ UNCHANGED <<folder, remote, mount, disk, unsaved, keeping>>
    BY Nothing DEF Guard, PassFails, reviews
  <1>2. (pass.orphan <=> scope = NoScope) /\ (scope # NoScope => scope.state \in {"mounting", "syncing", "diverged", "offline"})
    BY <1>1, Running DEF GuardInv
  <1>3. CASE Guard /\ ~MassLocalDeletion
    <2>1. pass' = [pass EXCEPT !.step = "list"] /\ UNCHANGED <<scope, store>>
      BY <1>3 DEF Guard
    <2>2. pass'.step = "list" /\ pass'.rt = pass.rt
      BY <2>1, Parts DEF Passes
    <2> QED
      BY <1>1, <2>1, <2>2, Nothing
  <1>4. CASE pass.orphan /\ ~(Guard /\ ~MassLocalDeletion)
    <2>1. pass' = NoPass /\ UNCHANGED <<scope, store>>
      BY <1>4 DEF Guard, PassFails
    <2> QED
      BY <1>1, <1>2, <1>4, <2>1
  <1>5. CASE ~pass.orphan /\ Guard /\ MassLocalDeletion
    <2>1. PICK st : st = Machine(scope.state, "localGone")
      OBVIOUS
    <2>2. pass' = NoPass /\ scope' = [scope EXCEPT !.state = st, !.rt = pass.rt] /\ store' = [store EXCEPT ![mount.point] = pass.rt]
      BY <1>5, <2>1, Zenon DEF Guard
    <2>3. st = "localGone"
      BY <1>2, <1>5, <2>1 DEF Machine
    <2>4. scope'.state = "localGone" /\ scope'.rt = pass.rt
      BY <2>2, <2>3, Parts DEF Scopes
    <2> QED
      BY <1>1, <2>2, <2>4
  <1>6. CASE ~pass.orphan /\ PassFails
    <2>1. PICK e \in {"fail", "disconnect"} : e = IF scope.fails + 1 >= MaxFails THEN "fail" ELSE "disconnect"
      BY Zenon
    <2>2. PICK st : st = Machine(scope.state, e)
      OBVIOUS
    <2>3. PICK fails : fails = scope.fails + 1
      OBVIOUS
    <2>4. pass' = NoPass /\ scope' = [scope EXCEPT !.fails = fails, !.rt = pass.rt, !.state = st] /\ store' = [store EXCEPT ![mount.point] = pass.rt]
      BY <1>6, <2>1, <2>2, <2>3, Zenon DEF PassFails
    <2>5. st \in {"failed", "offline"}
      BY <1>2, <1>6, <2>1, <2>2 DEF Machine
    <2>6. scope'.state = st /\ scope'.rt = pass.rt
      BY <2>4, Parts DEF Scopes
    <2> QED
      BY <1>1, <2>4, <2>5, <2>6
  <1> QED
    BY <1>3, <1>4, <1>5, <1>6

\* How a pass lists: it will come to all that the source has.
LEMMA ListSound ==
    ASSUME IInv, List
    PROVE  /\ UNCHANGED <<folder, remote, saved, scope, keeping>> /\ pass # NoPass /\ pass' # NoPass
           /\ pass'.step = "apply" /\ pass'.rows = source /\ pass'.rt = pass.rt
           /\ \A f \in Files : source[f].note # {} => f \in pass'.todo
  <1>1. /\ pass.step = "list" /\ pass # NoPass /\ UNCHANGED <<folder, remote, saved, scope, keeping>>
    BY Nothing DEF List, reviews
  <1>2. PICK listed : listed = {f \in Files : local[f] # {}}
    OBVIOUS
  <1>3. PICK todo : todo = listed \cup Tracked(pass.rt) \cup {f \in Files : source[f].note # {}}
    OBVIOUS
  <1>4. PICK hold : hold = (mount.kind = "shared" /\ Cardinality({f \in listed \ Tracked(pass.rt) : source[f].note = {} /\ ~source[f].tomb}) > PushFloor)
    OBVIOUS
  <1>5. pass' = [pass EXCEPT !.step = "apply", !.rows = source, !.top = top, !.listed = listed, !.todo = todo, !.hold = hold]
    BY <1>2, <1>3, <1>4, Zenon DEF List
  <1>6. pass'.step = "apply" /\ pass'.rows = source /\ pass'.todo = todo /\ pass'.rt = pass.rt
    BY <1>5, Parts DEF Passes
  <1> QED
    BY <1>1, <1>3, <1>6, Nothing

LEMMA PassesShown ==
    ASSUME IInv, IInv', GuardInv, EditInv, BaseInv, Begin \/ Guard \/ List \/ Settle \/ PassFails
    PROVE  BaseInv'
  <1>1. mount.point \in Points /\ store \in [Points -> Runtime]
    BY Parts
  <1>2. ASSUME UNCHANGED <<folder, remote, mount, disk, unsaved, keeping>>,
               {scope'.rt.base, pass'.rt.base, store'[mount.point].base} \subseteq LiveBases \cup {NoBase},
               pass'.step # "apply" \/ pass'.rows = source
        PROVE  BaseInv'
    <2>1. UNCHANGED <<local, deleted, source, mount>> /\ keeping' \subseteq keeping
      BY <1>2 DEF folder, remote
    <2>2. unsaved' \/ disk'.store[mount.point].base \in LiveBases \cup {NoBase}
      BY <1>2, LiveParts
    <2> QED
      BY <1>2, <2>1, <2>2, InsideShown
  <1>3. CASE Begin
    <2>1. {scope'.rt.base, pass'.rt.base, store'[mount.point].base} \subseteq LiveBases \cup {NoBase}
      BY <1>1, <1>3, BeginSound, LiveParts
    <2> QED
      BY <1>2, <1>3, <2>1, BeginSound
  <1>4. CASE Guard \/ PassFails
    <2>1. {scope'.rt.base, pass'.rt.base, store'[mount.point].base} \subseteq LiveBases \cup {NoBase}
      BY <1>1, <1>4, StopSound, LiveParts, Nothing
    <2>2. pass'.step # "apply"
      BY <1>4, StopSound, Nothing
    <2> QED
      BY <1>2, <1>4, <2>1, <2>2, StopSound
  <1>5. CASE List
    <2>1. UNCHANGED <<folder, remote, mount, disk, unsaved, keeping, scope, store>>
      BY <1>5, ListSound DEF saved
    <2>2. {scope'.rt.base, pass'.rt.base, store'[mount.point].base} \subseteq LiveBases \cup {NoBase}
      BY <1>5, <2>1, ListSound, LiveParts
    <2> QED
      BY <1>2, <1>5, <2>1, <2>2, ListSound
  <1>6. CASE Settle
    <2>1. {scope'.rt.base, pass'.rt.base, store'[mount.point].base} \subseteq LiveBases \cup {NoBase}
      BY <1>1, <1>6, SettleSound, LiveParts, Nothing
    <2>2. pass'.step # "apply"
      BY <1>6, SettleSound, Nothing
    <2> QED
      BY <1>2, <1>6, <2>1, <2>2, SettleSound
  <1> QED
    BY <1>3, <1>4, <1>5, <1>6

\* What a file that is left as it is looks like to the pass: the source has nothing of it, or its row is the base.
LEMMA LeftAlone ==
    ASSUME NEW f
    PROVE  /\ Outcome(f) \in {"keep", "report", "hold"} => pass.rows[f].note = {} \/ pass.rows[f].note = pass.rt.base[f]
           /\ Outcome(f) = "remove" => pass.rows[f].note = {}
  <1> DEFINE d == Decision!Decide(local[f], pass.rt.base[f], pass.rows[f].note)
  <1>1. Outcome(f) = Finalize(d, pass.rows[f])
    BY DEF Outcome
  <1>2. /\ d \in {"inSync", "push", "deleteLocal", "keepLocal", "pull", "deleteRemote", "editWinsPull", "conflict", "merge"}
        /\ d = "push" => pass.rt.base[f] = pass.rows[f].note
        /\ d = "deleteLocal" => pass.rows[f].note = {}
        /\ d = "keepLocal" => pass.rows[f].note = {}
        /\ d = "deleteRemote" => pass.rt.base[f] = pass.rows[f].note
    BY Decided
  <1> HIDE DEF d
  <1> QED
    BY <1>1, <1>2 DEF Finalize

\* How a pass is done with a file: it leaves all as it was, or the folder has what the pass was told of,
\* or what it wrote to the source.
Done(f) ==
    \/ /\ pass'.rt.base[f] = pass.rt.base[f] /\ local'[f] = local[f] /\ source'[f] = source[f] /\ (f \in deleted' <=> f \in deleted)
       /\ pass.rows[f].note = {} \/ pass.rows[f].note = pass.rt.base[f]
    \/ /\ pass'.rt.base[f] \in {{}, local'[f]} /\ source'[f] = source[f] /\ pass.rows[f].note \subseteq local'[f]
    \/ /\ pass'.rt.base[f] \in {{}, local'[f]} /\ source'[f].note \subseteq local'[f]

LEMMA ApplySound ==
    ASSUME IInv, NEW f \in Files, Apply(f)
    PROVE  /\ pass.step = "apply" /\ f \in pass.todo /\ UNCHANGED <<saved, scope, keeping>>
           /\ pass'.step = "apply" /\ pass'.rows = pass.rows /\ pass'.todo = pass.todo \ {f} /\ pass'.failed = pass.failed
           /\ pass'.top = pass.top /\ pass'.floor = pass.floor
           /\ \A g \in Files \ {f} : /\ pass'.rt.base[g] = pass.rt.base[g] /\ local'[g] = local[g] /\ source'[g] = source[g]
                                     /\ g \in deleted' <=> g \in deleted
           /\ Done(f)
  <1>1. pass.step = "apply" /\ f \in pass.todo /\ UNCHANGED <<saved, scope, keeping>>
    BY DEF Apply, reviews
  <1> DEFINE out == Outcome(f)  row == pass.rows[f]
  <1>2. local[f] \in Notes /\ row.note \in Notes /\ {} \in Notes /\ pass.rt.base[f] \in Notes /\ local \in Bases /\ pass \in Passes
    <2>1. local[f] \in Notes /\ local \in Bases /\ pass \in Passes
      BY Parts DEF Bases
    <2>2. pass.rows[f] \in Row
      BY Parts DEF Passes
    <2>3. pass.rt.base[f] \in Notes
      BY Parts, RuntimeBase
    <2> QED
      BY <2>1, <2>2, <2>3 DEF Row, Notes
  <1>3. PICK note : note = local[f] \cup row.note
    OBVIOUS
  <1>4. note \in Notes
    BY <1>2, <1>3 DEF Notes
  <1> DEFINE Keeps(b, r) == /\ r.step = pass.step /\ r.top = pass.top /\ r.floor = pass.floor /\ r.rows = pass.rows
                            /\ r.todo = pass.todo \ {f} /\ r.failed = pass.failed /\ r.rt.base[f] = b
                            /\ \A g \in Files \ {f} : r.rt.base[g] = pass.rt.base[g]
  <1>5. ASSUME NEW b \in Notes PROVE Keeps(b, Through(f, b)) /\ Through(f, b) \in Passes
    <2>1. PICK r : r = Through(f, b)
      OBVIOUS
    <2>2. Keeps(b, r) /\ r \in Passes
      BY <1>2, <2>1, ThroughSound, ThroughRest
    <2> QED
      BY <2>1, <2>2, Zenon
  <1>6. ASSUME NEW b, NEW r \in Passes, Keeps(b, r), NEW ro, NEW hd, pass' = [r EXCEPT !.ro = ro, !.held = hd] PROVE Keeps(b, pass')
    BY <1>6 DEF Passes
  <1>7. ASSUME NEW b, NEW r \in Passes, Keeps(b, r), NEW removed, pass' = [r EXCEPT !.removed = removed] PROVE Keeps(b, pass')
    BY <1>7 DEF Passes
  <1>8. ASSUME NEW b, NEW r \in Passes, Keeps(b, r), pass' = [r EXCEPT !.conflict = TRUE] PROVE Keeps(b, pass')
    BY <1>8 DEF Passes
  <1>9. /\ (out = "agree" => local[f] = row.note)
        /\ (out \in {"keep", "report", "hold"} => row.note = {} \/ row.note = pass.rt.base[f]) /\ (out = "remove" => row.note = {})
    BY Outcomes, LeftAlone
  <1> DEFINE Rest == \A g \in Files \ {f} : /\ local'[g] = local[g] /\ source'[g] = source[g] /\ (g \in deleted' <=> g \in deleted)
  <1>10. ASSUME NEW n, Writes(f, n) PROVE local'[f] = n /\ \A g \in Files \ {f} : local'[g] = local[g] /\ (g \in deleted' <=> g \in deleted)
    BY <1>2, <1>10 DEF Writes, Bases
  <1>11. ASSUME NEW n \in Notes, Written(f, n) PROVE source'[f].note = n /\ \A g \in Files \ {f} : source'[g] = source[g]
    BY <1>11, WrittenSound
  <1> HIDE DEF out, row, Keeps
  <1> DEFINE Goal == Rest /\ Done(f) /\ \E b : Keeps(b, pass')
  <1>12. ASSUME out = "agree" /\ pass' = Through(f, local[f]) /\ UNCHANGED <<folder, remote, echo>>
         PROVE  Goal
    <2>1. Keeps(local[f], pass')
      BY <1>2, <1>5, <1>12
    <2>2. UNCHANGED <<local, deleted, source>> /\ pass'.rt.base[f] = local[f]
      BY <1>12, <2>1 DEF folder, remote, Keeps
    <2>3. Done(f)
      BY <1>9, <1>12, <2>2 DEF Done, row
    <2> QED
      BY <2>1, <2>2, <2>3
  <1>13. ASSUME /\ out \in {"keep", "report", "hold"} /\ UNCHANGED <<folder, remote, echo>>
                /\ \E ro, hd : pass' = [Through(f, pass.rt.base[f]) EXCEPT !.ro = ro, !.held = hd]
         PROVE  Goal
    <2>1. Keeps(pass.rt.base[f], pass')
      BY <1>2, <1>5, <1>6, <1>13, Zenon
    <2>2. UNCHANGED <<local, deleted, source>> /\ pass'.rt.base[f] = pass.rt.base[f]
      BY <1>13, <2>1 DEF folder, remote, Keeps
    <2>3. Done(f)
      BY <1>9, <1>13, <2>2 DEF Done, row
    <2> QED
      BY <2>1, <2>2, <2>3
  <1>14. ASSUME Written(f, local[f]) /\ pass' = Through(f, local[f]) /\ UNCHANGED <<local, deleted>>
         PROVE  Goal
    <2>1. Keeps(local[f], pass')
      BY <1>2, <1>5, <1>14
    <2>2. source'[f].note = local[f] /\ (\A g \in Files \ {f} : source'[g] = source[g]) /\ pass'.rt.base[f] = local[f]
      BY <1>2, <1>11, <1>14, <2>1 DEF Keeps
    <2>3. Done(f)
      BY <1>14, <2>2 DEF Done
    <2> QED
      BY <1>14, <2>1, <2>2, <2>3
  <1>15. ASSUME /\ Writes(f, row.note) /\ UNCHANGED remote
                /\ pass' = Through(f, row.note) \/ pass' = [Through(f, row.note) EXCEPT !.conflict = TRUE]
         PROVE  Goal
    <2>1. Keeps(row.note, pass')
      BY <1>2, <1>5, <1>8, <1>15, Zenon
    <2>2. local'[f] = row.note /\ pass'.rt.base[f] = row.note /\ UNCHANGED source
          /\ \A g \in Files \ {f} : local'[g] = local[g] /\ (g \in deleted' <=> g \in deleted)
      BY <1>10, <1>15, <2>1 DEF remote, Keeps
    <2>3. Done(f)
      BY <2>2 DEF Done, row
    <2> QED
      BY <2>1, <2>2, <2>3
  <1>16. ASSUME out = "remove" /\ local' = [local EXCEPT ![f] = {}] /\ pass' = Through(f, {}) /\ UNCHANGED <<deleted, remote>>
         PROVE  Goal
    <2>1. Keeps({}, pass')
      BY <1>2, <1>5, <1>16
    <2>2. UNCHANGED <<deleted, source>> /\ pass'.rt.base[f] = {} /\ local'[f] = {} /\ \A g \in Files \ {f} : local'[g] = local[g]
      BY <1>2, <1>16, <2>1 DEF remote, Keeps, Bases
    <2>3. Done(f)
      BY <1>9, <1>16, <2>2 DEF Done, row
    <2> QED
      BY <2>1, <2>2, <2>3
  <1>17. ASSUME Written(f, {}) /\ (\E removed : pass' = [Through(f, {}) EXCEPT !.removed = removed]) /\ UNCHANGED <<folder, echo>>
         PROVE  Goal
    <2>1. Keeps({}, pass')
      BY <1>2, <1>5, <1>7, <1>17, Zenon
    <2>2. /\ source'[f].note = {} /\ (\A g \in Files \ {f} : source'[g] = source[g]) /\ pass'.rt.base[f] = {}
          /\ UNCHANGED <<local, deleted>>
      BY <1>2, <1>11, <1>17, <2>1 DEF Keeps, folder
    <2>3. Done(f)
      BY <2>2 DEF Done
    <2> QED
      BY <2>1, <2>2, <2>3
  <1>18. ASSUME Written(f, note) /\ Writes(f, note) /\ pass' = Through(f, note)
         PROVE  Goal
    <2>1. Keeps(note, pass')
      BY <1>4, <1>5, <1>18
    <2>2. /\ source'[f].note = note /\ (\A g \in Files \ {f} : source'[g] = source[g]) /\ pass'.rt.base[f] = note /\ local'[f] = note
          /\ \A g \in Files \ {f} : local'[g] = local[g] /\ (g \in deleted' <=> g \in deleted)
      BY <1>4, <1>10, <1>11, <1>18, <2>1 DEF Keeps
    <2>3. Done(f)
      BY <2>2 DEF Done
    <2> QED
      BY <2>1, <2>2, <2>3
  <1>19. Goal
    <2>1. \/ out = "agree" /\ pass' = Through(f, local[f]) /\ UNCHANGED <<folder, remote, echo>>
          \/ /\ out \in {"keep", "report", "hold"} /\ UNCHANGED <<folder, remote, echo>>
             /\ \E ro, hd : pass' = [Through(f, pass.rt.base[f]) EXCEPT !.ro = ro, !.held = hd]
          \/ Written(f, local[f]) /\ pass' = Through(f, local[f]) /\ UNCHANGED <<local, deleted>>
          \/ /\ Writes(f, row.note) /\ UNCHANGED remote
             /\ pass' = Through(f, row.note) \/ pass' = [Through(f, row.note) EXCEPT !.conflict = TRUE]
          \/ out = "remove" /\ local' = [local EXCEPT ![f] = {}] /\ pass' = Through(f, {}) /\ UNCHANGED <<deleted, remote>>
          \/ Written(f, {}) /\ (\E removed : pass' = [Through(f, {}) EXCEPT !.removed = removed]) /\ UNCHANGED <<folder, echo>>
          \/ Written(f, note) /\ Writes(f, note) /\ pass' = Through(f, note)
      BY <1>3, Zenon DEF Apply, out, row
    <2> QED
      BY <2>1, <1>12, <1>13, <1>14, <1>15, <1>16, <1>17, <1>18
  <1>20. PICK b : Keeps(b, pass')
    BY <1>19
  <1> QED
    BY <1>1, <1>19, <1>20 DEF Keeps

\* The pass alone changes its base.
LEMMA ApplyBases ==
    ASSUME UNCHANGED <<saved, scope>>, NEW g \in Files, NEW c \in LiveBases'
    PROVE  c[g] = pass'.rt.base[g] \/ \E b \in LiveBases : c[g] = b[g]
  BY DEF saved, LiveBases

LEMMA ApplyShown ==
    ASSUME IInv, BaseInv, NEW f \in Files, Apply(f)
    PROVE  BaseInv'
  <1>1. /\ pass.step = "apply" /\ f \in pass.todo /\ UNCHANGED <<saved, scope, keeping>>
        /\ pass'.step = "apply" /\ pass'.rows = pass.rows /\ pass'.todo = pass.todo \ {f}
        /\ (\A g \in Files \ {f} : /\ pass'.rt.base[g] = pass.rt.base[g] /\ local'[g] = local[g] /\ source'[g] = source[g]
                                   /\ g \in deleted' <=> g \in deleted)
        /\ Done(f)
    BY ApplySound
  <1>2. pass # NoPass /\ mount.on /\ keeping = {} /\ UNCHANGED mount
    BY <1>1, Running, Nothing DEF saved
  <1>3. OffClean /\ BasesShown /\ RowsShown /\ KeepDropped /\ RowShown(f)
    BY <1>1 DEF BaseInv, RowsShown
  <1>4. \A g \in Files : \A c \in LiveBases' : c[g] = pass'.rt.base[g] \/ \E b \in LiveBases : c[g] = b[g]
    BY <1>1, ApplyBases
  <1>5. \A g \in Files \ {f} : Inherits(g) /\ NoEcho(g) /\ (local'[g] = local[g] /\ (g \in deleted' <=> g \in deleted))
    BY <1>1, <1>4, LiveParts DEF Inherits, NoEcho
  <1>6. ASSUME NEW g \in Files, NEW c \in LiveBases', c[g] = source'[g].note PROVE Shown(g)'
    <2>1. CASE g # f
      <3>1. \A d \in LiveBases' : d[g] = {} \/ d[g] = local'[g] \/ \E b \in LiveBases : d[g] = b[g]
        BY <1>5, <2>1 DEF Inherits
      <3>2. source'[g].note = source[g].note /\ (Shown(g) => Shown(g)')
        BY <1>1, <2>1 DEF Shown
      <3> QED
        BY <1>3, <1>6, <3>1, <3>2, FileShown
    <2>2. CASE g = f
      <3>1. \A d \in LiveBases' : d[f] = {} \/ d[f] = local'[f] \/ \E b \in LiveBases : d[f] = b[f]
        BY <1>1, <1>4, LiveParts DEF Done
      <3>2. source'[f].note = source[f].note \/ source'[f].note \subseteq local'[f]
        BY <1>1 DEF Done
      <3>3. Shown(f) => Shown(f)' \/ source'[f].note = {} \/ \A b \in LiveBases : b[f] # source'[f].note
        BY <1>1, <1>3 DEF Done, Shown, RowShown
      <3> QED
        BY <1>3, <1>6, <2>2, <3>1, <3>2, <3>3, FileShown
    <2> QED
      BY <2>1, <2>2
  <1>7. BasesShown'
    BY <1>6 DEF BasesShown
  <1>8. RowsShown'
    <2> SUFFICES ASSUME NEW g \in pass'.todo PROVE RowShown(g)'
      BY DEF RowsShown
    <2>1. g \in Files \ {f} /\ g \in pass.todo
      BY <1>1, Parts DEF Passes
    <2>2. \A c \in LiveBases' : c[g] = {} \/ \E b \in LiveBases : c[g] = b[g]
      BY <1>5, <2>1 DEF Inherits
    <2>3. RowShown(g)
      BY <1>1, <1>3, <2>1 DEF RowsShown
    <2> QED
      BY <1>1, <2>1, <2>2, <2>3 DEF RowShown
  <1>9. OffClean' /\ KeepDropped'
    BY <1>1, <1>2 DEF OffClean, KeepDropped
  <1> QED
    BY <1>7, <1>8, <1>9 DEF BaseInv

\* A file that is left for later.
LEMMA FailedShown ==
    ASSUME IInv, IInv', BaseInv, NEW f \in Files, ApplyRefused(f) \/ ApplyFails(f)
    PROVE  BaseInv'
  <1>1. pass.step = "apply" /\ f \in pass.todo /\ pass' = Failed(f) /\ UNCHANGED <<local, deleted, source, mount, store, disk, unsaved, scope, keeping>>
    BY DEF ApplyRefused, ApplyFails, folder, remote, saved, reviews
  <1>2. pass'.step = "apply" /\ pass'.rows = pass.rows /\ pass'.rt = pass.rt /\ pass'.todo \subseteq pass.todo
    BY <1>1, Parts, FailedSound
  <1>3. LiveBases' = LiveBases
    BY <1>1, <1>2 DEF LiveBases
  <1>4. OffClean' /\ BasesShown' /\ KeepDropped'
    BY <1>1, <1>3 DEF BaseInv, OffClean, BasesShown, KeepDropped, Shown
  <1>5. RowsShown'
    BY <1>1, <1>2, <1>3 DEF BaseInv, RowsShown, RowShown
  <1> QED
    BY <1>4, <1>5 DEF BaseInv

\* What happens outside the mount: the user's changes, peers of the source, the primary scope, and the
\* keeper's removals.
LEMMA AroundShown ==
    ASSUME IInv, BaseInv, RacyMoves = {},
           \/ \E f \in Files : Edit(f) \/ PeerEdit(f) \/ PeerDelete(f) \/ PrimaryPath(f)
           \/ \E S \in SUBSET Files : Delete(S)
           \/ SourceReset \/ KeepRemoves \/ PrimaryPushed \/ UNCHANGED vars
    PROVE  BaseInv'
  <1>1. ASSUME UNCHANGED <<mount, store, disk, unsaved, pass, scope>>, keeping' \subseteq keeping,
               \A f \in Files : NoEcho(f),
               \A f \in Files : Stays(f) \/ \A b \in LiveBases : b[f] = {},
               pass.step = "apply" => \A f \in Files : Stays(f)
        PROVE  BaseInv'
    BY <1>1, OutsideShown
  <1>2. local \in Bases /\ deleted \in SUBSET Files /\ (keeping # {} => pass = NoPass) /\ (pass # NoPass => mount.on)
    BY Parts DEF Order
  <1>3. ASSUME NEW f \in Files, Edit(f) PROVE BaseInv'
    <2>1. /\ UNCHANGED <<deleted, source, mount, store, disk, unsaved, pass, keeping>> /\ scope'.rt = scope.rt
          /\ local' = [local EXCEPT ![f] = local[f] \cup {edits'}]
      BY <1>3, NudgedSound DEF Edit, remote, saved, reviews
    <2>2. \A g \in Files : Stays(g) /\ NoEcho(g)
      BY <1>2, <2>1 DEF Stays, NoEcho, Bases
    <2> QED
      BY <2>1, <2>2, OutsideShown
  <1>4. ASSUME NEW S \in SUBSET Files, Delete(S) PROVE BaseInv'
    <2>1. /\ UNCHANGED <<source, mount, store, disk, unsaved, pass, keeping>> /\ scope'.rt = scope.rt
          /\ local' = [f \in Files |-> IF f \in S THEN {} ELSE local[f]] /\ deleted' = deleted \cup S
      BY <1>4, NudgedSound DEF Delete, remote, saved, reviews
    <2>2. \A g \in Files : Stays(g) /\ NoEcho(g)
      BY <2>1 DEF Stays, NoEcho
    <2> QED
      BY <2>1, <2>2, OutsideShown
  <1>5. ASSUME NEW f \in Files, PeerEdit(f) PROVE BaseInv'
    <2>1. PICK e : e = edits + 1
      OBVIOUS
    <2>2. Written(f, source[f].note \cup {e}) /\ e \in 1 .. MaxEdits /\ e \notin 1 .. edits
          /\ UNCHANGED <<local, deleted, mount, store, disk, unsaved, pass, scope, keeping>>
      BY <1>5, <2>1, Parts, Bounds DEF PeerEdit, folder, saved, reviews
    <2>3. source[f].note \cup {e} \in Notes
      BY <2>2, Parts DEF Notes, Row
    <2>4. source'[f].note = source[f].note \cup {e} /\ \A g \in Files \ {f} : source'[g] = source[g]
      BY <2>2, <2>3, WrittenSound
    <2>5. \A b \in LiveBases : b[f] \subseteq 1 .. edits
      BY LiveKnown
    <2>6. \A g \in Files : NoEcho(g)
      BY <2>2, <2>4, <2>5 DEF NoEcho
    <2> QED
      BY <1>1, <2>2, <2>6, StaysSame
  <1>6. ASSUME NEW f \in Files, PeerDelete(f) PROVE BaseInv'
    <2>1. Written(f, {}) /\ {} \in Notes /\ UNCHANGED <<local, deleted, mount, store, disk, unsaved, pass, scope, keeping>>
      BY <1>6 DEF PeerDelete, folder, saved, reviews, Notes
    <2>2. source'[f].note = {} /\ \A g \in Files \ {f} : source'[g] = source[g]
      BY <2>1, WrittenSound
    <2>3. \A g \in Files : NoEcho(g)
      BY <2>2 DEF NoEcho
    <2> QED
      BY <1>1, <2>1, <2>3, StaysSame
  <1>7. CASE SourceReset
    <2>1. UNCHANGED <<local, deleted, mount, store, disk, unsaved, pass, scope, keeping>>
          /\ source' = [f \in Files |-> IF source[f].tomb THEN NoRow ELSE source[f]]
      BY <1>7 DEF SourceReset, folder, saved, reviews
    <2>2. \A g \in Files : NoEcho(g)
      BY <2>1, Nothing DEF NoEcho
    <2> QED
      BY <1>1, <2>1, <2>2, StaysSame
  <1>8. ASSUME NEW f \in Files, PrimaryPath(f) PROVE BaseInv'
    <2>1. ~mount.on /\ UNCHANGED <<source, mount, store, disk, unsaved, pass, scope, keeping>>
      BY <1>8 DEF PrimaryPath, remote, saved, reviews
    <2>2. \A g \in Files : \A b \in LiveBases : b[g] = {}
      BY <2>1 DEF BaseInv, OffClean
    <2> QED
      BY <1>1, <1>2, <2>1, <2>2, NoEchoSame, Nothing
  <1>9. CASE KeepRemoves
    <2>1. /\ keeping # {} /\ keeping' = {} /\ UNCHANGED <<source, deleted, mount, store, disk, unsaved, pass, scope>>
          /\ local' = [f \in Files |-> IF f \in keeping THEN {} ELSE local[f]]
      BY <1>9 DEF KeepRemoves, remote, saved
    <2>2. ASSUME NEW f \in Files PROVE Stays(f) \/ \A b \in LiveBases : b[f] = {}
      BY <2>1 DEF BaseInv, KeepDropped, Stays
    <2> QED
      BY <1>1, <1>2, <2>1, <2>2, NoEchoSame, Nothing
  <1>10. CASE PrimaryPushed
    BY <1>1, <1>10, StaysSame, NoEchoSame DEF PrimaryPushed, remote, saved, reviews
  <1>11. CASE UNCHANGED vars
    BY <1>1, <1>11, StaysSame, NoEchoSame DEF vars, folder, remote, saved, reviews
  <1> QED
    BY <1>3, <1>4, <1>5, <1>6, <1>7, <1>8, <1>9, <1>10, <1>11

\* The disk: what it has is what memory had, unless the keeper is at work.
LEMMA DiskShown ==
    ASSUME IInv, IInv', BaseInv, "crashUnsaved" \notin FaultKinds, Persist \/ Crash
    PROVE  BaseInv'
  <1>1. CASE Persist
    <2>1. UNCHANGED <<local, deleted, source, mount, store, scope, pass, keeping>> /\ disk'.store = store' /\ pass = NoPass
      BY <1>1 DEF Persist, SaveAll, folder, remote, reviews
    <2>2. /\ {scope'.rt.base, pass'.rt.base, store'[mount.point].base} \subseteq LiveBases \cup {NoBase}
          /\ disk'.store[mount.point].base \in LiveBases \cup {NoBase}
      BY <2>1, LiveParts
    <2> QED
      BY <2>1, <2>2, InsideShown, Nothing
  <1>2. CASE Crash
    <2>1. /\ UNCHANGED <<local, deleted, source, disk>> /\ mount' = disk.mount /\ store' = Loaded(disk)
          /\ scope' = NoScope /\ pass' = NoPass /\ keeping' = {} /\ ~unsaved
      BY <1>2 DEF Crash, folder, remote
    <2>2. mount' = mount /\ store'[mount.point] \in {disk.store[mount.point], NoState}
      BY <2>1, Parts, LoadedSound DEF Order
    <2>3. /\ {scope'.rt.base, pass'.rt.base, store'[mount.point].base} \subseteq LiveBases \cup {NoBase}
          /\ disk'.store[mount.point].base \in LiveBases \cup {NoBase}
      BY <2>1, <2>2, LiveParts, Nothing
    <2> QED
      BY <2>1, <2>2, <2>3, InsideShown, Nothing
  <1> QED
    BY <1>1, <1>2

\* What the keeper does to the bases.
LEMMA KeeperSound ==
    ASSUME IInv, KeepRoMountEdits
    PROVE  /\ pass = NoPass /\ scope # NoScope /\ UNCHANGED <<local, deleted, source, mount, disk, pass>> /\ unsaved' /\ scope'.force
           /\ keeping' \subseteq Files
           /\ \A f \in Files : /\ scope'.rt.base[f] = (IF f \in keeping' THEN {} ELSE scope.rt.base[f])
                               /\ store'[mount.point].base[f] = (IF f \in keeping' THEN {} ELSE store[mount.point].base[f])
  <1>1. PICK S : S = {f \in roEdits : local[f] # {}}
    OBVIOUS
  <1>2. PICK b : b = [f \in Files |-> IF f \in S THEN {} ELSE scope.rt.base[f]]
    OBVIOUS
  <1>3. PICK c : c = [f \in Files |-> IF f \in S THEN {} ELSE store[mount.point].base[f]]
    OBVIOUS
  <1>4. PICK rt : rt = [scope.rt EXCEPT !.base = b]
    OBVIOUS
  <1>5. PICK st : st = [store[mount.point] EXCEPT !.base = c]
    OBVIOUS
  <1>6. /\ scope' = [scope EXCEPT !.rt = rt, !.force = TRUE] /\ store' = [store EXCEPT ![mount.point] = st]
        /\ pass = NoPass /\ scope # NoScope /\ UNCHANGED <<local, deleted, remote, mount, disk, pass>> /\ keeping' = S /\ unsaved' = TRUE
    BY <1>1, <1>2, <1>3, <1>4, <1>5, Zenon DEF KeepRoMountEdits
  <1>7. scope.rt \in Runtime /\ store[mount.point] \in Runtime /\ roEdits \in SUBSET Files
    BY Parts
  <1>8. rt.base = b /\ st.base = c
    BY <1>4, <1>5, <1>7 DEF Runtime
  <1>9. scope'.rt = rt /\ scope'.force /\ store'[mount.point] = st
    BY <1>6, Parts DEF Scopes
  <1>10. S \subseteq Files /\ UNCHANGED source
    BY <1>1, <1>6, <1>7 DEF remote
  <1>11. \A f \in Files : b[f] = (IF f \in S THEN {} ELSE scope.rt.base[f]) /\ c[f] = (IF f \in S THEN {} ELSE store[mount.point].base[f])
    BY <1>2, <1>3
  <1>12. \A f \in Files : /\ scope'.rt.base[f] = (IF f \in keeping' THEN {} ELSE scope.rt.base[f])
                          /\ store'[mount.point].base[f] = (IF f \in keeping' THEN {} ELSE store[mount.point].base[f])
    BY <1>6, <1>8, <1>9, <1>11, Zenon
  <1> QED
    BY <1>6, <1>9, <1>10, <1>12, Zenon

LEMMA KeeperShown ==
    ASSUME IInv, IInv', BaseInv, KeepRoMountEdits
    PROVE  BaseInv'
  <1>1. /\ pass = NoPass /\ UNCHANGED <<local, deleted, source, mount, disk, pass>> /\ unsaved' /\ keeping' \subseteq Files
        /\ \A f \in Files : /\ scope'.rt.base[f] = (IF f \in keeping' THEN {} ELSE scope.rt.base[f])
                            /\ store'[mount.point].base[f] = (IF f \in keeping' THEN {} ELSE store[mount.point].base[f])
    BY KeeperSound
  <1>2. LiveBases' = {scope'.rt.base, pass'.rt.base, store'[mount.point].base} /\ pass.rt.base = NoBase
    BY <1>1, Nothing DEF LiveBases
  <1>3. \A f \in Files : \A c \in LiveBases' : c[f] = {} \/ (f \notin keeping' /\ \E b \in LiveBases : c[f] = b[f])
    BY <1>1, <1>2, LiveParts, Nothing
  <1>4. \A f \in Files : Inherits(f) /\ NoEcho(f)
    BY <1>1, <1>3, NoEchoSame DEF Inherits
  <1>5. \A f \in Files : Stays(f)
    BY <1>1, StaysSame
  <1>6. pass'.todo \subseteq Files /\ pass'.rt.base \in LiveBases' /\ pass'.step # "apply"
    BY <1>1, <1>2, Parts, Nothing DEF Passes
  <1>7. \A f \in keeping' : f \in keeping \/ \A c \in LiveBases' : c[f] = {}
    BY <1>1, <1>3
  <1>8. mount'.on \/ ~mount.on \/ \A c \in LiveBases', f \in Files : c[f] = {}
    BY <1>1
  <1>9. \A f \in Files : Stays(f) \/ \A c \in LiveBases' : c[f] = {}
    BY <1>5
  <1> QED
    BY <1>1, <1>4, <1>6, <1>7, <1>8, <1>9, BaseStays

\* What the answers about many new files do: a base takes what the folder has, and the source what is sent.
LEMMA BulkSound ==
    ASSUME IInv, AcceptBulkPushes \/ KeepBulkPushes
    PROVE  /\ pass = NoPass /\ keeping = {} /\ scope # NoScope /\ UNCHANGED <<local, deleted, mount, disk, unsaved, pass, keeping>>
           /\ scope'.rt = store'[mount.point] /\ scope'.rt.cursor = scope.rt.cursor /\ scope'.rt.floor = scope.rt.floor
           /\ scope'.state = scope.state /\ scope'.force = scope.force
           /\ \A f \in Files : /\ scope'.rt.base[f] \in {scope.rt.base[f], local[f]}
                               /\ source'[f] = source[f] \/ source'[f].note = local[f]
  <1>1. /\ pass = NoPass /\ keeping = {} /\ scope # NoScope /\ UNCHANGED <<local, deleted, mount, disk, unsaved, pass, keeping>>
        /\ \A f \in Files : source'[f] = source[f] \/ source'[f].note = local[f]
    <2>1. CASE AcceptBulkPushes
      <3>1. PICK sent \in SUBSET {f \in held : local[f] # {} /\ source[f].note = {}} :
           /\ source' = [f \in Files |-> IF f \in sent THEN [note |-> local[f], version |-> top + 1, tomb |-> FALSE]
                                         ELSE source[f]]
           /\ top' = top + 1
           /\ unsent' = unsent \ UNION {local[f] : f \in sent}
           /\ scope' = [scope EXCEPT !.rt = [scope.rt EXCEPT !.base = [f \in Files |-> IF f \in sent THEN local[f] ELSE @[f]]]]
           /\ store' = [store EXCEPT ![mount.point] =
                           [scope.rt EXCEPT !.base = [f \in Files |-> IF f \in sent THEN local[f] ELSE @[f]]]]
        BY <2>1, AcceptSound, Zenon
      <3>2. source' = [f \in Files |-> IF f \in sent THEN [note |-> local[f], version |-> top + 1, tomb |-> FALSE] ELSE source[f]]
        BY <2>1, <3>1, Zenon DEF AcceptBulkPushes
      <3>3. \A f \in Files : source'[f] = source[f] \/ source'[f].note = local[f]
        BY <3>2
      <3> QED
        BY <2>1, <3>3 DEF AcceptBulkPushes
    <2>2. CASE KeepBulkPushes
      BY <2>2 DEF KeepBulkPushes, folder, remote
    <2> QED
      BY <2>1, <2>2
  <1>2. \E S : LET rt == [scope.rt EXCEPT !.base = [f \in Files |-> IF f \in S THEN local[f] ELSE @[f]]] IN
               scope' = [scope EXCEPT !.rt = rt] /\ store' = [store EXCEPT ![mount.point] = rt]
    BY AcceptSound, Zenon DEF KeepBulkPushes
  <1>3. PICK S, b : /\ b = [f \in Files |-> IF f \in S THEN local[f] ELSE scope.rt.base[f]]
                    /\ scope' = [scope EXCEPT !.rt = [scope.rt EXCEPT !.base = b]]
                    /\ store' = [store EXCEPT ![mount.point] = [scope.rt EXCEPT !.base = b]]
    BY <1>2, ZenonT(40)
  <1>4. PICK rt : rt = [scope.rt EXCEPT !.base = b]
    OBVIOUS
  <1>5. scope' = [scope EXCEPT !.rt = rt] /\ store' = [store EXCEPT ![mount.point] = rt]
    BY <1>3, <1>4, Zenon
  <1>6. rt.cursor = scope.rt.cursor /\ rt.floor = scope.rt.floor /\ rt.base = b
    BY <1>4, Parts DEF Runtime
  <1>7. scope'.rt = rt /\ scope'.state = scope.state /\ scope'.force = scope.force /\ store'[mount.point] = rt
    BY <1>5, Parts DEF Scopes
  <1>8. \A f \in Files : b[f] \in {scope.rt.base[f], local[f]}
    BY <1>3
  <1> QED
    BY <1>1, <1>6, <1>7, <1>8

LEMMA BulkShown ==
    ASSUME IInv, BaseInv, AcceptBulkPushes \/ KeepBulkPushes
    PROVE  BaseInv'
  <1>1. /\ pass = NoPass /\ keeping = {} /\ scope # NoScope /\ UNCHANGED <<local, deleted, mount, disk, unsaved, pass, keeping>>
        /\ scope'.rt = store'[mount.point]
        /\ \A f \in Files : /\ scope'.rt.base[f] \in {scope.rt.base[f], local[f]}
                            /\ source'[f] = source[f] \/ source'[f].note = local[f]
    BY BulkSound
  <1>2. LiveBases' \subseteq LiveBases \cup {scope'.rt.base}
    BY <1>1 DEF LiveBases
  <1>3. \A f \in Files : \A c \in LiveBases' : c[f] = {} \/ c[f] = local'[f] \/ \E b \in LiveBases : c[f] = b[f]
    BY <1>1, <1>2, LiveParts
  <1>4. ASSUME NEW f \in Files, NEW c \in LiveBases', c[f] = source'[f].note PROVE Shown(f)'
    <2>1. source'[f].note = source[f].note \/ source'[f].note \subseteq local'[f]
      BY <1>1
    <2>2. Shown(f) => Shown(f)'
      BY <1>1 DEF Shown
    <2> QED
      BY <1>3, <1>4, <2>1, <2>2, FileShown DEF BaseInv
  <1>5. BasesShown'
    BY <1>4 DEF BasesShown
  <1>6. OffClean' /\ RowsShown' /\ KeepDropped'
    BY <1>1, Parts, Nothing DEF OffClean, RowsShown, KeepDropped, Order
  <1> QED
    BY <1>5, <1>6 DEF BaseInv

LEMMA BaseStep ==
    ASSUME IInv, GuardInv, EditInv, BaseInv, RacyMoves = {}, "crashUnsaved" \notin FaultKinds, FreshName, [Next]_vars
    PROVE  BaseInv'
  <1>1. IInv'
    BY Step
  <1>2. CASE \/ \E f \in Files : Edit(f) \/ PeerEdit(f) \/ PeerDelete(f) \/ PrimaryPath(f)
             \/ \E S \in SUBSET Files : Delete(S)
             \/ SourceReset \/ KeepRemoves \/ PrimaryPushed \/ UNCHANGED vars
    BY <1>2, AroundShown
  <1>3. CASE \/ \E dir \in {"pull", "sync"} : AddMount(dir)
             \/ RemoveMount \/ ReinstateMount \/ UpdateMountDirection
             \/ \E q \in Points : FollowMountPointRename(q)
    BY <1>1, <1>3, CommandsShown
  <1>4. CASE Persist \/ Crash
    BY <1>1, <1>4, DiskShown
  <1>5. CASE Begin \/ Guard \/ List \/ Settle \/ PassFails
    BY <1>1, <1>5, PassesShown
  <1>6. CASE \E f \in Files : Apply(f)
    BY <1>6, ApplyShown
  <1>7. CASE \E f \in Files : ApplyRefused(f) \/ ApplyFails(f)
    BY <1>1, <1>7, FailedShown
  <1>8. CASE KeepRoMountEdits \/ AcceptBulkPushes \/ KeepBulkPushes
    BY <1>1, <1>8, KeeperShown, BulkShown
  <1> QED
    BY <1>2, <1>3, <1>4, <1>5, <1>6, <1>7, <1>8, Zenon DEF Next, PassStep

\* What is shown stays so, unless the source writes it anew.
LEMMA ShowStays ==
    ASSUME IInv, IInv', EditInv, SourceMoves, ShowInv,
           pass'.top = pass.top, pass'.floor = pass.floor, pass'.failed = pass.failed, pass'.step = pass.step, pass'.todo = pass.todo,
           pass' = NoPass => pass = NoPass,
           \/ scope' = NoScope
           \/ /\ scope # NoScope /\ scope'.state = scope.state /\ (scope.force => scope'.force)
              /\ scope'.rt.cursor = scope.rt.cursor /\ scope'.rt.floor = scope.rt.floor,
           \A f \in Files : Shown(f) => Shown(f)' \/ source'[f].version > top
    PROVE  ShowInv'
  <1>1. SourceAged /\ KnownAged /\ PassAged /\ PassShown /\ ScopeShown
    BY DEF EditInv, ShowInv
  <1>2. top \in Nat /\ pass.top \in Nat /\ scope.rt.cursor \in Nat
    BY Numbers
  <1>3. \A f \in Files : source'[f].version \in Nat
    BY DEF IInv, Types, SourceTypes, Row
  <1>4. PassShown'
    <2> SUFFICES ASSUME pass'.step = "apply", NEW f \in Files PROVE Shown(f)' \/ Left(f)'
      BY DEF PassShown
    <2>1. pass # NoPass /\ (Shown(f) \/ Left(f))
      BY <1>1, Nothing DEF PassShown
    <2>2. CASE Left(f)
      BY <1>1, <2>1, <2>2, LeftStays
    <2>3. CASE source'[f].version > top
      <3>1. pass.top <= top
        BY <1>1, <2>1 DEF PassAged
      <3>2. source'[f].version > pass'.top
        BY <1>2, <1>3, <2>3, <3>1
      <3> QED
        BY <3>2 DEF Left
    <2> QED
      BY <2>1, <2>2, <2>3
  <1>5. ScopeShown'
    <2> SUFFICES ASSUME scope' # NoScope, pass' = NoPass, scope'.state \in {"live", "syncing", "diverged"}, ~scope'.force, NEW f \in Files
                 PROVE  Shown(f)' \/ Behind(scope.rt, f)'
      BY DEF ScopeShown
    <2>1. /\ scope'.rt.cursor = scope.rt.cursor /\ scope'.rt.floor = scope.rt.floor
          /\ Shown(f) \/ Behind(scope.rt, f)
      BY <1>1 DEF ScopeShown
    <2>2. Aged(scope.rt) /\ scope.rt \in Runtime
      BY <1>1, Parts DEF KnownAged
    <2>3. CASE Behind(scope.rt, f)
      <3>1. source'[f].version > scope.rt.cursor \/ (floor' > scope.rt.floor /\ floor' > scope.rt.cursor) \/ f \in givenUp'
        BY <1>1, <2>2, <2>3, BehindStays
      <3> QED
        BY <2>1, <3>1 DEF Behind
    <2>4. CASE source'[f].version > top
      <3>1. source'[f].version > scope'.rt.cursor
        BY <1>2, <1>3, <2>1, <2>2, <2>4 DEF Aged
      <3> QED
        BY <3>1 DEF Behind
    <2> QED
      BY <2>1, <2>3, <2>4
  <1> QED
    BY <1>4, <1>5 DEF ShowInv

\* After a step that drops the scope, asks for a full pass or leaves one to be made, nothing is claimed.
LEMMA ShowEnds ==
    ASSUME pass'.step # "apply",
           scope' = NoScope \/ pass' # NoPass \/ scope'.force \/ scope'.state \notin {"live", "syncing", "diverged"}
    PROVE  ShowInv'
  BY DEF ShowInv, PassShown, ScopeShown

\* A pass goes on with one file less.
LEMMA FileShows ==
    ASSUME IInv, IInv', EditInv, SourceMoves, ShowInv, NEW f \in Files, pass.step = "apply", pass'.step = "apply",
           pass'.top = pass.top, pass'.floor = pass.floor, pass'.todo = pass.todo \ {f}, pass.failed \subseteq pass'.failed,
           \A g \in Files \ {f} : local'[g] = local[g] /\ source'[g] = source[g] /\ (g \in deleted' <=> g \in deleted),
           Shown(f)' \/ Left(f)'
    PROVE  ShowInv'
  <1>1. SourceAged /\ PassAged /\ PassShown /\ pass # NoPass /\ pass' # NoPass
    BY Nothing DEF EditInv, ShowInv
  <1>2. ASSUME NEW g \in Files \ {f} PROVE Shown(g)' \/ Left(g)'
    <2>1. Shown(g) \/ Left(g)
      BY <1>1 DEF PassShown
    <2>2. CASE Shown(g)
      BY <2>2 DEF Shown
    <2>3. CASE Left(g)
      BY <1>1, <2>3, LeftStays
    <2> QED
      BY <2>1, <2>2, <2>3
  <1> QED
    BY <1>1, <1>2 DEF ShowInv, PassShown, ScopeShown

\* What the pass was told of a file is what the folder has now, or the next pass comes back for it.
LEMMA ApplyShows ==
    ASSUME IInv, IInv', EditInv, SourceMoves, BaseInv, ShowInv, NEW f \in Files, Apply(f)
    PROVE  ShowInv'
  <1>1. /\ pass.step = "apply" /\ f \in pass.todo
        /\ pass'.step = "apply" /\ pass'.todo = pass.todo \ {f} /\ pass'.failed = pass.failed
        /\ pass'.top = pass.top /\ pass'.floor = pass.floor
        /\ (\A g \in Files \ {f} : /\ local'[g] = local[g] /\ source'[g] = source[g]
                                   /\ g \in deleted' <=> g \in deleted)
        /\ Done(f)
    BY ApplySound
  <1>2. RowShown(f) /\ RowAged(f)
    BY <1>1 DEF BaseInv, RowsShown, EditInv, RowsAged
  <1>3. ASSUME source'[f].note \subseteq local'[f] PROVE Shown(f)' \/ Left(f)'
    BY <1>3 DEF Shown
  <1>4. ASSUME source'[f] = source[f] PROVE Shown(f)' \/ Left(f)'
    <2>1. Shown(f)' \/ pass.rows[f].note \subseteq local'[f] \/ f \in deleted'
      <3>1. CASE pass'.rt.base[f] = pass.rt.base[f] /\ local'[f] = local[f] /\ (f \in deleted' <=> f \in deleted)
                 /\ (pass.rows[f].note = {} \/ pass.rows[f].note = pass.rt.base[f])
        BY <1>2, <3>1 DEF RowShown
      <3> QED
        BY <1>1, <3>1 DEF Done, Shown
    <2>2. CASE source[f] = pass.rows[f]
      BY <1>4, <2>1, <2>2 DEF Shown
    <2>3. CASE source[f].version > pass.top
      BY <1>1, <1>4, <2>3 DEF Left
    <2>4. CASE source[f].note = {}
      BY <1>4, <2>4 DEF Shown
    <2> QED
      BY <1>2, <2>2, <2>3, <2>4 DEF RowAged
  <1>5. Shown(f)' \/ Left(f)'
    BY <1>1, <1>3, <1>4 DEF Done
  <1> QED
    BY <1>1, <1>5, FileShows

\* A file that failed stands before the cursor the pass will leave, or is given up.
LEMMA FailedShows ==
    ASSUME IInv, IInv', EditInv, SourceMoves, ShowInv, NEW f \in Files, ApplyRefused(f) \/ ApplyFails(f)
    PROVE  ShowInv'
  <1>1. pass.step = "apply" /\ pass' = Failed(f) /\ Retried(f) /\ UNCHANGED <<local, deleted, source>>
    BY DEF ApplyRefused, ApplyFails, folder, remote
  <1>2. /\ pass'.step = pass.step /\ pass'.todo = pass.todo \ {f} /\ pass'.top = pass.top /\ pass'.floor = pass.floor
        /\ pass.failed \subseteq pass'.failed /\ (Spent(f) \/ pass.rows[f].version \in pass'.failed)
    BY <1>1, Parts, FailedSound, FailedRest
  <1>3. RowAged(f)
    BY <1>1 DEF EditInv, RowsAged
  <1>4. pass.rows[f].version \in Nat /\ source[f].version \in Nat
    BY Numbers
  <1>5. ASSUME source[f] = pass.rows[f] PROVE Shown(f)' \/ Left(f)'
    <2>1. CASE Spent(f)
      BY <1>1, <2>1 DEF Retried, Left
    <2>2. CASE ~Spent(f)
      <3>1. pass.rows[f].version \in pass'.failed /\ pass.rows[f].version <= source'[f].version
        BY <1>1, <1>2, <1>4, <1>5, <2>2
      <3> QED
        BY <3>1 DEF Left
    <2> QED
      BY <1>4, <2>1, <2>2
  <1>6. ASSUME source[f].version > pass.top PROVE Shown(f)' \/ Left(f)'
    BY <1>1, <1>2, <1>6 DEF Left
  <1>7. ASSUME source[f].note = {} PROVE Shown(f)' \/ Left(f)'
    BY <1>1, <1>7 DEF Shown
  <1>8. Shown(f)' \/ Left(f)'
    BY <1>3, <1>5, <1>6, <1>7 DEF RowAged
  <1> QED
    BY <1>1, <1>2, <1>8, FileShows

LEMMA PassesShow ==
    ASSUME IInv, IInv', GuardInv, EditInv, ShowInv, Begin \/ Guard \/ List \/ Settle \/ PassFails
    PROVE  ShowInv'
  <1>1. SourceAged /\ ScopePending /\ PassShown /\ ScopeShown
    BY DEF EditInv, ShowInv
  <1>2. CASE Begin
    <2>1. /\ pass = NoPass /\ pass' # NoPass /\ UNCHANGED <<local, deleted, source, top, floor>>
          /\ (pass'.step = "apply" =>
                /\ scope # NoScope /\ ~scope.force /\ scope.state \in {"live", "syncing", "diverged"}
                /\ ~(scope.rt.floor # 0 /\ floor > scope.rt.floor)
                /\ (\A f \in Files : source[f].version > scope.rt.cursor /\ source[f].version <= top => f \in pass'.todo)
                /\ givenUp \subseteq givenUp' \cup pass'.todo)
      BY <1>2, BeginSound DEF folder, remote
    <2>2. ASSUME pass'.step = "apply", NEW f \in Files PROVE Shown(f)' \/ Left(f)'
      <3>1. Shown(f) \/ Behind(scope.rt, f)
        BY <1>1, <2>1, <2>2 DEF ScopeShown
      <3>2. scope.rt.floor # 0 /\ source[f].version <= top
        BY <1>1, <2>1, <2>2 DEF ScopePending, SourceAged, Dated
      <3>3. CASE Shown(f)
        BY <2>1, <3>3 DEF Shown
      <3>4. CASE Behind(scope.rt, f)
        <4>1. f \in pass'.todo \/ f \in givenUp'
          BY <2>1, <2>2, <3>2, <3>4 DEF Behind
        <4> QED
          BY <4>1 DEF Left
      <3> QED
        BY <3>1, <3>3, <3>4
    <2> QED
      BY <2>1, <2>2 DEF ShowInv, PassShown, ScopeShown
  <1>3. CASE Guard \/ PassFails
    <2>1. \/ /\ pass' = NoPass
             /\ scope' = NoScope \/ scope'.state \in {"localGone", "failed", "offline"}
          \/ pass'.step = "list" /\ pass' # NoPass
      BY <1>3, StopSound
    <2> QED
      BY <2>1, ShowEnds, Nothing
  <1>4. CASE List
    <2>1. /\ UNCHANGED <<local, deleted, source>> /\ pass' # NoPass
          /\ \A f \in Files : source[f].note # {} => f \in pass'.todo
      BY <1>4, ListSound DEF folder, remote
    <2>2. \A f \in Files : Shown(f)' \/ Left(f)'
      BY <2>1 DEF Shown, Left
    <2> QED
      BY <2>1, <2>2 DEF ShowInv, PassShown, ScopeShown
  <1>5. CASE Settle
    <2>1. /\ pass.step = "apply" /\ pass' = NoPass /\ UNCHANGED <<local, deleted, source, floor, givenUp>>
          /\ (pass.orphan => scope' = NoScope)
          /\ (~pass.orphan => \A f \in Files : Left(f) => source[f].version > scope'.rt.cursor
                                                  \/ (floor > scope'.rt.floor /\ floor > scope'.rt.cursor) \/ f \in givenUp)
      BY <1>5, SettleSound DEF folder, remote
    <2>2. CASE pass.orphan
      BY <2>1, <2>2, ShowEnds, Nothing
    <2>3. CASE ~pass.orphan
      <3>1. ASSUME NEW f \in Files PROVE Shown(f)' \/ Behind(scope.rt, f)'
        BY <1>1, <2>1, <2>3 DEF PassShown, Shown, Behind
      <3> QED
        BY <2>1, <3>1, Nothing DEF ShowInv, PassShown, ScopeShown
    <2> QED
      BY <2>2, <2>3
  <1> QED
    BY <1>2, <1>3, <1>4, <1>5

LEMMA AroundShow ==
    ASSUME IInv, IInv', EditInv, SourceMoves, ShowInv,
           \/ \E f \in Files : Edit(f) \/ PeerEdit(f) \/ PeerDelete(f) \/ PrimaryPath(f)
           \/ \E S \in SUBSET Files : Delete(S)
           \/ SourceReset \/ KeepRemoves \/ PrimaryPushed \/ Persist \/ UNCHANGED vars
    PROVE  ShowInv'
  <1>1. ASSUME UNCHANGED <<pass, scope>>, \A f \in Files : Shown(f) => Shown(f)' \/ source'[f].version > top PROVE ShowInv'
    BY <1>1, ShowStays
  <1>2. local \in Bases /\ deleted \in SUBSET Files /\ top \in Nat
        /\ (keeping # {} => pass = NoPass /\ (scope = NoScope \/ scope.force))
        /\ (~mount.on => scope = NoScope /\ pass = NoPass)
    BY Parts DEF Order
  <1>3. ASSUME NEW f \in Files, Edit(f) PROVE ShowInv'
    <2>1. /\ UNCHANGED <<deleted, source, pass>> /\ local' = [local EXCEPT ![f] = local[f] \cup {edits'}]
          /\ scope'.rt = scope.rt /\ scope'.state = scope.state /\ (scope' = NoScope <=> scope = NoScope)
          /\ (scope.force => scope'.force)
      BY <1>3, NudgedSound DEF Edit, remote
    <2>2. \A g \in Files : Shown(g) => Shown(g)'
      BY <1>2, <2>1 DEF Shown, Bases
    <2> QED
      BY <2>1, <2>2, ShowStays
  <1>4. ASSUME NEW S \in SUBSET Files, Delete(S) PROVE ShowInv'
    <2>1. /\ UNCHANGED <<source, pass>> /\ local' = [f \in Files |-> IF f \in S THEN {} ELSE local[f]] /\ deleted' = deleted \cup S
          /\ scope'.rt = scope.rt /\ scope'.state = scope.state /\ (scope' = NoScope <=> scope = NoScope)
          /\ (scope.force => scope'.force)
      BY <1>4, NudgedSound DEF Delete, remote
    <2>2. \A g \in Files : Shown(g) => Shown(g)'
      BY <2>1 DEF Shown
    <2> QED
      BY <2>1, <2>2, ShowStays
  <1>5. ASSUME NEW f \in Files, NEW note \in Notes, Written(f, note), UNCHANGED <<folder, pass, scope>> PROVE ShowInv'
    <2>1. source'[f].version = top + 1 /\ \A g \in Files \ {f} : source'[g] = source[g]
      BY <1>5, WrittenSound
    <2>2. \A g \in Files : Shown(g) => Shown(g)' \/ source'[g].version > top
      BY <1>2, <1>5, <2>1 DEF Shown, folder
    <2> QED
      BY <1>1, <1>5, <2>2
  <1>6. ASSUME NEW f \in Files, PeerEdit(f) PROVE ShowInv'
    <2>1. PICK e : e = edits + 1
      OBVIOUS
    <2>2. Written(f, source[f].note \cup {e}) /\ e \in 1 .. MaxEdits /\ UNCHANGED <<folder, pass, scope>>
      BY <1>6, <2>1, Parts, Bounds DEF PeerEdit
    <2>3. source[f].note \cup {e} \in Notes
      BY <2>2, Parts DEF Notes, Row
    <2> QED
      BY <1>5, <2>2, <2>3
  <1>7. ASSUME NEW f \in Files, PeerDelete(f) PROVE ShowInv'
    <2>1. Written(f, {}) /\ {} \in Notes /\ UNCHANGED <<folder, pass, scope>>
      BY <1>7 DEF PeerDelete, Notes
    <2> QED
      BY <1>5, <2>1
  <1>8. CASE SourceReset
    <2>1. UNCHANGED <<local, deleted, pass, scope>> /\ source' = [f \in Files |-> IF source[f].tomb THEN NoRow ELSE source[f]]
      BY <1>8 DEF SourceReset, folder
    <2>2. \A g \in Files : Shown(g) => Shown(g)'
      BY <2>1, Nothing DEF Shown
    <2> QED
      BY <1>1, <2>1, <2>2
  <1>9. CASE KeepRemoves \/ \E f \in Files : PrimaryPath(f)
    <2>1. pass = NoPass /\ (scope = NoScope \/ scope.force) /\ UNCHANGED <<pass, scope>>
      BY <1>2, <1>9 DEF KeepRemoves, PrimaryPath
    <2> QED
      BY <2>1, ShowEnds, Nothing
  <1>10. CASE PrimaryPushed \/ Persist \/ UNCHANGED vars
    <2>1. UNCHANGED <<local, deleted, source, pass, scope>>
      BY <1>10 DEF PrimaryPushed, Persist, vars, folder, remote
    <2>2. \A g \in Files : Shown(g) => Shown(g)'
      BY <2>1 DEF Shown
    <2> QED
      BY <1>1, <2>1, <2>2
  <1> QED
    BY <1>3, <1>4, <1>6, <1>7, <1>8, <1>9, <1>10

LEMMA CommandsShow ==
    ASSUME IInv, IInv', GuardInv, EditInv, SourceMoves, ShowInv, RacyMoves = {},
           \/ \E dir \in {"pull", "sync"} : AddMount(dir)
           \/ RemoveMount \/ ReinstateMount \/ UpdateMountDirection \/ Crash
           \/ \E q \in Points : FollowMountPointRename(q)
    PROVE  ShowInv'
  <1>1. ASSUME scope' = NoScope, pass' = NoPass PROVE ShowInv'
    BY <1>1, ShowEnds, Nothing
  <1>2. ASSUME NEW dir, AddMount(dir) PROVE ShowInv'
    <2>1. scope' = NoScope /\ pass' = NoPass
      BY <1>2, Parts DEF AddMount, Order
    <2> QED
      BY <1>1, <2>1
  <1>3. CASE Crash \/ \E q \in Points : FollowMountPointRename(q)
    <2>1. scope' = NoScope /\ pass' = NoPass
      BY <1>3 DEF Crash, FollowMountPointRename
    <2> QED
      BY <1>1, <2>1
  <1>4. CASE RemoveMount
    <2>1. scope' = NoScope /\ Dropped /\ pass = NoPass
      BY <1>4 DEF RemoveMount
    <2> QED
      BY <1>1, <2>1, DroppedSound
  <1>5. CASE ReinstateMount
    <2>1. scope' = NoScope /\ Dropped /\ scope.state = "localGone"
      BY <1>5 DEF ReinstateMount
    <2>2. pass = NoPass
      BY <2>1, Nothing DEF GuardInv
    <2> QED
      BY <1>1, <2>1, <2>2, DroppedSound
  <1>6. CASE UpdateMountDirection
    <2>1. scope' = NoScope /\ Dropped /\ UNCHANGED <<local, deleted, source>>
      BY <1>6 DEF UpdateMountDirection, folder, remote
    <2>2. CASE pass = NoPass
      BY <1>1, <2>1, <2>2, DroppedSound
    <2>3. CASE pass # NoPass
      <3>1. pass' = [pass EXCEPT !.orphan = TRUE] /\ pass' # NoPass
        BY <2>1, <2>3, DroppedSound DEF Dropped
      <3>2. pass'.top = pass.top /\ pass'.floor = pass.floor /\ pass'.failed = pass.failed /\ pass'.step = pass.step /\ pass'.todo = pass.todo
        BY <3>1, Parts DEF Passes
      <3>3. \A g \in Files : Shown(g) => Shown(g)'
        BY <2>1 DEF Shown
      <3> QED
        BY <2>1, <3>1, <3>2, <3>3, ShowStays
    <2> QED
      BY <2>2, <2>3
  <1> QED
    BY <1>2, <1>3, <1>4, <1>5, <1>6

LEMMA ShowStep ==
    ASSUME IInv, GuardInv, EditInv, BaseInv, ShowInv, RacyMoves = {}, [Next]_vars
    PROVE  ShowInv'
  <1>1. IInv' /\ SourceMoves
    BY Step, SourceStep DEF EditInv
  <1>2. CASE \/ \E f \in Files : Edit(f) \/ PeerEdit(f) \/ PeerDelete(f) \/ PrimaryPath(f)
             \/ \E S \in SUBSET Files : Delete(S)
             \/ SourceReset \/ KeepRemoves \/ PrimaryPushed \/ Persist \/ UNCHANGED vars
    BY <1>1, <1>2, AroundShow
  <1>3. CASE \/ \E dir \in {"pull", "sync"} : AddMount(dir)
             \/ RemoveMount \/ ReinstateMount \/ UpdateMountDirection \/ Crash
             \/ \E q \in Points : FollowMountPointRename(q)
    BY <1>1, <1>3, CommandsShow
  <1>4. CASE Begin \/ Guard \/ List \/ Settle \/ PassFails
    BY <1>1, <1>4, PassesShow
  <1>5. CASE \E f \in Files : Apply(f)
    BY <1>1, <1>5, ApplyShows
  <1>6. CASE \E f \in Files : ApplyRefused(f) \/ ApplyFails(f)
    BY <1>1, <1>6, FailedShows
  <1>7. CASE KeepRoMountEdits
    BY <1>7, KeeperSound, ShowEnds, Nothing
  <1>8. CASE AcceptBulkPushes \/ KeepBulkPushes
    <2>1. /\ pass = NoPass /\ scope # NoScope /\ UNCHANGED <<local, deleted, pass>>
          /\ scope'.rt.cursor = scope.rt.cursor /\ scope'.rt.floor = scope.rt.floor
          /\ scope'.state = scope.state /\ scope'.force = scope.force
          /\ \A f \in Files : source'[f] = source[f] \/ source'[f].note = local[f]
      BY <1>8, BulkSound
    <2>2. \A g \in Files : Shown(g) => Shown(g)'
      BY <2>1 DEF Shown
    <2> QED
      BY <1>1, <2>1, <2>2, ShowStays
  <1> QED
    BY <1>2, <1>3, <1>4, <1>5, <1>6, <1>7, <1>8, Zenon DEF Next, PassStep

\* A live mount whose cursor is the source's version shows every note of the source that the user has
\* not deleted and on which the retry budget is not spent.  Whatever else failed, was refused or moved
\* at the source during a pass stands before the cursor the pass leaves (advanceCursor and
\* holdForRetry in reconcile.ts), and no base that the passes rely on hides a
\* note that is not here, after commands, answers and restarts too.  The mount must not take a name
\* again that it has a state for: what it left there would come back with the name
\* (followMountPointRename).  The save of keepRoMountEdits must not be lost ("crashUnsaved").
THEOREM MountCompleteHolds ==
    ASSUME RacyMoves = {}, "crashUnsaved" \notin FaultKinds
    PROVE  Spec /\ [][FreshName]_vars => []MountComplete
  <1>1. Init => BaseInv /\ ShowInv
    <2> SUFFICES ASSUME Init PROVE BaseInv /\ ShowInv
      OBVIOUS
    <2>1. pass = NoPass /\ scope = NoScope /\ keeping = {} /\ disk.store = store /\ mount.point \in Points
          /\ \A q \in Points : store[q] = NoState
      BY InitIInv, Parts DEF Init
    <2>2. \A b \in LiveBases, f \in Files : b[f] = {}
      BY <2>1, Nothing DEF LiveBases
    <2>3. OffClean /\ BasesShown /\ KeepDropped
      BY <2>1, <2>2 DEF OffClean, BasesShown, KeepDropped, Shown
    <2>4. RowsShown /\ ShowInv
      BY <2>1, Nothing DEF RowsShown, ShowInv, PassShown, ScopeShown
    <2> QED
      BY <2>3, <2>4 DEF BaseInv
  <1>2. IInv /\ GuardInv /\ EditInv /\ BaseInv /\ ShowInv /\ [Next]_vars /\ [FreshName]_vars => BaseInv' /\ ShowInv'
    <2> SUFFICES ASSUME IInv, GuardInv, EditInv, BaseInv, ShowInv, [Next]_vars, [FreshName]_vars PROVE BaseInv' /\ ShowInv'
      OBVIOUS
    <2>1. FreshName
      BY DEF FreshName, vars, saved
    <2> QED
      BY <2>1, BaseStep, ShowStep
  <1>3. IInv /\ EditInv /\ ShowInv => MountComplete
    <2> SUFFICES ASSUME IInv, EditInv, ShowInv, pass = NoPass, scope.state = "live", ~scope.force, scope.rt.cursor = top, NEW f \in Files \ givenUp
                 PROVE  Shown(f)
      BY DEF MountComplete, Shown
    <2>1. scope # NoScope
      BY Nothing
    <2>2. Shown(f) \/ Behind(scope.rt, f)
      BY <2>1 DEF ShowInv, ScopeShown
    <2>3. top \in Nat /\ floor \in Nat /\ source[f].version \in Nat
      BY Numbers
    <2>4. source[f].version <= top /\ floor <= top
      BY DEF EditInv, SourceAged, Dated
    <2> QED
      BY <2>2, <2>3, <2>4 DEF Behind
  <1> QED
    BY <1>1, <1>2, <1>3, EditInvariant, PTL DEF Spec
=============================================================================
