--------------------------- MODULE ConfigProofs ---------------------------
(***************************************************************************)
(* Theorems about Config, for any files, plugins, edits, deletions,        *)
(* settings, resolutions and faults.                                       *)
(***************************************************************************)
EXTENDS Config, WellFoundedInduction, TLAPS

-----------------------------------------------------------------------------
(* Types *)

Passes == [step : {"none", "take", "list", "listWrite", "push", "pull", "write", "deleteRemote"}, mode : {"none", "delta", "scan", "full"},
           rows : [Files -> Row], top : Nat, todo : SUBSET Files, file : Files, note : Note, failed : SUBSET Nat]
Tasks  == [choice : {"none", "local", "remote"}, step : {"none", "start", "apply"}, note : Note, user : BOOLEAN, saw : Note]
Jobs   == [choice : {"none", "local", "remote"}, todo : SUBSET Files, group : SUBSET Files, clears : BOOLEAN, saw : [Files -> Note]]
Pilots == [asks : BOOLEAN, allow : SUBSET Plugins, shared : SUBSET Plugins, seen : SUBSET Plugins, installed : SUBSET Plugins,
           offered : SUBSET Plugins]
Authors == {"none", "me", "peer", "unknown"}

FileTypes ==
    /\ local \in [Files -> Note] /\ base \in [Files -> Note] /\ locked \in SUBSET Files /\ given \in Note /\ overrun \in Note
    /\ edits \in Nat /\ edits <= MaxEdits

ServerTypes ==
    /\ server \in [Files -> Row] /\ top \in Nat /\ cursor \in Nat /\ cursor <= top
    /\ \A f \in Files : server[f].version <= top

ChoiceTypes ==
    /\ on \in SUBSET Surfaces /\ allow \in SUBSET Plugins /\ conflicts \in SUBSET Files
    /\ surfaceDir \in [Surfaces -> Dirs] /\ pluginDir \in [Plugins -> Dirs]
    /\ wish \in [Plugins -> {"none", "on", "off"}] /\ hasty \in SUBSET Plugins

AutoTypes == known \in [Plugins -> Authors] /\ seen \in SUBSET Plugins /\ loaded \in SUBSET Plugins /\ pilot \in Pilots

\* No pass is ahead of the server.
PassTypes ==
    /\ pass \in Passes /\ pass.top <= top
    /\ \A f \in Files : pass.rows[f].version <= top
    /\ \A w \in pass.failed : w <= top

TaskTypes == task \in [Files -> Tasks] /\ job \in Jobs /\ job.todo \subseteq job.group

Types == FileTypes /\ ServerTypes /\ ChoiceTypes /\ AutoTypes /\ PassTypes /\ TaskTypes

LEMMA Bounds == MaxEdits \in Nat /\ List \in Files /\ Owner[List] = NoPlugin /\ NoPlugin \notin Plugins /\ Owner \in [Files -> Plugins \cup {NoPlugin}]
  BY ConfigAssumption

\* Nothing, of each type.
LEMMA Nothing ==
    /\ NoRow \in Row /\ NoRow.note = {} /\ NoRow.version = 0
    /\ NoPass \in Passes /\ NoPass.step = "none" /\ NoPass.mode = "none" /\ NoPass.top = 0 /\ NoPass.todo = {} /\ NoPass.failed = {}
    /\ \A f \in Files : NoPass.rows[f] = NoRow
    /\ NoTask \in Tasks /\ NoTask.step = "none" /\ NoTask.choice = "none"
    /\ NoJob \in Jobs /\ NoJob.todo = {} /\ NoJob.group = {}
    /\ NoPilot \in Pilots /\ NoPilot.asks = FALSE
  <1>1. NoRow \in Row /\ NoRow.note = {} /\ NoRow.version = 0
    BY DEF NoRow, Row, Note
  <1>2. PICK rows : rows = [f \in Files |-> NoRow]
    OBVIOUS
  <1>3. rows \in [Files -> Row] /\ \A f \in Files : rows[f] = NoRow
    BY <1>1, <1>2
  <1>4. NoPass = [step |-> "none", mode |-> "none", rows |-> rows, top |-> 0, todo |-> {}, file |-> List, note |-> {}, failed |-> {}]
    BY <1>2, Zenon DEF NoPass
  <1>5. /\ NoPass \in Passes /\ NoPass.step = "none" /\ NoPass.mode = "none" /\ NoPass.top = 0 /\ NoPass.todo = {}
        /\ NoPass.failed = {} /\ NoPass.rows = rows
    BY <1>3, <1>4, Bounds DEF Passes, Note
  <1>6. NoTask \in Tasks /\ NoTask.step = "none" /\ NoTask.choice = "none"
    BY DEF NoTask, Tasks, Note
  <1>7. NoJob \in Jobs /\ NoJob.todo = {} /\ NoJob.group = {}
    <2>1. PICK saw : saw = [f \in Files |-> {}]
      OBVIOUS
    <2>2. saw \in [Files -> Note]
      BY <2>1 DEF Note
    <2>3. NoJob = [choice |-> "none", todo |-> {}, group |-> {}, clears |-> FALSE, saw |-> saw]
      BY <2>1, Zenon DEF NoJob
    <2> QED
      BY <2>2, <2>3 DEF Jobs
  <1>8. NoPilot \in Pilots /\ NoPilot.asks = FALSE
    BY DEF NoPilot, Pilots
  <1> QED
    BY <1>1, <1>3, <1>5, <1>6, <1>7, <1>8

\* The version a pass goes back to.
LEMMA Earliest ==
    ASSUME NEW S \in SUBSET (Nat \ {0}), S # {}
    PROVE  Min(S) \in S /\ Min(S) - 1 \in Nat
  <1>1. \E m \in S : \A w \in S : m <= w
    <2> DEFINE Below == OpToRel(<, Nat)
    <2>1. IsWellFoundedOn(Below, Nat)
      BY NatLessThanWellFounded, Zenon
    <2>2. \A w, m \in Nat : w < m => <<w, m>> \in Below
      BY Zenon DEF OpToRel
    <2> HIDE DEF Below
    <2>3. PICK m \in S : \A w \in S : <<w, m>> \notin Below
      BY <2>1, WFMin
    <2>4. ASSUME NEW w \in S PROVE m <= w
      <3>1. ~(w < m)
        BY <2>2, <2>3, Zenon
      <3>2. w \in Nat /\ m \in Nat
        OBVIOUS
      <3> QED
        BY <3>1, <3>2
    <2> QED
      BY <2>4
  <1>2. Min(S) \in S
    BY <1>1, Zenon DEF Min
  <1>3. PICK m \in Nat \ {0} : m = Min(S)
    BY <1>2
  <1> QED
    BY <1>2, <1>3

\* What the decision says of the three notes.
LEMMA Decided ==
    ASSUME NEW l, NEW b, NEW r
    PROVE  LET d == Decision!Decide(l, b, r) IN
           /\ d \in {"inSync", "push", "deleteLocal", "keepLocal", "pull", "deleteRemote", "editWinsPull", "conflict", "merge"}
           /\ d = "inSync" => l = r
           /\ d = "push" => l # {} /\ b = r
           /\ d = "deleteLocal" => l # {} /\ r = {} /\ l = b
           /\ d = "keepLocal" => l # {} /\ r = {} /\ b # {}
           /\ d = "pull" => r # {} /\ l = b
           /\ d = "editWinsPull" => r # {}
           /\ d = "deleteRemote" => l = {} /\ r # {} /\ b = r
           /\ d = "conflict" => r # {}
           /\ d = "merge" => r # {}
  BY DEF Decision!Decide

\* The pass r is the one that runs, with f behind it.
Behind(r, f) ==
    /\ r \in Passes /\ r.step = "take" /\ r.mode = pass.mode /\ r.rows = pass.rows /\ r.top = pass.top
    /\ r.todo = pass.todo \ {f} /\ r.failed \subseteq pass.failed \cup {pass.rows[f].version}

LEMMA PassedSound ==
    ASSUME pass \in Passes, NEW f \in Files, NEW r, r = Passed(f) \/ r = Missed(f)
    PROVE  Behind(r, f)
  <1>1. PICK todo : todo = pass.todo \ {f}
    OBVIOUS
  <1>2. PICK p : p = [pass EXCEPT !.step = "take", !.todo = todo]
    OBVIOUS
  <1>3. Passed(f) = p
    BY <1>1, <1>2, Zenon DEF Passed
  <1>4. todo \in SUBSET Files
    BY <1>1 DEF Passes
  <1>5. p \in Passes /\ p.step = "take" /\ p.mode = pass.mode /\ p.rows = pass.rows /\ p.top = pass.top /\ p.todo = todo /\ p.failed = pass.failed
    BY <1>2, <1>4 DEF Passes
  <1>6. PICK failed : failed = IF pass.mode = "scan" THEN p.failed ELSE p.failed \cup {pass.rows[f].version}
    OBVIOUS
  <1>7. Missed(f) = [p EXCEPT !.failed = failed]
    BY <1>3, <1>6, Zenon DEF Missed
  <1>8. pass.rows[f].version \in Nat /\ pass.failed \in SUBSET Nat
    BY DEF Passes, Row
  <1>9. failed \in SUBSET Nat /\ failed \subseteq pass.failed \cup {pass.rows[f].version}
    BY <1>5, <1>6, <1>8
  <1>10. CASE r = Passed(f)
    BY <1>1, <1>3, <1>5, <1>10 DEF Behind
  <1>11. CASE r = Missed(f)
    <2>1. /\ r \in Passes /\ r.step = "take" /\ r.mode = p.mode /\ r.rows = p.rows /\ r.top = p.top
          /\ r.todo = p.todo /\ r.failed = failed
      BY <1>5, <1>7, <1>9, <1>11 DEF Passes
    <2> QED
      BY <1>1, <1>5, <1>9, <2>1 DEF Behind
  <1> QED
    BY <1>10, <1>11

\* What a step may rely on.
LEMMA Parts ==
    ASSUME Types
    PROVE  /\ local \in [Files -> Note] /\ base \in [Files -> Note] /\ locked \in SUBSET Files /\ given \in Note /\ overrun \in Note
           /\ edits \in Nat /\ edits <= MaxEdits
           /\ server \in [Files -> Row] /\ top \in Nat /\ cursor \in Nat /\ cursor <= top
           /\ \A f \in Files : server[f].version <= top /\ server[f] \in Row /\ server[f].note \in Note /\ server[f].version \in Nat
           /\ on \in SUBSET Surfaces /\ allow \in SUBSET Plugins /\ conflicts \in SUBSET Files
           /\ surfaceDir \in [Surfaces -> Dirs] /\ pluginDir \in [Plugins -> Dirs]
           /\ wish \in [Plugins -> {"none", "on", "off"}] /\ hasty \in SUBSET Plugins
           /\ known \in [Plugins -> Authors] /\ seen \in SUBSET Plugins /\ loaded \in SUBSET Plugins /\ pilot \in Pilots
           /\ pass \in Passes /\ pass.file \in Files /\ pass.todo \in SUBSET Files /\ pass.note \in Note /\ pass.top <= top
           /\ \A f \in Files : /\ pass.rows[f].version <= top /\ pass.rows[f] \in Row /\ pass.rows[f].note \in Note
                               /\ pass.rows[f].version \in Nat
           /\ pass.failed \in SUBSET Nat /\ \A w \in pass.failed : w <= top
           /\ task \in [Files -> Tasks] /\ job \in Jobs /\ job.todo \subseteq job.group
           /\ job.todo \in SUBSET Files /\ job.group \in SUBSET Files
           /\ \A f \in Files : task[f] \in Tasks /\ task[f].note \in Note /\ task[f].saw \in Note
           /\ FileTypes /\ ServerTypes /\ ChoiceTypes /\ AutoTypes /\ PassTypes /\ TaskTypes
  <1>1. FileTypes /\ ServerTypes /\ ChoiceTypes /\ AutoTypes /\ PassTypes /\ TaskTypes
    BY DEF Types
  <1>2. pass \in Passes /\ server \in [Files -> Row] /\ task \in [Files -> Tasks] /\ job \in Jobs
    BY <1>1 DEF PassTypes, ServerTypes, TaskTypes
  <1>3. pass.file \in Files /\ pass.todo \in SUBSET Files /\ pass.note \in Note /\ pass.rows \in [Files -> Row] /\ pass.failed \in SUBSET Nat
    BY <1>2 DEF Passes
  <1>4. \A r \in Row : r.note \in Note /\ r.version \in Nat
    BY DEF Row
  <1>5. \A f \in Files : server[f] \in Row /\ pass.rows[f] \in Row /\ task[f] \in Tasks
    BY <1>2, <1>3
  <1>6. \A t \in Tasks : t.note \in Note /\ t.saw \in Note
    BY DEF Tasks
  <1>7. job.todo \in SUBSET Files /\ job.group \in SUBSET Files
    BY <1>2 DEF Jobs
  <1> QED
    BY <1>1, <1>2, <1>3, <1>4, <1>5, <1>6, <1>7 DEF FileTypes, ServerTypes, ChoiceTypes, AutoTypes, PassTypes, TaskTypes

LEMMA ReadType == ASSUME Types, NEW f \in Files PROVE Read(f) \in Note /\ (Read(f) # {} => Read(f) = local[f]) /\ (f \notin locked => Read(f) = local[f])
  BY Parts DEF Read, Note

\* A write to the server.
LEMMA WrittenSound ==
    ASSUME Types, NEW f \in Files, NEW note \in Note, NEW author \in {"me", "peer"}, Written(f, note, author)
    PROVE  /\ server' \in [Files -> Row] /\ top' = top + 1 /\ top' \in Nat /\ top <= top'
           /\ server'[f].note = note /\ server'[f].version = top + 1
           /\ \A g \in Files \ {f} : server'[g] = server[g]
           /\ \A g \in Files : server'[g].version <= top'
           /\ cursor' = cursor => ServerTypes'
  <1>1. PICK row : row = [note |-> note, version |-> top + 1, author |-> author]
    OBVIOUS
  <1>2. top \in Nat /\ cursor \in Nat /\ cursor <= top /\ server \in [Files -> Row]
        /\ \A g \in Files : server[g].version <= top /\ server[g].version \in Nat
    BY Parts
  <1>3. row \in Row /\ row.note = note /\ row.version = top + 1
    BY <1>1, <1>2 DEF Row
  <1>4. top' = top + 1 /\ server' = [server EXCEPT ![f] = row]
    BY <1>1 DEF Written
  <1>5. server' \in [Files -> Row] /\ server'[f] = row /\ \A g \in Files \ {f} : server'[g] = server[g]
    BY <1>2, <1>3, <1>4
  <1>6. top' \in Nat /\ top <= top' /\ \A w \in Nat : w <= top => w <= top'
    BY <1>2, <1>4
  <1>7. \A g \in Files : server'[g].version <= top'
    BY <1>2, <1>3, <1>4, <1>5, <1>6
  <1> QED
    BY <1>2, <1>3, <1>4, <1>5, <1>6, <1>7 DEF ServerTypes

LEMMA ServerStays == ASSUME Types, UNCHANGED <<server, top, cursor>> PROVE ServerTypes' /\ top' \in Nat /\ top <= top'
  BY Parts DEF ServerTypes

\* A new edit.
LEMMA MakeSound ==
    ASSUME Types, Make, NEW f, NEW note \in Note
    PROVE  /\ edits' = edits + 1 /\ edits' \in Nat /\ edits' <= MaxEdits
           /\ Edited(f, note) \in Note /\ edits' \in Edited(f, note)
  BY Parts, Bounds DEF Make, Edited, Note

\* What nobody need find any more.
Lost == given \cup overrun

LEMMA GivenUpSound ==
    ASSUME Types, NEW old \in Note, NEW new, GivenUp(old, new)
    PROVE  given' \in Note /\ overrun' \in Note /\ Lost \subseteq Lost' /\ old \subseteq Lost' \cup new
  BY Parts DEF GivenUp, Note, Lost

LEMMA ReplacedSound ==
    ASSUME Types, NEW saw, NEW old \in Note, NEW new, Replaced(saw, old, new)
    PROVE  given' \in Note /\ overrun' \in Note /\ Lost \subseteq Lost' /\ old \subseteq Lost' \cup new
  BY Parts DEF Replaced, Note, Lost

\* The pass goes on while the server does.
LEMMA PassStays ==
    ASSUME Types, top' \in Nat, top <= top', pass' = pass \/ pass' = NoPass \/ \E f \in Files : Behind(pass', f)
    PROVE  PassTypes'
  <1>1. top \in Nat /\ \A w \in Nat : w <= top => w <= top'
    BY Parts
  <1>2. CASE pass' = NoPass
    BY <1>1, <1>2, Nothing DEF PassTypes
  <1>3. pass \in Passes /\ pass.top \in Nat
    BY Parts DEF Passes
  <1>4. CASE pass' = pass
    BY <1>1, <1>3, <1>4, Parts DEF PassTypes
  <1>5. ASSUME NEW f \in Files, Behind(pass', f) PROVE PassTypes'
    <2>1. pass' \in Passes /\ pass'.rows = pass.rows /\ pass'.top = pass.top /\ pass'.failed \subseteq pass.failed \cup {pass.rows[f].version}
      BY <1>5 DEF Behind
    <2>2. \A w \in pass'.failed : w \in Nat /\ w <= top
      BY <2>1, Parts
    <2> QED
      BY <1>1, <1>3, <2>1, <2>2, Parts DEF PassTypes
  <1> QED
    BY <1>2, <1>4, <1>5

\* A pass comes to a file.
Gone(s, f, row) == [pass EXCEPT !.step = s, !.file = f, !.note = Read(f), !.rows[f] = row]

LEMMA GoSound ==
    ASSUME Types, NEW f \in Files, NEW row \in Row, row.version <= top, NEW s \in {"list", "push", "pull", "write", "deleteRemote"},
           NEW r, r = Gone(s, f, row)
    PROVE  /\ r \in Passes /\ r.step = s /\ r.file = f /\ r.note = Read(f) /\ r.rows[f] = row
           /\ (\A g \in Files \ {f} : r.rows[g] = pass.rows[g]) /\ r.mode = pass.mode /\ r.todo = pass.todo
           /\ r.top = pass.top /\ r.failed = pass.failed
  <1>1. PICK rows : rows = [pass.rows EXCEPT ![f] = row]
    OBVIOUS
  <1>2. PICK note \in Note : note = Read(f)
    BY ReadType
  <1>3. r = [pass EXCEPT !.step = s, !.file = f, !.note = note, !.rows = rows]
    BY <1>1, <1>2, Zenon DEF Gone
  <1>4. pass \in Passes /\ pass.rows \in [Files -> Row]
    BY Parts DEF Passes
  <1>5. rows \in [Files -> Row] /\ rows[f] = row /\ \A g \in Files \ {f} : rows[g] = pass.rows[g]
    BY <1>1, <1>4
  <1>6. /\ r \in Passes /\ r.step = s /\ r.file = f /\ r.note = note /\ r.rows = rows /\ r.mode = pass.mode
        /\ r.todo = pass.todo /\ r.top = pass.top /\ r.failed = pass.failed
    BY <1>3, <1>4, <1>5 DEF Passes
  <1> QED
    BY <1>2, <1>5, <1>6

LEMMA RowOfSound == ASSUME Types, NEW f \in Files PROVE RowOf(f) \in Row /\ RowOf(f).version <= top
  BY Parts DEF RowOf

\* What a task becomes.
LEMMA TaskSet ==
    ASSUME Types, NEW f \in Files, NEW t \in Tasks, task' = [task EXCEPT ![f] = t]
    PROVE  task' \in [Files -> Tasks] /\ task'[f] = t /\ \A g \in Files \ {f} : task'[g] = task[g]
  BY Parts

LEMMA AuthorType == ASSUME Types, NEW p PROVE AuthorOf(p) \in Authors
  <1>1. CASE OnServer(p) = {} \/ OnServer(p) \cap Code = {}
    BY <1>1 DEF AuthorOf, Authors
  <1>2. CASE OnServer(p) \cap Code # {}
    <2>1. PICK f : f = CHOOSE g \in OnServer(p) : g \in Code
      OBVIOUS
    <2>2. f \in Files
      BY <1>2, <2>1 DEF OnServer
    <2>3. server[f].author \in {"me", "peer"}
      BY <2>2, Parts DEF Row
    <2>4. AuthorOf(p) = server[f].author
      BY <1>2, <2>1, Zenon DEF AuthorOf
    <2> QED
      BY <2>3, <2>4 DEF Authors
  <1> QED
    BY <1>1, <1>2

\* The autopilot goes by what it read: of what it had seen then, it adopts nothing new.
LEMMA AdoptedSound ==
    ASSUME Types, NEW r \in Pilots, NEW authors, NEW private, Adopted(r, authors, private)
    PROVE  /\ allow' \in SUBSET Plugins /\ pluginDir' \in [Plugins -> Dirs] /\ seen' \in SUBSET Plugins /\ pilot' = NoPilot
           /\ r.seen \subseteq seen' /\ (allow' = allow \/ allow' \cap r.seen \subseteq r.allow \cup r.shared)
  <1>1. PICK mine : mine = {p \in r.offered \ (r.allow \cup r.shared) :
                               authors[p] = "me" \/ (authors[p] \in {"unknown", "none"} /\ private)}
    OBVIOUS
  <1>2. PICK taken : taken = mine \ r.seen
    OBVIOUS
  <1>3. /\ allow' = IF r.shared \cup taken = {} THEN allow ELSE r.allow \cup r.shared \cup taken
        /\ pluginDir' = [p \in Plugins |-> IF p \in taken THEN "download" ELSE IF p \in r.shared THEN "upload" ELSE pluginDir[p]]
        /\ seen' = r.seen \cup mine \cup r.installed
        /\ pilot' = NoPilot
    BY <1>1, <1>2, Zenon DEF Adopted
  <1>4. /\ r.allow \in SUBSET Plugins /\ r.shared \in SUBSET Plugins /\ r.seen \in SUBSET Plugins /\ r.installed \in SUBSET Plugins
        /\ r.offered \in SUBSET Plugins
    BY DEF Pilots
  <1>5. mine \in SUBSET Plugins
    BY <1>1, <1>4
  <1>6. pluginDir \in [Plugins -> Dirs] /\ allow \in SUBSET Plugins
    BY Parts
  <1>7. pluginDir' \in [Plugins -> Dirs]
    BY <1>3, <1>6 DEF Dirs
  <1>8. allow' \in SUBSET Plugins /\ seen' \in SUBSET Plugins /\ r.seen \subseteq seen'
    BY <1>2, <1>3, <1>4, <1>5, <1>6
  <1>9. allow' = allow \/ allow' \cap r.seen \subseteq r.allow \cup r.shared
    BY <1>2, <1>3
  <1> QED
    BY <1>3, <1>7, <1>8, <1>9

\* The autopilot waits with what it read, does nothing, or ends: then it touches no plugin it has seen.
LEMMA AutopilotSound ==
    ASSUME Types, NEW authors, RunPluginAutopilot(authors)
    PROVE  /\ allow' \in SUBSET Plugins /\ pluginDir' \in [Plugins -> Dirs] /\ seen' \in SUBSET Plugins /\ pilot' \in Pilots
           /\ \/ UNCHANGED <<allow, seen, pilot>>
              \/ pilot' = NoPilot /\ seen \subseteq seen' /\ allow' \cap seen \subseteq allow
              \/ /\ UNCHANGED <<allow, seen>> /\ pilot'.allow = allow /\ pilot'.seen = seen /\ pilot'.shared \cap seen = {}
  <1>1. PICK offered : offered = {p \in Plugins : authors[p] # "none"}
    OBVIOUS
  <1>2. PICK r : r = [asks |-> TRUE, allow |-> allow, shared |-> Shared, seen |-> seen, installed |-> loaded, offered |-> offered]
    OBVIOUS
  <1>3. /\ pluginDir \in [Plugins -> Dirs] /\ allow \in SUBSET Plugins /\ seen \in SUBSET Plugins /\ loaded \in SUBSET Plugins
        /\ pilot \in Pilots /\ offered \in SUBSET Plugins
    BY <1>1, Parts
  <1>4. Shared \in SUBSET Plugins /\ Shared \cap seen = {}
    BY <1>3 DEF Shared
  <1>5. r \in Pilots /\ r.allow = allow /\ r.shared = Shared /\ r.seen = seen
    BY <1>2, <1>3, <1>4 DEF Pilots
  <1>6. \/ UNCHANGED <<allow, pluginDir, seen, pilot>>
        \/ Adopted(r, authors, FALSE)
        \/ /\ pilot' = r
           /\ pluginDir' = [p \in Plugins |-> IF p \in Shared THEN "upload" ELSE pluginDir[p]]
           /\ UNCHANGED <<allow, seen>>
    BY <1>1, <1>2, Zenon DEF RunPluginAutopilot
  <1>7. CASE UNCHANGED <<allow, pluginDir, seen, pilot>>
    BY <1>3, <1>7
  <1>8. CASE Adopted(r, authors, FALSE)
    <2>1. /\ allow' \in SUBSET Plugins /\ pluginDir' \in [Plugins -> Dirs] /\ seen' \in SUBSET Plugins /\ pilot' = NoPilot
          /\ r.seen \subseteq seen' /\ (allow' = allow \/ allow' \cap r.seen \subseteq r.allow \cup r.shared)
      BY <1>5, <1>8, AdoptedSound
    <2>2. allow' \cap seen \subseteq allow
      BY <1>4, <1>5, <2>1
    <2> QED
      BY <1>5, <2>1, <2>2, Nothing
  <1>9. CASE /\ pilot' = r
             /\ pluginDir' = [p \in Plugins |-> IF p \in Shared THEN "upload" ELSE pluginDir[p]]
             /\ UNCHANGED <<allow, seen>>
    <2>1. pluginDir' \in [Plugins -> Dirs]
      BY <1>3, <1>9 DEF Dirs
    <2> QED
      BY <1>3, <1>4, <1>5, <1>9, <2>1
  <1> QED
    BY <1>6, <1>7, <1>8, <1>9

\* What a step leaves alone keeps its type.
LEMMA Stays ==
    ASSUME Types
    PROVE  /\ UNCHANGED <<local, base, locked, given, overrun, edits>> => FileTypes'
           /\ UNCHANGED <<on, allow, conflicts, surfaceDir, pluginDir, wish, hasty>> => ChoiceTypes'
           /\ UNCHANGED <<known, seen, loaded, pilot>> => AutoTypes'
           /\ UNCHANGED <<task, job>> => TaskTypes'
  BY Parts DEF FileTypes, ChoiceTypes, AutoTypes, TaskTypes

LEMMA EditTypes == ASSUME Types, NEW f \in Files, Edit(f) PROVE Types'
  <1>1. PICK note : note = Edited(f, local[f])
    OBVIOUS
  <1>2. local[f] \in Note
    BY Parts
  <1>3. note \in Note /\ edits' \in Nat /\ edits' <= MaxEdits
    BY <1>1, <1>2, MakeSound DEF Edit
  <1>4. local' = [local EXCEPT ![f] = note]
    BY <1>1, Zenon DEF Edit
  <1>5. GivenUp(local[f], local'[f])
    BY DEF Edit
  <1>6. given' \in Note /\ overrun' \in Note
    BY <1>2, <1>5, GivenUpSound
  <1>7. FileTypes'
    BY <1>3, <1>4, <1>6, Parts DEF FileTypes, Edit
  <1>8. ServerTypes' /\ top' \in Nat /\ top <= top'
    BY ServerStays DEF Edit
  <1>9. PassTypes'
    BY <1>8, PassStays DEF Edit, flying
  <1>10. AutoTypes'
    BY Parts DEF AutoTypes, Edit
  <1> QED
    BY <1>7, <1>8, <1>9, <1>10, Stays DEF Types, Edit, choices, flying

LEMMA DropTypes == ASSUME Types, (\E f \in Files : Delete(f)) \/ \E e \in 1 .. MaxEdits : Disable(e) PROVE Types'
  <1>1. PICK f \in Files, note \in Note : local' = [local EXCEPT ![f] = note]
    <2>1. CASE \E f \in Files : Delete(f)
      BY <2>1 DEF Delete, Note
    <2>2. CASE \E e \in 1 .. MaxEdits : Disable(e)
      BY <2>2, Parts, Bounds DEF Disable, Note
    <2> QED
      BY <2>1, <2>2
  <1>2. given' \in Note /\ overrun' \in Note
    BY Parts DEF Delete, Disable, GivenUp, Note
  <1>3. UNCHANGED <<locked, server, top, base, cursor, choices, conflicts, flying, known, seen, pilot, faults, edits, moves>>
    BY DEF Delete, Disable, auto
  <1>4. FileTypes'
    BY <1>1, <1>2, <1>3, Parts DEF FileTypes
  <1>5. ServerTypes' /\ top' \in Nat /\ top <= top'
    BY <1>3, ServerStays
  <1>6. PassTypes'
    BY <1>3, <1>5, PassStays DEF flying
  <1>7. AutoTypes'
    <2>1. loaded' \in SUBSET Plugins
      BY Parts DEF Delete, Disable, auto
    <2> QED
      BY <1>3, <2>1, Parts DEF AutoTypes
  <1> QED
    BY <1>3, <1>4, <1>5, <1>6, <1>7, Stays DEF Types, choices, flying

LEMMA PeerEditTypes == ASSUME Types, NEW f \in Files, NEW author \in {"me", "peer"}, PeerEdit(f, author) PROVE Types'
  <1>1. PICK note : note = Edited(f, server[f].note)
    OBVIOUS
  <1>2. server[f].note \in Note
    BY Parts
  <1>3. note \in Note /\ edits' \in Nat /\ edits' <= MaxEdits
    BY <1>1, <1>2, MakeSound DEF PeerEdit
  <1>4. Written(f, note, author)
    BY <1>1, Zenon DEF PeerEdit
  <1>5. GivenUp(server[f].note, server'[f].note)
    BY DEF PeerEdit
  <1>6. given' \in Note /\ overrun' \in Note
    BY <1>2, <1>5, GivenUpSound
  <1>7. FileTypes'
    BY <1>3, <1>6, Parts DEF FileTypes, PeerEdit
  <1>8. ServerTypes' /\ top' \in Nat /\ top <= top'
    BY <1>3, <1>4, WrittenSound DEF PeerEdit
  <1>9. PassTypes'
    BY <1>8, PassStays DEF PeerEdit, flying
  <1> QED
    BY <1>7, <1>8, <1>9, Stays DEF Types, PeerEdit, choices, flying, auto

LEMMA PeerDeleteTypes == ASSUME Types, NEW f \in Files, PeerDelete(f) PROVE Types'
  <1>1. PICK left \in IF f = List THEN {server[f].note \ {e} : e \in server[f].note} ELSE {{}} :
            Written(f, left, "me") /\ GivenUp(server[f].note, left)
    BY DEF PeerDelete
  <1>2. server[f].note \in Note
    BY Parts
  <1>3. left \in Note
    BY <1>1, <1>2 DEF Note
  <1>6. given' \in Note /\ overrun' \in Note
    BY <1>1, <1>2, GivenUpSound
  <1>7. FileTypes'
    BY <1>6, Parts DEF FileTypes, PeerDelete
  <1>8. ServerTypes' /\ top' \in Nat /\ top <= top'
    BY <1>1, <1>3, WrittenSound DEF PeerDelete
  <1>9. PassTypes'
    BY <1>8, PassStays DEF PeerDelete, flying
  <1> QED
    BY <1>7, <1>8, <1>9, Stays DEF Types, PeerDelete, choices, flying, auto

\* Locks, settings, a restart, a pass that fails, the loop of the user, the autopilot.
LEMMA AsideTypes ==
    ASSUME Types,
           \/ \E f \in Files : Lock(f)
           \/ Unlock \/ Restart \/ PassFails \/ JobEnds \/ SettingsTab \/ PilotEnds
           \/ \E s \in Surfaces, dir \in Dirs : SetConfigSurface(s, dir)
           \/ \E p \in Plugins, tick \in BOOLEAN : SetPluginSync(p, tick)
           \/ \E f \in Files, choice \in {"local", "remote"} : ResolveConfigGroup(f, choice)
           \/ \E p \in Plugins, choice \in {"local", "remote"} : ForcePlugin(p, choice)
    PROVE  Types'
  <1>1. UNCHANGED <<local, base, given, overrun, edits, server, top, cursor>> /\ (pass' = pass \/ pass' = NoPass)
    BY DEF Lock, Unlock, Restart, PassFails, JobEnds, SettingsTab, PilotEnds, SetConfigSurface, SetPluginSync, ResolveConfigGroup,
           ForcePlugin, files, flying, bounds
  <1>2. ServerTypes' /\ top' \in Nat /\ top <= top'
    BY <1>1, ServerStays
  <1>3. PassTypes'
    BY <1>1, <1>2, PassStays
  <1>4. CASE (\E f \in Files : Lock(f)) \/ Unlock
    <2>1. locked' \in SUBSET Files /\ UNCHANGED <<choices, conflicts, flying, auto>>
      BY <1>4, Parts DEF Lock, Unlock
    <2>2. FileTypes'
      BY <1>1, <2>1, Parts DEF FileTypes
    <2> QED
      BY <1>2, <1>3, <2>1, <2>2, Stays DEF Types, choices, flying, auto
  <1>5. ASSUME UNCHANGED locked PROVE FileTypes'
    BY <1>1, <1>5, Stays
  <1>6. CASE Restart
    <2>1. PICK dirs : dirs = [s \in Surfaces |-> "none"]
      OBVIOUS
    <2>2. surfaceDir' \in [Surfaces -> Dirs] /\ known' \in [Plugins -> Authors] /\ loaded' \in SUBSET Plugins /\ pilot' \in Pilots
      BY <1>6, <2>1, Nothing DEF Restart, Dirs, Authors, OnDisk
    <2>3. task' \in [Files -> Tasks] /\ job' = NoJob
      BY <1>6, Nothing DEF Restart
    <2>4. UNCHANGED <<files, on, allow, pluginDir, wish, hasty, conflicts, seen>>
      BY <1>6 DEF Restart
    <2>5. ChoiceTypes' /\ AutoTypes'
      BY <2>2, <2>4, Parts DEF ChoiceTypes, AutoTypes
    <2>6. TaskTypes'
      BY <2>3, Nothing DEF TaskTypes
    <2> QED
      BY <1>2, <1>3, <1>5, <2>4, <2>5, <2>6 DEF Types, files
  <1>7. CASE PassFails
    BY <1>2, <1>3, <1>5, <1>7, Stays DEF PassFails, Types, files, choices, auto
  <1>8. CASE JobEnds
    <2>1. conflicts' \in SUBSET Files /\ job' = NoJob /\ UNCHANGED <<files, choices, task, auto>>
      BY <1>8, Parts DEF JobEnds
    <2>2. ChoiceTypes'
      BY <2>1, Parts DEF ChoiceTypes, choices
    <2>3. TaskTypes'
      BY <2>1, Parts, Nothing DEF TaskTypes
    <2> QED
      BY <1>2, <1>3, <1>5, <2>1, <2>2, <2>3, Stays DEF Types, files, auto
  <1>9. CASE SettingsTab \/ PilotEnds
    <2>1. UNCHANGED <<files, on, surfaceDir, wish, hasty, conflicts, flying, known, loaded>>
      BY <1>9 DEF SettingsTab, PilotEnds
    <2>2. allow' \in SUBSET Plugins /\ pluginDir' \in [Plugins -> Dirs] /\ seen' \in SUBSET Plugins /\ pilot' \in Pilots
      <3>1. CASE SettingsTab
        BY <3>1, AutopilotSound DEF SettingsTab
      <3>2. CASE PilotEnds
        <4>1. PICK private : Adopted(pilot, known, private)
          BY <3>2 DEF PilotEnds
        <4>2. pilot \in Pilots
          BY Parts
        <4> QED
          BY <4>1, <4>2, AdoptedSound, Nothing
      <3> QED
        BY <1>9, <3>1, <3>2
    <2>3. ChoiceTypes' /\ AutoTypes'
      BY <2>1, <2>2, Parts DEF ChoiceTypes, AutoTypes
    <2> QED
      BY <1>2, <1>3, <1>5, <2>1, <2>3, Stays DEF Types, files, flying
  <1>10. ASSUME NEW s \in Surfaces, NEW dir \in Dirs, SetConfigSurface(s, dir) PROVE Types'
    <2>1. on' \in SUBSET Surfaces /\ surfaceDir' \in [Surfaces -> Dirs]
      BY <1>10, Parts DEF SetConfigSurface
    <2>2. UNCHANGED <<files, allow, pluginDir, wish, hasty, conflicts, flying, auto>>
      BY <1>10 DEF SetConfigSurface
    <2>3. ChoiceTypes'
      BY <2>1, <2>2, Parts DEF ChoiceTypes
    <2> QED
      BY <1>2, <1>3, <1>5, <2>2, <2>3, Stays DEF Types, files, flying, auto
  <1>11. ASSUME NEW p \in Plugins, NEW tick \in BOOLEAN, SetPluginSync(p, tick) PROVE Types'
    <2>1. PICK dir : dir = IF surfaceDir["community"] = "none" THEN "download" ELSE surfaceDir["community"]
      OBVIOUS
    <2>2. dir \in Dirs
      BY <2>1, Parts DEF Dirs, Surfaces
    <2>3. PICK said : said = IF tick THEN "on" ELSE "off"
      OBVIOUS
    <2>4. /\ allow' = IF tick THEN allow \cup {p} ELSE allow \ {p}
          /\ wish' = [wish EXCEPT ![p] = said]
          /\ pluginDir' = IF ~tick THEN pluginDir ELSE [pluginDir EXCEPT ![p] = dir]
      BY <1>11, <2>1, <2>3, Zenon DEF SetPluginSync
    <2>5. allow' \in SUBSET Plugins /\ wish' \in [Plugins -> {"none", "on", "off"}] /\ pluginDir' \in [Plugins -> Dirs]
      BY <2>2, <2>3, <2>4, Parts
    <2>8. hasty' \in SUBSET Plugins
      BY <1>11, Parts DEF SetPluginSync
    <2>6. UNCHANGED <<files, on, surfaceDir, conflicts, flying, auto>>
      BY <1>11 DEF SetPluginSync
    <2>7. ChoiceTypes'
      BY <2>5, <2>6, <2>8, Parts DEF ChoiceTypes
    <2> QED
      BY <1>2, <1>3, <1>5, <2>6, <2>7, Stays DEF Types, files, flying, auto
  <1>12. ASSUME NEW group \in SUBSET Files, NEW choice \in {"local", "remote"}, NEW clears \in BOOLEAN,
                job' = [choice |-> choice, todo |-> group, group |-> group, clears |-> clears, saw |-> Seen(choice)],
                UNCHANGED <<files, choices, conflicts, pass, task, auto>>
         PROVE  Types'
    <2>1. job' \in Jobs /\ job'.todo = group /\ job'.group = group
      <3>1. PICK saw : saw = Seen(choice)
        OBVIOUS
      <3>2. saw \in [Files -> Note]
        BY <3>1, Parts DEF Seen
      <3>3. job' = [choice |-> choice, todo |-> group, group |-> group, clears |-> clears, saw |-> saw]
        BY <1>12, <3>1, Zenon
      <3> QED
        BY <1>12, <3>2, <3>3 DEF Jobs
    <2>2. TaskTypes'
      BY <1>12, <2>1, Parts DEF TaskTypes
    <2> QED
      BY <1>2, <1>3, <1>5, <1>12, <2>2, Stays DEF Types, files, choices, auto
  <1>13. ASSUME NEW f \in Files, NEW choice \in {"local", "remote"}, ResolveConfigGroup(f, choice) PROVE Types'
    <2>1. PICK group \in SUBSET conflicts : job' = [choice |-> choice, todo |-> group, group |-> group, clears |-> TRUE, saw |-> Seen(choice)]
      BY <1>13 DEF ResolveConfigGroup
    <2>2. group \in SUBSET Files
      BY <2>1, Parts
    <2> QED
      BY <1>12, <1>13, <2>1, <2>2 DEF ResolveConfigGroup
  <1>14. ASSUME NEW p \in Plugins, NEW choice \in {"local", "remote"}, ForcePlugin(p, choice) PROVE Types'
    <2>1. PICK group \in SUBSET Files : job' = [choice |-> choice, todo |-> group, group |-> group, clears |-> FALSE, saw |-> Seen(choice)]
      BY <1>14 DEF ForcePlugin
    <2> QED
      BY <1>12, <1>14, <2>1 DEF ForcePlugin
  <1> QED
    BY <1>4, <1>6, <1>7, <1>8, <1>9, <1>10, <1>11, <1>13, <1>14

\* A pass that begins knows the server as it is, or nothing of it.
BeginsAs(r) ==
    /\ r \in Passes /\ r.step = "take" /\ r.failed = {}
    /\ \/ r.mode = "scan" /\ r.top <= top /\ \A f \in Files : r.rows[f] = NoRow
       \/ r.mode # "scan" /\ r.top = top /\ r.rows = server

LEMMA BeginSound ==
    ASSUME Types, (\E mode \in {"delta", "scan", "full"} : Begin(mode)) \/ \E f \in Files : RawConfigEvent(f)
    PROVE  BeginsAs(pass') /\ (pass'.mode = "scan" => List \notin pass'.todo \/ Read(List) # base[List])
  <1>1. NoPass \in Passes /\ NoPass.failed = {} /\ NoPass.top = 0 /\ \A f \in Files : NoPass.rows[f] = NoRow
    BY Nothing
  <1>2. top \in Nat /\ server \in [Files -> Row]
    BY Parts
  <1>3. ASSUME NEW mode \in {"delta", "scan", "full"}, Begin(mode)
        PROVE  BeginsAs(pass') /\ (pass'.mode = "scan" => List \notin pass'.todo \/ Read(List) # base[List])
    <2>1. PICK todo : todo = CASE mode = "delta" -> {f \in Files : server[f].version > cursor}
                               [] mode = "scan"  -> {f \in Files : Accepts(f) /\ Read(f) # base[f]}
                               [] mode = "full"  -> Files
      OBVIOUS
    <2>2. todo \in SUBSET Files
      BY <1>3, <2>1
    <2>3. mode = "scan" => List \notin todo \/ Read(List) # base[List]
      BY <2>1
    <2>4. PICK rows : rows = IF mode = "scan" THEN NoPass.rows ELSE server
      OBVIOUS
    <2>5. pass' = [NoPass EXCEPT !.step = "take", !.mode = mode, !.top = top, !.todo = todo, !.rows = rows]
      BY <1>3, <2>1, <2>4, Zenon DEF Begin
    <2>6. rows \in [Files -> Row]
      BY <1>1, <1>2, <2>4 DEF Passes
    <2>7. /\ pass' \in Passes /\ pass'.step = "take" /\ pass'.mode = mode /\ pass'.top = top /\ pass'.todo = todo /\ pass'.rows = rows
          /\ pass'.failed = NoPass.failed
      BY <1>1, <1>2, <2>2, <2>5, <2>6 DEF Passes
    <2> QED
      BY <1>1, <1>2, <2>3, <2>4, <2>7 DEF BeginsAs
  <1>4. ASSUME NEW f \in Files, RawConfigEvent(f)
        PROVE  BeginsAs(pass') /\ (pass'.mode = "scan" => List \notin pass'.todo \/ Read(List) # base[List])
    <2>1. PICK todo \in SUBSET Files : todo = {f}
      OBVIOUS
    <2>2. pass' = [NoPass EXCEPT !.step = "take", !.mode = "scan", !.todo = todo] /\ Read(f) # base[f]
      BY <1>4, <2>1, Zenon DEF RawConfigEvent
    <2>3. /\ pass' \in Passes /\ pass'.step = "take" /\ pass'.mode = "scan" /\ pass'.top = NoPass.top /\ pass'.todo = todo
          /\ pass'.rows = NoPass.rows /\ pass'.failed = NoPass.failed
      BY <1>1, <2>2 DEF Passes
    <2> QED
      BY <1>1, <1>2, <2>1, <2>2, <2>3 DEF BeginsAs
  <1> QED
    BY <1>3, <1>4

LEMMA BeginTypes ==
    ASSUME Types, (\E mode \in {"delta", "scan", "full"} : Begin(mode)) \/ \E f \in Files : RawConfigEvent(f)
    PROVE  Types'
  <1>1. BeginsAs(pass')
    BY BeginSound
  <1>2. UNCHANGED <<files, on, surfaceDir, wish, hasty, conflicts, task, job, loaded, bounds>>
    BY DEF Begin, RawConfigEvent, choices, auto
  <1>3. PassTypes'
    BY <1>1, <1>2, Parts, Nothing DEF PassTypes, BeginsAs, files
  <1>4. ServerTypes' /\ FileTypes'
    BY <1>2, ServerStays, Stays DEF files, bounds
  <1>5. /\ allow' \in SUBSET Plugins /\ pluginDir' \in [Plugins -> Dirs]
        /\ known' \in [Plugins -> Authors] /\ seen' \in SUBSET Plugins /\ pilot' \in Pilots
    <2>1. CASE UNCHANGED <<known, allow, pluginDir, seen, pilot>>
      BY <2>1, Parts
    <2>2. CASE known' = [p \in Plugins |-> AuthorOf(p)] /\ RunPluginAutopilot(known')
      <3>1. known' \in [Plugins -> Authors]
        BY <2>2, AuthorType
      <3>2. PICK authors : authors = known'
        OBVIOUS
      <3>3. RunPluginAutopilot(authors)
        BY <2>2, <3>2
      <3> QED
        BY <3>1, <3>3, AutopilotSound
    <2> QED
      BY <2>1, <2>2 DEF Begin, RawConfigEvent, choices, auto
  <1>6. ChoiceTypes' /\ AutoTypes'
    BY <1>2, <1>5, Parts DEF ChoiceTypes, AutoTypes
  <1> QED
    BY <1>2, <1>3, <1>4, <1>6, Stays DEF Types

\* The arms of Take(f) that leave f behind at once, and the ones that go on with it.
LEMMA TakeCases ==
    ASSUME Types, NEW f \in Files, Take(f)
    PROVE  /\ UNCHANGED <<local, locked, server, top, cursor, given, overrun, choices, job, auto, bounds>>
           /\ RowOf(f) \in Row /\ RowOf(f).version <= top /\ pass.step = "take" /\ f \in pass.todo
           /\ (task[f] # NoTask \/ f \in job.todo => "besidePass" \in RacyMoves)
           /\ LET row == RowOf(f)
                  act == Decision!Decide(Read(f), base[f], row.note)
                  Goes(s) == /\ pass' \in Passes /\ pass'.step = s /\ pass'.file = f /\ pass'.note = Read(f) /\ pass'.rows[f] = row
                             /\ (\A g \in Files \ {f} : pass'.rows[g] = pass.rows[g]) /\ pass'.mode = pass.mode
                             /\ pass'.todo = pass.todo /\ pass'.top = pass.top /\ pass'.failed = pass.failed IN
              \/ Behind(pass', f) /\ UNCHANGED <<base, task, conflicts>>
              \/ /\ f = List /\ row.note # {} /\ Goes("list") /\ UNCHANGED <<base, task, conflicts>>
              \/ /\ f # List \/ row.note = {}
                 /\ act \in {"merge", "conflict", "editWinsPull", "keepLocal"}
                 /\ Behind(pass', f) /\ RecordConfigConflict(f, act, Read(f), row.note) /\ UNCHANGED base
              \/ /\ act \in {"push", "deleteRemote", "deleteLocal"} \/ (act = "pull" /\ f # List)
                 /\ f \notin locked \/ base[f] = {}
                 /\ Goes(IF act = "deleteLocal" THEN "write" ELSE act) /\ ClearConfigConflict(f) /\ UNCHANGED <<base, task>>
              \/ /\ act = "inSync"
                 /\ f \notin locked \/ base[f] = {}
                 /\ base' = [base EXCEPT ![f] = row.note]
                 /\ Behind(pass', f) /\ ClearConfigConflict(f) /\ UNCHANGED task
  <1>0. ASSUME NEW s \in {"list", "push", "pull", "write", "deleteRemote"}, pass' = Gone(s, f, RowOf(f))
        PROVE  /\ pass' \in Passes /\ pass'.step = s /\ pass'.file = f /\ pass'.note = Read(f) /\ pass'.rows[f] = RowOf(f)
               /\ (\A g \in Files \ {f} : pass'.rows[g] = pass.rows[g]) /\ pass'.mode = pass.mode
               /\ pass'.todo = pass.todo /\ pass'.top = pass.top /\ pass'.failed = pass.failed
    BY <1>0, RowOfSound, GoSound
  <1> DEFINE row == RowOf(f)
             act == Decision!Decide(Read(f), base[f], row.note)
             to == IF act = "deleteLocal" THEN "write" ELSE act
             go(s) == [pass EXCEPT !.step = s, !.file = f, !.note = Read(f), !.rows[f] = row]
             Goes(s) == /\ pass' \in Passes /\ pass'.step = s /\ pass'.file = f /\ pass'.note = Read(f) /\ pass'.rows[f] = row
                        /\ (\A g \in Files \ {f} : pass'.rows[g] = pass.rows[g]) /\ pass'.mode = pass.mode
                        /\ pass'.todo = pass.todo /\ pass'.top = pass.top /\ pass'.failed = pass.failed
  <1>1. row \in Row /\ row.version <= top /\ pass \in Passes
    BY RowOfSound, Parts
  <1>2. pass' = Passed(f) \/ pass' = Missed(f) => Behind(pass', f)
    BY <1>1, PassedSound
  <1>3. \A s \in {"list", "push", "pull", "write", "deleteRemote"} : pass' = go(s) => Goes(s)
    BY <1>0, Zenon DEF Gone
  <1>4. /\ UNCHANGED <<local, locked, server, top, cursor, given, overrun, choices, job, auto, bounds>>
        /\ pass.step = "take" /\ f \in pass.todo
        /\ (task[f] # NoTask \/ f \in job.todo => "besidePass" \in RacyMoves)
    BY Zenon DEF Take
  <1>5. \/ (pass' = Passed(f) \/ pass' = Missed(f)) /\ UNCHANGED <<base, task, conflicts>>
        \/ /\ f = List /\ row.note # {} /\ pass' = go("list") /\ UNCHANGED <<base, task, conflicts>>
        \/ /\ f # List \/ row.note = {}
           /\ act \in {"merge", "conflict", "editWinsPull", "keepLocal"}
           /\ pass' = Passed(f) /\ RecordConfigConflict(f, act, Read(f), row.note) /\ UNCHANGED base
        \/ /\ act \in {"push", "deleteRemote", "deleteLocal"} \/ (act = "pull" /\ f # List)
           /\ f \notin locked \/ base[f] = {}
           /\ pass' = go(to) /\ ClearConfigConflict(f) /\ UNCHANGED <<base, task>>
        \/ /\ act = "inSync"
           /\ f \notin locked \/ base[f] = {}
           /\ base' = [base EXCEPT ![f] = row.note]
           /\ pass' = Passed(f) /\ ClearConfigConflict(f) /\ UNCHANGED task
    BY Zenon DEF Take
  <1>6. act \in {"push", "deleteRemote", "deleteLocal", "pull"} => to \in {"push", "pull", "write", "deleteRemote"}
    <2> HIDE DEF act
    <2> QED
      OBVIOUS
  <1> HIDE DEF row, act, go, Goes, to
  <1>7. \/ Behind(pass', f) /\ UNCHANGED <<base, task, conflicts>>
        \/ /\ f = List /\ row.note # {} /\ Goes("list") /\ UNCHANGED <<base, task, conflicts>>
        \/ /\ f # List \/ row.note = {}
           /\ act \in {"merge", "conflict", "editWinsPull", "keepLocal"}
           /\ Behind(pass', f) /\ RecordConfigConflict(f, act, Read(f), row.note) /\ UNCHANGED base
        \/ /\ act \in {"push", "deleteRemote", "deleteLocal"} \/ (act = "pull" /\ f # List)
           /\ f \notin locked \/ base[f] = {}
           /\ Goes(to) /\ ClearConfigConflict(f) /\ UNCHANGED <<base, task>>
        \/ /\ act = "inSync"
           /\ f \notin locked \/ base[f] = {}
           /\ base' = [base EXCEPT ![f] = row.note]
           /\ Behind(pass', f) /\ ClearConfigConflict(f) /\ UNCHANGED task
    <2>1. act \in {"push", "deleteRemote", "deleteLocal", "pull"} /\ pass' = go(to) => Goes(to)
      BY <1>3, <1>6, Zenon
    <2>2. pass' = go("list") => Goes("list")
      BY <1>3, Zenon
    <2> QED
      BY <1>2, <1>5, <2>1, <2>2, Zenon
  <1> QED
    BY <1>1, <1>4, <1>7, Zenon DEF row, act, Goes, to

\* A first contact with a direction starts a task; anything else is listed.
LEMMA RecordSound ==
    ASSUME Types, NEW f \in Files, NEW reason, NEW mine \in Note, NEW theirs \in Note, RecordConfigConflict(f, reason, mine, theirs)
    PROVE  /\ conflicts' \in SUBSET Files /\ task' \in [Files -> Tasks] /\ \A g \in Files \ {f} : task'[g] = task[g]
           /\ task'[f] = task[f] \/ task'[f].step = "start"
           /\ reason # "conflict" => task' = task
           /\ conflicts' = conflicts \/ (conflicts' = conflicts \cup {f} /\ task' = task)
  <1>1. PICK choice : choice = IF DirOf(f) = "download" THEN "remote" ELSE "local"
    OBVIOUS
  <1>5. PICK saw \in Note : saw = IF DirOf(f) = "download" THEN mine ELSE theirs
    OBVIOUS
  <1>2. PICK t : t = [NoTask EXCEPT !.step = "start", !.choice = choice, !.saw = saw]
    OBVIOUS
  <1>3. t \in Tasks /\ t.step = "start"
    BY <1>1, <1>2, Nothing DEF Tasks
  <1>4. \/ task' = [task EXCEPT ![f] = t] /\ conflicts' = conflicts /\ reason = "conflict"
        \/ task' = task /\ conflicts' = conflicts
        \/ task' = task /\ conflicts' = conflicts \cup {f}
    BY <1>1, <1>2, <1>5, Zenon DEF RecordConfigConflict
  <1> QED
    BY <1>3, <1>4, Parts

LEMMA TakeTypes == ASSUME Types, NEW f \in Files, Take(f) PROVE Types'
  <1> DEFINE row == RowOf(f)
             act == Decision!Decide(Read(f), base[f], row.note)
  <1>1. UNCHANGED <<local, locked, server, top, cursor, given, overrun, choices, job, auto, bounds>> /\ row \in Row /\ row.version <= top
    BY TakeCases
  <1>2. PassTypes' /\ ServerTypes'
    <2>1. ServerTypes' /\ top' \in Nat /\ top <= top'
      BY <1>1, ServerStays
    <2>2. CASE Behind(pass', f)
      BY <2>1, <2>2, PassStays
    <2>3. CASE ~Behind(pass', f)
      <3>1. /\ pass' \in Passes /\ pass'.rows[f] = row /\ (\A g \in Files \ {f} : pass'.rows[g] = pass.rows[g]) /\ pass'.top = pass.top
            /\ pass'.failed = pass.failed
        BY <2>3, TakeCases, Zenon
      <3> HIDE DEF row
      <3> QED
        BY <1>1, <2>1, <3>1, Parts DEF PassTypes
    <2> QED
      BY <2>1, <2>2, <2>3
  <1>3. local' \in [Files -> Note] /\ base' \in [Files -> Note]
    <2>2. base' = base \/ base' = [base EXCEPT ![f] = row.note]
      BY TakeCases, Zenon
    <2>3. row.note \in Note /\ {} \in Note
      BY <1>1 DEF Row, Note
    <2> HIDE DEF row
    <2> QED
      BY <1>1, <2>2, <2>3, Parts
  <1>4. FileTypes'
    BY <1>1, <1>3, Parts DEF FileTypes, bounds
  <1>5. task' \in [Files -> Tasks] /\ conflicts' \in SUBSET Files
    <2>1. CASE RecordConfigConflict(f, act, Read(f), row.note)
      <3>1. PICK a, n : a = act /\ n = row.note
        OBVIOUS
      <3>2. RecordConfigConflict(f, a, Read(f), n) /\ n \in Note /\ Read(f) \in Note
        BY <1>1, <2>1, <3>1, ReadType DEF Row
      <3> QED
        BY <3>2, RecordSound
    <2>2. CASE ~RecordConfigConflict(f, act, Read(f), row.note)
      <3>1. task' = task /\ (conflicts' = conflicts \/ ClearConfigConflict(f))
        BY <2>2, TakeCases, Zenon
      <3> QED
        BY <3>1, Parts DEF ClearConfigConflict
    <2> QED
      BY <2>1, <2>2
  <1>6. ChoiceTypes' /\ TaskTypes'
    BY <1>1, <1>5, Parts DEF ChoiceTypes, TaskTypes, choices
  <1> QED
    BY <1>1, <1>2, <1>4, <1>6, Stays DEF Types, auto

LEMMA PushSound ==
    ASSUME Types, Push
    PROVE  /\ Types' /\ pass.step = "push" /\ Behind(pass', pass.file)
           /\ UNCHANGED <<local, locked, cursor, given, overrun, choices, conflicts, task, job, auto, bounds>>
           /\ \/ UNCHANGED <<server, base>>
              \/ /\ Unmoved(pass.file) /\ base' = [base EXCEPT ![pass.file] = pass.note] /\ server'[pass.file].note = pass.note
                 /\ \A g \in Files \ {pass.file} : server'[g] = server[g]
  <1>1. PICK f \in Files : f = pass.file
    BY Parts
  <1>2. pass.note \in Note /\ pass \in Passes
    BY Parts
  <1>3. /\ pass.step = "push"
        /\ UNCHANGED <<local, locked, cursor, given, overrun, choices, conflicts, task, job, auto, bounds>>
        /\ \/ Unmoved(f) /\ Written(f, pass.note, "me") /\ base' = [base EXCEPT ![f] = pass.note] /\ pass' = Passed(f)
           \/ pass' = Missed(f) /\ UNCHANGED <<server, top, base>>
    BY <1>1, Zenon DEF Push
  <1>4. Behind(pass', f)
    BY <1>2, <1>3, PassedSound
  <1>5. \/ UNCHANGED <<server, base>>
        \/ /\ Unmoved(f) /\ base' = [base EXCEPT ![f] = pass.note] /\ server'[f].note = pass.note
           /\ \A g \in Files \ {f} : server'[g] = server[g]
    BY <1>2, <1>3, WrittenSound
  <1>6. ServerTypes' /\ top' \in Nat /\ top <= top'
    <2>1. CASE Written(f, pass.note, "me")
      BY <1>2, <1>3, <2>1, WrittenSound
    <2>2. CASE UNCHANGED <<server, top, base>>
      BY <1>3, <2>2, ServerStays
    <2> QED
      BY <1>3, <2>1, <2>2
  <1>7. PassTypes'
    BY <1>4, <1>6, PassStays
  <1>8. FileTypes'
    BY <1>2, <1>3, Parts DEF FileTypes, bounds
  <1>9. Types'
    BY <1>3, <1>6, <1>7, <1>8, Stays DEF Types, choices, auto
  <1> QED
    BY <1>1, <1>3, <1>4, <1>5, <1>9

\* The pass goes on at its file.
LEMMA StepTypes ==
    ASSUME Types, pass' \in Passes, pass'.rows = pass.rows, pass'.top = pass.top, pass'.failed = pass.failed, UNCHANGED <<server, top, cursor>>
    PROVE  PassTypes'
  BY Parts DEF PassTypes

\* A pull looks once more before it writes.
LEMMA PullSound ==
    ASSUME Types, Pull
    PROVE  /\ Types' /\ pass.step = "pull" /\ UNCHANGED <<files, choices, task, job, auto, bounds>>
           /\ \/ Behind(pass', pass.file) /\ conflicts' = conflicts \cup {pass.file}
              \/ /\ conflicts' = conflicts /\ pass'.step = "write" /\ pass'.file = pass.file /\ pass'.rows = pass.rows /\ pass'.mode = pass.mode
                 /\ pass'.todo = pass.todo /\ pass'.note \in {{}, pass.note}
  <1>1. PICK f \in Files : f = pass.file
    BY Parts
  <1>2. pass.note \in Note /\ pass \in Passes /\ local[f] \in Note /\ {} \in Note
    BY Parts DEF Note
  <1>3. PICK note : note = IF f \in locked THEN pass.note ELSE local[f]
    OBVIOUS
  <1>4. /\ pass.step = "pull" /\ UNCHANGED <<files, choices, task, job, auto, bounds>>
        /\ \/ pass' = Passed(f) /\ conflicts' = conflicts \cup {f}
           \/ conflicts' = conflicts /\ pass' = [pass EXCEPT !.step = "write", !.note = note] /\ ~Raced(f)
    BY <1>1, <1>3, Zenon DEF Pull
  <1>5. ServerTypes' /\ top' \in Nat /\ top <= top' /\ UNCHANGED <<server, top, cursor>>
    BY <1>4, ServerStays DEF files
  <1>6. CASE pass' = Passed(f) /\ conflicts' = conflicts \cup {f}
    <2>1. Behind(pass', f)
      BY <1>2, <1>6, PassedSound
    <2>2. PassTypes'
      BY <1>5, <2>1, PassStays
    <2>3. ChoiceTypes'
      BY <1>4, <1>6, Parts DEF ChoiceTypes, choices
    <2> QED
      BY <1>1, <1>4, <1>5, <1>6, <2>1, <2>2, <2>3, Stays DEF Types, files, auto, bounds
  <1>7. CASE conflicts' = conflicts /\ pass' = [pass EXCEPT !.step = "write", !.note = note] /\ ~Raced(f)
    <2>1. note \in Note /\ note \in {{}, pass.note}
      BY <1>2, <1>3, <1>7 DEF Raced, Read
    <2>2. /\ pass' \in Passes /\ pass'.step = "write" /\ pass'.note = note /\ pass'.file = pass.file /\ pass'.rows = pass.rows
          /\ pass'.mode = pass.mode /\ pass'.todo = pass.todo /\ pass'.top = pass.top /\ pass'.failed = pass.failed
      BY <1>2, <1>7, <2>1 DEF Passes
    <2>3. PassTypes'
      BY <1>5, <2>2, StepTypes
    <2> QED
      BY <1>4, <1>5, <1>7, <2>1, <2>2, <2>3, Stays DEF Types, files, choices, auto, bounds
  <1> QED
    BY <1>4, <1>6, <1>7

\* It writes over whatever is there: what was not seen is overrun.
LEMMA WriteSound ==
    ASSUME Types, Write
    PROVE  /\ Types' /\ pass.step = "write" /\ Behind(pass', pass.file)
           /\ UNCHANGED <<locked, server, top, cursor, given, choices, conflicts, task, job, auto, bounds>> /\ overrun \subseteq overrun'
           /\ \/ UNCHANGED <<local, base, overrun>>
              \/ /\ local' = [local EXCEPT ![pass.file] = pass.rows[pass.file].note]
                 /\ base' = [base EXCEPT ![pass.file] = pass.rows[pass.file].note]
                 /\ local[pass.file] \subseteq overrun' \cup pass.note \cup pass.rows[pass.file].note
  <1>1. PICK f \in Files : f = pass.file
    BY Parts
  <1>2. pass.rows[f].note \in Note /\ pass \in Passes /\ local[f] \in Note /\ overrun \in Note
    BY Parts
  <1>3. /\ pass.step = "write" /\ (pass' = Passed(f) \/ pass' = Missed(f))
        /\ UNCHANGED <<locked, server, top, cursor, given, choices, conflicts, task, job, auto, bounds>>
        /\ \/ UNCHANGED <<local, base, overrun>>
           \/ /\ local' = [local EXCEPT ![f] = pass.rows[f].note]
              /\ base' = [base EXCEPT ![f] = pass.rows[f].note]
              /\ overrun' = overrun \cup (local[f] \ (pass.note \cup pass.rows[f].note))
    BY <1>1, Zenon DEF Write
  <1>4. Behind(pass', f)
    BY <1>2, <1>3, PassedSound
  <1>5. ServerTypes' /\ top' \in Nat /\ top <= top'
    BY <1>3, ServerStays
  <1>6. PassTypes'
    BY <1>4, <1>5, PassStays
  <1>7. overrun' \in Note /\ overrun \subseteq overrun'
    BY <1>2, <1>3 DEF Note
  <1>8. FileTypes'
    BY <1>2, <1>3, <1>7, Parts DEF FileTypes, bounds
  <1>9. Types'
    BY <1>3, <1>5, <1>6, <1>8, Stays DEF Types, choices, auto
  <1>10. \/ UNCHANGED <<local, base, overrun>>
         \/ /\ local' = [local EXCEPT ![f] = pass.rows[f].note]
            /\ base' = [base EXCEPT ![f] = pass.rows[f].note]
            /\ local[f] \subseteq overrun' \cup pass.note \cup pass.rows[f].note
    BY <1>3
  <1> QED
    BY <1>1, <1>3, <1>4, <1>7, <1>9, <1>10

LEMMA DeleteRemoteSound ==
    ASSUME Types, DeleteRemote
    PROVE  /\ Types' /\ pass.step = "deleteRemote" /\ Behind(pass', pass.file)
           /\ UNCHANGED <<local, locked, cursor, given, overrun, choices, conflicts, task, job, auto, bounds>>
           /\ \/ UNCHANGED <<server, base>>
              \/ /\ Unmoved(pass.file) /\ base' = [base EXCEPT ![pass.file] = {}] /\ server'[pass.file].note = {}
                 /\ \A g \in Files \ {pass.file} : server'[g] = server[g]
  <1>1. PICK f \in Files : f = pass.file
    BY Parts
  <1>2. {} \in Note /\ pass \in Passes
    BY Parts DEF Note
  <1>3. /\ pass.step = "deleteRemote"
        /\ UNCHANGED <<local, locked, cursor, given, overrun, choices, conflicts, task, job, auto, bounds>>
        /\ \/ Unmoved(f) /\ Written(f, {}, "me") /\ base' = [base EXCEPT ![f] = {}] /\ pass' = Passed(f)
           \/ (pass' = Missed(f) \/ pass' = Passed(f)) /\ UNCHANGED <<server, top, base>>
    BY <1>1, Zenon DEF DeleteRemote
  <1>4. Behind(pass', f)
    BY <1>2, <1>3, PassedSound
  <1>5. \/ UNCHANGED <<server, base>>
        \/ /\ Unmoved(f) /\ base' = [base EXCEPT ![f] = {}] /\ server'[f].note = {}
           /\ \A g \in Files \ {f} : server'[g] = server[g]
    BY <1>2, <1>3, WrittenSound
  <1>6. ServerTypes' /\ top' \in Nat /\ top <= top'
    <2>1. CASE Written(f, {}, "me")
      BY <1>2, <1>3, <2>1, WrittenSound
    <2>2. CASE UNCHANGED <<server, top, base>>
      BY <1>3, <2>2, ServerStays
    <2> QED
      BY <1>3, <2>1, <2>2
  <1>7. PassTypes'
    BY <1>4, <1>6, PassStays
  <1>8. FileTypes'
    BY <1>2, <1>3, Parts DEF FileTypes, bounds
  <1>9. Types'
    BY <1>3, <1>6, <1>7, <1>8, Stays DEF Types, choices, auto
  <1> QED
    BY <1>1, <1>3, <1>4, <1>5, <1>9

\* The list is read before it is merged; one that is no list goes the way of other files.
LEMMA ListReadsSound ==
    ASSUME Types, ListReads
    PROVE  /\ Types' /\ pass.step = "list" /\ UNCHANGED <<files, choices, job, auto, bounds>>
           /\ \/ /\ UNCHANGED <<conflicts, task>> /\ pass'.step = "listWrite" /\ pass'.file = pass.file /\ pass'.rows = pass.rows
                 /\ pass'.mode = pass.mode /\ pass'.todo = pass.todo
              \/ /\ "listInvalid" \in RacyMoves /\ UNCHANGED <<conflicts, task>> /\ pass'.step = "pull" /\ pass'.file = pass.file
                 /\ pass'.rows = pass.rows /\ pass'.note = base[List] /\ pass'.mode = pass.mode /\ pass'.todo = pass.todo
              \/ /\ "listInvalid" \in RacyMoves /\ Behind(pass', List) /\ (\A g \in Files \ {List} : task'[g] = task[g])
                 /\ task'[List] = task[List] \/ task'[List].step = "start"
  <1>1. /\ pass.note \in Note /\ pass \in Passes /\ List \in Files /\ Read(List) \in Note /\ pass.rows[List].note \in Note
    BY Bounds, Parts, ReadType
  <1>2. PICK theirs \in Note : theirs = pass.rows[List].note
    BY <1>1
  <1>3. PICK act : act = Decision!Decide(pass.note, base[List], theirs)
    OBVIOUS
  <1>4. /\ pass.step = "list" /\ UNCHANGED <<files, choices, job, auto, bounds>>
        /\ \/ pass' = [pass EXCEPT !.step = "listWrite", !.note = Read(List)] /\ UNCHANGED <<conflicts, task>>
           \/ "listInvalid" \in RacyMoves /\ act = "pull" /\ pass' = [pass EXCEPT !.step = "pull"] /\ UNCHANGED <<conflicts, task>>
           \/ "listInvalid" \in RacyMoves /\ RecordConfigConflict(List, act, pass.note, theirs) /\ pass' = Passed(List)
    BY <1>2, <1>3, Zenon DEF ListReads
  <1>5. ServerTypes' /\ top' \in Nat /\ top <= top' /\ UNCHANGED <<server, top, cursor>>
    BY <1>4, ServerStays DEF files
  <1>6. CASE pass' = [pass EXCEPT !.step = "listWrite", !.note = Read(List)] /\ UNCHANGED <<conflicts, task>>
    <2>3. PICK n \in Note : n = Read(List)
      BY <1>1
    <2>4. pass' = [pass EXCEPT !.step = "listWrite", !.note = n]
      BY <1>6, <2>3, Zenon
    <2>1. /\ pass' \in Passes /\ pass'.step = "listWrite" /\ pass'.file = pass.file /\ pass'.rows = pass.rows
          /\ pass'.mode = pass.mode /\ pass'.todo = pass.todo /\ pass'.top = pass.top /\ pass'.failed = pass.failed
      BY <1>1, <2>4 DEF Passes
    <2>2. PassTypes'
      BY <1>5, <2>1, StepTypes
    <2> QED
      BY <1>4, <1>5, <1>6, <2>1, <2>2, Stays DEF Types, files, choices, auto, bounds
  <1>7. CASE "listInvalid" \in RacyMoves /\ act = "pull" /\ pass' = [pass EXCEPT !.step = "pull"] /\ UNCHANGED <<conflicts, task>>
    <2>1. pass.note = base[List]
      <3>1. PICK l, b : l = pass.note /\ b = base[List]
        OBVIOUS
      <3>2. act = Decision!Decide(l, b, theirs)
        BY <1>3, <3>1, Zenon
      <3> QED
        BY <1>7, <3>1, <3>2, Decided
    <2>2. /\ pass' \in Passes /\ pass'.step = "pull" /\ pass'.note = pass.note /\ pass'.file = pass.file /\ pass'.rows = pass.rows
          /\ pass'.mode = pass.mode /\ pass'.todo = pass.todo /\ pass'.top = pass.top /\ pass'.failed = pass.failed
      BY <1>1, <1>7 DEF Passes
    <2>3. PassTypes'
      BY <1>5, <2>2, StepTypes
    <2> QED
      BY <1>4, <1>5, <1>7, <2>1, <2>2, <2>3, Stays DEF Types, files, choices, auto, bounds
  <1>8. CASE "listInvalid" \in RacyMoves /\ RecordConfigConflict(List, act, pass.note, theirs) /\ pass' = Passed(List)
    <2>1. /\ conflicts' \in SUBSET Files /\ task' \in [Files -> Tasks] /\ (\A g \in Files \ {List} : task'[g] = task[g])
          /\ task'[List] = task[List] \/ task'[List].step = "start"
      BY <1>1, <1>8, RecordSound
    <2>2. Behind(pass', List)
      BY <1>1, <1>8, PassedSound
    <2>3. PassTypes'
      BY <1>1, <1>5, <2>2, PassStays
    <2>4. ChoiceTypes' /\ TaskTypes'
      BY <1>4, <2>1, Parts DEF ChoiceTypes, TaskTypes, choices
    <2> QED
      BY <1>4, <1>5, <1>8, <2>1, <2>2, <2>3, <2>4, Stays DEF Types, files, auto, bounds
  <1> QED
    BY <1>4, <1>6, <1>7, <1>8

\* The list here, the list on the server and the base become the union of what was read, or the base stays.
LEMMA MergeListSound ==
    ASSUME Types, MergeList
    PROVE  /\ Types' /\ pass.step = "listWrite" /\ Behind(pass', List)
           /\ UNCHANGED <<locked, cursor, given, choices, task, job, auto, bounds>>
           /\ conflicts' \subseteq conflicts /\ overrun \subseteq overrun'
           /\ (\A g \in Files \ {List} : server'[g] = server[g] /\ local'[g] = local[g] /\ base'[g] = base[g])
           /\ LET merged == pass.note \cup pass.rows[List].note IN
              /\ local'[List] = local[List] \/ (local'[List] = merged /\ local[List] \subseteq overrun' \cup merged)
              /\ \/ base'[List] = base[List] /\ server'[List] = server[List]
                 \/ /\ base'[List] = merged /\ local'[List] = merged
                    /\ \/ server'[List] = server[List] /\ merged = pass.rows[List].note
                       \/ server'[List].note = merged /\ Unmoved(List)
  <1>1. /\ List \in Files /\ pass \in Passes /\ pass.rows[List].note \in Note /\ local \in [Files -> Note] /\ base \in [Files -> Note]
        /\ pass.note \in Note /\ overrun \in Note /\ local[List] \in Note
    BY Bounds, Parts
  <1>2. PICK merged \in Note : merged = pass.note \cup pass.rows[List].note
    BY <1>1 DEF Note
  <1>3. /\ pass.step = "listWrite"
        /\ UNCHANGED <<locked, cursor, given, choices, task, job, auto, bounds>>
        /\ local' = IF List \in locked THEN local ELSE [local EXCEPT ![List] = merged]
        /\ overrun' = IF List \in locked THEN overrun ELSE overrun \cup (local[List] \ (pass.note \cup merged))
        /\ \/ pass' = Missed(List) /\ UNCHANGED <<base, server, top, conflicts>>
           \/ /\ List \notin locked /\ base' = [base EXCEPT ![List] = merged] /\ pass' = Passed(List) /\ ClearConfigConflict(List)
              /\ \/ merged = pass.rows[List].note /\ UNCHANGED <<server, top>>
                 \/ Unmoved(List) /\ Written(List, merged, "me")
    BY <1>2, Zenon DEF MergeList, MergeEnabledPlugins
  <1>4. Behind(pass', List)
    BY <1>1, <1>3, PassedSound
  <1>14. overrun' \in Note /\ overrun \subseteq overrun'
    BY <1>1, <1>3 DEF Note
  <1>5. /\ local' \in [Files -> Note] /\ base' \in [Files -> Note]
        /\ local'[List] = local[List] \/ (local'[List] = merged /\ local[List] \subseteq overrun' \cup merged)
        /\ \A g \in Files \ {List} : local'[g] = local[g] /\ base'[g] = base[g]
    <2>1. /\ local' \in [Files -> Note] /\ base' \in [Files -> Note]
          /\ \A g \in Files \ {List} : local'[g] = local[g] /\ base'[g] = base[g]
      BY <1>1, <1>3
    <2>2. CASE List \in locked
      BY <1>3, <2>1, <2>2
    <2>3. CASE List \notin locked
      <3>1. local'[List] = merged
        BY <1>1, <1>3, <2>3
      <3>2. local[List] \subseteq overrun' \cup merged
        BY <1>2, <1>3, <2>3
      <3> QED
        BY <2>1, <3>1, <3>2
    <2> QED
      BY <2>2, <2>3
  <1>6. (UNCHANGED <<server, top>> \/ Written(List, merged, "me")) /\ UNCHANGED cursor
    BY <1>3
  <1>7. ServerTypes' /\ top' \in Nat /\ top <= top' /\ \A g \in Files \ {List} : server'[g] = server[g]
    <2>1. CASE UNCHANGED <<server, top>>
      BY <1>6, <2>1, ServerStays
    <2>2. CASE Written(List, merged, "me")
      BY <1>1, <1>6, <2>2, WrittenSound
    <2> QED
      BY <1>6, <2>1, <2>2
  <1>8. \/ base'[List] = base[List] /\ server'[List] = server[List]
        \/ /\ base'[List] = merged /\ local'[List] = merged
           /\ \/ server'[List] = server[List] /\ merged = pass.rows[List].note
              \/ server'[List].note = merged /\ Unmoved(List)
    <2>1. CASE UNCHANGED <<base, server, top, conflicts>>
      BY <2>1
    <2>2. CASE List \notin locked /\ base' = [base EXCEPT ![List] = merged] /\ merged = pass.rows[List].note /\ UNCHANGED <<server, top>>
      BY <1>1, <1>3, <2>2
    <2>3. CASE List \notin locked /\ base' = [base EXCEPT ![List] = merged] /\ Unmoved(List) /\ Written(List, merged, "me")
      <3>1. server'[List].note = merged
        BY <1>1, <2>3, WrittenSound
      <3> QED
        BY <1>1, <1>3, <2>3, <3>1
    <2> QED
      BY <1>3, <2>1, <2>2, <2>3
  <1>9. PassTypes'
    BY <1>1, <1>4, <1>7, PassStays
  <1>10. FileTypes'
    BY <1>3, <1>5, <1>14, Parts DEF FileTypes, bounds
  <1>11. conflicts' \subseteq conflicts
    BY <1>3 DEF ClearConfigConflict
  <1>12. ChoiceTypes'
    BY <1>3, <1>11, Parts DEF ChoiceTypes, choices
  <1>13. Types'
    BY <1>3, <1>7, <1>9, <1>10, <1>12, Stays DEF Types, auto
  <1> QED
    BY <1>2, <1>3, <1>4, <1>5, <1>7, <1>8, <1>11, <1>13, <1>14

\* The cursor never passes what the server has.
LEMMA SettleTypes == ASSUME Types, Settle PROVE Types'
  <1>1. UNCHANGED <<local, locked, server, top, base, given, overrun, choices, conflicts, task, job, known, seen, pilot, bounds>> /\ pass' = NoPass
    BY DEF Settle
  <1>2. PICK bad \in SUBSET (Nat \ {0}) : bad = pass.failed \ {0}
    BY Parts
  <1>3. top \in Nat /\ cursor \in Nat /\ cursor <= top /\ pass.top \in Nat /\ pass.top <= top /\ \A w \in bad : w <= top
    BY <1>2, Parts DEF Passes
  <1>4. cursor' \in Nat /\ cursor' <= top
    <2>1. CASE bad = {}
      BY <1>2, <1>3, <2>1 DEF Settle
    <2>2. CASE bad # {}
      <3>1. PICK m \in bad : m = Min(bad) /\ m - 1 \in Nat
        BY <2>2, Earliest
      <3>2. cursor' = cursor \/ cursor' = m - 1
        BY <1>2, <2>2, <3>1 DEF Settle
      <3>3. m \in Nat /\ m <= top
        BY <1>3, <3>1
      <3> QED
        BY <1>3, <3>1, <3>2, <3>3
    <2> QED
      BY <2>1, <2>2
  <1>5. ServerTypes' /\ top' \in Nat /\ top <= top'
    BY <1>1, <1>3, <1>4, Parts DEF ServerTypes
  <1>6. PassTypes'
    BY <1>1, <1>5, PassStays
  <1>7. FileTypes'
    BY <1>1, Stays DEF bounds
  <1>8. AutoTypes'
    <2>1. loaded' \in SUBSET Plugins
      BY Parts DEF Settle, OnDisk
    <2> QED
      BY <1>1, <2>1, Parts DEF AutoTypes
  <1> QED
    BY <1>1, <1>5, <1>6, <1>7, <1>8, Stays DEF Types, choices

LEMMA TaskReadsSound ==
    ASSUME Types, NEW f \in Files, TaskReads(f)
    PROVE  /\ Types' /\ UNCHANGED <<files, choices, conflicts, pass, job, auto, bounds>> /\ task[f].step = "start"
           /\ (\A g \in Files \ {f} : task'[g] = task[g]) /\ task'[f].step = "apply" /\ task'[f].choice = task[f].choice
           /\ task'[f].user = task[f].user
           /\ task'[f].note = IF task[f].choice = "remote" THEN server[f].note ELSE Read(f)
  <1>1. PICK note : note = IF task[f].choice = "remote" THEN server[f].note ELSE Read(f)
    OBVIOUS
  <1>2. note \in Note
    BY <1>1, Parts, ReadType
  <1>3. PICK t : t = task[f]
    OBVIOUS
  <1>4. PICK u : u = [t EXCEPT !.step = "apply", !.note = note]
    OBVIOUS
  <1>5. t \in Tasks
    BY <1>3, Parts
  <1>6. u \in Tasks /\ u.step = "apply" /\ u.note = note /\ u.choice = t.choice /\ u.user = t.user
    BY <1>2, <1>4, <1>5 DEF Tasks
  <1>7. task' = [task EXCEPT ![f] = u]
    BY <1>1, <1>3, <1>4, Zenon DEF TaskReads
  <1>8. UNCHANGED <<files, choices, conflicts, pass, job, auto, bounds>> /\ t.step = "start"
    BY <1>3 DEF TaskReads
  <1>9. task' \in [Files -> Tasks] /\ task'[f] = u /\ \A g \in Files \ {f} : task'[g] = task[g]
    BY <1>6, <1>7, Parts
  <1>10. ServerTypes' /\ top' \in Nat /\ top <= top'
    BY <1>8, ServerStays DEF files
  <1>11. PassTypes'
    BY <1>8, <1>10, PassStays
  <1>12. TaskTypes'
    BY <1>8, <1>9, Parts DEF TaskTypes
  <1>13. Types'
    BY <1>8, <1>10, <1>11, <1>12, Stays DEF Types, files, choices, auto, bounds
  <1> QED
    BY <1>1, <1>3, <1>6, <1>8, <1>9, <1>13

LEMMA JobLeft ==
    ASSUME Types, NEW f \in Files, job' = NoJob \/ job' = job \/ job' = [job EXCEPT !.todo = @ \ {f}]
    PROVE  job' \in Jobs /\ job'.todo \subseteq job'.group /\ job'.todo \subseteq job.todo
  <1>1. job \in Jobs /\ job.todo \subseteq job.group
    BY Parts
  <1>2. CASE job' = NoJob
    BY <1>2, Nothing
  <1>3. CASE job' = job
    BY <1>1, <1>3
  <1>4. CASE job' = [job EXCEPT !.todo = @ \ {f}]
    <2>1. PICK todo : todo = job.todo \ {f}
      OBVIOUS
    <2>2. job' = [job EXCEPT !.todo = todo]
      BY <1>4, <2>1, Zenon
    <2>3. todo \in SUBSET Files
      BY <1>1, <2>1 DEF Jobs
    <2>4. job' \in Jobs /\ job'.todo = todo /\ job'.group = job.group
      BY <1>1, <2>2, <2>3 DEF Jobs
    <2> QED
      BY <1>1, <2>1, <2>4
  <1> QED
    BY <1>2, <1>3, <1>4

\* One side takes the place of the other, and what was there is given up or overrun.
LEMMA TaskEndsSound ==
    ASSUME Types, NEW f \in Files, TaskEnds(f)
    PROVE  /\ Types' /\ UNCHANGED <<locked, cursor, choices, conflicts, pass, auto, bounds>> /\ task[f].step = "apply"
           /\ task' = [task EXCEPT ![f] = NoTask] /\ job'.todo \subseteq job.todo
           /\ base' = [base EXCEPT ![f] = task[f].note] /\ Lost \subseteq Lost'
           /\ \/ /\ task[f].choice = "remote" /\ local' = [local EXCEPT ![f] = task[f].note] /\ server' = server
                 /\ local[f] \subseteq Lost' \cup task[f].note
              \/ /\ task[f].choice = "local" /\ local' = local /\ server'[f].note = task[f].note
                 /\ (\A g \in Files \ {f} : server'[g] = server[g]) /\ server[f].note \subseteq Lost' \cup task[f].note
  <1>1. PICK note : note = task[f].note
    OBVIOUS
  <1>0. PICK saw : saw = task[f].saw
    OBVIOUS
  <1>2. note \in Note /\ local[f] \in Note /\ server[f].note \in Note
    BY <1>1, Parts
  <1>3. /\ task[f].step = "apply"
        /\ UNCHANGED <<locked, cursor, choices, conflicts, pass, auto, bounds>>
        /\ base' = [base EXCEPT ![f] = note]
        /\ task' = [task EXCEPT ![f] = NoTask]
        /\ job' = job \/ job' = [job EXCEPT !.todo = @ \ {f}]
        /\ \/ task[f].choice = "remote" /\ local' = [local EXCEPT ![f] = note] /\ Replaced(saw, local[f], note) /\ UNCHANGED <<server, top>>
           \/ task[f].choice = "local" /\ Written(f, note, "me") /\ Replaced(saw, server[f].note, note) /\ UNCHANGED local
    BY <1>0, <1>1, Zenon DEF TaskEnds
  <1>4. job' \in Jobs /\ job'.todo \subseteq job'.group /\ job'.todo \subseteq job.todo
    BY <1>3, JobLeft
  <1>5. given' \in Note /\ overrun' \in Note /\ Lost \subseteq Lost'
    BY <1>2, <1>3, ReplacedSound
  <1>6. /\ ServerTypes' /\ top' \in Nat /\ top <= top'
        /\ \/ /\ task[f].choice = "remote" /\ local' = [local EXCEPT ![f] = note] /\ server' = server
              /\ local[f] \subseteq Lost' \cup note
           \/ /\ task[f].choice = "local" /\ local' = local /\ server'[f].note = note
              /\ (\A g \in Files \ {f} : server'[g] = server[g]) /\ server[f].note \subseteq Lost' \cup note
    <2>1. CASE task[f].choice = "remote" /\ local' = [local EXCEPT ![f] = note] /\ Replaced(saw, local[f], note) /\ UNCHANGED <<server, top>>
      <3>1. local[f] \subseteq Lost' \cup note
        BY <1>2, <2>1, ReplacedSound
      <3>2. ServerTypes' /\ top' \in Nat /\ top <= top'
        BY <1>3, <2>1, ServerStays
      <3> QED
        BY <2>1, <3>1, <3>2
    <2>2. CASE task[f].choice = "local" /\ Written(f, note, "me") /\ Replaced(saw, server[f].note, note) /\ UNCHANGED local
      <3>1. server[f].note \subseteq Lost' \cup note
        BY <1>2, <2>2, ReplacedSound
      <3>2. /\ ServerTypes' /\ top' \in Nat /\ top <= top' /\ server'[f].note = note
            /\ \A g \in Files \ {f} : server'[g] = server[g]
        BY <1>2, <1>3, <2>2, WrittenSound
      <3> QED
        BY <2>2, <3>1, <3>2
    <2> QED
      BY <1>3, <2>1, <2>2
  <1>7. PassTypes'
    BY <1>3, <1>6, PassStays
  <1>8. local' \in [Files -> Note] /\ base' \in [Files -> Note]
    BY <1>2, <1>3, Parts
  <1>9. FileTypes'
    BY <1>3, <1>5, <1>8, Parts DEF FileTypes, bounds
  <1>10. task' \in [Files -> Tasks]
    BY <1>3, Parts, Nothing
  <1>11. TaskTypes'
    BY <1>4, <1>10 DEF TaskTypes
  <1>12. Types'
    BY <1>3, <1>6, <1>7, <1>9, <1>11, Stays DEF Types, choices, auto
  <1> QED
    BY <1>1, <1>3, <1>4, <1>5, <1>6, <1>12

\* A task that fails, and a task the loop of the user starts.
LEMMA TaskMoves ==
    ASSUME Types, NEW f \in Files, TaskFails(f) \/ JobNext(f)
    PROVE  /\ Types' /\ UNCHANGED <<files, choices, conflicts, pass, auto, edits, deletes>>
           /\ (\A g \in Files \ {f} : task'[g] = task[g])
           /\ \/ task'[f] = NoTask
              \/ task'[f].step = "start" /\ f \in job.todo
                 /\ (pass.step \notin {"none", "take"} /\ pass.file = f => "besidePass" \in RacyMoves)
           /\ job'.todo \subseteq job.todo
  <1>1. UNCHANGED <<files, choices, conflicts, pass, auto, edits, deletes>>
    BY DEF TaskFails, JobNext, bounds
  <1>2. /\ task' \in [Files -> Tasks] /\ (\A g \in Files \ {f} : task'[g] = task[g]) /\ job' \in Jobs
        /\ job'.todo \subseteq job'.group /\ job'.todo \subseteq job.todo
        /\ \/ task'[f] = NoTask
           \/ task'[f].step = "start" /\ f \in job.todo
              /\ (pass.step \notin {"none", "take"} /\ pass.file = f => "besidePass" \in RacyMoves)
    <2>1. CASE TaskFails(f)
      <3>1. task' = [task EXCEPT ![f] = NoTask] /\ (job' = NoJob \/ job' = job)
        BY <2>1, Zenon DEF TaskFails
      <3>2. job' \in Jobs /\ job'.todo \subseteq job'.group /\ job'.todo \subseteq job.todo
        BY <3>1, JobLeft
      <3> QED
        BY <3>1, <3>2, Parts, Nothing
    <2>2. CASE JobNext(f)
      <3>1. PICK choice : choice = job.choice
        OBVIOUS
      <3>2. choice \in {"none", "local", "remote"}
        BY <3>1, Parts DEF Jobs
      <3>6. PICK saw : saw = job.saw[f]
        OBVIOUS
      <3>7. saw \in Note
        BY <3>6, Parts DEF Jobs
      <3>3. PICK t : t = [NoTask EXCEPT !.step = "start", !.choice = choice, !.user = TRUE, !.saw = saw]
        OBVIOUS
      <3>4. t \in Tasks /\ t.step = "start"
        BY <3>2, <3>3, <3>7, Nothing DEF Tasks
      <3>5. /\ task' = [task EXCEPT ![f] = t] /\ job' = job /\ f \in job.todo
            /\ (pass.step \notin {"none", "take"} /\ pass.file = f => "besidePass" \in RacyMoves)
        BY <2>2, <3>1, <3>3, <3>6, Zenon DEF JobNext
      <3> QED
        BY <3>4, <3>5, Parts
    <2> QED
      BY <2>1, <2>2
  <1>3. ServerTypes' /\ top' \in Nat /\ top <= top'
    BY <1>1, ServerStays DEF files
  <1>4. PassTypes'
    BY <1>1, <1>3, PassStays
  <1>5. TaskTypes'
    BY <1>2 DEF TaskTypes
  <1>6. Types'
    BY <1>1, <1>3, <1>4, <1>5, Stays DEF Types, files, choices, auto
  <1> QED
    BY <1>1, <1>2, <1>6

-----------------------------------------------------------------------------
(* Type correctness *)

\* At the start nothing is synced and nothing runs.
LEMMA TypesInit == Init => Types
  <1> SUFFICES ASSUME Init PROVE Types
    OBVIOUS
  <1>1. {} \in Note
    BY DEF Note
  <1>2. local \in [Files -> Note] /\ base \in [Files -> Note] /\ locked = {} /\ given = {} /\ overrun = {} /\ edits = 0
    BY <1>1 DEF Init
  <1>3. FileTypes
    BY <1>1, <1>2, Bounds DEF FileTypes
  <1>4. server = [f \in Files |-> NoRow] /\ top = 0 /\ cursor = 0
    BY DEF Init
  <1>5. ServerTypes
    BY <1>4, Nothing DEF ServerTypes
  <1>6. surfaceDir \in [Surfaces -> Dirs] /\ pluginDir \in [Plugins -> Dirs] /\ wish \in [Plugins -> {"none", "on", "off"}]
    BY DEF Init, Dirs
  <1>7. ChoiceTypes
    BY <1>6 DEF ChoiceTypes, Init
  <1>8. AutoTypes
    BY Nothing DEF AutoTypes, Init, Authors
  <1>9. PassTypes
    BY <1>4, Nothing DEF PassTypes, Init
  <1>10. task \in [Files -> Tasks] /\ job = NoJob
    BY Nothing DEF Init
  <1>11. TaskTypes
    BY <1>10, Nothing DEF TaskTypes
  <1> QED
    BY <1>3, <1>5, <1>7, <1>8, <1>9, <1>11 DEF Types

\* The actions, one by one.
LEMMA NextCases ==
    ASSUME Next
    PROVE  \/ \E f \in Files : Edit(f)
           \/ (\E f \in Files : Delete(f)) \/ \E e \in 1 .. MaxEdits : Disable(e)
           \/ \E f \in Files, author \in {"me", "peer"} : PeerEdit(f, author)
           \/ \E f \in Files : PeerDelete(f)
           \/ \/ \E f \in Files : Lock(f)
              \/ Unlock \/ Restart \/ PassFails \/ JobEnds \/ SettingsTab \/ PilotEnds
              \/ \E s \in Surfaces, dir \in Dirs : SetConfigSurface(s, dir)
              \/ \E p \in Plugins, tick \in BOOLEAN : SetPluginSync(p, tick)
              \/ \E f \in Files, choice \in {"local", "remote"} : ResolveConfigGroup(f, choice)
              \/ \E p \in Plugins, choice \in {"local", "remote"} : ForcePlugin(p, choice)
           \/ (\E mode \in {"delta", "scan", "full"} : Begin(mode)) \/ \E f \in Files : RawConfigEvent(f)
           \/ \E f \in Files : Take(f)
           \/ Push \/ Pull \/ Write \/ DeleteRemote \/ ListReads \/ MergeList \/ Settle
           \/ \E f \in Files : TaskReads(f)
           \/ \E f \in Files : TaskEnds(f)
           \/ \E f \in Files : TaskFails(f) \/ JobNext(f)
  BY Zenon DEF Next, PassStep, TaskStep

LEMMA TypesNext == Types /\ [Next]_vars => Types'
  <1> SUFFICES ASSUME Types, [Next]_vars PROVE Types'
    OBVIOUS
  <1>1. CASE UNCHANGED vars
    <2>1. ServerTypes' /\ top' \in Nat /\ top <= top'
      BY <1>1, ServerStays DEF vars, files
    <2>2. PassTypes'
      BY <1>1, <2>1, PassStays DEF vars, flying
    <2> QED
      BY <1>1, <2>1, <2>2, Stays DEF Types, vars, files, choices, flying, auto, bounds
  <1>2. CASE Next
    <2>1. ASSUME NEW f \in Files, Edit(f) \/ PeerDelete(f) \/ Take(f) \/ TaskReads(f) \/ TaskEnds(f) \/ TaskFails(f) \/ JobNext(f)
          PROVE  Types'
      BY <2>1, EditTypes, PeerDeleteTypes, TakeTypes, TaskReadsSound, TaskEndsSound, TaskMoves, Zenon
    <2>2. ASSUME NEW f \in Files, NEW author \in {"me", "peer"}, PeerEdit(f, author) PROVE Types'
      BY <2>2, PeerEditTypes, Zenon
    <2>3. ASSUME Push \/ Pull \/ Write \/ DeleteRemote \/ ListReads \/ MergeList \/ Settle PROVE Types'
      BY <2>3, PushSound, PullSound, WriteSound, DeleteRemoteSound, ListReadsSound, MergeListSound, SettleTypes, Zenon
    <2>4. CASE (\E f \in Files : Delete(f)) \/ \E e \in 1 .. MaxEdits : Disable(e)
      BY <2>4, DropTypes, Zenon
    <2>5. CASE (\E mode \in {"delta", "scan", "full"} : Begin(mode)) \/ \E f \in Files : RawConfigEvent(f)
      BY <2>5, BeginTypes, Zenon
    <2>6. CASE \/ \E f \in Files : Lock(f)
               \/ Unlock \/ Restart \/ PassFails \/ JobEnds \/ SettingsTab \/ PilotEnds
               \/ \E s \in Surfaces, dir \in Dirs : SetConfigSurface(s, dir)
               \/ \E p \in Plugins, tick \in BOOLEAN : SetPluginSync(p, tick)
               \/ \E f \in Files, choice \in {"local", "remote"} : ResolveConfigGroup(f, choice)
               \/ \E p \in Plugins, choice \in {"local", "remote"} : ForcePlugin(p, choice)
      BY <2>6, AsideTypes, Zenon
    <2> QED
      BY <1>2, <2>1, <2>2, <2>3, <2>4, <2>5, <2>6, NextCases, Zenon
  <1> QED
    BY <1>1, <1>2

LEMMA TypesAlways == Spec => []Types
  BY TypesInit, TypesNext, PTL DEF Spec

\* Every variable of the configuration sync keeps its type (configsync.ts, configconflict.ts, main.ts), and the cursor
\* never passes the server's version, for any files, plugins and faults.
THEOREM TypeCorrect == Spec => []TypeOK
  <1>1. Types => TypeOK
    <2> SUFFICES ASSUME Types PROVE TypeOK
      OBVIOUS
    <2>1. pass.step \in {"none", "take", "list", "listWrite", "push", "pull", "write", "deleteRemote"} /\ pass.todo \subseteq Files
      BY Parts DEF Passes
    <2>2. \A f \in Files : task[f].choice \in {"none", "local", "remote"} /\ task[f].note \in Note
      BY Parts DEF Tasks
    <2>3. cursor \in 0 .. top
      BY Parts
    <2>4. given \cup overrun \subseteq 1 .. MaxEdits
      BY Parts DEF Note
    <2>5. known \in [Plugins -> {"none", "me", "peer", "unknown"}] /\ pilot.asks \in BOOLEAN
      BY Parts DEF Authors, Pilots
    <2> QED
      BY <2>1, <2>2, <2>3, <2>4, <2>5, Parts DEF TypeOK
  <1> QED
    BY <1>1, TypesAlways, PTL

-----------------------------------------------------------------------------
(* What the user un-ticked *)

\* A plugin the user un-ticked in time is one the autopilot has seen, also in what it read before it asked: it never offers
\* itself again.
Unticked ==
    \A p \in Plugins : wish[p] = "off" /\ p \notin hasty =>
        /\ p \notin allow /\ p \in seen
        /\ (pilot.asks => p \notin pilot.allow \cup pilot.shared /\ p \in pilot.seen)

LEMMA UntickedNext ==
    ASSUME Types, Unticked, [Next]_vars
    PROVE  Unticked'
  <1>1. ASSUME NEW p \in Plugins, NEW tick \in BOOLEAN, SetPluginSync(p, tick) PROVE Unticked'
    <2>1. PICK said : said = IF tick THEN "on" ELSE "off"
      OBVIOUS
    <2>2. /\ wish' = [wish EXCEPT ![p] = said] /\ seen' = seen /\ pilot' = pilot
          /\ allow' = IF tick THEN allow \cup {p} ELSE allow \ {p}
          /\ hasty' = IF ~tick /\ (p \notin seen \/ pilot.asks) THEN hasty \cup {p} ELSE hasty \ {p}
      BY <1>1, <2>1, Zenon DEF SetPluginSync, auto
    <2>3. wish'[p] = said /\ \A q \in Plugins \ {p} : wish'[q] = wish[q]
      BY <2>2, Parts
    <2>4. said = "off" => ~tick
      BY <2>1
    <2> QED
      BY <2>2, <2>3, <2>4 DEF Unticked
  <1>2. ASSUME NEW authors, RunPluginAutopilot(authors), UNCHANGED <<wish, hasty>> PROVE Unticked'
    <2>1. CASE UNCHANGED <<allow, seen, pilot>>
      BY <1>2, <2>1 DEF Unticked
    <2>2. CASE pilot' = NoPilot /\ seen \subseteq seen' /\ allow' \cap seen \subseteq allow
      BY <1>2, <2>2, Nothing DEF Unticked
    <2>3. CASE UNCHANGED <<allow, seen>> /\ pilot'.allow = allow /\ pilot'.seen = seen /\ pilot'.shared \cap seen = {}
      BY <1>2, <2>3 DEF Unticked
    <2> QED
      BY <1>2, <2>1, <2>2, <2>3, AutopilotSound
  <1>3. CASE PilotEnds
    <2>1. PICK private : Adopted(pilot, known, private)
      BY <1>3 DEF PilotEnds
    <2>2. pilot \in Pilots /\ pilot.asks /\ UNCHANGED <<wish, hasty>>
      BY <1>3, Parts DEF PilotEnds
    <2>3. pilot' = NoPilot /\ pilot.seen \subseteq seen' /\ (allow' = allow \/ allow' \cap pilot.seen \subseteq pilot.allow \cup pilot.shared)
      BY <2>1, <2>2, AdoptedSound
    <2> QED
      BY <2>2, <2>3, Nothing DEF Unticked
  <1>4. CASE UNCHANGED <<wish, hasty, allow, seen>> /\ (pilot' = pilot \/ pilot' = NoPilot)
    BY <1>4, Nothing DEF Unticked
  <1>5. \/ UNCHANGED <<wish, hasty, allow, seen>> /\ (pilot' = pilot \/ pilot' = NoPilot)
        \/ \E p \in Plugins, tick \in BOOLEAN : SetPluginSync(p, tick)
        \/ UNCHANGED <<wish, hasty>> /\ \E authors : RunPluginAutopilot(authors)
        \/ PilotEnds
    <2>1. CASE UNCHANGED vars
      BY <2>1 DEF vars, choices, auto
    <2>2. CASE \/ \E f \in Files : Edit(f) \/ Delete(f) \/ PeerDelete(f)
               \/ \E f \in Files, author \in {"me", "peer"} : PeerEdit(f, author)
               \/ \E e \in 1 .. MaxEdits : Disable(e)
      BY <2>2, Zenon DEF Edit, Delete, Disable, PeerEdit, PeerDelete, choices, auto
    <2>6. CASE \E f \in Files : Take(f) \/ TaskReads(f) \/ TaskEnds(f) \/ TaskFails(f) \/ JobNext(f)
      <3>1. UNCHANGED <<choices, auto>>
        BY <2>6, Zenon DEF Take, TaskReads, TaskEnds, TaskFails, JobNext
      <3> QED
        BY <3>1 DEF choices, auto
    <2>7. CASE Push \/ Pull \/ Write \/ DeleteRemote \/ ListReads \/ MergeList \/ Settle
      <3>1. UNCHANGED <<choices, known, seen, pilot>>
        BY <2>7, Zenon DEF Push, Pull, Write, DeleteRemote, ListReads, MergeList, Settle, auto
      <3> QED
        BY <3>1 DEF choices
    <2>3. CASE \/ \E f \in Files : Lock(f) \/ RawConfigEvent(f)
               \/ Unlock \/ Restart \/ PassFails \/ JobEnds
               \/ \E s \in Surfaces, dir \in Dirs : SetConfigSurface(s, dir)
               \/ \E f \in Files, choice \in {"local", "remote"} : ResolveConfigGroup(f, choice)
               \/ \E p \in Plugins, choice \in {"local", "remote"} : ForcePlugin(p, choice)
      BY <2>3 DEF Lock, Unlock, Restart, PassFails, JobEnds, RawConfigEvent, SetConfigSurface, ResolveConfigGroup, ForcePlugin, choices, auto
    <2>4. CASE \E mode \in {"delta", "scan", "full"} : Begin(mode)
      <3>1. UNCHANGED <<wish, hasty>> /\ (UNCHANGED <<allow, seen, pilot>> \/ RunPluginAutopilot(known'))
        BY <2>4 DEF Begin
      <3>2. PICK authors : authors = known'
        OBVIOUS
      <3> QED
        BY <3>1, <3>2
    <2>5. CASE SettingsTab
      BY <2>5, Zenon DEF SettingsTab
    <2> QED
      BY <2>1, <2>2, <2>3, <2>4, <2>5, <2>6, <2>7, NextCases, Zenon
  <1> QED
    BY <1>1, <1>2, <1>3, <1>4, <1>5

\* A plugin the user un-ticked stays un-ticked, whatever the autopilot sees later (main.ts runPluginAutopilot, setPluginSync),
\* unless the un-tick came before the autopilot had seen the plugin, or while it was asking about the vault.
THEOREM UntickSticksHolds == Spec => []UntickSticks
  <1>1. Init => Unticked
    BY DEF Init, Unticked
  <1>2. Types /\ Unticked /\ [Next]_vars => Unticked'
    BY UntickedNext
  <1>3. Unticked => UntickSticks
    BY DEF Unticked, UntickSticks
  <1> QED
    BY <1>1, <1>2, <1>3, TypesAlways, PTL DEF Spec

-----------------------------------------------------------------------------
(* The list of enabled plugins *)

\* The list is never for the user to resolve; once it has a base it is on both sides; and a pass that knows no list on the
\* server, and still has it to do, finds no base.
ListKept ==
    /\ deletes \in Nat /\ task[List] = NoTask /\ List \notin conflicts /\ List \notin job.todo
    /\ (base[List] # {} => local[List] # {} /\ server[List].note # {})
    /\ (pass.rows[List].note # {} => server[List].note # {})
    /\ (pass.step # "none" /\ pass.mode # "scan" /\ List \in pass.todo /\ pass.rows[List].note = {} => base[List] = {})
    /\ (pass.step \in {"list", "listWrite"} => pass.file = List /\ pass.rows[List].note # {})
    /\ (pass.step = "push" /\ pass.file = List => local[List] # {} /\ pass.note # {})
    /\ (pass.step \in {"pull", "write", "deleteRemote"} => pass.file # List)

\* Entries leave the local list by a deletion, or written over unseen.
Grows == local[List] \ local'[List] \subseteq overrun' \/ deletes' > deletes

LEMMA ListStays ==
    ASSUME Types, ListKept, List \notin conflicts', List \notin job'.todo, task'[List] = NoTask, deletes' \in Nat,
           local[List] # {} => local'[List] # {}, server[List].note # {} => server'[List].note # {},
           \/ base'[List] = base[List]
           \/ Behind(pass', List) /\ (base'[List] # {} => local'[List] # {} /\ server'[List].note # {}),
           pass' = pass \/ pass' = NoPass \/ (pass.step # "none" /\ \E f \in Files : Behind(pass', f))
    PROVE  ListKept'
  <1>1. List \in Files
    BY Bounds
  <1>2. CASE pass' = pass
    <2>1. base'[List] = base[List] \/ (List \notin pass'.todo /\ (base'[List] # {} => local'[List] # {} /\ server'[List].note # {}))
      BY DEF Behind
    <2> QED
      BY <1>2, <2>1 DEF ListKept
  <1>3. CASE pass' = NoPass
    <2>1. pass'.rows[List].note = {} /\ pass'.step = "none"
      BY <1>1, <1>3, Nothing
    <2> QED
      BY <2>1 DEF ListKept
  <1>4. ASSUME NEW f \in Files, Behind(pass', f), pass.step # "none" PROVE ListKept'
    <2>1. pass'.step = "take" /\ pass'.mode = pass.mode /\ pass'.rows = pass.rows /\ pass'.todo \subseteq pass.todo
      BY <1>4 DEF Behind
    <2>2. base'[List] = base[List] \/ (List \notin pass'.todo /\ (base'[List] # {} => local'[List] # {} /\ server'[List].note # {}))
      BY DEF Behind
    <2> QED
      BY <1>4, <2>1, <2>2 DEF ListKept
  <1> QED
    BY <1>2, <1>3, <1>4

LEMMA ListEdits ==
    ASSUME "listDeleted" \notin RacyMoves, Types, ListKept,
           \/ \E f \in Files : Edit(f) \/ Delete(f) \/ PeerDelete(f)
           \/ \E f \in Files, author \in {"me", "peer"} : PeerEdit(f, author)
           \/ \E e \in 1 .. MaxEdits : Disable(e)
    PROVE  ListKept' /\ Grows
  <1>1. UNCHANGED <<base, conflicts, flying>>
    BY DEF Edit, Delete, Disable, PeerEdit, PeerDelete
  <1>2. List \in Files /\ local \in [Files -> Note] /\ local[List] \in Note /\ server[List].note \in Note /\ deletes \in Nat
    BY Bounds, Parts DEF ListKept
  <1>3. deletes' \in Nat
    <2>1. deletes' = deletes \/ deletes' = deletes + 1
      BY Zenon DEF Edit, Delete, Disable, PeerEdit, PeerDelete, Erase
    <2> QED
      BY <1>2, <2>1
  <1>4. ASSUME local[List] # {} => local'[List] # {}, server[List].note # {} => server'[List].note # {}
        PROVE  ListKept'
    <2>1. List \notin conflicts' /\ List \notin job'.todo /\ task'[List] = NoTask /\ base'[List] = base[List] /\ pass' = pass
      BY <1>1 DEF ListKept, flying
    <2> QED
      BY <1>3, <1>4, <2>1, ListStays
  <1>5. ASSUME NEW f \in Files, Edit(f) PROVE ListKept' /\ Grows
    <2>1. PICK note : note = Edited(f, local[f])
      OBVIOUS
    <2>2. local' = [local EXCEPT ![f] = note] /\ server' = server
      BY <1>5, <2>1, Zenon DEF Edit
    <2>3. f = List => local[List] \subseteq note
      BY <2>1 DEF Edited
    <2>4. local[List] \subseteq local'[List]
      BY <1>2, <2>2, <2>3
    <2> QED
      BY <1>4, <2>2, <2>4 DEF Grows
  <1>6. ASSUME NEW f \in Files, Delete(f) PROVE ListKept' /\ Grows
    <2>1. local'[List] = local[List] /\ server' = server
      BY <1>2, <1>6 DEF Delete
    <2> QED
      BY <1>4, <2>1 DEF Grows
  <1>7. ASSUME NEW e \in 1 .. MaxEdits, Disable(e) PROVE ListKept' /\ Grows
    <2>1. local' = [local EXCEPT ![List] = @ \ {e}] /\ server' = server /\ local[List] # {e} /\ deletes' = deletes + 1
      BY <1>7 DEF Disable, Erase
    <2>2. local'[List] = local[List] \ {e}
      BY <1>2, <2>1
    <2>3. deletes' > deletes
      BY <1>2, <2>1
    <2>4. local[List] # {} => local'[List] # {}
      BY <2>1, <2>2
    <2> QED
      BY <1>4, <2>1, <2>3, <2>4 DEF Grows
  <1>8. ASSUME NEW f \in Files, NEW author \in {"me", "peer"}, PeerEdit(f, author) PROVE ListKept' /\ Grows
    <2>1. PICK note : note = Edited(f, server[f].note)
      OBVIOUS
    <2>2. Written(f, note, author) /\ local' = local /\ Make
      BY <1>8, <2>1, Zenon DEF PeerEdit
    <2>3. server[f].note \in Note
      BY Parts
    <2>4. note \in Note /\ note # {}
      BY <2>1, <2>2, <2>3, MakeSound
    <2>5. server'[f].note = note /\ \A g \in Files \ {f} : server'[g] = server[g]
      BY <2>2, <2>4, WrittenSound
    <2>6. server[List].note # {} => server'[List].note # {}
      BY <1>2, <2>4, <2>5
    <2> QED
      BY <1>4, <2>2, <2>6 DEF Grows
  <1>9. ASSUME NEW f \in Files, PeerDelete(f) PROVE ListKept' /\ Grows
    <2>1. PICK left \in IF f = List THEN {server[f].note \ {e} : e \in server[f].note} ELSE {{}} :
            Written(f, left, "me") /\ (f = List /\ left = {} => "listDeleted" \in RacyMoves)
      BY <1>9 DEF PeerDelete
    <2>2. server[f].note \in Note
      BY Parts
    <2>3. left \in Note
      BY <2>1, <2>2 DEF Note
    <2>4. server'[f].note = left /\ \A g \in Files \ {f} : server'[g] = server[g]
      BY <2>1, <2>3, WrittenSound
    <2>5. server[List].note # {} => server'[List].note # {}
      BY <1>2, <2>1, <2>4
    <2>6. local' = local
      BY <1>9 DEF PeerDelete
    <2> QED
      BY <1>4, <2>5, <2>6 DEF Grows
  <1> QED
    BY <1>5, <1>6, <1>7, <1>8, <1>9

LEMMA ListAside ==
    ASSUME Types, ListKept,
           \/ UNCHANGED vars
           \/ \E f \in Files : Lock(f)
           \/ Unlock \/ Restart \/ PassFails \/ JobEnds \/ SettingsTab \/ PilotEnds \/ Settle
           \/ \E s \in Surfaces, dir \in Dirs : SetConfigSurface(s, dir)
           \/ \E p \in Plugins, tick \in BOOLEAN : SetPluginSync(p, tick)
           \/ \E f \in Files, choice \in {"local", "remote"} : ResolveConfigGroup(f, choice)
           \/ \E p \in Plugins, choice \in {"local", "remote"} : ForcePlugin(p, choice)
    PROVE  ListKept' /\ Grows
  <1>1. /\ UNCHANGED <<local, base, server, deletes>> /\ (pass' = pass \/ pass' = NoPass)
        /\ task' = task \/ task' = [f \in Files |-> NoTask]
        /\ conflicts' \subseteq conflicts
    BY DEF vars, Lock, Unlock, Restart, PassFails, JobEnds, SettingsTab, PilotEnds, Settle, SetConfigSurface, SetPluginSync,
           ResolveConfigGroup, ForcePlugin, files, flying, bounds
  <1>2. List \in Files /\ Owner[List] \notin Plugins
    BY Bounds
  <1>3. List \notin job'.todo
    <2>1. ASSUME NEW group, List \notin group, NEW choice, NEW clears, NEW saw,
                 job' = [choice |-> choice, todo |-> group, group |-> group, clears |-> clears, saw |-> saw]
          PROVE  List \notin job'.todo
      BY <2>1
    <2>2. ASSUME NEW f \in Files, NEW choice, ResolveConfigGroup(f, choice) PROVE List \notin job'.todo
      <3>1. PICK group \in SUBSET conflicts : job' = [choice |-> choice, todo |-> group, group |-> group, clears |-> TRUE, saw |-> Seen(choice)]
        BY <2>2 DEF ResolveConfigGroup
      <3>2. List \notin group
        BY <3>1 DEF ListKept
      <3> QED
        BY <2>1, <3>1, <3>2
    <2>3. ASSUME NEW p \in Plugins, NEW choice, ForcePlugin(p, choice) PROVE List \notin job'.todo
      <3>1. PICK group : group = {f \in Files : Owner[f] = p /\ (local[f] # {} \/ server[f].note # {})}
        OBVIOUS
      <3>2. job' = [choice |-> choice, todo |-> group, group |-> group, clears |-> FALSE, saw |-> Seen(choice)]
        BY <2>3, <3>1, Zenon DEF ForcePlugin
      <3>3. List \notin group
        BY <1>2, <3>1
      <3> QED
        BY <2>1, <3>2, <3>3
    <2>4. CASE job' = job \/ job' = NoJob
      BY <2>4, Nothing DEF ListKept
    <2>5. \/ job' = job \/ job' = NoJob
          \/ \E f \in Files, choice \in {"local", "remote"} : ResolveConfigGroup(f, choice)
          \/ \E p \in Plugins, choice \in {"local", "remote"} : ForcePlugin(p, choice)
      BY DEF vars, Lock, Unlock, Restart, PassFails, JobEnds, SettingsTab, PilotEnds, Settle, SetConfigSurface, SetPluginSync, flying
    <2> QED
      BY <2>2, <2>3, <2>4, <2>5
  <1>4. List \notin conflicts' /\ task'[List] = NoTask /\ deletes' \in Nat /\ base'[List] = base[List]
    BY <1>1, <1>2 DEF ListKept
  <1>5. ListKept'
    BY <1>1, <1>3, <1>4, ListStays
  <1> QED
    BY <1>1, <1>5 DEF Grows

LEMMA ListTasks ==
    ASSUME Types, ListKept, NEW f \in Files, TaskReads(f) \/ TaskEnds(f) \/ TaskFails(f) \/ JobNext(f)
    PROVE  ListKept' /\ Grows
  <1>1. List \in Files /\ deletes \in Nat /\ task[List] = NoTask /\ List \notin conflicts /\ List \notin job.todo
    BY Bounds DEF ListKept
  <1>2. local \in [Files -> Note] /\ base \in [Files -> Note] /\ task \in [Files -> Tasks]
    BY Parts
  <1>3. CASE TaskReads(f)
    <2>1. /\ UNCHANGED <<files, conflicts, pass, job, bounds>> /\ task[f].step = "start" /\ \A g \in Files \ {f} : task'[g] = task[g]
      BY <1>3, TaskReadsSound
    <2>2. f # List
      BY <1>1, <2>1, Nothing
    <2>3. task'[List] = NoTask /\ UNCHANGED <<local, base, server, deletes>>
      BY <1>1, <2>1, <2>2 DEF files, bounds
    <2>4. ListKept'
      BY <1>1, <2>1, <2>3, ListStays
    <2> QED
      BY <2>3, <2>4 DEF Grows
  <1>4. CASE TaskEnds(f)
    <2>1. /\ UNCHANGED <<conflicts, pass, bounds>> /\ task[f].step = "apply" /\ task' = [task EXCEPT ![f] = NoTask]
          /\ job'.todo \subseteq job.todo /\ base' = [base EXCEPT ![f] = task[f].note]
      BY <1>4, TaskEndsSound
    <2>2. f # List
      BY <1>1, <2>1, Nothing
    <2>3. (local' = local \/ local' = [local EXCEPT ![f] = task[f].note]) /\ (server' = server \/ \A g \in Files \ {f} : server'[g] = server[g])
      BY <1>4, TaskEndsSound
    <2>4. /\ task'[List] = NoTask /\ base'[List] = base[List] /\ local'[List] = local[List] /\ server'[List] = server[List]
          /\ deletes' = deletes /\ List \notin job'.todo
      BY <1>1, <1>2, <2>1, <2>2, <2>3 DEF bounds
    <2>5. ListKept'
      BY <1>1, <2>1, <2>4, ListStays
    <2> QED
      BY <2>4, <2>5 DEF Grows
  <1>5. CASE TaskFails(f) \/ JobNext(f)
    <2>1. /\ UNCHANGED <<files, conflicts, pass, deletes>> /\ (\A g \in Files \ {f} : task'[g] = task[g])
          /\ task'[f] = NoTask \/ f \in job.todo
          /\ job'.todo \subseteq job.todo
      BY <1>5, TaskMoves
    <2>2. task'[List] = NoTask /\ UNCHANGED <<local, base, server, deletes>> /\ List \notin job'.todo
      BY <1>1, <2>1 DEF files
    <2>3. ListKept'
      BY <1>1, <2>1, <2>2, ListStays
    <2> QED
      BY <2>2, <2>3 DEF Grows
  <1> QED
    BY <1>3, <1>4, <1>5

LEMMA ListBegins ==
    ASSUME Types, ListKept, (\E mode \in {"delta", "scan", "full"} : Begin(mode)) \/ \E f \in Files : RawConfigEvent(f)
    PROVE  ListKept' /\ Grows
  <1>1. BeginsAs(pass')
    BY BeginSound
  <1>2. UNCHANGED <<local, base, server, conflicts, task, job, deletes>>
    BY DEF Begin, RawConfigEvent, files, bounds
  <1>3. List \in Files
    BY Bounds
  <1>4. pass'.step = "take" /\ ((pass'.mode = "scan" /\ pass'.rows[List].note = {}) \/ (pass'.mode # "scan" /\ pass'.rows = server))
    BY <1>1, <1>3, Nothing DEF BeginsAs
  <1> QED
    BY <1>2, <1>4 DEF ListKept, Grows

\* What the pass knows of the list is no more than the server has.
LEMMA ListRow ==
    ASSUME ListKept, pass.step = "take", List \in pass.todo
    PROVE  /\ (RowOf(List).note # {} => server[List].note # {})
           /\ (RowOf(List).note = {} => base[List] = {})
  BY DEF RowOf, ListKept

LEMMA ListTaken ==
    ASSUME Types, ListKept, NEW f \in Files, Take(f)
    PROVE  ListKept' /\ Grows
  <1> DEFINE row == RowOf(f)
             act == Decision!Decide(Read(f), base[f], row.note)
             Goes(s) == /\ pass' \in Passes /\ pass'.step = s /\ pass'.file = f /\ pass'.note = Read(f) /\ pass'.rows[f] = row
                        /\ (\A g \in Files \ {f} : pass'.rows[g] = pass.rows[g]) /\ pass'.mode = pass.mode
                        /\ pass'.todo = pass.todo /\ pass'.top = pass.top /\ pass'.failed = pass.failed
             A1 == Behind(pass', f) /\ UNCHANGED <<base, task, conflicts>>
             A2 == f = List /\ row.note # {} /\ Goes("list") /\ UNCHANGED <<base, task, conflicts>>
             A3 == /\ f # List \/ row.note = {}
                   /\ act \in {"merge", "conflict", "editWinsPull", "keepLocal"}
                   /\ Behind(pass', f) /\ RecordConfigConflict(f, act, Read(f), row.note) /\ UNCHANGED base
             A4 == /\ act \in {"push", "deleteRemote", "deleteLocal"} \/ (act = "pull" /\ f # List)
                   /\ f \notin locked \/ base[f] = {}
                   /\ Goes(IF act = "deleteLocal" THEN "write" ELSE act) /\ ClearConfigConflict(f) /\ UNCHANGED <<base, task>>
             A5 == /\ act = "inSync"
                   /\ f \notin locked \/ base[f] = {}
                   /\ base' = [base EXCEPT ![f] = row.note]
                   /\ Behind(pass', f) /\ ClearConfigConflict(f) /\ UNCHANGED task
  <1>1. UNCHANGED <<local, server, job, bounds>> /\ pass.step = "take" /\ f \in pass.todo
    BY TakeCases, Zenon
  <1>2. A1 \/ A2 \/ A3 \/ A4 \/ A5
    BY TakeCases, Zenon
  <1>3. /\ act = "inSync" => Read(f) = row.note
        /\ act = "push" => Read(f) # {}
        /\ act = "deleteLocal" => row.note = {} /\ base[f] # {}
        /\ act = "keepLocal" => row.note = {} /\ base[f] # {}
        /\ act = "deleteRemote" => Read(f) = {} /\ base[f] = row.note /\ row.note # {}
        /\ act = "merge" => row.note # {}
        /\ act = "conflict" => row.note # {}
        /\ act = "editWinsPull" => row.note # {}
    <2>1. PICK l, b, r : l = Read(f) /\ b = base[f] /\ r = row.note
      OBVIOUS
    <2>2. act = Decision!Decide(l, b, r)
      BY <2>1, Zenon
    <2> HIDE DEF act, row
    <2> QED
      BY <2>1, <2>2, Decided
  <1>4. f = List => (row.note # {} => server[List].note # {}) /\ (row.note = {} => base[List] = {})
    BY <1>1, ListRow
  <1>5. (Read(f) # {} => Read(f) = local[f]) /\ (f \notin locked => Read(f) = local[f])
    BY ReadType
  <1>6. List \in Files /\ local \in [Files -> Note] /\ base \in [Files -> Note] /\ task \in [Files -> Tasks]
    BY Bounds, Parts
  <1>7. deletes' = deletes /\ deletes' \in Nat /\ List \notin job'.todo
    BY <1>1 DEF bounds, ListKept
  <1>8. f = List /\ pass.mode # "scan" => row = pass.rows[List]
    BY DEF RowOf
  <1>14. row.note \in Note
    BY TakeCases DEF Row
  <1> HIDE DEF row, act
  <1>9. CASE A1
    <2>1. List \notin conflicts' /\ task'[List] = NoTask /\ UNCHANGED <<local, base, server>> /\ pass.step # "none"
      BY <1>1, <1>9 DEF ListKept
    <2>2. ListKept'
      BY <1>7, <1>9, <2>1, ListStays
    <2> QED
      BY <2>1, <2>2 DEF Grows
  <1>10. CASE A2
    BY <1>1, <1>4, <1>7, <1>8, <1>10 DEF ListKept, Grows
  <1>11. CASE A3
    <2>1. f # List
      BY <1>3, <1>4, <1>11
    <2>2. /\ \A g \in Files \ {f} : task'[g] = task[g]
          /\ conflicts' = conflicts \/ conflicts' = conflicts \cup {f}
      <3>1. PICK a, n : a = act /\ n = row.note
        OBVIOUS
      <3>2. RecordConfigConflict(f, a, Read(f), n) /\ n \in Note /\ Read(f) \in Note
        BY <1>11, <1>14, <3>1, ReadType
      <3> QED
        BY <3>2, RecordSound
    <2>3. List \notin conflicts' /\ task'[List] = NoTask /\ UNCHANGED <<local, base, server>> /\ pass.step # "none"
      BY <1>1, <1>6, <1>11, <2>1, <2>2 DEF ListKept
    <2>4. ListKept'
      BY <1>7, <1>11, <2>3, ListStays
    <2> QED
      BY <2>3, <2>4 DEF Grows
  <1>12. CASE A4
    <2>1. List \notin conflicts' /\ task'[List] = NoTask /\ UNCHANGED <<local, base, server>>
      BY <1>1, <1>12 DEF ListKept, ClearConfigConflict
    <2>2. CASE f # List
      BY <1>1, <1>6, <1>7, <1>12, <2>1, <2>2 DEF ListKept, Grows
    <2>3. CASE f = List
      <3>1. act = "push"
        <4>1. act = "deleteRemote" => local[List] # {} /\ List \notin locked
          BY <1>3, <1>12, <2>3 DEF ListKept
        <4>2. act # "deleteLocal"
          BY <1>3, <1>4, <2>3
        <4> QED
          BY <1>3, <1>5, <1>12, <2>3, <4>1, <4>2
      <3>2. local[List] # {} /\ pass'.note # {}
        BY <1>3, <1>5, <1>12, <2>3, <3>1
      <3> QED
        BY <1>1, <1>4, <1>7, <1>8, <1>12, <2>1, <2>3, <3>1, <3>2 DEF ListKept, Grows
    <2> QED
      BY <2>2, <2>3
  <1>13. CASE A5
    <2>1. List \notin conflicts' /\ task'[List] = NoTask /\ server' = server /\ pass.step # "none"
      BY <1>1, <1>13 DEF ListKept, ClearConfigConflict
    <2>2. local'[List] = local[List]
      BY <1>1
    <2>3. \/ base'[List] = base[List]
          \/ Behind(pass', List) /\ (base'[List] # {} => local'[List] # {} /\ server'[List].note # {})
      <3>1. CASE f # List
        BY <1>6, <1>13, <3>1
      <3>2. CASE f = List
        <4>1. base'[List] = row.note
          BY <1>6, <1>13, <3>2
        <4>2. row.note # {} => local[List] # {} /\ server[List].note # {}
          BY <1>3, <1>4, <1>5, <1>13, <3>2
        <4> QED
          BY <1>13, <2>1, <2>2, <3>2, <4>1, <4>2
      <3> QED
        BY <3>1, <3>2
    <2>4. ListKept'
      BY <1>7, <1>13, <2>1, <2>2, <2>3, ListStays
    <2> QED
      BY <2>2, <2>4 DEF Grows
  <1> QED
    BY <1>2, <1>9, <1>10, <1>11, <1>12, <1>13

LEMMA ListPass ==
    ASSUME "listInvalid" \notin RacyMoves, Types, ListKept, Push \/ Pull \/ Write \/ DeleteRemote \/ ListReads \/ MergeList
    PROVE  ListKept' /\ Grows
  <1>1. List \in Files /\ pass.file \in Files /\ local \in [Files -> Note] /\ base \in [Files -> Note] /\ deletes \in Nat
    BY Bounds, Parts DEF ListKept
  <1>2. CASE Push
    <2>1. /\ pass.step = "push" /\ Behind(pass', pass.file) /\ UNCHANGED <<local, conflicts, task, job, bounds>>
          /\ \/ UNCHANGED <<server, base>>
             \/ /\ base' = [base EXCEPT ![pass.file] = pass.note] /\ server'[pass.file].note = pass.note
                /\ \A g \in Files \ {pass.file} : server'[g] = server[g]
      BY <1>2, PushSound
    <2>2. List \notin conflicts' /\ task'[List] = NoTask /\ List \notin job'.todo /\ deletes' \in Nat /\ pass.step # "none"
      BY <2>1 DEF ListKept, bounds
    <2>3. CASE UNCHANGED <<server, base>>
      <3>1. ListKept'
        BY <1>1, <2>1, <2>2, <2>3, ListStays
      <3> QED
        BY <2>1, <3>1 DEF Grows
    <2>4. CASE pass.file # List
      <3>1. server'[List] = server[List] /\ base'[List] = base[List]
        BY <1>1, <2>1, <2>4
      <3>2. ListKept'
        BY <1>1, <2>1, <2>2, <3>1, ListStays
      <3> QED
        BY <2>1, <3>2 DEF Grows
    <2>5. CASE pass.file = List /\ ~UNCHANGED <<server, base>>
      <3>1. base'[List] = pass.note /\ server'[List].note = pass.note /\ local'[List] = local[List] /\ local[List] # {} /\ pass.note # {}
        BY <1>1, <2>1, <2>5 DEF ListKept
      <3>2. ListKept'
        BY <1>1, <2>1, <2>2, <2>5, <3>1, ListStays
      <3> QED
        BY <2>1, <3>2 DEF Grows
    <2> QED
      BY <2>3, <2>4, <2>5
  <1>3. CASE Pull
    <2>1. /\ pass.step = "pull" /\ UNCHANGED <<files, task, job, bounds>>
          /\ \/ Behind(pass', pass.file) /\ conflicts' = conflicts \cup {pass.file}
             \/ /\ conflicts' = conflicts /\ pass'.step = "write" /\ pass'.file = pass.file /\ pass'.rows = pass.rows
                /\ pass'.mode = pass.mode /\ pass'.todo = pass.todo
      BY <1>3, PullSound
    <2>2. pass.file # List /\ UNCHANGED <<local, base, server>>
      BY <2>1 DEF ListKept, files
    <2>3. /\ List \notin conflicts' /\ task'[List] = NoTask /\ List \notin job'.todo /\ deletes' \in Nat /\ pass.step # "none"
      BY <2>1, <2>2 DEF ListKept, bounds
    <2>4. CASE Behind(pass', pass.file)
      <3>1. ListKept'
        BY <1>1, <2>2, <2>3, <2>4, ListStays
      <3> QED
        BY <2>2, <3>1 DEF Grows
    <2>5. CASE pass'.step = "write" /\ pass'.file = pass.file /\ pass'.rows = pass.rows /\ pass'.mode = pass.mode /\ pass'.todo = pass.todo
      BY <2>1, <2>2, <2>3, <2>5 DEF ListKept, Grows
    <2> QED
      BY <2>1, <2>4, <2>5
  <1>6. CASE Write
    <2>1. /\ pass.step = "write" /\ Behind(pass', pass.file) /\ UNCHANGED <<server, conflicts, task, job, bounds>>
          /\ \/ UNCHANGED <<local, base>>
             \/ /\ local' = [local EXCEPT ![pass.file] = pass.rows[pass.file].note]
                /\ base' = [base EXCEPT ![pass.file] = pass.rows[pass.file].note]
      BY <1>6, WriteSound
    <2>2. pass.file # List
      BY <2>1 DEF ListKept
    <2>3. List \notin conflicts' /\ task'[List] = NoTask /\ List \notin job'.todo /\ deletes' \in Nat /\ pass.step # "none"
      BY <2>1, <2>2 DEF ListKept, bounds
    <2>4. local'[List] = local[List] /\ base'[List] = base[List] /\ server'[List] = server[List]
      BY <1>1, <2>1, <2>2
    <2>5. ListKept'
      BY <1>1, <2>1, <2>3, <2>4, ListStays
    <2> QED
      BY <2>4, <2>5 DEF Grows
  <1>7. CASE ListReads
    <2>1. /\ pass.step = "list" /\ UNCHANGED <<files, conflicts, task, job, bounds>> /\ pass'.step = "listWrite" /\ pass'.file = pass.file
          /\ pass'.rows = pass.rows /\ pass'.mode = pass.mode /\ pass'.todo = pass.todo
      BY <1>7, ListReadsSound
    <2>2. UNCHANGED <<local, base, server, deletes>>
      BY <2>1 DEF files, bounds
    <2> QED
      BY <2>1, <2>2 DEF ListKept, Grows
  <1>4. CASE DeleteRemote
    <2>1. /\ pass.step = "deleteRemote" /\ Behind(pass', pass.file) /\ UNCHANGED <<local, conflicts, task, job, bounds>>
          /\ \/ UNCHANGED <<server, base>>
             \/ /\ base' = [base EXCEPT ![pass.file] = {}]
                /\ \A g \in Files \ {pass.file} : server'[g] = server[g]
      BY <1>4, DeleteRemoteSound
    <2>2. pass.file # List
      BY <2>1 DEF ListKept
    <2>3. List \notin conflicts' /\ task'[List] = NoTask /\ List \notin job'.todo /\ deletes' \in Nat /\ pass.step # "none"
      BY <2>1, <2>2 DEF ListKept, bounds
    <2>4. local'[List] = local[List] /\ base'[List] = base[List] /\ server'[List] = server[List]
      BY <1>1, <2>1, <2>2
    <2>5. ListKept'
      BY <1>1, <2>1, <2>3, <2>4, ListStays
    <2> QED
      BY <2>4, <2>5 DEF Grows
  <1>5. CASE MergeList
    <2>1. PICK merged : merged = pass.note \cup pass.rows[List].note
      OBVIOUS
    <2>2. /\ pass.step = "listWrite" /\ Behind(pass', List) /\ UNCHANGED <<task, job, bounds>> /\ conflicts' \subseteq conflicts
          /\ local'[List] = local[List] \/ (local'[List] = merged /\ local[List] \subseteq overrun' \cup merged)
          /\ \/ base'[List] = base[List] /\ server'[List] = server[List]
             \/ /\ base'[List] = merged /\ local'[List] = merged
                /\ server'[List] = server[List] \/ server'[List].note = merged
      BY <1>5, <2>1, MergeListSound
    <2>3. pass.rows[List].note # {} /\ server[List].note # {}
      BY <2>2 DEF ListKept
    <2>4. /\ merged # {} /\ local[List] \ local'[List] \subseteq overrun' /\ (local[List] # {} => local'[List] # {})
          /\ server'[List].note # {}
      BY <2>1, <2>2, <2>3
    <2>5. List \notin conflicts' /\ task'[List] = NoTask /\ List \notin job'.todo /\ deletes' \in Nat /\ pass.step # "none"
      BY <2>2 DEF ListKept, bounds
    <2>6. ListKept'
      BY <1>1, <2>2, <2>4, <2>5, ListStays
    <2> QED
      BY <2>4, <2>6 DEF Grows
  <1> QED
    BY <1>2, <1>3, <1>4, <1>5, <1>6, <1>7

LEMMA ListNext ==
    ASSUME "listDeleted" \notin RacyMoves, "listInvalid" \notin RacyMoves, Types, ListKept, [Next]_vars
    PROVE  ListKept' /\ Grows
  <1>1. ASSUME NEW f \in Files, Take(f) \/ TaskReads(f) \/ TaskEnds(f) \/ TaskFails(f) \/ JobNext(f) PROVE ListKept' /\ Grows
    BY <1>1, ListTaken, ListTasks, Zenon
  <1>2. CASE \/ \E f \in Files : Edit(f) \/ Delete(f) \/ PeerDelete(f)
             \/ \E f \in Files, author \in {"me", "peer"} : PeerEdit(f, author)
             \/ \E e \in 1 .. MaxEdits : Disable(e)
    BY <1>2, ListEdits, Zenon
  <1>3. CASE \/ UNCHANGED vars
             \/ \E f \in Files : Lock(f)
             \/ Unlock \/ Restart \/ PassFails \/ JobEnds \/ SettingsTab \/ PilotEnds \/ Settle
             \/ \E s \in Surfaces, dir \in Dirs : SetConfigSurface(s, dir)
             \/ \E p \in Plugins, tick \in BOOLEAN : SetPluginSync(p, tick)
             \/ \E f \in Files, choice \in {"local", "remote"} : ResolveConfigGroup(f, choice)
             \/ \E p \in Plugins, choice \in {"local", "remote"} : ForcePlugin(p, choice)
    BY <1>3, ListAside, Zenon
  <1>4. CASE (\E mode \in {"delta", "scan", "full"} : Begin(mode)) \/ \E f \in Files : RawConfigEvent(f)
    BY <1>4, ListBegins, Zenon
  <1>5. CASE Push \/ Pull \/ Write \/ DeleteRemote \/ ListReads \/ MergeList
    BY <1>5, ListPass, Zenon
  <1> QED
    BY <1>1, <1>2, <1>3, <1>4, <1>5, NextCases, Zenon

LEMMA ListAlways ==
    ASSUME "listDeleted" \notin RacyMoves, "listInvalid" \notin RacyMoves
    PROVE  Spec => []ListKept
  <1>1. Init => ListKept
    <2> SUFFICES ASSUME Init PROVE ListKept
      OBVIOUS
    <2>1. List \in Files
      BY Bounds
    <2>2. deletes = 0 /\ task[List] = NoTask /\ conflicts = {} /\ job = NoJob /\ base[List] = {} /\ pass = NoPass
      BY <2>1, Zenon DEF Init
    <2> QED
      BY <2>1, <2>2, Nothing DEF ListKept
  <1>2. Types /\ ListKept /\ [Next]_vars => ListKept'
    BY ListNext
  <1> QED
    BY <1>1, <1>2, TypesAlways, PTL DEF Spec

\* A sync never disables a plugin that is enabled here (configsync.ts mergeEnabledPlugins, reconcile.ts
\* reconcileEnabledPluginList): entries leave the local list by the user's hand, or because the list could not be read or was
\* changed when its union with the server's was made, if nobody deletes the whole list on the server or breaks its JSON.
THEOREM PluginsKeptHolds ==
    ASSUME "listDeleted" \notin RacyMoves, "listInvalid" \notin RacyMoves
    PROVE  Spec => PluginsKept
  <1>1. Types /\ ListKept /\ [Next]_vars => [local[List] \ local'[List] \subseteq overrun' \/ deletes' > deletes]_vars
    BY ListNext DEF Grows
  <1> QED
    BY <1>1, ListAlways, TypesAlways, PTL DEF Spec, PluginsKept

-----------------------------------------------------------------------------
(* No silent loss *)

\* What is in n and was not given up or overrun is in m.
Has(g, n, m) == n \subseteq g \cup m

LEMMA Carried ==
    ASSUME NEW g, NEW h, g \subseteq h, NEW n, NEW m, NEW k, Has(g, n, m), Has(h, m, k)
    PROVE  Has(h, n, k)
  BY DEF Has

LEMMA HasSelf == \A g, n : Has(g, n, n) /\ Has(g, {}, n)
  BY DEF Has

\* The base is on both sides, and what the pass knows is still on the server.
Agreed(f) == Has(Lost, base[f], local[f]) /\ Has(Lost, base[f], server[f].note) /\ Has(Lost, pass.rows[f].note, server[f].note)

\* The step of the pass loses nothing, and no resolution is at its file.
PassNotes ==
    /\ (pass.step \notin {"none", "take"} => task[pass.file] = NoTask)
    /\ (pass.step = "push" => Has(Lost, pass.note, local[pass.file]) /\ Has(Lost, pass.rows[pass.file].note, pass.note))
    /\ (pass.step \in {"pull", "write"} => Has(Lost, pass.note, server[pass.file].note))
    /\ (pass.step \in {"list", "listWrite"} => pass.file = List)
    /\ (pass.step = "deleteRemote" => Has(Lost, pass.rows[pass.file].note, {}))

\* What a resolution is about to write is still on the side it was read from.
TaskNotes(f) ==
    task[f].step = "apply" =>
        /\ (task[f].choice = "remote" => Has(Lost, task[f].note, server[f].note))
        /\ (task[f].choice = "local" => Has(Lost, task[f].note, local[f]))

LossInv == NoSilentLoss /\ PassNotes /\ \A f \in Files : Agreed(f) /\ TaskNotes(f)

\* A step that puts each note where the other side, or whoever gave it up, still accounts for it.
LEMMA LossStep ==
    ASSUME Types, LossInv, Lost \subseteq Lost',
           \A f \in Files : Has(Lost', server[f].note, server'[f].note) /\ Has(Lost', local[f], local'[f] \cup server'[f].note),
           edits' = edits \/ (edits' = edits + 1 /\ \E f \in Files : edits' \in local'[f] \cup server'[f].note),
           \A f \in Files : \/ base'[f] = base[f] /\ Has(Lost', local[f], local'[f])
                            \/ Has(Lost', base'[f], local'[f]) /\ Has(Lost', base'[f], server'[f].note),
           \A f \in Files : pass'.rows[f] = pass.rows[f] \/ Has(Lost', pass'.rows[f].note, server'[f].note),
           \/ pass'.step \in {"none", "take"}
           \/ pass' = pass /\ task'[pass.file] = task[pass.file] /\ Has(Lost', local[pass.file], local'[pass.file])
           \/ PassNotes',
           \A f \in Files : \/ task'[f].step # "apply"
                            \/ task'[f] = task[f] /\ Has(Lost', local[f], local'[f])
                            \/ TaskNotes(f)'
    PROVE  LossInv'
  <1>1. NoSilentLoss'
    <2> SUFFICES ASSUME NEW e \in 1 .. edits' PROVE e \in Lost' \/ \E f \in Files : e \in local'[f] \cup server'[f].note
      BY DEF NoSilentLoss, Lost
    <2>1. edits \in Nat
      BY Parts
    <2>2. CASE e \in 1 .. edits
      <3>1. e \in Lost \/ \E f \in Files : e \in local[f] \cup server[f].note
        BY <2>2 DEF LossInv, NoSilentLoss, Lost
      <3>2. ASSUME NEW f \in Files, e \in local[f] \cup server[f].note PROVE e \in Lost' \/ e \in local'[f] \cup server'[f].note
        BY <3>2 DEF Has
      <3> QED
        BY <3>1, <3>2
    <2>3. CASE e \notin 1 .. edits
      BY <2>1, <2>3
    <2> QED
      BY <2>2, <2>3
  <1>2. ASSUME NEW f \in Files PROVE Agreed(f)'
    <2>1. Has(Lost, base[f], local[f]) /\ Has(Lost, base[f], server[f].note) /\ Has(Lost, pass.rows[f].note, server[f].note)
      BY DEF LossInv, Agreed
    <2>2. Has(Lost', server[f].note, server'[f].note)
      OBVIOUS
    <2>3. Has(Lost', base'[f], local'[f]) /\ Has(Lost', base'[f], server'[f].note)
      <3>1. CASE base'[f] = base[f] /\ Has(Lost', local[f], local'[f])
        BY <2>1, <2>2, <3>1, Carried
      <3>2. CASE Has(Lost', base'[f], local'[f]) /\ Has(Lost', base'[f], server'[f].note)
        BY <3>2
      <3> QED
        BY <3>1, <3>2
    <2>4. Has(Lost', pass'.rows[f].note, server'[f].note)
      <3>1. CASE pass'.rows[f] = pass.rows[f]
        BY <2>1, <2>2, <3>1, Carried
      <3>2. CASE Has(Lost', pass'.rows[f].note, server'[f].note)
        BY <3>2
      <3> QED
        BY <3>1, <3>2
    <2> QED
      BY <2>3, <2>4 DEF Agreed
  <1>3. PassNotes'
    <2>1. CASE pass'.step \in {"none", "take"}
      BY <2>1 DEF PassNotes
    <2>2. CASE pass' = pass /\ task'[pass.file] = task[pass.file] /\ Has(Lost', local[pass.file], local'[pass.file])
      <3>1. pass.file \in Files /\ PassNotes
        BY Parts DEF LossInv
      <3>2. Has(Lost', server[pass.file].note, server'[pass.file].note) /\ \A n, m : Has(Lost', n, n) /\ Has(Lost', {}, m)
        BY <3>1, HasSelf
      <3>3. ASSUME pass.step = "push"
            PROVE  Has(Lost', pass.note, local'[pass.file]) /\ Has(Lost', pass.rows[pass.file].note, pass.note)
        <4>1. Has(Lost, pass.note, local[pass.file]) /\ Has(Lost, pass.rows[pass.file].note, pass.note)
          BY <3>1, <3>3 DEF PassNotes
        <4>2. Has(Lost', pass.note, local'[pass.file])
          BY <2>2, <4>1, Carried
        <4>3. Has(Lost', pass.rows[pass.file].note, pass.note)
          BY <4>1 DEF Has
        <4> QED
          BY <4>2, <4>3
      <3>4. pass.step \in {"pull", "write"} => Has(Lost', pass.note, server'[pass.file].note)
        BY <3>1, <3>2, Carried DEF PassNotes
      <3>5. pass.step = "deleteRemote" => Has(Lost', pass.rows[pass.file].note, {})
        BY <3>1, <3>2, Carried DEF PassNotes
      <3> QED
        BY <2>2, <3>1, <3>3, <3>4, <3>5 DEF PassNotes
    <2> QED
      BY <2>1, <2>2
  <1>4. ASSUME NEW f \in Files PROVE TaskNotes(f)'
    <2>1. CASE task'[f].step # "apply"
      BY <2>1 DEF TaskNotes
    <2>2. CASE task'[f] = task[f] /\ Has(Lost', local[f], local'[f])
      <3>1. TaskNotes(f) /\ Has(Lost', server[f].note, server'[f].note)
        BY DEF LossInv
      <3>2. task[f].step = "apply" /\ task[f].choice = "remote" => Has(Lost', task[f].note, server'[f].note)
        BY <3>1, Carried DEF TaskNotes
      <3>3. task[f].step = "apply" /\ task[f].choice = "local" => Has(Lost', task[f].note, local'[f])
        BY <2>2, <3>1, Carried DEF TaskNotes
      <3> QED
        BY <2>2, <3>2, <3>3 DEF TaskNotes
    <2> QED
      BY <2>1, <2>2
  <1> QED
    BY <1>1, <1>2, <1>3, <1>4 DEF LossInv

\* The same, for a step that leaves the pass and the base alone, or gives the pass up.
LEMMA LossStays ==
    ASSUME Types, LossInv, Lost \subseteq Lost', base' = base,
           \A f \in Files : Has(Lost', server[f].note, server'[f].note) /\ Has(Lost', local[f], local'[f]),
           edits' = edits \/ (edits' = edits + 1 /\ \E f \in Files : edits' \in local'[f] \cup server'[f].note),
           pass' = NoPass \/ (pass' = pass /\ (pass.step \notin {"none", "take"} => task'[pass.file] = task[pass.file])),
           \A f \in Files : task'[f].step # "apply" \/ task'[f] = task[f] \/ TaskNotes(f)'
    PROVE  LossInv'
  <1>1. \A f \in Files : Has(Lost', local[f], local'[f] \cup server'[f].note)
    BY DEF Has
  <1>2. \A f \in Files : pass'.rows[f] = pass.rows[f] \/ Has(Lost', pass'.rows[f].note, server'[f].note)
    BY Nothing DEF Has
  <1>3. \/ pass'.step \in {"none", "take"}
        \/ pass' = pass /\ task'[pass.file] = task[pass.file] /\ Has(Lost', local[pass.file], local'[pass.file])
    BY Parts, Nothing
  <1> QED
    BY <1>1, <1>2, <1>3, LossStep

LEMMA LossEdits ==
    ASSUME Types, LossInv,
           \/ \E f \in Files : Edit(f) \/ Delete(f) \/ PeerDelete(f)
           \/ \E f \in Files, author \in {"me", "peer"} : PeerEdit(f, author)
           \/ \E e \in 1 .. MaxEdits : Disable(e)
    PROVE  LossInv'
  <1>1. UNCHANGED <<base, pass, task>>
    BY DEF Edit, Delete, Disable, PeerEdit, PeerDelete, flying
  <1>2. List \in Files /\ local \in [Files -> Note] /\ \A f \in Files : local[f] \in Note /\ server[f].note \in Note
    BY Bounds, Parts
  <1>3. \A n : Has(Lost', n, n)
    BY HasSelf
  <1>4. ASSUME NEW f \in Files, Lost \subseteq Lost', server' = server, Has(Lost', local[f], local'[f]),
               \A g \in Files \ {f} : local'[g] = local[g], edits' = edits \/ (edits' = edits + 1 /\ edits' \in local'[f])
        PROVE  LossInv'
    <2>1. \A g \in Files : Has(Lost', server[g].note, server'[g].note) /\ Has(Lost', local[g], local'[g])
      BY <1>3, <1>4
    <2> QED
      BY <1>1, <1>4, <2>1, LossStays
  <1>5. ASSUME NEW f \in Files, Lost \subseteq Lost', local' = local, Has(Lost', server[f].note, server'[f].note),
               \A g \in Files \ {f} : server'[g] = server[g], edits' = edits \/ (edits' = edits + 1 /\ edits' \in server'[f].note)
        PROVE  LossInv'
    <2>1. \A g \in Files : Has(Lost', server[g].note, server'[g].note) /\ Has(Lost', local[g], local'[g])
      BY <1>3, <1>5
    <2> QED
      BY <1>1, <1>5, <2>1, LossStays
  <1>6. ASSUME NEW f \in Files, Edit(f) PROVE LossInv'
    <2>1. PICK note : note = Edited(f, local[f])
      OBVIOUS
    <2>2. local' = [local EXCEPT ![f] = note] /\ server' = server /\ GivenUp(local[f], local'[f]) /\ Make
      BY <1>6, <2>1, Zenon DEF Edit
    <2>3. edits' \in note /\ edits' = edits + 1
      BY <1>2, <2>1, <2>2, MakeSound
    <2>4. Lost \subseteq Lost' /\ local[f] \subseteq Lost' \cup local'[f]
      BY <1>2, <2>2, GivenUpSound
    <2>5. local'[f] = note /\ \A g \in Files \ {f} : local'[g] = local[g]
      BY <1>2, <2>2
    <2>6. Has(Lost', local[f], local'[f])
      BY <2>4 DEF Has
    <2> QED
      BY <1>4, <2>2, <2>3, <2>4, <2>5, <2>6
  <1>7. ASSUME NEW f \in Files, Delete(f) PROVE LossInv'
    <2>1. local' = [local EXCEPT ![f] = {}] /\ server' = server /\ GivenUp(local[f], {}) /\ edits' = edits
      BY <1>7 DEF Delete
    <2>2. Lost \subseteq Lost' /\ local[f] \subseteq Lost' \cup {}
      BY <1>2, <2>1, GivenUpSound
    <2>3. \A g \in Files \ {f} : local'[g] = local[g]
      BY <1>2, <2>1
    <2>4. Has(Lost', local[f], local'[f])
      BY <2>2 DEF Has
    <2> QED
      BY <1>4, <2>1, <2>2, <2>3, <2>4
  <1>8. ASSUME NEW e \in 1 .. MaxEdits, Disable(e) PROVE LossInv'
    <2>1. PICK note : note = local[List] \ {e}
      OBVIOUS
    <2>2. local' = [local EXCEPT ![List] = note] /\ server' = server /\ Lost' = Lost \cup {e} /\ edits' = edits
      <3>1. local' = [local EXCEPT ![List] = note] /\ server' = server /\ given' = given \cup ({e} \ {}) /\ overrun' = overrun /\ edits' = edits
        BY <1>8, <2>1, Zenon DEF Disable, GivenUp
      <3> QED
        BY <3>1 DEF Lost
    <2>3. local'[List] = note /\ \A g \in Files \ {List} : local'[g] = local[g]
      BY <1>2, <2>2
    <2>4. Has(Lost', local[List], local'[List]) /\ Lost \subseteq Lost'
      BY <2>1, <2>2, <2>3 DEF Has
    <2> QED
      BY <1>2, <1>4, <2>2, <2>3, <2>4
  <1>9. ASSUME NEW f \in Files, NEW author \in {"me", "peer"}, PeerEdit(f, author) PROVE LossInv'
    <2>1. PICK note : note = Edited(f, server[f].note)
      OBVIOUS
    <2>2. Written(f, note, author) /\ local' = local /\ Make /\ GivenUp(server[f].note, server'[f].note)
      BY <1>9, <2>1, Zenon DEF PeerEdit
    <2>3. note \in Note /\ edits' \in note /\ edits' = edits + 1
      BY <1>2, <2>1, <2>2, MakeSound
    <2>4. server'[f].note = note /\ \A g \in Files \ {f} : server'[g] = server[g]
      BY <2>2, <2>3, WrittenSound
    <2>5. Lost \subseteq Lost' /\ server[f].note \subseteq Lost' \cup server'[f].note
      BY <1>2, <2>2, GivenUpSound
    <2>6. Has(Lost', server[f].note, server'[f].note)
      BY <2>5 DEF Has
    <2> QED
      BY <1>5, <2>2, <2>3, <2>4, <2>5, <2>6
  <1>10. ASSUME NEW f \in Files, PeerDelete(f) PROVE LossInv'
    <2>1. PICK left \in IF f = List THEN {server[f].note \ {e} : e \in server[f].note} ELSE {{}} :
            Written(f, left, "me") /\ GivenUp(server[f].note, left)
      BY <1>10 DEF PeerDelete
    <2>2. left \in Note
      BY <1>2, <2>1 DEF Note
    <2>3. server'[f].note = left /\ \A g \in Files \ {f} : server'[g] = server[g]
      BY <2>1, <2>2, WrittenSound
    <2>4. Lost \subseteq Lost' /\ server[f].note \subseteq Lost' \cup left
      BY <1>2, <2>1, GivenUpSound
    <2>5. Has(Lost', server[f].note, server'[f].note)
      BY <2>3, <2>4 DEF Has
    <2>6. local' = local /\ edits' = edits
      BY <1>10 DEF PeerDelete
    <2> QED
      BY <1>5, <2>3, <2>4, <2>5, <2>6
  <1> QED
    BY <1>6, <1>7, <1>8, <1>9, <1>10

LEMMA LossAside ==
    ASSUME Types, LossInv,
           \/ UNCHANGED vars
           \/ \E f \in Files : Lock(f)
           \/ Unlock \/ Restart \/ PassFails \/ JobEnds \/ SettingsTab \/ PilotEnds \/ Settle
           \/ \E s \in Surfaces, dir \in Dirs : SetConfigSurface(s, dir)
           \/ \E p \in Plugins, tick \in BOOLEAN : SetPluginSync(p, tick)
           \/ \E f \in Files, choice \in {"local", "remote"} : ResolveConfigGroup(f, choice)
           \/ \E p \in Plugins, choice \in {"local", "remote"} : ForcePlugin(p, choice)
    PROVE  LossInv'
  <1>1. /\ UNCHANGED <<local, base, server, given, overrun, edits>>
        /\ \/ task' = task /\ (pass' = pass \/ pass' = NoPass)
           \/ task' = [f \in Files |-> NoTask] /\ pass' = NoPass
    BY DEF vars, Lock, Unlock, Restart, PassFails, JobEnds, SettingsTab, PilotEnds, Settle, SetConfigSurface, SetPluginSync,
           ResolveConfigGroup, ForcePlugin, files, flying, bounds
  <1>2. \A f \in Files : Has(Lost', server[f].note, server'[f].note) /\ Has(Lost', local[f], local'[f])
    BY <1>1, HasSelf
  <1>3. \A f \in Files : task'[f].step # "apply" \/ task'[f] = task[f]
    BY <1>1, Nothing
  <1>4. pass' = NoPass \/ (pass' = pass /\ task' = task)
    BY <1>1
  <1>5. Lost' = Lost
    BY <1>1 DEF Lost
  <1> QED
    BY <1>1, <1>2, <1>3, <1>4, <1>5, LossStays

LEMMA LossTasks ==
    ASSUME "besidePass" \notin RacyMoves, Types, LossInv, NEW f \in Files, TaskReads(f) \/ TaskEnds(f) \/ TaskFails(f) \/ JobNext(f)
    PROVE  LossInv'
  <1>1. /\ local \in [Files -> Note] /\ base \in [Files -> Note] /\ task \in [Files -> Tasks] /\ pass.file \in Files
    BY Parts
  <1>2. pass.step \notin {"none", "take"} => task[pass.file] = NoTask
    BY DEF LossInv, PassNotes
  <1>3. CASE TaskReads(f)
    <2>1. /\ UNCHANGED <<files, pass, bounds>> /\ task[f].step = "start" /\ (\A g \in Files \ {f} : task'[g] = task[g])
          /\ task'[f].choice = task[f].choice
          /\ task'[f].note = IF task[f].choice = "remote" THEN server[f].note ELSE Read(f)
      BY <1>3, TaskReadsSound
    <2>2. UNCHANGED <<local, base, server, edits>> /\ Lost' = Lost
      BY <2>1 DEF files, bounds, Lost
    <2>3. \A g \in Files : Has(Lost', server[g].note, server'[g].note) /\ Has(Lost', local[g], local'[g])
      BY <2>2, HasSelf
    <2>4. Has(Lost', Read(f), local'[f]) /\ Has(Lost', server[f].note, server'[f].note)
      BY <2>2, <2>3 DEF Read, Has
    <2>5. TaskNotes(f)'
      BY <2>1, <2>2, <2>4 DEF TaskNotes
    <2>6. pass.step \notin {"none", "take"} => task'[pass.file] = task[pass.file]
      BY <1>1, <1>2, <2>1, Nothing
    <2> QED
      BY <2>1, <2>2, <2>3, <2>5, <2>6, LossStays
  <1>4. CASE TaskEnds(f)
    <2>1. PICK note : note = task[f].note
      OBVIOUS
    <2>2. /\ UNCHANGED <<pass, bounds>> /\ task[f].step = "apply" /\ task' = [task EXCEPT ![f] = NoTask]
          /\ base' = [base EXCEPT ![f] = note] /\ Lost \subseteq Lost'
      BY <1>4, <2>1, TaskEndsSound
    <2>3. TaskNotes(f)
      BY DEF LossInv
    <2>4. task'[f] = NoTask /\ base'[f] = note /\ \A g \in Files \ {f} : task'[g] = task[g] /\ base'[g] = base[g]
      BY <1>1, <2>2
    <2>5. /\ (\A g \in Files \ {f} : local'[g] = local[g] /\ server'[g] = server[g])
          /\ Has(Lost', local[f], local'[f]) /\ Has(Lost', server[f].note, server'[f].note)
          /\ Has(Lost', note, local'[f]) /\ Has(Lost', note, server'[f].note)
      <3>1. CASE task[f].choice = "remote"
        <4>1. local' = [local EXCEPT ![f] = note] /\ server' = server /\ local[f] \subseteq Lost' \cup note
          BY <1>4, <2>1, <3>1, TaskEndsSound
        <4>2. local'[f] = note /\ \A g \in Files \ {f} : local'[g] = local[g]
          BY <1>1, <4>1
        <4>3. Has(Lost, note, server[f].note)
          BY <2>1, <2>2, <2>3, <3>1 DEF TaskNotes
        <4>4. Has(Lost', note, server'[f].note)
          BY <2>2, <4>1, <4>3 DEF Has
        <4> QED
          BY <4>1, <4>2, <4>4 DEF Has
      <3>2. CASE task[f].choice # "remote"
        <4>1. /\ task[f].choice = "local" /\ local' = local /\ server'[f].note = note
              /\ (\A g \in Files \ {f} : server'[g] = server[g]) /\ server[f].note \subseteq Lost' \cup note
          BY <1>4, <2>1, <3>2, TaskEndsSound
        <4>2. Has(Lost, note, local[f])
          BY <2>1, <2>2, <2>3, <4>1 DEF TaskNotes
        <4>3. Has(Lost', note, local'[f])
          BY <2>2, <4>1, <4>2 DEF Has
        <4> QED
          BY <4>1, <4>3 DEF Has
      <3> QED
        BY <3>1, <3>2
    <2>6. \A g \in Files : Has(Lost', server[g].note, server'[g].note) /\ Has(Lost', local[g], local'[g])
      BY <2>5, HasSelf
    <2>7. \A g \in Files : Has(Lost', local[g], local'[g] \cup server'[g].note)
      BY <2>6 DEF Has
    <2>8. \A g \in Files : \/ base'[g] = base[g] /\ Has(Lost', local[g], local'[g])
                           \/ Has(Lost', base'[g], local'[g]) /\ Has(Lost', base'[g], server'[g].note)
      BY <2>4, <2>5, <2>6
    <2>9. pass'.step \in {"none", "take"} \/ (pass' = pass /\ task'[pass.file] = task[pass.file] /\ Has(Lost', local[pass.file], local'[pass.file]))
      BY <1>1, <1>2, <2>2, <2>4, <2>6, Nothing
    <2>10. \A g \in Files : task'[g].step # "apply" \/ (task'[g] = task[g] /\ Has(Lost', local[g], local'[g]))
      BY <2>4, <2>6, Nothing
    <2>11. edits' = edits /\ pass'.rows = pass.rows
      BY <2>2 DEF bounds
    <2> QED
      BY <2>2, <2>6, <2>7, <2>8, <2>9, <2>10, <2>11, LossStep
  <1>5. CASE TaskFails(f) \/ JobNext(f)
    <2>1. /\ UNCHANGED <<files, pass, edits>> /\ (\A g \in Files \ {f} : task'[g] = task[g])
          /\ task'[f] = NoTask \/ (task'[f].step = "start" /\ ~(pass.step \notin {"none", "take"} /\ pass.file = f))
      BY <1>5, TaskMoves
    <2>2. UNCHANGED <<local, base, server>> /\ Lost' = Lost
      BY <2>1 DEF files, Lost
    <2>3. \A g \in Files : Has(Lost', server[g].note, server'[g].note) /\ Has(Lost', local[g], local'[g])
      BY <2>2, HasSelf
    <2>4. \A g \in Files : task'[g].step # "apply" \/ task'[g] = task[g]
      BY <2>1, Nothing
    <2>5. pass.step \notin {"none", "take"} => task'[pass.file] = task[pass.file]
      BY <1>1, <1>2, <2>1
    <2> QED
      BY <2>1, <2>2, <2>3, <2>4, <2>5, LossStays
  <1> QED
    BY <1>3, <1>4, <1>5

LEMMA LossBegins ==
    ASSUME Types, LossInv, (\E mode \in {"delta", "scan", "full"} : Begin(mode)) \/ \E f \in Files : RawConfigEvent(f)
    PROVE  LossInv'
  <1>1. BeginsAs(pass')
    BY BeginSound
  <1>2. UNCHANGED <<local, base, server, edits, task>> /\ Lost' = Lost
    BY DEF Begin, RawConfigEvent, files, bounds, Lost
  <1>3. \A f \in Files : Has(Lost', server[f].note, server'[f].note) /\ Has(Lost', local[f], local'[f])
    BY <1>2, HasSelf
  <1>4. \A f \in Files : Has(Lost', pass'.rows[f].note, server'[f].note)
    BY <1>1, <1>2, Nothing, HasSelf DEF BeginsAs
  <1>5. pass'.step = "take"
    BY <1>1 DEF BeginsAs
  <1>6. \A f \in Files : Has(Lost', local[f], local'[f] \cup server'[f].note)
    BY <1>3 DEF Has
  <1> QED
    BY <1>2, <1>3, <1>4, <1>5, <1>6, LossStep

\* A step after which the pass is past the file f.
LEMMA LossPast ==
    ASSUME Types, LossInv, NEW f \in Files, Behind(pass', f), Lost \subseteq Lost', edits' = edits,
           Has(Lost', server[f].note, server'[f].note), Has(Lost', local[f], local'[f] \cup server'[f].note),
           \A g \in Files \ {f} : local'[g] = local[g] /\ server'[g] = server[g] /\ base'[g] = base[g] /\ task'[g] = task[g],
           \/ base'[f] = base[f] /\ Has(Lost', local[f], local'[f])
           \/ Has(Lost', base'[f], local'[f]) /\ Has(Lost', base'[f], server'[f].note),
           task'[f].step # "apply" \/ (task'[f] = task[f] /\ Has(Lost', local[f], local'[f]))
    PROVE  LossInv'
  <1>1. pass'.step = "take" /\ pass'.rows = pass.rows
    BY DEF Behind
  <1>2. \A g \in Files \ {f} : Has(Lost', server[g].note, server'[g].note) /\ Has(Lost', local[g], local'[g])
    BY HasSelf
  <1>3. \A g \in Files \ {f} : Has(Lost', local[g], local'[g] \cup server'[g].note)
    BY <1>2 DEF Has
  <1>4. \A g \in Files : Has(Lost', server[g].note, server'[g].note) /\ Has(Lost', local[g], local'[g] \cup server'[g].note)
    BY <1>2, <1>3
  <1>5. \A g \in Files : \/ base'[g] = base[g] /\ Has(Lost', local[g], local'[g])
                         \/ Has(Lost', base'[g], local'[g]) /\ Has(Lost', base'[g], server'[g].note)
    BY <1>2
  <1>6. \A g \in Files : task'[g].step # "apply" \/ (task'[g] = task[g] /\ Has(Lost', local[g], local'[g]))
    BY <1>2
  <1> QED
    BY <1>1, <1>4, <1>5, <1>6, LossStep

LEMMA LossTaken ==
    ASSUME "besidePass" \notin RacyMoves, Types, LossInv, NEW f \in Files, Take(f)
    PROVE  LossInv'
  <1> DEFINE row == RowOf(f)
             act == Decision!Decide(Read(f), base[f], row.note)
             Goes(s) == /\ pass' \in Passes /\ pass'.step = s /\ pass'.file = f /\ pass'.note = Read(f) /\ pass'.rows[f] = row
                        /\ (\A g \in Files \ {f} : pass'.rows[g] = pass.rows[g]) /\ pass'.mode = pass.mode
                        /\ pass'.todo = pass.todo /\ pass'.top = pass.top /\ pass'.failed = pass.failed
             A1 == Behind(pass', f) /\ UNCHANGED <<base, task, conflicts>>
             A2 == f = List /\ row.note # {} /\ Goes("list") /\ UNCHANGED <<base, task, conflicts>>
             A3 == /\ f # List \/ row.note = {}
                   /\ act \in {"merge", "conflict", "editWinsPull", "keepLocal"}
                   /\ Behind(pass', f) /\ RecordConfigConflict(f, act, Read(f), row.note) /\ UNCHANGED base
             A4 == /\ act \in {"push", "deleteRemote", "deleteLocal"} \/ (act = "pull" /\ f # List)
                   /\ f \notin locked \/ base[f] = {}
                   /\ Goes(IF act = "deleteLocal" THEN "write" ELSE act) /\ ClearConfigConflict(f) /\ UNCHANGED <<base, task>>
             A5 == /\ act = "inSync"
                   /\ f \notin locked \/ base[f] = {}
                   /\ base' = [base EXCEPT ![f] = row.note]
                   /\ Behind(pass', f) /\ ClearConfigConflict(f) /\ UNCHANGED task
  <1>1. UNCHANGED <<local, server, given, overrun, bounds>> /\ task[f] = NoTask
    BY TakeCases, Zenon
  <1>2. A1 \/ A2 \/ A3 \/ A4 \/ A5
    BY TakeCases, Zenon
  <1>3. /\ act = "inSync" => Read(f) = row.note
        /\ act = "push" => Read(f) # {} /\ base[f] = row.note
        /\ act = "deleteLocal" => Read(f) # {} /\ row.note = {} /\ Read(f) = base[f]
        /\ act = "pull" => Read(f) = base[f]
        /\ act = "deleteRemote" => Read(f) = {} /\ base[f] = row.note /\ row.note # {}
    <2>1. PICK l, b, r : l = Read(f) /\ b = base[f] /\ r = row.note
      OBVIOUS
    <2>2. act = Decision!Decide(l, b, r)
      BY <2>1, Zenon
    <2> HIDE DEF act, row
    <2> QED
      BY <2>1, <2>2, Decided
  <1>4. /\ Has(Lost, row.note, server[f].note) /\ Has(Lost, base[f], local[f]) /\ Has(Lost, base[f], server[f].note)
    BY HasSelf DEF RowOf, LossInv, Agreed
  <1>5. (Read(f) # {} => Read(f) = local[f]) /\ (f \notin locked => Read(f) = local[f])
    BY ReadType
  <1>6. local \in [Files -> Note] /\ base \in [Files -> Note] /\ task \in [Files -> Tasks]
    BY Parts
  <1>7. edits' = edits /\ Lost' = Lost /\ server' = server /\ local' = local
    BY <1>1 DEF bounds, Lost
  <1>8. /\ \A n : Has(Lost, n, n) /\ Has(Lost, {}, n)
        /\ \A n, m, k : Has(Lost, n, m) => Has(Lost, n, m \cup k) /\ Has(Lost, n, k \cup m)
    BY DEF Has
  <1>15. row.note \in Note
    BY TakeCases DEF Row
  <1> HIDE DEF row, act
  <1>9. CASE A1
    BY <1>7, <1>8, <1>9, LossPast
  <1>10. ASSUME UNCHANGED <<base, task>>, pass'.rows[f] = row, \A g \in Files \ {f} : pass'.rows[g] = pass.rows[g], PassNotes'
         PROVE  LossInv'
    <2>1. \A g \in Files : Has(Lost', server[g].note, server'[g].note) /\ Has(Lost', local[g], local'[g])
                           /\ Has(Lost', local[g], local'[g] \cup server'[g].note)
      BY <1>7, <1>8, <1>10
    <2>2. \A g \in Files : pass'.rows[g] = pass.rows[g] \/ Has(Lost', pass'.rows[g].note, server'[g].note)
      BY <1>4, <1>7, <1>10
    <2>3. Lost \subseteq Lost'
      BY <1>7
    <2> QED
      BY <1>7, <1>10, <2>1, <2>2, <2>3, LossStep
  <1>11. CASE A2
    <2>1. PassNotes'
      BY <1>1, <1>11 DEF PassNotes
    <2> QED
      BY <1>10, <1>11, <2>1
  <1>12. CASE A3
    <2>1. /\ \A g \in Files \ {f} : task'[g] = task[g]
          /\ task'[f] = task[f] \/ task'[f].step = "start"
      <3>1. PICK a, n : a = act /\ n = row.note
        OBVIOUS
      <3>2. RecordConfigConflict(f, a, Read(f), n) /\ n \in Note /\ Read(f) \in Note
        BY <1>12, <1>15, <3>1, ReadType
      <3> QED
        BY <3>2, RecordSound
    <2>2. task'[f].step # "apply"
      BY <1>1, <2>1, Nothing
    <2> QED
      BY <1>7, <1>8, <1>12, <2>1, <2>2, LossPast
  <1>13. CASE A4
    <2>1. task'[f] = NoTask /\ pass'.file = f /\ pass'.step = (IF act = "deleteLocal" THEN "write" ELSE act) /\ pass'.note = Read(f)
          /\ pass'.rows[f] = row /\ UNCHANGED base
      BY <1>1, <1>13
    <2>2. CASE act = "push"
      <3>1. Read(f) = local[f] /\ Has(Lost, row.note, local[f])
        BY <1>3, <1>4, <1>5, <2>2
      <3>2. PassNotes'
        BY <1>7, <1>8, <2>1, <2>2, <3>1 DEF PassNotes
      <3> QED
        BY <1>10, <1>13, <3>2
    <2>3. CASE act = "pull"
      <3>1. PassNotes'
        BY <1>3, <1>4, <1>7, <2>1, <2>3 DEF PassNotes
      <3> QED
        BY <1>10, <1>13, <3>1
    <2>4. CASE act = "deleteRemote"
      <3>1. local[f] = {} /\ Has(Lost, row.note, {})
        BY <1>3, <1>4, <1>5, <1>13, <2>4
      <3>2. PassNotes'
        BY <1>7, <2>1, <2>4, <3>1 DEF PassNotes
      <3> QED
        BY <1>10, <1>13, <3>2
    <2>5. CASE act = "deleteLocal"
      <3>1. PassNotes'
        BY <1>3, <1>4, <1>7, <2>1, <2>5 DEF PassNotes
      <3> QED
        BY <1>10, <1>13, <3>1
    <2> QED
      BY <1>13, <2>2, <2>3, <2>4, <2>5
  <1>14. CASE A5
    <2>1. base'[f] = row.note /\ \A g \in Files \ {f} : base'[g] = base[g] /\ task'[g] = task[g]
      BY <1>6, <1>14
    <2>2. task'[f].step # "apply"
      BY <1>1, <1>14, Nothing
    <2>3. Has(Lost, row.note, local[f])
      BY <1>3, <1>5, <1>8, <1>14
    <2> QED
      BY <1>4, <1>7, <1>8, <1>14, <2>1, <2>2, <2>3, LossPast
  <1> QED
    BY <1>2, <1>9, <1>11, <1>12, <1>13, <1>14

LEMMA LossPass ==
    ASSUME Types, LossInv, Push \/ Pull \/ Write \/ DeleteRemote \/ ListReads \/ MergeList
    PROVE  LossInv'
  <1>1. List \in Files /\ local \in [Files -> Note] /\ base \in [Files -> Note]
    BY Bounds, Parts
  <1>2. PICK f \in Files : f = pass.file
    BY Parts
  <1>3. PassNotes /\ \A g \in Files : Agreed(g)
    BY DEF LossInv
  <1>4. /\ \A n : Has(Lost, n, n) /\ Has(Lost, {}, n)
        /\ \A n, m, k : Has(Lost, n, m) => Has(Lost, n, m \cup k) /\ Has(Lost, n, k \cup m)
    BY DEF Has
  <1>5. \A g \in Files : Unmoved(g) => server[g].note = pass.rows[g].note
    BY DEF Unmoved
  <1>6. CASE Push
    <2>1. /\ pass.step = "push" /\ Behind(pass', f) /\ UNCHANGED <<local, given, overrun, task, bounds>>
          /\ \/ UNCHANGED <<server, base>>
             \/ /\ Unmoved(f) /\ base' = [base EXCEPT ![f] = pass.note] /\ server'[f].note = pass.note
                /\ \A g \in Files \ {f} : server'[g] = server[g]
      BY <1>2, <1>6, PushSound
    <2>2. edits' = edits /\ Lost' = Lost
      BY <2>1 DEF bounds, Lost
    <2>3. CASE UNCHANGED <<server, base>>
      BY <1>4, <2>1, <2>2, <2>3, LossPast
    <2>4. CASE ~UNCHANGED <<server, base>>
      <3>1. base'[f] = pass.note /\ \A g \in Files \ {f} : base'[g] = base[g]
        BY <1>1, <2>1, <2>4
      <3>2. Has(Lost, pass.note, local[f]) /\ Has(Lost, pass.rows[f].note, pass.note)
        BY <1>2, <1>3, <2>1 DEF PassNotes
      <3>3. Has(Lost, server[f].note, server'[f].note) /\ Has(Lost, base'[f], local'[f]) /\ Has(Lost, base'[f], server'[f].note)
        BY <1>4, <1>5, <2>1, <2>4, <3>1, <3>2
      <3> QED
        BY <1>4, <2>1, <2>2, <2>4, <3>1, <3>3, LossPast
    <2> QED
      BY <2>3, <2>4
  <1>10. ASSUME UNCHANGED <<files, bounds>>, UNCHANGED task, pass'.rows = pass.rows, PassNotes' PROVE LossInv'
    <2>1. UNCHANGED <<local, base, server, edits>> /\ Lost' = Lost
      BY <1>10 DEF files, bounds, Lost
    <2>2. \A g \in Files : Has(Lost', server[g].note, server'[g].note) /\ Has(Lost', local[g], local'[g])
                           /\ Has(Lost', local[g], local'[g] \cup server'[g].note)
      BY <1>4, <2>1
    <2>3. Lost \subseteq Lost'
      BY <2>1
    <2> QED
      BY <1>10, <2>1, <2>2, <2>3, LossStep
  <1>7. CASE Pull
    <2>1. /\ pass.step = "pull" /\ UNCHANGED <<files, task, bounds>>
          /\ \/ Behind(pass', f)
             \/ pass'.step = "write" /\ pass'.file = f /\ pass'.rows = pass.rows /\ pass'.note \in {{}, pass.note}
      BY <1>2, <1>7, PullSound
    <2>2. UNCHANGED <<local, base, server, edits>> /\ Lost' = Lost
      BY <2>1 DEF files, bounds, Lost
    <2>3. CASE Behind(pass', f)
      BY <1>4, <2>1, <2>2, <2>3, LossPast
    <2>4. CASE pass'.step = "write" /\ pass'.file = f /\ pass'.rows = pass.rows /\ pass'.note \in {{}, pass.note}
      <3>1. Has(Lost, pass.note, server[f].note) /\ task[f] = NoTask
        BY <1>2, <1>3, <2>1 DEF PassNotes
      <3>2. PassNotes'
        BY <1>4, <2>1, <2>2, <2>4, <3>1 DEF PassNotes
      <3> QED
        BY <1>10, <2>1, <2>4, <3>2
    <2> QED
      BY <2>1, <2>3, <2>4
  <1>11. CASE Write
    <2>1. /\ pass.step = "write" /\ Behind(pass', f) /\ UNCHANGED <<server, given, task, bounds>> /\ overrun \subseteq overrun'
          /\ \/ UNCHANGED <<local, base, overrun>>
             \/ /\ local' = [local EXCEPT ![f] = pass.rows[f].note] /\ base' = [base EXCEPT ![f] = pass.rows[f].note]
                /\ local[f] \subseteq overrun' \cup pass.note \cup pass.rows[f].note
      BY <1>2, <1>11, WriteSound
    <2>2. edits' = edits /\ Lost \subseteq Lost' /\ overrun' \subseteq Lost'
      BY <2>1 DEF bounds, Lost
    <2>6. \A n, m : Has(Lost, n, m) => Has(Lost', n, m)
      BY <2>2 DEF Has
    <2>3. CASE UNCHANGED <<local, base, overrun>>
      BY <1>4, <2>1, <2>2, <2>3, <2>6, LossPast
    <2>4. CASE ~UNCHANGED <<local, base, overrun>>
      <3>1. /\ base'[f] = pass.rows[f].note /\ local'[f] = pass.rows[f].note
            /\ \A g \in Files \ {f} : base'[g] = base[g] /\ local'[g] = local[g]
        BY <1>1, <2>1, <2>4
      <3>2. Has(Lost, pass.note, server[f].note) /\ Has(Lost, pass.rows[f].note, server[f].note) /\ task[f] = NoTask
        BY <1>2, <1>3, <2>1 DEF PassNotes, Agreed
      <3>3. local[f] \subseteq Lost' \cup pass.note \cup pass.rows[f].note
        BY <2>1, <2>2, <2>4
      <3>4. Has(Lost', local[f], local'[f] \cup server'[f].note)
        BY <2>1, <2>2, <3>1, <3>2, <3>3 DEF Has
      <3>5. Has(Lost', base'[f], local'[f]) /\ Has(Lost', base'[f], server'[f].note) /\ Has(Lost', server[f].note, server'[f].note)
        BY <1>4, <2>1, <2>6, <3>1, <3>2
      <3>6. task'[f].step # "apply"
        BY <2>1, <3>2, Nothing
      <3> QED
        BY <2>1, <2>2, <3>1, <3>4, <3>5, <3>6, LossPast
    <2> QED
      BY <2>3, <2>4
  <1>12. CASE ListReads
    <2>1. /\ pass.step = "list" /\ UNCHANGED <<files, bounds>>
          /\ \/ task' = task /\ pass'.step = "listWrite" /\ pass'.file = pass.file /\ pass'.rows = pass.rows
             \/ task' = task /\ pass'.step = "pull" /\ pass'.file = pass.file /\ pass'.rows = pass.rows /\ pass'.note = base[List]
             \/ /\ Behind(pass', List) /\ (\A g \in Files \ {List} : task'[g] = task[g])
                /\ task'[List] = task[List] \/ task'[List].step = "start"
      BY <1>12, ListReadsSound
    <2>2. UNCHANGED <<local, base, server, edits>> /\ Lost' = Lost
      BY <2>1 DEF files, bounds, Lost
    <2>3. task[List] = NoTask /\ pass.file = List /\ Has(Lost, base[List], server[List].note)
      BY <1>1, <1>3, <2>1 DEF PassNotes, Agreed
    <2>4. CASE task' = task /\ pass'.step = "listWrite" /\ pass'.file = pass.file /\ pass'.rows = pass.rows
      <3>1. PassNotes'
        BY <2>3, <2>4 DEF PassNotes
      <3> QED
        BY <1>10, <2>1, <2>4, <3>1
    <2>5. CASE task' = task /\ pass'.step = "pull" /\ pass'.file = pass.file /\ pass'.rows = pass.rows /\ pass'.note = base[List]
      <3>1. PassNotes'
        BY <2>2, <2>3, <2>5 DEF PassNotes
      <3> QED
        BY <1>10, <2>1, <2>5, <3>1
    <2>6. CASE /\ Behind(pass', List) /\ (\A g \in Files \ {List} : task'[g] = task[g])
               /\ task'[List] = task[List] \/ task'[List].step = "start"
      <3>1. task'[List].step # "apply"
        BY <2>3, <2>6, Nothing
      <3> QED
        BY <1>1, <1>4, <2>2, <2>6, <3>1, LossPast
    <2> QED
      BY <2>1, <2>4, <2>5, <2>6
  <1>8. CASE DeleteRemote
    <2>1. /\ pass.step = "deleteRemote" /\ Behind(pass', f) /\ UNCHANGED <<local, given, overrun, task, bounds>>
          /\ \/ UNCHANGED <<server, base>>
             \/ /\ Unmoved(f) /\ base' = [base EXCEPT ![f] = {}] /\ server'[f].note = {}
                /\ \A g \in Files \ {f} : server'[g] = server[g]
      BY <1>2, <1>8, DeleteRemoteSound
    <2>2. edits' = edits /\ Lost' = Lost
      BY <2>1 DEF bounds, Lost
    <2>3. CASE UNCHANGED <<server, base>>
      BY <1>4, <2>1, <2>2, <2>3, LossPast
    <2>4. CASE ~UNCHANGED <<server, base>>
      <3>1. base'[f] = {} /\ \A g \in Files \ {f} : base'[g] = base[g]
        BY <1>1, <2>1, <2>4
      <3>2. Has(Lost, pass.rows[f].note, {})
        BY <1>2, <1>3, <2>1 DEF PassNotes
      <3>3. Has(Lost, server[f].note, server'[f].note) /\ Has(Lost, base'[f], local'[f]) /\ Has(Lost, base'[f], server'[f].note)
        BY <1>4, <1>5, <2>1, <2>4, <3>1, <3>2
      <3> QED
        BY <1>4, <2>1, <2>2, <2>4, <3>1, <3>3, LossPast
    <2> QED
      BY <2>3, <2>4
  <1>9. CASE MergeList
    <2>1. PICK merged : merged = pass.note \cup pass.rows[List].note
      OBVIOUS
    <2>2. /\ Behind(pass', List) /\ UNCHANGED <<given, task, bounds>> /\ overrun \subseteq overrun'
          /\ (\A g \in Files \ {List} : server'[g] = server[g] /\ local'[g] = local[g] /\ base'[g] = base[g])
          /\ local'[List] = local[List] \/ (local'[List] = merged /\ local[List] \subseteq overrun' \cup merged)
          /\ \/ base'[List] = base[List] /\ server'[List] = server[List]
             \/ /\ base'[List] = merged /\ local'[List] = merged
                /\ \/ server'[List] = server[List] /\ merged = pass.rows[List].note
                   \/ server'[List].note = merged /\ Unmoved(List)
      BY <1>9, <2>1, MergeListSound
    <2>3. edits' = edits /\ Lost \subseteq Lost' /\ overrun' \subseteq Lost'
      BY <2>2 DEF bounds, Lost
    <2>9. \A n, m : Has(Lost, n, m) => Has(Lost', n, m)
      BY <2>3 DEF Has
    <2>4. Has(Lost, pass.rows[List].note, server[List].note)
      BY <1>1, <1>3 DEF Agreed
    <2>5. Has(Lost, pass.rows[List].note, merged)
      BY <2>1 DEF Has
    <2>6. Has(Lost', local[List], local'[List])
      BY <2>2, <2>3 DEF Has
    <2>7. Has(Lost', server[List].note, server'[List].note)
      BY <1>1, <1>4, <1>5, <2>2, <2>5, <2>9
    <2>8. \/ base'[List] = base[List]
          \/ Has(Lost', base'[List], local'[List]) /\ Has(Lost', base'[List], server'[List].note)
      BY <1>4, <2>2, <2>4, <2>9
    <2>10. Has(Lost', local[List], local'[List] \cup server'[List].note)
      BY <2>6 DEF Has
    <2> QED
      BY <1>1, <2>2, <2>3, <2>6, <2>7, <2>8, <2>10, LossPast
  <1> QED
    BY <1>6, <1>7, <1>8, <1>9, <1>11, <1>12

LEMMA LossNext ==
    ASSUME "besidePass" \notin RacyMoves, Types, LossInv, [Next]_vars
    PROVE  LossInv'
  <1>1. ASSUME NEW f \in Files, Take(f) \/ TaskReads(f) \/ TaskEnds(f) \/ TaskFails(f) \/ JobNext(f) PROVE LossInv'
    BY <1>1, LossTaken, LossTasks, Zenon
  <1>2. CASE \/ \E f \in Files : Edit(f) \/ Delete(f) \/ PeerDelete(f)
             \/ \E f \in Files, author \in {"me", "peer"} : PeerEdit(f, author)
             \/ \E e \in 1 .. MaxEdits : Disable(e)
    BY <1>2, LossEdits, Zenon
  <1>3. CASE \/ UNCHANGED vars
             \/ \E f \in Files : Lock(f)
             \/ Unlock \/ Restart \/ PassFails \/ JobEnds \/ SettingsTab \/ PilotEnds \/ Settle
             \/ \E s \in Surfaces, dir \in Dirs : SetConfigSurface(s, dir)
             \/ \E p \in Plugins, tick \in BOOLEAN : SetPluginSync(p, tick)
             \/ \E f \in Files, choice \in {"local", "remote"} : ResolveConfigGroup(f, choice)
             \/ \E p \in Plugins, choice \in {"local", "remote"} : ForcePlugin(p, choice)
    BY <1>3, LossAside, Zenon
  <1>4. CASE (\E mode \in {"delta", "scan", "full"} : Begin(mode)) \/ \E f \in Files : RawConfigEvent(f)
    BY <1>4, LossBegins, Zenon
  <1>5. CASE Push \/ Pull \/ Write \/ DeleteRemote \/ ListReads \/ MergeList
    BY <1>5, LossPass, Zenon
  <1> QED
    BY <1>1, <1>2, <1>3, <1>4, <1>5, NextCases, Zenon

\* No change of a configuration file disappears unless somebody replaced it, deleted it or chose the other side, through
\* every race of a pass, a resolution, a save, a lock and a restart (reconcile.ts conflictCopyIfRaced, resolveConfigConflict;
\* main.ts resolveConfigGroup), if no resolution runs on the file the pass is at.  What came after the last look at a file, or
\* after the choice, or could not be read, may be written over: it is overrun.
THEOREM NoSilentLossHolds ==
    ASSUME "besidePass" \notin RacyMoves
    PROVE  Spec => []NoSilentLoss
  <1>1. Init => LossInv
    <2> SUFFICES ASSUME Init PROVE LossInv
      OBVIOUS
    <2>1. pass = NoPass /\ edits = 0 /\ \A f \in Files : base[f] = {} /\ task[f] = NoTask
      BY Zenon DEF Init
    <2>2. \A f \in Files : Agreed(f)
      BY <2>1, Nothing, HasSelf DEF Agreed
    <2>3. (\A f \in Files : TaskNotes(f)) /\ PassNotes
      BY <2>1, Nothing DEF TaskNotes, PassNotes
    <2> QED
      BY <2>1, <2>2, <2>3 DEF LossInv, NoSilentLoss
  <1>2. Types /\ LossInv /\ [Next]_vars => LossInv'
    BY LossNext
  <1>3. LossInv => NoSilentLoss
    BY DEF LossInv
  <1> QED
    BY <1>1, <1>2, <1>3, TypesAlways, PTL DEF Spec
=============================================================================
