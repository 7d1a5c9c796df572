------------------------------ MODULE Config ------------------------------
(***************************************************************************)
(* Configuration sync (client/src/configsync.ts, configconflict.ts, and    *)
(* their callers in reconcile.ts and main.ts): the files under .obsidian/  *)
(* that one device syncs, the divergences it leaves to the user, the       *)
(* resolutions that run beside the passes, and the plugin autopilot.       *)
(*                                                                         *)
(* A configuration file is opaque: its content is one edit, {} when there  *)
(* is no file, and a new edit replaces it.  The list of enabled plugins is *)
(* the exception: it is the set of its entries.  Other devices write to    *)
(* the server at any time.                                                 *)
(***************************************************************************)
EXTENDS Naturals, FiniteSets, FiniteSetsExt

CONSTANTS
    Files,
    List,         \* community-plugins.json
    Plugins,
    Owner,        \* pluginIdOf: the plugin a file belongs to
    NoPlugin,
    Code,         \* the main.js files, one at most of a plugin; their authors are told apart
    RacyMoves,    \* the awkward things the user or another device may do
    FaultKinds,
    MaxFaults,    \* bound: how many faults
    MaxEdits,     \* bound: how many edits, here and elsewhere
    MaxDeletes,   \* bound: how many deletions, here and elsewhere
    MaxMoves,     \* bound: how many settings changed, resolutions and forced copies
    MaxEvents     \* bound: how many of all of these

ASSUME ConfigAssumption ==
    /\ IsFiniteSet(Files) /\ List \in Files
    /\ Owner \in [Files -> Plugins \cup {NoPlugin}] /\ Owner[List] = NoPlugin /\ NoPlugin \notin Plugins
    /\ Code \subseteq Files /\ \A f, g \in Code : Owner[f] \in Plugins /\ (Owner[f] = Owner[g] => f = g)
    /\ {MaxFaults, MaxEdits, MaxDeletes, MaxMoves, MaxEvents} \subseteq Nat
    /\ RacyMoves \subseteq {"listDeleted", "listInvalid", "besidePass"}
    /\ FaultKinds \subseteq {"lock", "conn", "restart"}

VARIABLES
    local, locked,         \* the files here; those that cannot be read now
    server, top,           \* the rows and the version of the vault
    base, cursor,          \* this device's base and cursor
    on, allow,             \* configSync: the surfaces that are on, pluginAllow
    surfaceDir, pluginDir, \* pendingConfigDir, pluginDir
    conflicts,             \* settings.configConflicts
    pass, task, job,       \* the pass; resolveConfigConflict per file; the loop the user started
    known, seen,           \* serverPluginAuthors, autopilotSeen
    loaded, pilot,         \* app.plugins.manifests; the autopilot, while it asks about the vault
    wish, hasty,           \* what the user last said of a plugin; un-ticks before the autopilot had
                           \* seen it or while it was asking
    given,                 \* edits given up by whoever replaced, deleted or did not choose them
    overrun,               \* edits written over unseen: what came after the last look at the file,
                           \* or after the choice, and what could not be read
    faults, edits, deletes, moves

files   == <<local, locked, server, top, base, cursor, given, overrun>>
choices == <<on, allow, surfaceDir, pluginDir, wish, hasty>>
flying  == <<pass, task, job>>
auto    == <<known, seen, loaded, pilot>>
bounds  == <<faults, edits, deletes, moves>>
vars    == <<files, choices, conflicts, flying, auto, bounds>>

Decision == INSTANCE Decision WITH NoNote <- {}

Surfaces == {"core", "community"}
Dirs     == {"none", "download", "upload"}
Note     == SUBSET (1 .. MaxEdits)
Row      == [note : Note, version : Nat, author : {"me", "peer"}]
NoRow    == [note |-> {}, version |-> 0, author |-> "me"]
NoPass   == [step |-> "none", mode |-> "none", rows |-> [f \in Files |-> NoRow], top |-> 0, todo |-> {},
             file |-> List, note |-> {}, failed |-> {}]
NoTask   == [choice |-> "none", step |-> "none", note |-> {}, user |-> FALSE, saw |-> {}]
NoJob    == [choice |-> "none", todo |-> {}, group |-> {}, clears |-> FALSE, saw |-> [f \in Files |-> {}]]
NoPilot  == [asks |-> FALSE, allow |-> {}, shared |-> {}, seen |-> {}, installed |-> {}, offered |-> {}]
Idle     == pass.step = "none"

Room  == faults + edits + deletes + moves < MaxEvents
Spend == faults < MaxFaults /\ Room /\ faults' = faults + 1
Erase == deletes < MaxDeletes /\ Room /\ deletes' = deletes + 1
Move  == moves < MaxMoves /\ Room /\ moves' = moves + 1
Make  == edits < MaxEdits /\ Room /\ edits' = edits + 1

\* configSurfaceOf, and shouldSync for the files it tells apart
SurfaceOf(f) == IF f = List \/ Owner[f] # NoPlugin THEN "community" ELSE "core"
Accepts(f)   == SurfaceOf(f) \in on /\ (Owner[f] # NoPlugin => Owner[f] \in allow)
OnDisk       == {p \in Plugins : \E f \in Files : Owner[f] = p /\ local[f] # {}}

\* An edit replaces an opaque file and adds to the list.
Edited(f, note) == IF f = List THEN note \cup {edits'} ELSE {edits'}
GivenUp(old, new) == given' = given \cup (old \ new) /\ UNCHANGED overrun

\* new is written over old by one who saw saw of it.
Replaced(saw, old, new) ==
    /\ given' = given \cup ((old \cap saw) \ new)
    /\ overrun' = overrun \cup (old \ (saw \cup new))

Written(f, note, author) ==
    /\ top' = top + 1
    /\ server' = [server EXCEPT ![f] = [note |-> note, version |-> top + 1, author |-> author]]

-----------------------------------------------------------------------------
(* Obsidian and the plugins here; the other devices *)

\* A plugin whose files change is one Obsidian installs, updates or runs.
Edit(f) ==
    /\ Make /\ f \notin locked
    /\ local' = [local EXCEPT ![f] = Edited(f, @)]
    /\ GivenUp(local[f], local'[f])
    /\ loaded' = loaded \cup ({Owner[f]} \cap Plugins)
    /\ UNCHANGED <<locked, server, top, base, cursor, choices, conflicts, flying, known, seen, pilot, faults, deletes, moves>>

\* The last file of a plugin goes when it is uninstalled.
Delete(f) ==
    /\ Erase /\ local[f] # {} /\ f # List
    /\ local' = [local EXCEPT ![f] = {}]
    /\ GivenUp(local[f], {})
    /\ loaded' = loaded \ ({Owner[f]} \ OnDisk')
    /\ UNCHANGED <<locked, server, top, base, cursor, choices, conflicts, flying, known, seen, pilot, faults, edits, moves>>

\* The user disables a plugin here; a list without entries stands for no list, so one stays.
Disable(e) ==
    /\ Erase /\ e \in local[List] /\ local[List] # {e}
    /\ local' = [local EXCEPT ![List] = @ \ {e}]
    /\ GivenUp({e}, {})
    /\ UNCHANGED <<locked, server, top, base, cursor, choices, conflicts, flying, auto, faults, edits, moves>>

PeerEdit(f, author) ==
    /\ Make /\ (f \notin Code => author = "me")
    /\ Written(f, Edited(f, server[f].note), author)
    /\ GivenUp(server[f].note, server'[f].note)
    /\ UNCHANGED <<local, locked, base, cursor, choices, conflicts, flying, auto, faults, deletes, moves>>

PeerDelete(f) ==
    /\ Erase /\ server[f].note # {}
    /\ \E left \in IF f = List THEN {server[f].note \ {e} : e \in server[f].note} ELSE {{}} :
           /\ f = List /\ left = {} => "listDeleted" \in RacyMoves
           /\ Written(f, left, "me")
           /\ GivenUp(server[f].note, left)
    /\ UNCHANGED <<local, locked, base, cursor, choices, conflicts, flying, auto, faults, edits, moves>>

\* A virus scanner, or a cloud folder, keeps a file from being read or replaced for a while.
Lock(f) ==
    /\ "lock" \in FaultKinds /\ Spend /\ local[f] # {}
    /\ locked' = locked \cup {f}
    /\ UNCHANGED <<local, server, top, base, cursor, given, overrun, choices, conflicts, flying, auto, edits, deletes, moves>>

Unlock ==
    /\ locked # {} /\ locked' = {}
    /\ UNCHANGED <<local, server, top, base, cursor, given, overrun, choices, conflicts, flying, auto, bounds>>

\* The app is started again: settings and base stay, what is in flight and pendingConfigDir
\* are gone (what a lost save does to the base is in Sync).
Restart ==
    /\ "restart" \in FaultKinds /\ Spend
    /\ pass' = NoPass /\ task' = [f \in Files |-> NoTask] /\ job' = NoJob
    /\ known' = [p \in Plugins |-> "none"] /\ loaded' = OnDisk /\ pilot' = NoPilot
    /\ surfaceDir' = [s \in Surfaces |-> "none"]
    /\ UNCHANGED <<files, on, allow, pluginDir, wish, hasty, conflicts, seen, edits, deletes, moves>>

-----------------------------------------------------------------------------
(* The settings *)

SetConfigSurface(s, dir) ==
    /\ Move
    /\ on' = IF dir = "none" THEN on \ {s} ELSE on \cup {s}
    /\ surfaceDir' = [surfaceDir EXCEPT ![s] = dir]
    /\ UNCHANGED <<files, allow, pluginDir, wish, hasty, conflicts, flying, auto, faults, edits, deletes>>

SetPluginSync(p, tick) ==
    /\ Move /\ tick = (p \notin allow)
    /\ allow' = IF tick THEN allow \cup {p} ELSE allow \ {p}
    /\ wish' = [wish EXCEPT ![p] = IF tick THEN "on" ELSE "off"]
    /\ hasty' = IF ~tick /\ (p \notin seen \/ pilot.asks) THEN hasty \cup {p} ELSE hasty \ {p}
    /\ pluginDir' = IF ~tick THEN pluginDir
                    ELSE [pluginDir EXCEPT ![p] = IF surfaceDir["community"] = "none" THEN "download"
                                                  ELSE surfaceDir["community"]]
    /\ UNCHANGED <<files, on, surfaceDir, conflicts, flying, auto, faults, edits, deletes>>

-----------------------------------------------------------------------------
(* A pass over the configuration: a delta, the config-only scan, or a full pass *)

\* What a read of a file gives: one that cannot be read counts as no file.
Read(f) == IF f \in locked THEN {} ELSE local[f]

\* Of a plugin that is on the server, the author of its code if that is there
OnServer(p) == {f \in Files : Owner[f] = p /\ server[f].note # {}}
AuthorOf(p) ==
    IF OnServer(p) = {} THEN "none" ELSE IF OnServer(p) \cap Code = {} THEN "unknown"
    ELSE server[CHOOSE f \in OnServer(p) : f \in Code].author

\* Mutant: an installed plugin is shared again each time.
SharedAgain == loaded \ allow

\* What is installed here and new is shared.
Shared == loaded \ (allow \cup seen)

\* The end of runPluginAutopilot, with what it read at its start: what is the account's own on the
\* server and new is adopted (in a private vault what has no author too), another person's waits.
Adopted(r, authors, private) ==
    LET mine  == {p \in r.offered \ (r.allow \cup r.shared) :
                     authors[p] = "me" \/ (authors[p] \in {"unknown", "none"} /\ private)}
        taken == mine \ r.seen IN
    /\ allow' = IF r.shared \cup taken = {} THEN allow ELSE r.allow \cup r.shared \cup taken
    /\ pluginDir' = [p \in Plugins |-> IF p \in taken THEN "download"
                                        ELSE IF p \in r.shared THEN "upload" ELSE pluginDir[p]]
    /\ seen' = r.seen \cup mine \cup r.installed
    /\ pilot' = NoPilot

\* runPluginAutopilot, up to refreshVaultPrivacy if it has to ask whose vault this is, one at a time
RunPluginAutopilot(authors) ==
    LET offered == {p \in Plugins : authors[p] # "none"}
        r == [asks |-> TRUE, allow |-> allow, shared |-> Shared, seen |-> seen, installed |-> loaded, offered |-> offered] IN
    IF "community" \notin on \/ pilot.asks THEN UNCHANGED <<allow, pluginDir, seen, pilot>>
    ELSE IF \A p \in offered \ (allow \cup Shared) : authors[p] # "unknown" THEN Adopted(r, authors, FALSE)
    ELSE /\ pilot' = r
         /\ pluginDir' = [p \in Plugins |-> IF p \in Shared THEN "upload" ELSE pluginDir[p]]
         /\ UNCHANGED <<allow, seen>>

PilotEnds ==
    /\ pilot.asks
    /\ \E private \in BOOLEAN : Adopted(pilot, known, private)
    /\ UNCHANGED <<files, on, surfaceDir, wish, hasty, conflicts, flying, known, loaded, bounds>>

\* onRemotePlugins hands the plugins of a full listing, with an author of their code, to the autopilot.
Begin(mode) ==
    /\ Idle
    /\ LET todo == CASE mode = "delta" -> {f \in Files : server[f].version > cursor}
                     [] mode = "scan"  -> {f \in Files : Accepts(f) /\ Read(f) # base[f]}
                     [] mode = "full"  -> Files IN
       /\ mode # "full" => todo # {}
       /\ pass' = [NoPass EXCEPT !.step = "take", !.mode = mode, !.top = top, !.todo = todo,
                                  !.rows = IF mode = "scan" THEN @ ELSE server]
    /\ IF mode # "full" THEN UNCHANGED <<known, allow, pluginDir, seen, pilot>>
       ELSE known' = [p \in Plugins |-> AuthorOf(p)] /\ RunPluginAutopilot(known')
    /\ UNCHANGED <<files, on, surfaceDir, wish, hasty, conflicts, task, job, loaded, bounds>>

\* onRawConfigEvent, flushRawConfig: a file changed outside a pass is looked at on its own;
\* an event in the wake of one's own write is dropped.
RawConfigEvent(f) ==
    /\ Idle /\ Accepts(f) /\ Read(f) # base[f]
    /\ pass' = [NoPass EXCEPT !.step = "take", !.mode = "scan", !.todo = {f}]
    /\ UNCHANGED <<files, choices, conflicts, task, job, auto, bounds>>

\* The settings tab runs the autopilot as well.
SettingsTab ==
    /\ RunPluginAutopilot(known)
    /\ UNCHANGED <<files, on, surfaceDir, wish, hasty, conflicts, flying, known, loaded, bounds>>

\* A scan asks the server about each path when it comes to it.
RowOf(f) == IF pass.mode = "scan" THEN server[f] ELSE pass.rows[f]
Passed(f) == [pass EXCEPT !.step = "take", !.todo = @ \ {f}]
Missed(f) == [Passed(f) EXCEPT !.failed = IF pass.mode = "scan" THEN @ ELSE @ \cup {pass.rows[f].version}]

\* recordConfigConflict: a first contact with a chosen direction is resolved in that
\* direction, beside the pass and without waiting; anything else is for the user.
DirOf(f) == IF Owner[f] # NoPlugin /\ pluginDir[Owner[f]] # "none" THEN pluginDir[Owner[f]] ELSE surfaceDir[SurfaceOf(f)]
\* Mutant: a divergence is neither settled nor listed.
RecordConfigConflictUnlisted(f, reason, mine, theirs) == UNCHANGED <<conflicts, task>>
RecordConfigConflict(f, reason, mine, theirs) ==
    IF reason = "conflict" /\ DirOf(f) # "none"
    THEN /\ task' = IF task[f] # NoTask THEN task
                    ELSE [task EXCEPT ![f] = [NoTask EXCEPT !.step = "start",
                                               !.choice = IF DirOf(f) = "download" THEN "remote" ELSE "local",
                                               !.saw = IF DirOf(f) = "download" THEN mine ELSE theirs]]
         /\ UNCHANGED conflicts
    ELSE conflicts' = conflicts \cup {f} /\ UNCHANGED task

ClearConfigConflict(f) == conflicts' = conflicts \ {f}

\* reconcileOne up to its first call: what is not accepted is left alone, what has a base and
\* cannot be read is skipped.
Take(f) ==
    /\ pass.step = "take" /\ f \in pass.todo
    /\ task[f] # NoTask \/ f \in job.todo => "besidePass" \in RacyMoves
    /\ LET row == RowOf(f)
           act == Decision!Decide(Read(f), base[f], row.note)
           go(s) == [pass EXCEPT !.step = s, !.file = f, !.note = Read(f), !.rows[f] = row] IN
       \/ /\ ~Accepts(f) /\ pass' = Passed(f)
          /\ UNCHANGED <<base, task, conflicts>>
       \/ /\ Accepts(f) /\ f \in locked /\ base[f] # {} /\ pass' = Missed(f)
          /\ UNCHANGED <<base, task, conflicts>>
       \/ /\ Accepts(f) /\ (f \notin locked \/ base[f] = {})
          /\ \/ /\ f = List /\ row.note # {} /\ act \in {"pull", "merge", "conflict", "editWinsPull"}
                /\ pass' = go("list")
                /\ UNCHANGED <<base, task, conflicts>>
             \/ /\ f # List \/ row.note = {}
                /\ act \in {"merge", "conflict", "editWinsPull", "keepLocal"}
                /\ RecordConfigConflict(f, act, Read(f), row.note)
                /\ pass' = Passed(f)
                /\ UNCHANGED base
             \/ /\ act \in {"push", "deleteRemote", "deleteLocal"} \/ (act = "pull" /\ f # List)
                /\ pass' = go(IF act = "deleteLocal" THEN "write" ELSE act)
                /\ ClearConfigConflict(f)
                /\ UNCHANGED <<base, task>>
             \/ /\ act = "inSync"
                /\ base' = [base EXCEPT ![f] = row.note]
                /\ pass' = Passed(f)
                /\ ClearConfigConflict(f)
                /\ UNCHANGED task
    /\ UNCHANGED <<local, locked, server, top, cursor, given, overrun, choices, job, auto, bounds>>

Unmoved(f) == IF pass.rows[f].note = {} THEN server[f].note = {} ELSE server[f] = pass.rows[f]

\* The push, with the version it replaces
Push ==
    /\ pass.step = "push"
    /\ LET f == pass.file IN
       IF Unmoved(f)
       THEN /\ Written(f, pass.note, "me")
            /\ base' = [base EXCEPT ![f] = pass.note]
            /\ pass' = Passed(f)
       ELSE pass' = Missed(f) /\ UNCHANGED <<server, top, base>>
    /\ UNCHANGED <<local, locked, cursor, given, overrun, choices, conflicts, task, job, auto, bounds>>

\* conflictCopyIfRaced: the file is not the one the decision was made on.
\* Mutant: a save during a pull is not noticed.
RacedNever(f) == FALSE
Raced(f) == Read(f) \notin {{}, pass.note}
\* applyPull, with what was fetched: a file rewritten meanwhile is for the user.
Pull ==
    /\ pass.step = "pull"
    /\ LET f == pass.file IN
       \/ /\ Raced(f)
          /\ conflicts' = conflicts \cup {f} /\ pass' = Passed(f)
       \/ /\ ~Raced(f)
          /\ pass' = [pass EXCEPT !.step = "write", !.note = IF f \in locked THEN @ ELSE local[f]]
          /\ UNCHANGED conflicts
    /\ UNCHANGED <<files, choices, task, job, auto, bounds>>

\* The write of a pull, or the removal of what was deleted elsewhere, over whatever is there now
Write ==
    /\ pass.step = "write"
    /\ LET f == pass.file
           new == pass.rows[f].note IN
       IF f \in locked THEN pass' = Missed(f) /\ UNCHANGED <<local, base, overrun>>
       ELSE /\ local' = [local EXCEPT ![f] = new]
            /\ base' = [base EXCEPT ![f] = new]
            /\ overrun' = overrun \cup (local[f] \ (pass.note \cup new))
            /\ pass' = Passed(f)
    /\ UNCHANGED <<locked, server, top, cursor, given, choices, conflicts, task, job, auto, bounds>>

\* deleteRemote asks the disk again, and names the version it deletes.
DeleteRemote ==
    /\ pass.step = "deleteRemote"
    /\ LET f == pass.file IN
       IF local[f] # {} THEN pass' = Passed(f) /\ UNCHANGED <<server, top, base>>
       ELSE IF Unmoved(f)
       THEN /\ Written(f, {}, "me")
            /\ base' = [base EXCEPT ![f] = {}]
            /\ pass' = Passed(f)
       ELSE pass' = Missed(f) /\ UNCHANGED <<server, top, base>>
    /\ UNCHANGED <<local, locked, cursor, given, overrun, choices, conflicts, task, job, auto, bounds>>

\* The list only grows by a sync.
\* Mutant: the server's list is taken whole.
MergeEnabledPluginsWhole(mine, theirs) == theirs
MergeEnabledPlugins(mine, theirs) == mine \cup theirs

\* reconcileEnabledPluginList, with what was fetched: a list that cannot be read counts as empty,
\* and one that is no list of names (one of RacyMoves) is treated like any other file.
ListReads ==
    /\ pass.step = "list"
    /\ \E valid \in {TRUE} \cup {"listInvalid" \notin RacyMoves} :
          LET theirs == pass.rows[List].note
              act == Decision!Decide(pass.note, base[List], theirs) IN
          IF valid THEN /\ pass' = [pass EXCEPT !.step = "listWrite", !.note = Read(List)]
                        /\ UNCHANGED <<conflicts, task>>
          ELSE IF act = "pull" THEN pass' = [pass EXCEPT !.step = "pull"] /\ UNCHANGED <<conflicts, task>>
          ELSE RecordConfigConflict(List, act, pass.note, theirs) /\ pass' = Passed(List)
    /\ UNCHANGED <<files, choices, job, auto, bounds>>

\* The union is written here, then pushed.
MergeList ==
    /\ pass.step = "listWrite"
    /\ LET row == pass.rows[List]
           merged == MergeEnabledPlugins(pass.note, row.note) IN
       IF List \in locked
       THEN pass' = Missed(List) /\ UNCHANGED <<local, overrun, base, server, top, conflicts>>
       ELSE /\ local' = [local EXCEPT ![List] = merged]
            /\ overrun' = overrun \cup (local[List] \ (pass.note \cup merged))
            /\ IF merged # row.note /\ ~Unmoved(List)
               THEN pass' = Missed(List) /\ UNCHANGED <<base, server, top, conflicts>>
               ELSE /\ IF merged = row.note THEN UNCHANGED <<server, top>> ELSE Written(List, merged, "me")
                    /\ base' = [base EXCEPT ![List] = merged]
                    /\ pass' = Passed(List)
                    /\ ClearConfigConflict(List)
    /\ UNCHANGED <<locked, cursor, given, choices, task, job, auto, bounds>>

\* Own plugins that arrived may be loaded at once (applyPluginCodeChange).
Settle ==
    /\ pass.step = "take" /\ pass.todo = {}
    /\ cursor' = IF pass.mode = "scan" THEN cursor
                 ELSE IF pass.failed \ {0} = {} THEN pass.top ELSE Min(pass.failed \ {0}) - 1
    /\ pass' = NoPass
    /\ loaded' \in {loaded, loaded \cup OnDisk}
    /\ UNCHANGED <<local, locked, server, top, base, given, overrun, choices, conflicts, task, job, known, seen, pilot, bounds>>

PassFails ==
    /\ ~Idle /\ "conn" \in FaultKinds /\ Spend
    /\ pass' = NoPass
    /\ UNCHANGED <<files, choices, conflicts, task, job, auto, edits, deletes, moves>>

-----------------------------------------------------------------------------
(* resolveConfigConflict, for the user or for a first contact (one at a time on a file) *)

\* It reads the side that wins; a file that cannot be read counts as no file.
TaskReads(f) ==
    /\ task[f].step = "start"
    /\ task' = [task EXCEPT ![f] = [@ EXCEPT !.step = "apply",
                  !.note = IF task[f].choice = "remote" THEN server[f].note ELSE Read(f)]]
    /\ UNCHANGED <<files, choices, conflicts, pass, job, auto, bounds>>

\* and puts it in place of the other, whatever that is by now: what came after the choice is
\* written over as well.
TaskEnds(f) ==
    /\ task[f].step = "apply"
    /\ LET note == task[f].note IN
       /\ \/ /\ task[f].choice = "remote" /\ f \notin locked
             /\ local' = [local EXCEPT ![f] = note]
             /\ Replaced(task[f].saw, local[f], note)
             /\ UNCHANGED <<server, top>>
          \/ /\ task[f].choice = "local"
             /\ Written(f, note, "me")
             /\ Replaced(task[f].saw, server[f].note, note)
             /\ UNCHANGED local
       /\ base' = [base EXCEPT ![f] = note]
    /\ task' = [task EXCEPT ![f] = NoTask]
    /\ job' = IF task[f].user THEN [job EXCEPT !.todo = @ \ {f}] ELSE job
    /\ UNCHANGED <<locked, cursor, choices, conflicts, pass, auto, bounds>>

\* A failure ends the loop it is part of.
TaskFails(f) ==
    /\ task[f] # NoTask
    /\ \/ "conn" \in FaultKinds /\ Spend
       \/ task[f].step = "apply" /\ task[f].choice = "remote" /\ f \in locked /\ UNCHANGED faults
    /\ task' = [task EXCEPT ![f] = NoTask]
    /\ job' = IF task[f].user THEN NoJob ELSE job
    /\ UNCHANGED <<files, choices, conflicts, pass, auto, edits, deletes, moves>>

\* What the user sees of the side that is to lose
Seen(choice) == [f \in Files |-> IF choice = "remote" THEN local[f] ELSE server[f].note]

\* The user resolves what is listed, a plugin at a time, while no pass runs.
ResolveConfigGroup(f, choice) ==
    /\ Move /\ Idle /\ job = NoJob /\ f \in conflicts
    /\ LET group == {g \in conflicts : g = f \/ (Owner[g] = Owner[f] /\ Owner[f] # NoPlugin)} IN
       job' = [choice |-> choice, todo |-> group, group |-> group, clears |-> TRUE, saw |-> Seen(choice)]
    /\ UNCHANGED <<files, choices, conflicts, pass, task, auto, faults, edits, deletes>>

\* pushPlugin and pullPlugin: all the plugin's files, on either side
ForcePlugin(p, choice) ==
    /\ Move /\ job = NoJob /\ p \in allow \cap loaded
    /\ LET group == {f \in Files : Owner[f] = p /\ (local[f] # {} \/ server[f].note # {})} IN
       /\ group # {}
       /\ job' = [choice |-> choice, todo |-> group, group |-> group, clears |-> FALSE, saw |-> Seen(choice)]
    /\ UNCHANGED <<files, choices, conflicts, pass, task, auto, faults, edits, deletes>>

JobNext(f) ==
    /\ f \in job.todo /\ \A g \in job.todo : task[g] = NoTask
    /\ pass.step \notin {"none", "take"} /\ pass.file = f => "besidePass" \in RacyMoves
    /\ task' = [task EXCEPT ![f] = [NoTask EXCEPT !.step = "start", !.choice = job.choice, !.user = TRUE,
                                              !.saw = job.saw[f]]]
    /\ UNCHANGED <<files, choices, conflicts, pass, job, auto, bounds>>

JobEnds ==
    /\ job # NoJob /\ job.todo = {}
    /\ conflicts' = IF job.clears THEN conflicts \ job.group ELSE conflicts
    /\ job' = NoJob
    /\ UNCHANGED <<files, choices, pass, task, auto, bounds>>

-----------------------------------------------------------------------------

\* The user has switched the surfaces on, in one direction, before anything was synced.
Init ==
    /\ local = [f \in Files |-> {}] /\ locked = {}
    /\ server = [f \in Files |-> NoRow] /\ top = 0
    /\ base = [f \in Files |-> {}] /\ cursor = 0
    /\ on = Surfaces /\ allow = {}
    /\ \E dir \in Dirs : surfaceDir = [s \in Surfaces |-> dir]
    /\ pluginDir = [p \in Plugins |-> "none"]
    /\ conflicts = {}
    /\ pass = NoPass /\ task = [f \in Files |-> NoTask] /\ job = NoJob
    /\ known = [p \in Plugins |-> "none"] /\ seen = {} /\ loaded = {} /\ pilot = NoPilot
    /\ wish = [p \in Plugins |-> "none"] /\ hasty = {} /\ given = {} /\ overrun = {}
    /\ faults = 0 /\ edits = 0 /\ deletes = 0 /\ moves = 0

PassStep ==
    (\E f \in Files : Take(f)) \/ Push \/ Pull \/ Write \/ DeleteRemote \/ ListReads \/ MergeList \/ Settle
TaskStep(f) == TaskReads(f) \/ TaskEnds(f) \/ TaskFails(f)

Next ==
    \/ \E f \in Files : Edit(f) \/ Delete(f) \/ PeerDelete(f) \/ Lock(f)
    \/ \E f \in Files, author \in {"me", "peer"} : PeerEdit(f, author)
    \/ \E e \in 1 .. MaxEdits : Disable(e)
    \/ Unlock \/ Restart
    \/ \E s \in Surfaces, dir \in Dirs : SetConfigSurface(s, dir)
    \/ \E p \in Plugins, tick \in BOOLEAN : SetPluginSync(p, tick)
    \/ \E mode \in {"delta", "scan", "full"} : Begin(mode)
    \/ PassStep \/ PassFails
    \/ \E f \in Files : RawConfigEvent(f) \/ TaskStep(f) \/ JobNext(f)
    \/ \E f \in Files, choice \in {"local", "remote"} : ResolveConfigGroup(f, choice)
    \/ \E p \in Plugins, choice \in {"local", "remote"} : ForcePlugin(p, choice)
    \/ JobEnds \/ SettingsTab \/ PilotEnds

Spec == Init /\ [][Next]_vars

\* Once the full scan is due the next pass is one, whatever passes came before; calls that do
\* not fail return, and a file is not locked for ever.
Fairness ==
    /\ SF_vars(Begin("full")) /\ WF_vars(PassStep) /\ WF_vars(Unlock)
    /\ \A f \in Files : WF_vars(TaskStep(f)) /\ WF_vars(JobNext(f))
    /\ WF_vars(JobEnds) /\ WF_vars(PilotEnds)

LiveSpec == Spec /\ Fairness

-----------------------------------------------------------------------------
(* Properties *)

\* Every variable has its type; the base and the lists of the user name only what exists.
TypeOK ==
    /\ local \in [Files -> Note] /\ base \in [Files -> Note] /\ server \in [Files -> Row]
    /\ top \in Nat /\ cursor \in 0 .. top
    /\ locked \subseteq Files /\ conflicts \subseteq Files
    /\ on \subseteq Surfaces /\ allow \subseteq Plugins /\ seen \subseteq Plugins
    /\ surfaceDir \in [Surfaces -> Dirs] /\ pluginDir \in [Plugins -> Dirs]
    /\ wish \in [Plugins -> {"none", "on", "off"}] /\ known \in [Plugins -> {"none", "me", "peer", "unknown"}]
    /\ loaded \subseteq Plugins /\ hasty \subseteq Plugins /\ pilot.asks \in BOOLEAN
    /\ given \cup overrun \subseteq 1 .. MaxEdits
    /\ pass.step \in {"none", "take", "list", "listWrite", "push", "pull", "write", "deleteRemote"} /\ pass.todo \subseteq Files
    /\ \A f \in Files : task[f].choice \in {"none", "local", "remote"} /\ task[f].note \in Note
    /\ job.todo \subseteq job.group

\* No change of a configuration file disappears unless somebody replaced it, deleted it or chose
\* the other side, through every race of a pass, a resolution and a save (reconcile.ts
\* conflictCopyIfRaced, resolveConfigConflict; main.ts 1109: never auto-resolved).  Apart is what
\* is written over unseen: saved between the last look at a file and its replacement, unreadable
\* at that look, or newer than the choice a resolution carries out.
NoSilentLoss ==
    \A e \in 1 .. edits : e \in given \cup overrun \/ \E f \in Files : e \in local[f] \cup server[f].note

\* A sync never disables a plugin that is enabled here (configsync.ts 151-152): entries leave the
\* local list by the user's hand, or because the list could not be read, or was changed, when
\* its union with the server's was made.
PluginsKept ==
    [][local[List] \ local'[List] \subseteq overrun' \/ deletes' > deletes]_vars

\* A plugin the user un-ticked stays un-ticked, whatever the autopilot sees later
\* (main.ts 1386-1389), unless it had not seen the plugin or was just asking about the vault: it
\* then writes back what it read before.
UntickSticks == \A p \in Plugins : wish[p] = "off" => p \notin allow \/ p \in hasty

\* When nothing new happens, a file this device syncs is listed for the user exactly if the two
\* sides differ (configconflict.ts 8-10): a divergence surfaces, a settled one leaves the list.
ListTellsTruth ==
    \A f \in Files : <>[](Accepts(f) => (f \in conflicts <=> local[f] # server[f].note))

=============================================================================
