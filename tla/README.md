# A verification of SelfSync

TLA+ models of the programs that carry SelfSync's data: the server's vault
(`src/server/src`) and the Obsidian plugin (`src/client/src`) with its reconcile
pass, engine, mounts, configuration sync, vault switch, conflict resolution and
status light; TLC configurations for them, and TLAPS proofs about the vault, the
reconcile pass, the engine, mounts, configuration sync, the vault switch, conflict
resolution and the light.
`PROJECT.json` lists components, runs, mutants, hazards, findings and theorems,
and maps every definition to the lines it models.

## The system

A SelfSync server keeps *vaults*. Every device that syncs a vault runs the plugin,
which compares three states of each note (on disk, last synced, on the server)
and pushes, pulls, merges or deletes. There is no lock between devices: a push
names the version it is based on and the server refuses it when it is stale.

| component | state it keeps | operations | modelled in |
|---|---|---|---|
| Vault (`vault.rs`, `index_store.rs`, `chunkstore.rs`) | SQLite index (rows, tombstones, version, history floor), chunk store, bind-mount mirror, version sidecar, health state | open, put_chunk, commit, delete, reindex, prune, changes | `Vault`, `VaultHistory`, `VaultPromise` |
| HTTP API (`api.rs`) | none | one handler per vault operation, under its lock | in `Vault` and `Sync` |
| Reconcile (`reconcile.ts`, `sync.ts`, `base.ts`, `merge.ts`) | base, cursor, retry budget | full pass, delta pass, one path, held deletions | `Sync`, `Decision` |
| Engine (`syncengine.ts`, pass bodies of `main.ts`) | event queue, engine state, session, timers | enqueue, pump, fail, recover, relogin, resume, teardown | `Engine` |
| Link, transport and status machines (`fsm.ts`, `connstate.ts`, `syncstate.ts`, `transportstate.ts`, `statuslight.ts`) | link, socket, shown light, claims of unsynced edits | classify, redial, poll, paint, hold | `Engine`, `Light` |
| Vault switch (`vaultswitch.ts`, `connectdecisions.ts`, `switchTo`) and persistence | vault, pending resolution, key of the base, `data.json` | pick, disconnect, resolve, apply, save | `Switch` |
| Mounts (`mountsync.ts`, `mountengine.ts`, `mountfsm.ts`, `mountio.ts`) | a base and cursor per mount, scope state, held pushes | add, remove, redirect, move, pass, review | `Mounts`, `Decision` |
| Configuration sync (`configsync.ts`, `configconflict.ts`) | surfaces and plugins that are on, list of conflicts | select, pass, resolve, force, autopilot | `Config`, `Decision` |
| Note conflicts (`noteconflict.ts`, `resolvefsm.ts`, `frontmatter.ts`) | copies beside notes, modals | list, sweep, preview, resolve | `NoteConflict` |
| Registry (`state.rs`) | open handles, open locks, purged names | open, evict, purge | planned |
| Notifications (`ws.rs`) | sockets, caps | subscribe, poke, lag, revoke | client end in `Engine`; server end planned |
| Accounts, tokens, shares, admin | small JSON stores | grant, revoke, expire, lock out | their answers in `Engine`; planned |
| Push guards, path identity | recent contents, folded names | hold a push, compare names | not modelled |
| Settings UI, wizard | - | the commands are actions of `Config`, `Switch`, `Mounts` | commands only |
| Scripts, docs, deployment | - | - | not modelled |

How they interact: a device asks `changes(since)` and gets rows, tombstones,
version and floor; it uploads chunks and then commits a path with the version it
saw; a commit pokes the other devices. The floor tells a device when an absent
file without a tombstone may have been deleted long ago. On the device one queue
(`syncengine.ts`) serialises connects, passes and file events; mount passes,
configuration resolutions, conflict modals and the status light run beside it and
share the files, the base or the settings with it.

What is hard about it:

- *crashes between durable writes*: a commit is a transaction, a sidecar write, a
  mirror write and chunk touches; a reindex is a transaction, a sidecar write, a
  floor write and a GC; a vault switch is adopted file by file and saved later;
- *rebuilds*: the index may be lost, and is rebuilt from a mirror whose writes
  were best effort;
- *users who type*: a save may land at any await of a pass;
- *devices*: a commit of a peer lands between a device's listing and its push;
- *partial failure*: one file of a pass fails, the connection breaks, the answer
  to a commit is lost, the token expires, the app dies before the base is saved;
- *deletions*: absence is ambiguous, so a deletion needs a tombstone, a probe, and
  the user's consent if there are many;
- *two scopes, one folder*: a mounted folder belongs to another vault's base, and to
  the primary's again when the mount goes;
- *several timers*: recovery, poll, redial and hold timers of a suspended app fire
  late, and after what they were armed for is over.

## Modules

| module | what it is |
|---|---|
| `Vault` | one vault; each operation is split at its durable writes, `pc` and `op` say which write is next |
| `VaultPromise` | what a vault promises its devices while its index file survives: a versioned map, no crash, no mirror |
| `VaultHistory` | `Vault` plus two history variables: the newest version a device can have seen, and the last deletion of each path |
| `VaultProofs` | invariants of `Vault` and `VaultHistory`, and that `Vault` implements `VaultPromise`, proved |
| `Decision` | the three-way decision table, used by `Sync`, `Mounts` and `Config` |
| `Sync` | devices that reconcile over a server that keeps `VaultPromise` (it uses that module's `Put` and `Remove`) |
| `Engine` | the queue, the link, the socket and the session of one device |
| `Switch` | which vault a device syncs, whose base it holds, and what is on disk |
| `Mounts` | one mount next to the primary scope |
| `Config` | the `.obsidian` files of one device |
| `NoteConflict` | one conflict, the sweep and the modals |
| `Light` | the status light |
| `SyncProofs`, `EngineProofs`, `MountsProofs`, `ConfigProofs`, `SwitchProofs`, `NoteConflictProofs`, `LightProofs` | invariants of these modules, proved |
| `MC...` | instances for TLC |

So the client is checked against the abstract server, and the real server is
shown to implement the abstract one for the faults the abstraction is made for.
What the server does when its index is damaged is checked in `VaultHistory`, as
the facts a device relies on (version, floor, tombstones). `Sync` lets a pass start
whenever it could; `Engine` shows that it does start, for what reason, and what a
failure drops. `Mounts`, `Config` and `Switch` take the decision of `Sync` per file
as one step and are about what surrounds it.

### Vault

`files`, `tombs`, `idxVersion`, `idxFloor` are the tables of the index, `db` the
condition of its file, `hwm` the `.version-hwm` sidecar, `store` the blobs with
their age (older than the orphan TTL or not), `mirror` the bind mount; `state`,
`version` and `historyFloor` are the fields of the open handle. Every mutating
operation holds the write lock for its whole length, so operations do not
interleave with each other: what can come between two of their steps is a crash,
and ageing blobs. `Commit` and `Delete` are followed by `WriteHwm`, `WriteMirror`
and `TouchAndAnswer`; a reindex goes `ReindexPrepare`, `ReindexPublish`,
`WriteHwm`, `ReindexFloor`, `ReindexFinish`, or ends in `ReindexAbort` or
`ReindexIoError`. `Open` is `Vault::open` with `verify_and_gc`, and starts the
automatic reindex when it must.

Bodies are model values with a size and a set of chunks (the chunker is
deterministic). Paths are numbers, because reindex sorts them. `Fold` is case
folding; `UnsafePaths` are the names `safe_rel_path` refuses.

### Sync

A note is the set of edits in it, {} is no file. Edits are numbered and each is
made once, so equality of notes stands for equality of hashes, and a lost edit is
one that is nowhere. A clean three-way merge is the set formula of `Merged`; a
merge may always turn out not to be clean.

`task[d]` is what the engine of device d runs: a full pass, a delta pass or one
file event, with what it learnt when it began (`remote`, `dels`, `top`, `listed`,
`guard`) and the path in progress, whose `step` names the await it stands at.
Between two steps the user, the other device, and faults may move. `Examine` is
`reconcileOne` up to its decision (`Decision` and `Finalize` are the two tables of
`reconcile.ts`); the other steps are the effects. `PathFailed`, `Offline` and
`Conflicted` are the three ways an error travels: isolated and retried, fatal for
the connection, or a 409. `held` is the review of bulk deletions, `saved` is
`data.json`. `amiss` is history: the paths whose review was answered in vain (the removal
failed and the review forgot it, or the note had come back before the answer), until the
next full pass.

`RacySteps` names the local writes that a save of the user may slip in front of
although nothing is awaited but the file system; it is empty in the runs (see the
observations).

Left out of `Sync`: the flip guard, the size gate (a streamed download has the race
check and order of a buffered one), case aliasing, content identity finer than
equality, history-reset notices, read-only primary vaults. The paths of a pass are
independent and are taken one at a time. `.trash` does not count as keeping an
edit.

### Engine

`queue` is the event queue with its coalescing rules, `job` the event in hand, split
at its network calls. JavaScript runs one callback at a time, so every action but
the continuation of the job waits until `Pump` has nothing to do (`Resting`). `Class`
is `classifyConnectError`, `Link` the link machine with `recoveryFor`, `Transport` the
socket machine; `timer`, `poll`, `redial` are the three timers of `main.ts`. A call
gets the answer hoped for, or one of `Errors` (`CallFails`); a push of one path may
also fail by itself (`PushFails`: `missed` waits for the full scan, `rejected` for
different content; at the commit every 4xx but 409 and 404 is a rejection, `Refusals`). `FaultKinds` adds a broken or missing socket, a change of a
peer, and the expiry of the token; `Commands` are the user's (reconnect, a review to
resolve, disconnect, resume from the background, sign in, sign out, unload). `dirty`
is what the server has not got, `told` the file events on the way, `claims` the
edits the light counts.

### Switch

`mem` is the part of settings and base that matters (the vault, `pendingSwitch`,
`baseVaultKey`, per path the vault a base entry was recorded against and the one whose
failed download put it back), `disk` is `data.json`. `Persist` is `persist` with its single flight; `SaveDone` and `SaveFails`
end a save, `Crash` restarts from `disk`. `SwitchToVault`, `Setup` (the wizard) and
`Disconnect` are the user's; a connect is `Connect`, `Resolve`
(`resolveAndApplySwitch`, with `Mismatch` and `AlreadyApplied` for the functions of
`connectdecisions.ts`), `Item` or `ItemFails` per file, `Applied`, `Finish`, or
`Abort`. `ItemFails` of a download puts the old vault's entry back, as the code does:
`Own` is what a base may hold when it is used, an entry of the vault itself or one that
a failed download of that vault put back. The user may disconnect while a connect runs,
which goes on without a vault. `UserMoves` are four moments at which the user may switch
or disconnect that the code does not handle (see the observations); they are not in the run.

### Mounts

`local` is the folder, `source` the rows of the mounted vault, `mount` its entry in
the settings, `store` the state kept per mount point, `scope` the entry of
`mountScopes`, and `pass` the pass that runs: `guard` (mass deletion, orphan), `list`,
`apply` per file, `Settle`. The primary scope is `pbase`, `pserver` and the push in
flight `ptaking`. `tries` is the retry budget: a file that fails holds the cursor back
until it has failed `MaxRetries` times at one version, and one the source does not list has no
version to hold the cursor at; `givenUp` is history, the files that failed so, until a pass
takes them up again. The user edits, deletes, adds, removes, redirects, reinstates and
moves the mount and answers the two reviews (edits in a read-only mount, held bulk
pushes); peers write to the source; a crash, a rebuilt source, a failing file and a
lost connection are the faults. `RacyMoves` are six awkward moments (see the
observations); the run has none of them. Left out is the answer to a source whose version
went back (mountsync.ts:45): no version of the model does; `VaultHistory` is about when one may.

### Config

A configuration file is opaque, so its content is one edit; the list of enabled
plugins is the set of its entries. `pass` is a delta, a scan (only local
changes) or a full pass, split at the calls of one file; `task[f]` is
`resolveConfigConflict` for f, which does not go through the queue; `job` is the loop
over a group that the user started. `Accepts` is the selection by surface and plugin.
A pull looks at the file (`Pull`) and replaces it in a later step (`Write`), and so does the
union of the plugin list (`ListReads`, `MergeList`); a file that cannot be read counts as absent
in both. `known`, `seen`, `loaded` (the manifests, which Obsidian reads when it starts or a plugin
is installed) and `wish` are what the autopilot knows and what the user said; `pilot` is what
`runPluginAutopilot` read before it asked whose vault this is, and writes back after.

Three variables are history. `given` has the edits that somebody replaced, deleted, or saw
and did not choose. `overrun` has those written over unseen: saved between the last look at a
file and its replacement, unreadable at that look, or newer than the choice that a resolution
carries out. `hasty` has the un-ticks that came before the autopilot had seen the plugin or
while it asked. The properties admit these two by name, so that they show that nothing else
gets lost; the observations say what the code does there.

### NoteConflict

`note` and `copy` are the two files, `modal` what each modal shows with the state of
`resolvefsm.ts` and the step of `resolveNoteConflict` it stands at; a closed modal may
still be resolving. `sweep` says that `dismissCosmeticConflicts` has compared and not
yet removed; one sweep runs at a time. `Stamps` are the edits that only add an ignored
timestamp key. A modal shows a text it cannot read as empty (`Render`; `blind` when it is the
copy). `settled` and `unread` are history: what somebody saw and did not choose, or deleted,
and what went with a copy that was shown as empty.

### Light

The engine is reduced to what the light reads: state, link, job, queue, `bulk` (the
count of a pass) and the summary of the mounts. The summary gets worse with an event, which
paints (`MountEvent`), and may get better without one (`ScopeDropped`: a mount removed,
reinstated, redirected or moved, a token renewed, a backoff over); `light.mount` is what it was
at the last paint. One file may fail by itself in a pass or a path job that goes on and
settles its claim (`CompareFails`, `PathConflict`, `PathPassedOver`). `claims` is `unsyncedEdits`, by age
and kind. `NextLightDisplay`, `SettleLight` and `ApplyLightAction` are the display
machine with its timers: `handle` says that `lightTimer` names a timer, `timers` counts
those that exist, because one whose handle was overwritten still fires. `Paint`
happens where the code paints and nowhere else. `late`, `overtaken` and `isolated` are history.

## Runs

| run | instance | shows |
|---|---|---|
| `vault` | 4 paths (two that fold together, one unsafe), 2 bodies of one size sharing a chunk, 4 versions, 2 faults of all 8 kinds | `LiveOrDeleted`, `VersionsOrdered`, `FloorBelowVersion`, `FoldsDistinct`, `NoNewDangling` |
| `vault_promise` | 2 paths, 3 faults among crash, failed mirror and sidecar writes, host edits | `ImplementsPromise` |
| `vault_history` | 2 paths, 5 versions, 2 faults among damaged index, lost blob, host edit, failed mirror write | `NoRewind`, `HistoryComplete` |
| `sync` | 2 devices, 1 note, 3 edits and deletions together, 1 fault of 7 kinds | `NoLostEdit`, `CursorSound`, `ServerKeeps` |
| `sync_live` | 2 devices, 1 note, 2 edits, 1 deletion, every incoming deletion held, 1 failing write or removal | `CursorSound`, `Converges` |
| `engine` | 1 path, 1 edit, 1 fault of any kind, 1 command of any kind | `NeverStranded`, `NoSilentEdit`, `Quiet`, `EditsReachServer`, `TasksRun` |
| `switch` | 2 vaults, 1 path, 2 switches, 2 faults of 4 kinds | `BaseBelongs`, `ResolutionHonoured`, `KeyTellsTruth`, `SwitchCompletes` |
| `mounts` | 2 files, 2 mount points, own and shared source, 4 events (edits, deletions, commands, at most 2 faults), a retry budget of 2 | `SourceSpared`, `NoEditLost`, `MountComplete`, `NoSilentEdit`, `PrimarySpared` |
| `config` | the code of one plugin, the data of another, the plugin list, 3 events | `NoSilentLoss`, `UntickSticks`, `PluginsKept`, `ListTellsTruth` |
| `note_conflict` | 2 modals, 3 edits, one of them a timestamp, 1 failing file operation | `NoUnseenLoss`, `SweepSafe`, `ResolutionEnds` |
| `light` | 2 paths, 2 keystrokes or saves, 1 failure of a job or a file, 1 kind of mount trouble, 1 timer late | `WarnsAtOnce`, `GreenIsTrue`, `HoldEnds`, `Settles` |
| `expired_commit` | 1 path, 1 edit, the token expires once | `SoundEditsReachServer` is violated |

`expired_commit` shows a disagreement between what the repository says and what the
code does: a token that expires after the chunks of an edit were sent makes the
commit answer 401; the client takes every 4xx other than a conflict for a rejection
of the content, remembers the content as rejected, and does not send it again after
the next sign-in. A 403 or a 429 at the commit is treated in the same way. That is why
`EditsReachServer`, which holds, excepts content that a commit refused, and
`SoundEditsReachServer` excepts nothing.

`sync` also checks its type invariant. The other modules state theirs as documentation of
the state; all but that of `NoteConflict` are theorems.

Each property has a mutant in the module that defines the action it is about: a
definition changed the way a plausible mistake would change the code, under which
the same instance violates the property.

### Why the bounds are enough

Rows of different paths meet in a vault only through a shared chunk, a shared
fold, and the order of versions: two paths and a fold twin, two bodies that share
a chunk, reach each. Four versions allow a note to be committed, replaced, deleted
and committed again; two faults allow a crash after a failed write or a damaged
index after a crash, which is how every known counterexample is built. In `Sync`
the paths are independent except for the cursor and the bulk guard; three changes by
two devices give each of base, local and remote a different value with a save
racing on top. `MaxRetries` is 2 so that the budget runs out. `HoldAbove` = 9
turns the review off, `HoldAbove` = 0 makes it fire at once (the rule for a
threshold that is not valid, and the effect of any threshold that is exceeded).

`Engine`: one path suffices because the queue coalesces by path and a job concerns
one or all; one fault and one command in any order reach a failure during a recovery
from nothing, because the socket, the poll and the timers need no fault to be in
any phase. "offline" and "403" stand for the retried and the blocked classes;
`Class` has the others. `Switch`: two vaults and two switches allow away, and away
again to where the base came from; two faults, a failed save and then a crash.
`Mounts`: `BulkMin` = 2 with two files makes deleting all of them a mass deletion,
`PushFloor` = 1 makes two new files one too many; four events are an edit on each
side, a command and a fault, or an edit and the two faults that spend a budget of 2.
`Config`: a plugin with an author, one without, for whose sake the autopilot has to ask,
and the list are treated differently, and two of one kind are not (a core file differs
from a plugin's data only in that nothing but its surface selects it); two edits make both
sides differ from the base. `NoteConflict`: two edits make the conflict, the third changes a file under a
modal or sweep; two modals because a closed one may still resolve. `Light`: two
paths so that one job settles one claim and leaves another; one late timer is
enough to leak one, and one kind of mount trouble outranks the primary like the other; the
proof covers any number and both.

### Fairness

`Sync`: a running task goes on (`WF` of `TaskStep`: every request is bounded by
`REQUEST_TIMEOUT_MS`) and full passes come round (`SF` of `StartFull`: the reconnect
that `scheduleRecovery` arms runs one, and so does every `FULL_SCAN_INTERVAL_MS`;
strong, because other tasks come and go). Neither delta passes nor events are
assumed, so convergence does not rest on pokes.

`Engine`: the event loop runs (`WF` of `Pump`), a job goes on or its call fails (`WF` of
`JobStep`), and armed timers and intervals fire and file events are delivered in the
end (`SF` of `TimerFires`, `PollTick`, `ScanFallsDue`, `LocalEvent`: each has to wait
while the queue is worked, so weak fairness would say nothing). Nothing is assumed of
sockets.

`Switch`: a connect begins and its steps go on, and a save that is not made to fail
ends (`WF` of `Connect`, `Steps`, `SaveDone`); the recovery timers that make `Connect`
happen are `Engine`'s subject. `Config`: full passes come round and go on, a locked
file is unlocked, resolutions go on (`SF` of `Begin("full")`, `WF` of the rest).
`NoteConflict`: a resolution goes on and the clock advances (`WF` of `Step`, `Elapses`);
the engine is not assumed to become busy or idle. `Light`: a job goes on or fails,
time passes, timers fire (`WF`), and some poll of a link that stays up is a full
scan (`SF`).

In all of them users and faults stop because they are bounded; no fault is assumed to
happen. `CHECK_DEADLOCK FALSE` is set where the system may rest: unloaded or off
(`Engine`, `Switch`), or with nothing left to do (`Mounts`, `Config`).

## Proofs

TLAPS checks these for all values of the constants that satisfy the assumptions
named in the modules.

`VaultProofs` (assuming a finite set of numbered paths; every body has a size and at
least one chunk; bounds are numbers; the finiteness of Paths is needed because
reindex numbers the files it finds): `TypeCorrect`, then `Invariant`,
`LiveOrDeletedHolds`, `VersionsOrderedHolds`, `FloorBelowVersionHolds`,
`FoldsDistinctHolds` and `NoNewDanglingHolds`. The properties are not inductive: a
reindex publishes in one step what it planned in another. `IInv` adds `TombsOrdered`
(tombstones lie between floor and version), `Counters` (how the handle's version, the
index's version and the sidecar compare in each `pc`) and `RebuildInFlight` (the
manifest in `op` is one that may be published: versions distinct, above or equal to
the old ones, folds distinct, no ghost, every chunk stored). The argument has one
case per action; `RankBounds` and `RankInjective` say that the numbers a reindex
hands out are new and distinct.

`Refinement`, in the same module: `Spec => ImplementsPromise` under `Survivable`
(crashes, failed mirror and sidecar writes and host edits in any number; index and
blobs survive, no prune). Its invariant `RInv` adds that nothing dangles and that
the planned manifest only adds files under names neither listed nor deleted.

`NoRewindHolds` and `HistoryCompleteHolds`, about `VaultHistory`: a damaged index may be
quarantined and rebuilt, history pruned and the vault reopened any number of times, and no
device is told a version below one it knows, nor misses a deletion above its cursor. Two
hypotheses: none of the faults `Unrecorded` (after a crash, a failed sidecar write, an I/O
error or a vanished index the statements are false; see the observations), and `HandsOff`
(nobody removes the last file from the bind mount while the index lists nothing). The
invariant `HInv` says that either every deletion above the floor is on record (`Whole`), or
the index was lost and the vault does not serve before it has raised the floor
(`Rebuilding`); meanwhile the sidecar remembers every version told (`Remembered`).

`SyncProofs`, for any number of devices, paths, edits, deletions and faults: `TypeCorrect`,
`NoLostEditHolds`, `ServerKeepsHolds` and `CursorSoundHolds`.

- `NoLostEditHolds` assumes `RacySteps = {}`, the moments listed under the observations. One
  idea carries it: along the history of a path the server's note only loses edits that a user
  discarded. So what device and server once agreed on is covered by any later note of the
  server (`Agreed`, of the base in memory and of the saved one that a crash brings back), a
  listing lies between what was agreed on and what the server has now (`Listing`), and what
  was never agreed on is in the hand of the running step, in a copy or still on disk
  (`AtStep`). `DevMoves` says that no step of another device can take that away.
- `ServerKeepsHolds`, of the steps (an action property), with the same hypothesis and from the same
  invariant. A commit or a tombstone names the version it replaces, so what it replaces is what
  the device was told; `Listing` and `AtStep` say that what it sends instead covers that, or
  that a user deleted it (`AnswersKeep`).
- `CursorSoundHolds`, without hypotheses: a device whose cursor has passed a change has acted on
  it, holds it for review, has used up its retries, or had its review answered in vain. `CurInv`
  says for each pass which changes it may still fail to act on: those in `todo`, those newer than
  its listing and those it has recorded as failed; the cursor stops before the earliest of these
  (`Earliest`). `Answered` says what the two answers to a review do to base and disk.

`EngineProofs`, from `EngineAssumption` alone, for any number of paths, edits, errors, faults
and commands: `TypeCorrect`, `NeverStrandedHolds`, `NoSilentEditHolds` and `QuietHolds`. The
invariant `IInv` strengthens two of them. `Covered` extends `NoSilentEdit` to a connect that
has listed but is not connected yet, and does not count the path being pushed: it was read
before an edit that came since, so that edit must have a way of its own. `Silent` is `Quiet`
without its condition that nothing waits. `JobInv` says at which calls a job of each kind can
be, and in which states of the engine; it is what tells a connect that was overtaken by an
unload from one that was not. `StepKeeps`, `EndKeeps` and `FailKeeps` are the three ways a
call ends; `WorldKeeps` covers everything that only adds an event. The filter of `failWith`
is defined by ranks (`Only`), and `RankTaken` and `OnlyType` say that it is a sequence of
events again.

`MountsProofs`, for any number of files, mount points, edits, commands and faults, without
`RacyMoves`: `TypeCorrect`, `NoEditLostHolds`, `SourceSparedHolds`, `PrimarySparedHolds`,
`NoSilentEditHolds`, and without the fault "crashUnsaved" `MountCompleteHolds`.
None of the five properties is inductive, and each needs something of its own.

- `NoEditLost`: a pull writes over a note that equals its base, so no base may hold an edit
  that is nowhere else (`Loose`). The one way to get such a base is `keepBulkPushes`, and `Fit`
  says what then protects the note: the source is shared and has neither a row nor a tombstone
  of that name, so no pass pulls or removes it. This has to hold of every base a crash, a
  rename or a new scope can bring back (`Known`), and of the rows a pass was told (`PassFit`).
  `DataMoves` says once for all actions which changes of folder and source keep it.
- `SourceSpared`: a delta runs without the mass deletion guard. `GuardInv` says that what a
  pass has removed and what it may still remove (`Gone`) together are below `BulkMin`, and that
  a scope whose next pass could be a delta has lost less than that since its last full one; a
  deletion in the folder always forces a full pass (`NudgedSound`). It needs `BulkMin # 0`.
- `PrimarySpared`: `PrimaryInv` relates the primary's base, in memory and saved, to its server
  and to the folder (`PrimaryFit`), and says that both bases are empty while the folder is mounted.
- `NoSilentEdit`: `EditInv` follows a loose edit through the pass. While files are applied it is
  still to come, or the source has moved past what the pass was told, or its version is among
  the failed ones (`Left`); once the pass has settled, its file is newer than the cursor or the
  source was rebuilt above both cursor and floor (`Behind`), which the next pass turns into a
  delta that has the file or into a full scan. `RowAged` relates what a pass was told to a source
  that peers write and a rebuild prunes meanwhile; `SourceStep` says once for all actions how the
  source moves, and `LeftStays` and `BehindStays` carry the argument over those moves. A file in
  `givenUp` is excepted: it has failed with its retry budget spent, or without a version to come
  back for, and no pass has taken it up since.
- `MountComplete`: that a cursor has passed a version is not enough, because a pass pulls a note
  only if the base disagrees with the source; a base that knows the note while the folder lacks
  it makes the pass take it for deleted by the user. `BaseInv` says of every base a pass of this
  mount works with or will (`LiveBases`: scope, pass, store, and disk unless the keeper has just
  changed memory) that where it agrees with the source the folder has the note or the user
  deleted it (`BasesShown`), that no base knows more of a file than the pass in flight was told
  (`RowsShown`), that what `keepRoMountEdits` is about to remove is in none of them
  (`KeepDropped`), and that they are empty while the folder is not mounted (`OffClean`).
  `ShowInv` then follows a note through the pass with `Left` and `Behind`, as `EditInv` follows
  an edit in the other direction: it is shown, or still to come. `Done` says in which three ways
  a pass can be through with a file. The theorem holds of behaviours in which the mount is never
  renamed to a place it still has a state for (`[][FreshName]_vars`), and `givenUp` is excepted
  as above; without the former it is false,
  see the observations. TLC checked both invariants before the proof, with two moves and 4 events.

`ConfigProofs`, for any number of files, plugins, edits, settings, resolutions and faults:
`TypeCorrect`, `NoSilentLossHolds` (without "besidePass"), `UntickSticksHolds` (no hypothesis) and
`PluginsKeptHolds` (without "listDeleted" and "listInvalid").

- `NoSilentLoss`: `LossInv` says of every file that what is in the base, and was neither given up
  nor overrun, is still on both sides, and that what a pass was told is still on the server (`Agreed`); that the
  call the pass is at loses nothing the other side does not have (`PassNotes`); and that what a
  resolution is about to write is still on the side it was read from (`TaskNotes`). `LossStep`
  says once for all actions which changes of the two sides keep this. Without "besidePass" no
  resolution is at the file of the pass, which is what `PassNotes` needs of a pull.
- `UntickSticks`: `Unticked` adds that the autopilot has seen the plugin, and that what an autopilot
  that is asking read before says so too; it adopts only what it has not seen.
- `PluginsKept`: `ListKept` says that a list with a base is on both sides, and that a pass that knows
  no list on the server finds no base. So the decision never deletes the list here, never leaves it
  to the user (no task and no job is ever about it) and never deletes it on the server, and the
  merge only adds to what it read; what it did not read is `overrun`.

`LightProofs`, from `LightAssumption` alone: `TypeCorrect`, `HoldEndsHolds`,
`WarnsAtOnceHolds` and `GreenIsTrueHolds`, all from `Invariant`. None of the three is
inductive. `Painted` says what the light owes to the last paint: a hold owns the timer that
`lightTimer` names (`Timers`), a hold shows "syncing" and defers no warning (`Shown`), and
a warning is shown exactly when the state and the mounts of the last paint call for one
(`WarnsInv`; mounts in trouble now were in trouble then). `Covered` and `JobInv` follow a file
from its save to the server: once a pass has listed everything, an unsent file is claimed on
disk, about to be sent, overtaken or isolated, and the jobs that settle claims leave no file behind but
those saved since they began. `DispatchSound`, `ProjectionSound` and `RenderSound` carry the
argument: any step that paints re-establishes `Painted` whatever it did to the facts, so each
action only has to show that it paints, or that nothing painted has changed.

`SwitchProofs`, for a user who makes none of `UserMoves`: `TypeCorrect`,
`BaseBelongsHolds` and `KeyTellsTruthHolds`, from `Invariant`, and `ResolutionHonouredHolds`. A connect trusts the base
when the key names the configured vault, or when there is no key and nothing is pending.
`Sound` says that this trust is justified, up to what `Own` admits. It has to hold of the settings in memory, of the
snapshot a save is writing and of `data.json`, because a crash brings the last one back and
a save that ends late replaces it by the second (`Snapshots`). `JobInv` says that a connect
talks to the configured vault and that once a resolution is made the base is that vault's;
`RestInv` that between connects the key names the vault events are recorded against.
`ResolveKeeps` is where the decisions of `resolveAndApplySwitch` meet `Sound`.
For the last one `ChoiceInv` says that settings which must still carry the user's choice (those in
memory, a snapshot taken since the choice, and data.json once it has had such a snapshot) ask for
it and do not carry the vault's key, so `switchAlreadyApplied` cannot take it for done. An older
snapshot in flight that happens to name the same vault and resolution is not the choice: it may
carry the key of an earlier visit, which is why `choice.taken` tells the two apart.

`NoteConflictProofs`, without `RacyMoves`: `NoUnseenLossHolds` and `SweepSafeHolds`, from
`Invariant`. A resolution writes what it read of the copy over the note while other modals
and the sweep rely on both files. `Sane` says what each modal relies on: what it shows of the
copy is the copy, or the copy is gone; what it read is what it shows; a copy about to be
removed is covered unless the user chose to drop it, having seen it or not (`blind`). `OneCopy` (modals that show a copy show
the same one) and `SweepInv` (what the sweep will remove is covered) are what survives the
write of another modal.

Only model-checked: all liveness, which TLAPS does not do here.

## Observations

What reading and modelling brought up. An observation that names a constant can be
seen by adding the value to the cfg of the run: TLC then finds the property violated.
The runs leave these moments out so that they can show that nothing else is wrong.

Vault (`MCVaultHistory.cfg`, `MCVault.cfg`):

- `HistoryComplete` with the fault "crash" next to "dbCorrupt": a damaged index is
  rebuilt, and the process dies after the files are published and before the floor is
  raised (vault.rs:491-500). The next open finds a healthy index with floor 1 and no
  tombstones; index_store.rs:178 says the floor tells of lost history.
- `NoRewind` with the same faults: the process dies between a commit's transaction and
  the sidecar (vault.rs:681); `open` takes the larger of the two but does not repair the
  sidecar (vault.rs:239 against 277), and if the index is damaged later the version
  restarts too low.
- `NoRewind` and `HistoryComplete` with `UnsafePaths = {2}` and `MaxFaults = 3`: a damaged
  index is quarantined, the rebuild is refused because of a file name that is unsafe or
  collides, and the vault is closed; the file, the last one there, is removed by hand. The
  next open finds an empty index and no files, takes the vault for a new one (vault.rs:247)
  and answers `changes` with the version 1 of the index and floor 1. This is why the theorems have the hypothesis `HandsOff`.
- The mirror file of a deleted note could not be removed, the tombstone is pruned, and
  a reindex lists the file as new (vault.rs:446, 541 against 389).
- chunkstore.rs:80 keeps the old mtime of a blob that is uploaded again, and
  vault.rs:632 compares sizes only when it heals the mirror.
- A failed repair of dangling rows goes to the corrupt state, and the next reindex
  trusts the mirror.
- `admin.rs` says that a prune without a floor drops all tombstones; the one at
  the current version stays.
- An index that is missing while the mirror is empty opens as healthy at version 1 of
  the index, with the handle at the sidecar's version.

Sync (`MCSync.cfg`, `MCSyncLive.cfg`):

- `RacySteps` {"write"}: a save between the race check of a pull and its write is
  overwritten (reconcile.ts:731; README.md:38 promises that no edit is lost).
- A file event of a note under review takes the single-path route, whose guard knows
  nothing of the review, and removes the note (reconcile.ts:1134, main.ts:2980).
- A deleted note may come back: a peer's deletion is answered by pushing the note again. No edit
  is lost by that (`NoLostEdit`, `ServerKeeps`), and no property here says that it does not
  happen, because it does, in six moments:
  1. "lostReply": the answer to a commit is lost, and the base does not say that the note was
     sent; after a peer has deleted it, it looks edited here.
  2. "conn" or "transfer" while a conflict copy is pushed: the remote note is in place, but the
     base is not set (reconcile.ts:1326).
  3. "unreadable" or "hidden": a note that cannot be read is taken for gone, and if the server
     has no such note either, the base is cleared; once it can be read, it is new.
  4. "crash": the base in data.json is older than what was pushed (main.ts:3904).
  5. No fault, `MaxEdits = 2` and `MaxDeletes = 2`: the event route asks `fileMeta` first and for
     the whole listing later (reconcile.ts:1105, 1125). A note that is gone at the first look and
     back at the second has no tombstone, so `finalize` pushes the old note; if the new one is
     deleted before the commit, the expected version 0 is right and the old note is back.
  6. "Keep" is answered when the note is back already, because its peer wrote it again or kept
     it too (a delta pass takes no path off the review, main.ts:2984): the base of the new note
     is forgotten, and the next deletion of it is taken for no deletion (two deletions, no fault).
- Accepting held deletions clears the whole review although a file could not be removed
  (reconcile.ts:1030-1031, main.ts:3034): the note stays, its tombstone is behind the cursor, and
  only the next full pass asks again (`amiss` in `CursorSound`).
- `applyHeldDeletions` (reconcile.ts:1028) removes the paths that were held when the
  review was shown; a note that was edited or recreated since is removed too.
- Removing one of several held notes by hand may bring the count under the
  threshold, and the next full pass removes the rest without asking.
- A request that times out is "treated as offline" only on the event route; in a pass
  `isConnectionError` does not match it and the file is retried by itself.
- sync.ts:99: `Promise.all` rejects while other transfers of the pass are in flight.
- main.ts:2973: a pass that throws forgets which files it kept after a history reset.

Engine:

- Every 4xx of a commit but 409 and 404 counts as a verdict on the content (transport.ts:394):
  401 (the run `expired_commit`), but also 403 for a share that became read-only for a while and
  429; the edit waits in `rejectedPushes` until the note changes again or the app restarts.
- A redial of a socket that fails at once starts over without delay
  (transportstate.ts:66-68, main.ts:2807).
- `withSyncRelogin` never sees the 401 of `fileMeta`; `withAuth` wipes a token that
  another call has renewed meanwhile; a revoked share is classified as transient; an
  upload to a vault that became read-only is retried for ever (reconcile.ts:1637);
  while a disconnect awaits, the vault id is "default".

Switch:

- `UserMoves` {"switchBack"}: the user goes back to the vault the base belongs to before
  the switch away from it was finished; the resolution counts as applied
  (connectdecisions.ts:21-23, main.ts:2680-2684, settings.ts:100-104). "midConnect"
  (switching while a retry is connecting), "setupAgain" (the wizard over a base
  without a key, or back to the vault of the key) and "disconnectTwice" break `BaseBelongs` too.
  The last: the settings' button (settings.ts:465) is not locked while a connect runs, which then
  ends with the key of settings without a vault (main.ts:1607-1611, 2727); a second such
  disconnect, before the connect compares keys, finds that key equal to its own.
- A download that fails for one file puts back the old vault's entry of it (reconcile.ts:1689),
  under a key that names the new vault (main.ts:2727). If the note is unchanged since, the next
  pass takes the new vault's version, as intended; if the user edited it, the pass merges with an
  ancestor from another vault. `Own` admits exactly these entries.
- `pendingSwitch` survives a disconnect, and a setup of another vault carries it out there.
- A failed save is not tried again until something else changes (main.ts:3921). The
  wizard does not clear `vaultOwner`.

Mounts:

- `RacyMoves` {"peerReusesName"}: `keepHeldPushes` stamps a base for the files kept here,
  so a peer's later file of that name is silently pulled over them
  (reconcile.ts:1061-1082 against 1056-1060 and main.ts:3088-3089).
- "changeInEcho": a change within the 4 s window of a self-write is not nudged, and mounts
  have no periodic full scan. "editWhileKeeping": an edit between the read and the
  remove of `keepRoMountEdits` is lost. "deleteMidPass": the guard and the pass list
  the folder separately. "removeMidPass", "mountMidPush": a mount removed or redirected
  during its pass, or a primary push in flight across mounting, apply to the old scope.
- `persist` does nothing unless something was marked dirty (main.ts:3915), and
  main.ts:3343, 3507, 1182 and 1423 do not mark it; unload clears the lazy timer without
  flushing (main.ts:777-783 against 3872).
- A delta after a failed pull may delete at the source (mountsync.ts:53-58).
- After MAX_PULL_RETRIES failures the cursor passes a change, as in the primary scope, but a mount
  has no periodic full scan that would come back (reconcile.ts:282-285 says "It's still
  re-attempted by the slow full scan"); a file the source does not list has no version to hold the
  cursor at, so one failure of its first transfer is enough (reconcile.ts:506-507). It then waits
  for a new version, an event of the folder or a restart: `givenUp` in `MountComplete` and
  `NoSilentEdit`. Without the exception TLC finds both violated in the run's bounds.
- A file of a bulk push the user accepted that fails leaves the review all the same
  (reconcile.ts:1051-1052, main.ts:3083); the next full pass finds it again.
- A rename of the mount point changes `mountKey` (mountengine.ts:24-26), so the base and cursor
  do not survive it as main.ts:3787 says: the mount starts anew, and its old state stays in
  `mountStateStore` until the next start (main.ts:3859-3860). Renamed back within the session it
  finds that state again. If in between the mount was removed and added and the primary changed the
  folder, or the keeper removed a note for a new pull, the old base still has the note, and the
  pass takes it for changed or deleted by the user. With `MaxMoves` = 3 and `MaxEvents` = 5
  `MountComplete` is violated this way; the run has one move.

Config:

- `RacyMoves` {"listDeleted"}: a peer deletes `community-plugins.json`, and the deletion
  is applied here, which disables every plugin (reconcile.ts:1563-1566, 1182, 1454
  against configsync.ts:151-152); `PluginsKept` fails.
- "listInvalid": a list that is not a JSON array of names, here or there, falls through to the
  opaque route (reconcile.ts:1188-1189), where the server's is pulled over the local one.
- "besidePass": a resolution runs beside a pass that listed the file before, and the
  pass pulls over the chosen side (against reconcile.ts:1596-1597).
- `overrun`, each without any of `RacyMoves`: a save between the race check of a pull and its write
  (reconcile.ts:728-731), or of the list between its read and its write; a file that cannot be
  read at the race check, which counts as no race (reconcile.ts:638-641), and is free again at the
  write; a list that cannot be read, taken for empty (reconcile.ts:1185-1186), so that the server's
  is written whole and local plugins are disabled; and what a resolution finds on the other side
  that is newer than the choice, for it pushes without a version and pulls without the race check
  (reconcile.ts:1602, 1607). The read and the removal of a peer's deletion (reconcile.ts:1417-1422,
  1566) are two steps of the model as well.
- `hasty`: an un-tick of a plugin the autopilot has not seen is undone when it sees it; one that lands
  while it awaits `refreshVaultPrivacy` is undone by the sets it read before (main.ts:1351-1353,
  1368, 1390-1392).
- `resolveConfigConflict` "local" reads with `readOrNull` (reconcile.ts:536, 1600-1601), so
  a locked file counts as absent and is deleted at the server.
- A listed conflict whose surface or plugin is switched off never leaves the list; a newly
  ticked plugin is downloaded by the next full scan only.

Note conflicts:

- `RacyMoves` {"copyChanges"}: the copy is edited between comparison and removal (against
  main.ts:964-966, "safe BY CONSTRUCTION"). {"noDiffChanges"}: files without a diff have no
  stale check (against main.ts:1022-1024). Removed copies are in `.trash`.
- A text that cannot be read is shown as empty (noteconflict.ts:196-199, main.ts:1011-1013), and
  "keep theirs" then removes a copy nobody saw (main.ts:1101-1102), to `.trash`: `unread` in
  `NoUnseenLoss`. "Keep mine" is safe there: an unreadable note stops it.
- The check and the write of "keep mine" are one step of the model; they are two file
  operations in a row in the code.

Light:

- A retry that fails with another class changes the link and not the state, so nothing
  is painted: the light keeps "Reconnecting" while the link is blocked
  (syncengine.ts:171, 187-188 against 183-184 and main.ts:491). `WarnsAtOnce` therefore
  says that the light warns, not of what.
- Removing, reinstating, redirecting or moving a mount in trouble, a renewed token and the end of
  a backoff paint nothing (main.ts:3530-3550, 3557, 3445, 3787, 3175, 3337): the warning stays
  until something else paints, and polls without work do not. `WarnsAtOnce` and `Settles` therefore
  speak of the mounts as they were at the last paint (`light.mount`).
- A file that a pass cannot read or send is skipped, and the pass settles its claim with the
  others (reconcile.ts:503-507, main.ts:2722, 2950); a path job does so after a 409, or with a
  file without a base that cannot be read (reconcile.ts:1156-1168, 1415-1421). The light is green
  over a file the server does not have until the next pass: `isolated` in `GreenIsTrue`.
- `finishConnect` settles the claims made during its pass (main.ts:2722 against
  2138-2139), and `notePathSettled` one that was renewed during the job (main.ts:2136
  against 2078-2080): `overtaken` in `GreenIsTrue`.
- `pendingPaths` (reconcile.ts:938-942) does not count known notes edited here, so the
  light may be green while a connect pass still sends edits made while the app was
  closed (against main.ts:533-534): `job.todo` in `GreenIsTrue`.
- A claim renewed by typing and never written keeps "Syncing" until the full scan,
  because its prompt timer is not renewed (main.ts:2098-2104). A hold that the clock
  ended leaves its timer, which may end the next hold early. The count a failed pass left
  behind suppresses the paint of an equal one (main.ts:2450).

## Not modelled

The registry of open vaults, the server end of notifications, accounts, tokens, shares
and share links are in reach and next in the plan; the client end of each is an answer or
a fault of `Engine`. Chunking, hashing, merging of text and path folding are pure
functions of data that the models abstract to sets and equality. Settings pages, the
wizard's pages, the diff view, logs and notices are presentation. Scripts, deployment
and the end-to-end harness are not part of the running system.

## Plan

1. `VaultRegistry`: open locks, eviction and purge; at most one handle per vault, a
   purged vault is not recreated by a racing open.
2. `Notify`: socket caps, lagged receivers, poke or poll reaches every device.
3. Stragglers of an aborted pass, and requests that take effect after their timeout, in
   `Sync`.
4. Tokens, shares, share links, registration and throttling: revocation against
   requests in flight, single use, lockout.
