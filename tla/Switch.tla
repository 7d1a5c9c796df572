------------------------------ MODULE Switch ------------------------------
(***************************************************************************)
(* Which vault a device syncs, and whose state its base holds: the vault   *)
(* switch (client/src/vaultswitch.ts, setupwizard.ts, reconcile.ts         *)
(* switchTo), the decisions a connect makes about it (connectdecisions.ts, *)
(* main.ts resolveAndApplySwitch, finishConnect) and the persistence of    *)
(* settings and base (main.ts persist).                                    *)
(*                                                                         *)
(* Of a base entry only the vault it was recorded against is kept, and the *)
(* vault whose failed download put it back: the three-way decision of a    *)
(* plain pass is sound against the first alone.  A vault stands for its    *)
(* server-qualified key (vaultIdentityKey); NoVault, as a key, is the one  *)
(* of settings without a vault, NoKey that no key was stamped yet.         *)
(***************************************************************************)
EXTENDS Naturals

CONSTANTS
    Vaults, NoVault, NoKey,
    Paths,
    UserMoves,    \* the awkward moments at which the user may switch or disconnect
    FaultKinds,
    MaxFaults,    \* bound: how many faults
    MaxSwitches   \* bound: how many times the user picks a vault or disconnects

ASSUME SwitchAssumption ==
    /\ NoVault \notin Vaults
    /\ NoKey \notin Vaults \cup {NoVault}
    /\ UserMoves \subseteq {"switchBack", "midConnect", "setupAgain", "disconnectTwice"}
    /\ {MaxFaults, MaxSwitches} \subseteq Nat

VARIABLES
    mem,       \* settings and base: vaultId, pendingSwitch, baseVaultKey, base
    disk,      \* data.json
    unsaved,   \* persistDirty
    saving,    \* the snapshot in saveData's hands
    again,     \* persistPending
    timer,     \* persistTimer or lazyPersistTimer: they differ in their delay only
    api,       \* the vault this.api talks to
    retrying,  \* the link is down and retried: a connect then shows as such, not as busy
    job,       \* the connect that runs
    choice,    \* what the user chose last, whether the snapshot in saveData's hands was taken
               \* since, whether data.json has had it, whether it was done
    faults, switches

store  == <<unsaved, saving, again, timer>>
bounds == <<faults, switches>>
vars   == <<mem, disk, store, api, retrying, job, choice, bounds>>

Modes    == {"merge", "download", "upload"}
Entries  == [of : Vaults \cup {NoVault}, into : Vaults \cup {NoVault}]
Base     == [Paths -> Entries]
Settings == [vault : Vaults \cup {NoVault}, pending : Modes \cup {"none"},
             key : Vaults \cup {NoVault, NoKey}, base : Base]
Entry(v) == [of |-> v, into |-> NoVault]
NoEntry  == Entry(NoVault)
NoBase   == [p \in Paths |-> NoEntry]
Fresh    == [vault |-> NoVault, pending |-> "none", key |-> NoKey, base |-> NoBase]
NoSave   == [Fresh EXCEPT !.vault = "none"]
NoJob    == [step |-> "none", mode |-> "none", todo |-> {}, old |-> NoBase]
NoChoice == [vault |-> NoVault, mode |-> "none", taken |-> TRUE, saved |-> FALSE, done |-> TRUE]

Spend == faults < MaxFaults /\ faults' = faults + 1

-----------------------------------------------------------------------------
(* Persistence *)

\* persist: one save at a time, a second one waits; nothing is saved twice.
Persist(m, dirty) ==
    IF ~dirty THEN UNCHANGED <<unsaved, saving, again>>
    ELSE IF saving # NoSave THEN again' = TRUE /\ unsaved' = TRUE /\ UNCHANGED saving
    ELSE saving' = m /\ unsaved' = FALSE /\ UNCHANGED again

\* saveSettings of the settings as this step leaves them
Save(m) == mem' = m /\ Persist(m, TRUE) /\ UNCHANGED timer

\* persist goes on: the save is done, or failed and is not tried again.
Saved ==
    /\ saving # NoSave
    /\ again' = FALSE
    /\ IF again THEN saving' = mem /\ unsaved' = FALSE
       ELSE saving' = NoSave /\ UNCHANGED unsaved
    /\ UNCHANGED <<mem, timer, api, retrying, job, switches>>

SaveDone ==
    /\ Saved /\ disk' = saving
    /\ choice' = [choice EXCEPT !.saved = @ \/ choice.taken, !.taken = TRUE]
    /\ UNCHANGED faults

SaveFails ==
    /\ Saved /\ "save" \in FaultKinds /\ Spend
    /\ choice' = [choice EXCEPT !.taken = TRUE]
    /\ UNCHANGED disk

TimerFires ==
    /\ timer /\ timer' = FALSE
    /\ Persist(mem, unsaved)
    /\ UNCHANGED <<mem, disk, api, retrying, job, choice, bounds>>

\* The app is killed and started again: loadSettings.  A choice that was not saved is gone.
Crash ==
    /\ "crash" \in FaultKinds /\ Spend
    /\ mem' = disk
    /\ unsaved' = FALSE /\ saving' = NoSave /\ again' = FALSE /\ timer' = FALSE
    /\ api' = NoVault /\ retrying' = FALSE /\ job' = NoJob
    /\ choice' = IF choice.saved THEN choice ELSE NoChoice
    /\ UNCHANGED <<disk, switches>>

-----------------------------------------------------------------------------
(* The user *)

\* A switch or a setup; one while a connect runs is one of UserMoves.
MayAct ==
    /\ switches < MaxSwitches
    /\ job # NoJob => "midConnect" \in UserMoves
    /\ switches' = switches + 1

\* The entry says nothing of a vault but v, or a failed download of v put it back.
Own(e, v) == e.of \in {v, NoVault} \/ e.into = v

\* switchToVault; busyState locks its buttons while a connect runs, but not while the engine
\* calls the link retrying.  Switching back to the vault whose key the base still carries,
\* because the switch away from it never finished, is one of UserMoves.
SwitchToVault(v, mode) ==
    /\ MayAct /\ (job # NoJob => retrying)
    /\ v # mem.vault
    /\ mem.key = v => "switchBack" \in UserMoves
    /\ Save([mem EXCEPT !.vault = v, !.pending = mode])
    /\ choice' = [vault |-> v, mode |-> mode, taken |-> saving = NoSave, saved |-> FALSE, done |-> FALSE]
    /\ UNCHANGED <<disk, api, retrying, job, faults>>

\* disconnect, which forgets the vault and keeps the base.  A connect that runs goes on: the
\* engine tears down after it.  Before it has compared the keys, with the key of settings
\* without a vault from an earlier such moment, it is one of UserMoves.
Disconnect ==
    /\ mem.vault # NoVault
    /\ switches < MaxSwitches /\ switches' = switches + 1
    /\ job.step = "resolve" /\ mem.key = NoVault => "disconnectTwice" \in UserMoves
    /\ Save([mem EXCEPT !.vault = NoVault])
    /\ IF job = NoJob THEN api' = NoVault /\ retrying' = FALSE ELSE UNCHANGED <<api, retrying>>
    /\ choice' = NoChoice
    /\ UNCHANGED <<disk, job, faults>>

\* The wizard's finish, adoptRedeemed too, with no vault configured or no local files: no
\* resolution is asked for.  (Else it is switchToVault.)  That the base holds another vault's
\* entries and no key, or v's, says so is one of UserMoves.
Setup(v) ==
    /\ MayAct
    /\ v # mem.vault
    /\ mem.key \in {v, NoKey} /\ (\E p \in Paths : ~Own(mem.base[p], v))
            => "setupAgain" \in UserMoves
    /\ Save([mem EXCEPT !.vault = v])
    /\ choice' = NoChoice
    /\ UNCHANGED <<disk, api, retrying, job, faults>>

-----------------------------------------------------------------------------
(* Connecting *)

\* establishSession; timers, the socket, a resume or a command may ask for it at any time.
Connect ==
    /\ job = NoJob /\ mem.vault # NoVault
    /\ api' = mem.vault
    /\ job' = [NoJob EXCEPT !.step = "resolve"]
    /\ UNCHANGED <<mem, disk, store, retrying, choice, bounds>>

\* Mutant: the key of the base is not compared; a resolution counts as applied whatever the key.
MismatchNever == FALSE
AlreadyAppliedAlways(pending) == pending # "none" /\ mem.base # NoBase

\* vaultKeyMismatch and switchAlreadyApplied
Mismatch == mem.key # NoKey /\ mem.base # NoBase /\ mem.key # mem.vault
AlreadyApplied(pending) == pending # "none" /\ mem.key = mem.vault /\ mem.base # NoBase

\* Mutant: the base outlives the start of a switch.
ResolveKeepsBase ==
    /\ job.step = "resolve"
    /\ LET forced  == IF mem.pending = "none" /\ Mismatch THEN "merge" ELSE mem.pending
           pending == IF AlreadyApplied(forced) THEN "none" ELSE forced
           settled == [mem EXCEPT !.pending = pending]
           plain   == pending = "none" IN
       /\ job' = [step |-> "apply", mode |-> IF plain THEN "plain" ELSE pending, todo |-> Paths,
                  old |-> IF pending = "download" THEN mem.base ELSE NoBase]
       /\ IF AlreadyApplied(forced) THEN Save(settled)
          ELSE /\ mem' = IF plain THEN settled ELSE settled
               /\ timer' = (timer \/ ~plain)
               /\ unsaved' = (unsaved \/ ~plain)
               /\ UNCHANGED <<saving, again>>
    /\ UNCHANGED <<disk, api, retrying, choice, bounds>>

\* resolveAndApplySwitch: a foreign base forces a merge, a switch that is done is not
\* repeated; switchTo drops the base first.
Resolve ==
    /\ job.step = "resolve"
    /\ LET forced  == IF mem.pending = "none" /\ Mismatch THEN "merge" ELSE mem.pending
           pending == IF AlreadyApplied(forced) THEN "none" ELSE forced
           settled == [mem EXCEPT !.pending = pending]
           plain   == pending = "none" IN
       /\ job' = [step |-> "apply", mode |-> IF plain THEN "plain" ELSE pending, todo |-> Paths,
                  old |-> IF pending = "download" THEN mem.base ELSE NoBase]
       /\ IF AlreadyApplied(forced) THEN Save(settled)
          ELSE /\ mem' = IF plain THEN settled ELSE [settled EXCEPT !.base = NoBase]
               /\ timer' = (timer \/ ~plain)
               /\ unsaved' = (unsaved \/ ~plain)
               /\ UNCHANGED <<saving, again>>
    /\ UNCHANGED <<disk, api, retrying, choice, bounds>>

\* One path is reconciled, pulled or pushed: its entry is recorded against the vault the
\* connection talks to, or the path is gone, or it was in sync.  Afterwards schedulePersist.
Record(p, e) ==
    /\ mem' = [mem EXCEPT !.base[p] = e]
    /\ timer' = TRUE /\ unsaved' = TRUE
    /\ UNCHANGED <<saving, again>>

Item(p) ==
    /\ job.step = "apply" /\ p \in job.todo
    /\ \E e \in {Entry(api), NoEntry, mem.base[p]} : Record(p, e)
    /\ job' = [job EXCEPT !.todo = @ \ {p}]
    /\ UNCHANGED <<disk, api, retrying, choice, bounds>>

\* It fails on its own.  switchDownload then gives the path the entry it had before the switch
\* back, whichever vault's it is: the next pass sees an unchanged note and takes the target's.
ItemFails(p) ==
    /\ job.step = "apply" /\ p \in job.todo
    /\ "item" \in FaultKinds /\ Spend
    /\ IF job.mode = "download" /\ job.old[p] # NoEntry
       THEN Record(p, [job.old[p] EXCEPT !.into = api]) ELSE UNCHANGED <<mem, store>>
    /\ job' = [job EXCEPT !.todo = @ \ {p}]
    /\ UNCHANGED <<disk, api, retrying, choice, switches>>

\* The job ends; a disconnect that waited for it is carried out.
EndJob(down) ==
    /\ job' = NoJob
    /\ retrying' = (down /\ mem.vault # NoVault)
    /\ api' = IF mem.vault = NoVault THEN NoVault ELSE api

\* The connection is lost, or the session could not be had: the engine will retry.
Abort ==
    /\ job # NoJob
    /\ "conn" \in FaultKinds /\ Spend
    /\ EndJob(TRUE)
    /\ UNCHANGED <<mem, disk, store, choice, switches>>

\* Mutant: the resolution stays pending after it was applied.
AppliedForgetsNothing ==
    /\ job.step = "apply" /\ job.todo = {}
    /\ job' = [job EXCEPT !.step = "finish"]
    /\ IF job.mode = "plain" THEN UNCHANGED <<mem, store, choice>>
       ELSE /\ Save(mem)
            /\ choice' = [choice EXCEPT !.done = @ \/ (choice.vault = api /\ choice.mode = job.mode)]
    /\ UNCHANGED <<disk, api, retrying, bounds>>

\* switchTo returned: the resolution is forgotten.
Applied ==
    /\ job.step = "apply" /\ job.todo = {}
    /\ job' = [job EXCEPT !.step = "finish"]
    /\ IF job.mode = "plain" THEN UNCHANGED <<mem, store, choice>>
       ELSE /\ Save([mem EXCEPT !.pending = "none"])
            /\ choice' = [choice EXCEPT !.done = @ \/ (choice.vault = api /\ choice.mode = job.mode)]
    /\ UNCHANGED <<disk, api, retrying, bounds>>

\* finishConnect: the base is declared the current settings' vault's, to be saved within a
\* minute.
Finish ==
    /\ job.step = "finish"
    /\ mem' = [mem EXCEPT !.key = mem.vault]
    /\ unsaved' = TRUE /\ timer' = TRUE
    /\ EndJob(FALSE)
    /\ UNCHANGED <<disk, saving, again, choice, bounds>>

\* Between connects, an event or a poll records a path.
Event(p) ==
    /\ job = NoJob /\ ~retrying /\ api # NoVault
    /\ \E e \in {Entry(api), NoEntry} : Record(p, e)
    /\ UNCHANGED <<disk, api, retrying, job, choice, bounds>>

-----------------------------------------------------------------------------
Init ==
    /\ mem = Fresh /\ disk = Fresh
    /\ unsaved = FALSE /\ saving = NoSave /\ again = FALSE /\ timer = FALSE
    /\ api = NoVault /\ retrying = FALSE /\ job = NoJob /\ choice = NoChoice
    /\ faults = 0 /\ switches = 0

Steps == Resolve \/ Applied \/ Finish \/ \E p \in Paths : Item(p)

Next ==
    \/ SaveDone \/ SaveFails \/ TimerFires \/ Crash
    \/ \E v \in Vaults : Setup(v) \/ \E mode \in Modes : SwitchToVault(v, mode)
    \/ Disconnect \/ Connect \/ Abort \/ Steps
    \/ \E p \in Paths : ItemFails(p) \/ Event(p)

Spec == Init /\ [][Next]_vars

\* A started connect goes on, and the engine retries or the user's command is carried out.
LiveSpec == Spec /\ WF_vars(Steps) /\ WF_vars(Connect) /\ WF_vars(SaveDone)

-----------------------------------------------------------------------------
(* Properties *)

\* Settings, base and job keep their types, in memory and in data.json.
TypeOK ==
    /\ mem \in Settings /\ disk \in Settings
    /\ saving \in Settings \cup {NoSave}
    /\ {unsaved, again, timer, retrying} \subseteq BOOLEAN
    /\ api \in Vaults \cup {NoVault}
    /\ job \in [step : {"none", "resolve", "apply", "finish"}, mode : Modes \cup {"none", "plain"},
                todo : SUBSET Paths, old : Base]

\* A pass that trusts the base never sees an entry recorded against another vault, for the
\* three-way decision would take that vault's history for this one's (vaultKeyMismatch),
\* unless a failed download of this very vault put that entry back (switchDownload).
BaseBelongs ==
    job.mode = "plain" \/ (job = NoJob /\ ~retrying /\ api # NoVault) =>
        \A p \in Paths : Own(mem.base[p], api)

\* The resolution the user chose for a vault is carried out before anything else is done
\* with it, across failed connects, crashes and saves (pendingSwitch, switchAlreadyApplied).
ResolutionHonoured ==
    job.mode = "plain" /\ choice.vault = api => choice.done

\* What data.json holds is consistent after any crash: baseVaultKey never claims a base
\* that was recorded against another vault, but for what a failed download of the claimed
\* one put back.
KeyTellsTruth ==
    disk.key \in Vaults /\ disk.pending = "none" /\ disk.vault = disk.key =>
        \A p \in Paths : Own(disk.base[p], disk.key)

\* A switch is completed, whatever interrupts it: resolveAndApplySwitch takes it up again at
\* every connect until it is done.
SwitchCompletes ==
    mem.pending # "none" /\ mem.vault # NoVault ~> mem.pending = "none" \/ mem.vault = NoVault

=============================================================================
