---------------------------- MODULE SwitchProofs ----------------------------
(***************************************************************************)
(* Proofs about Switch, for any number of vaults, paths, switches and      *)
(* faults, and a user who makes none of UserMoves.  A connect trusts the   *)
(* base when the key or the lack of one says so: Sound is what makes that  *)
(* right, of the settings in memory, of those on their way to data.json    *)
(* and of those in it, because a crash may bring any of them back.         *)
(***************************************************************************)
EXTENDS Switch, TLAPS

\* Every entry of a base was recorded against v, or put back by a failed download of v.
Of(base, v) == \A p \in Paths : Own(base[p], v)

Jobs == [step : {"none", "resolve", "apply", "finish"}, mode : Modes \cup {"none", "plain"},
         todo : SUBSET Paths, old : Base]

\* What resolveAndApplySwitch will take for the base of the configured vault is one.
Sound(m) ==
    /\ m.key \in Vaults /\ m.key = m.vault => Of(m.base, m.vault)
    /\ m.key = NoKey /\ m.pending = "none" /\ m.vault # NoVault => Of(m.base, m.vault)

Snapshots ==
    /\ Sound(mem) /\ Sound(disk)
    /\ saving # NoSave => Sound(saving)

\* A connect talks to the configured vault, unless the user has disconnected meanwhile; once it
\* has resolved what is pending, the base is that vault's.
JobInv ==
    /\ job # NoJob => mem.vault \in {api, NoVault} /\ api # NoVault /\ job.step # "none"
    /\ job.step \in {"apply", "finish"} => Of(mem.base, api)
    /\ job.step = "resolve" => job.mode # "plain"
    /\ job.step = "resolve" /\ mem.vault = NoVault =>
           mem.key # NoVault /\ (mem.key = NoKey /\ mem.pending = "none" => Of(mem.base, api))

\* Between connects the key names the vault that events are recorded against.
RestInv == job = NoJob /\ ~retrying /\ api # NoVault => mem.key = api /\ Of(mem.base, api)

IInv == TypeOK /\ Snapshots /\ JobInv /\ RestInv

-----------------------------------------------------------------------------
(* Persistence *)

SavingInv ==
    /\ saving \in Settings \cup {NoSave} /\ (saving # NoSave => Sound(saving))
    /\ {unsaved, again} \subseteq BOOLEAN

\* persist takes a snapshot of sound settings, or leaves the one in flight alone.
LEMMA PersistSound ==
    ASSUME SavingInv, NEW m \in Settings, Sound(m), NEW dirty \in BOOLEAN, Persist(m, dirty)
    PROVE  SavingInv'
  <1>1. CASE ~dirty
    BY <1>1 DEF Persist, SavingInv
  <1>2. CASE dirty /\ saving # NoSave
    BY <1>2 DEF Persist, SavingInv
  <1>3. CASE dirty /\ saving = NoSave
    <2>1. saving' = m /\ unsaved' = FALSE /\ again' = again
      BY <1>3 DEF Persist
    <2>2. QED
      BY <2>1 DEF SavingInv
  <1>4. QED
    BY <1>1, <1>2, <1>3

\* The end of a save takes the next snapshot if one was asked for.
LEMMA SavedSound ==
    ASSUME SavingInv, mem \in Settings, Sound(mem), Saved
    PROVE  SavingInv' /\ saving \in Settings /\ Sound(saving)
  <1>1. saving \in Settings /\ Sound(saving)
    BY DEF Saved, SavingInv
  <1>2. CASE again
    <2>1. saving' = mem /\ unsaved' = FALSE /\ again' = FALSE
      BY <1>2 DEF Saved
    <2>2. QED
      BY <1>1, <2>1 DEF SavingInv
  <1>3. CASE ~again
    <2>1. saving' = NoSave /\ unsaved' = unsaved /\ again' = FALSE
      BY <1>3 DEF Saved
    <2>2. QED
      BY <1>1, <2>1 DEF SavingInv
  <1>4. QED
    BY <1>2, <1>3

\* The invariant, taken apart the way the steps disturb it.
LEMMA IInvParts ==
    IInv <=> /\ mem \in Settings /\ Sound(mem) /\ disk \in Settings /\ Sound(disk)
             /\ SavingInv
             /\ {timer, retrying} \subseteq BOOLEAN /\ api \in Vaults \cup {NoVault}
             /\ job \in Jobs
             /\ JobInv /\ RestInv
  BY DEF IInv, TypeOK, Snapshots, SavingInv, Jobs

\* The same of the next state.
LEMMA IInvNext ==
    ASSUME mem' \in Settings, Sound(mem'), disk' \in Settings, Sound(disk'), SavingInv',
           {timer', retrying'} \subseteq BOOLEAN, api' \in Vaults \cup {NoVault},
           job' \in Jobs,
           JobInv', RestInv'
    PROVE  IInv'
  BY DEF IInv, TypeOK, Snapshots, SavingInv, Jobs

LEMMA NoBaseType == NoBase \in Base /\ NoEntry \in Entries /\ \A v : Of(NoBase, v)
  BY DEF NoBase, Base, NoEntry, Entry, Entries, Of, Own

LEMMA NoJobType == NoJob \in Jobs /\ NoJob.step = "none"
  BY NoBaseType DEF NoJob, Jobs

-----------------------------------------------------------------------------
(* The actions *)

\* Snapshots are handed to the disk.
LEMMA SaveKeeps ==
    ASSUME IInv, SaveDone \/ SaveFails
    PROVE  IInv'
  <1> USE IInvParts
  <1>1. Saved /\ (disk' = disk \/ disk' = saving)
    BY DEF SaveDone, SaveFails
  <1>2. SavingInv' /\ saving \in Settings /\ Sound(saving)
    BY <1>1, SavedSound
  <1>3. UNCHANGED <<mem, timer, api, retrying, job>>
    BY <1>1 DEF Saved
  <1>4. disk' \in Settings /\ Sound(disk')
    BY <1>1, <1>2
  <1>5. JobInv' /\ RestInv'
    BY <1>3 DEF JobInv, RestInv
  <1>6. QED
    BY <1>2, <1>3, <1>4, <1>5, IInvNext

\* A delayed save begins.
LEMMA TimerKeeps ==
    ASSUME IInv, TimerFires
    PROVE  IInv'
  <1> USE IInvParts
  <1>1. UNCHANGED <<mem, disk, api, retrying, job>> /\ timer' = FALSE /\ Persist(mem, unsaved)
    BY DEF TimerFires
  <1>2. SavingInv'
    <2>1. unsaved \in BOOLEAN
      BY DEF SavingInv
    <2>2. QED
      BY <1>1, <2>1, PersistSound
  <1>3. JobInv' /\ RestInv'
    BY <1>1 DEF JobInv, RestInv
  <1>4. QED
    BY <1>1, <1>2, <1>3, IInvNext

\* A crash brings data.json back; there is no connection then that would use its base.
LEMMA CrashKeeps ==
    ASSUME IInv, Crash
    PROVE  IInv'
  <1> USE IInvParts
  <1>1. /\ mem' = disk /\ disk' = disk /\ unsaved' = FALSE /\ saving' = NoSave /\ again' = FALSE /\ timer' = FALSE
        /\ api' = NoVault /\ retrying' = FALSE /\ job' = NoJob
    BY DEF Crash
  <1>2. SavingInv'
    BY <1>1 DEF SavingInv
  <1>3. JobInv' /\ RestInv'
    BY <1>1 DEF JobInv, RestInv, NoJob
  <1>4. QED
    <2>1. NoJob \in Jobs
      BY NoJobType
    <2> QED
      BY <1>1, <1>2, <1>3, <2>1, IInvNext

\* What the user does to the settings while nothing runs: another vault, with a base that is not
\* taken for its own.
LEMMA UserKeeps ==
    ASSUME IInv, NEW m \in Settings, Sound(m), Save(m), m.key = mem.key, m.base = mem.base, job = NoJob,
           UNCHANGED <<disk, job>>, (api' = NoVault /\ retrying' = FALSE) \/ UNCHANGED <<api, retrying>>
    PROVE  IInv'
  <1> USE IInvParts
  <1>1. mem' = m /\ Persist(m, TRUE) /\ timer' = timer
    BY DEF Save
  <1>2. SavingInv'
    BY <1>1, PersistSound
  <1>3. JobInv' /\ RestInv'
    BY <1>1 DEF JobInv, RestInv, NoJob
  <1>4. QED
    BY <1>1, <1>2, <1>3, IInvNext

\* switchToVault: the key still names the vault left behind.
LEMMA SwitchToVaultKeeps ==
    ASSUME UserMoves = {}, IInv, NEW v \in Vaults, NEW mode \in Modes, SwitchToVault(v, mode)
    PROVE  IInv'
  <1> USE IInvParts
  <1> DEFINE m == [mem EXCEPT !.vault = v, !.pending = mode]
  <1>1. /\ m \in Settings /\ m.vault = v /\ m.pending = mode /\ m.key = mem.key /\ m.base = mem.base
    BY DEF Settings
  <1>2. job = NoJob /\ mem.key # v /\ Save(m) /\ UNCHANGED <<disk, api, retrying, job>>
    BY DEF SwitchToVault, MayAct
  <1>3. mode # "none"
    BY DEF Modes
  <1> HIDE DEF m
  <1>4. Sound(m)
    BY <1>1, <1>2, <1>3 DEF Sound
  <1>5. QED
    BY <1>1, <1>2, <1>4, UserKeeps

\* The wizard: a base without a key, or with the key of this vault, is this vault's.
LEMMA SetupKeeps ==
    ASSUME UserMoves = {}, IInv, NEW v \in Vaults, Setup(v)
    PROVE  IInv'
  <1> USE IInvParts
  <1> DEFINE m == [mem EXCEPT !.vault = v]
  <1>1. /\ m \in Settings /\ m.vault = v /\ m.key = mem.key /\ m.base = mem.base
    BY DEF Settings
  <1>2. job = NoJob /\ Save(m) /\ UNCHANGED <<disk, api, retrying, job>>
    BY DEF Setup, MayAct
  <1>3. mem.key \in {v, NoKey} => Of(mem.base, v)
    BY DEF Setup, Of
  <1> HIDE DEF m
  <1>4. Sound(m)
    BY <1>1, <1>3 DEF Sound
  <1>5. QED
    BY <1>1, <1>2, <1>4, UserKeeps

\* disconnect: no vault is configured, nothing is claimed of the base but by a connect that runs.
LEMMA DisconnectKeeps ==
    ASSUME UserMoves = {}, IInv, Disconnect
    PROVE  IInv'
  <1> USE IInvParts
  <1> DEFINE m == [mem EXCEPT !.vault = NoVault]
  <1>1. /\ m \in Settings /\ m.vault = NoVault /\ m.key = mem.key /\ m.base = mem.base /\ m.pending = mem.pending
    BY DEF Settings
  <1>2. Save(m) /\ UNCHANGED <<disk, job>> /\ mem.vault # NoVault /\ ~(job.step = "resolve" /\ mem.key = NoVault)
    BY DEF Disconnect
  <1>3. (api' = NoVault /\ retrying' = FALSE /\ job = NoJob) \/ (UNCHANGED <<api, retrying>> /\ job # NoJob)
    BY DEF Disconnect
  <1> HIDE DEF m
  <1>4. Sound(m)
    BY <1>1, SwitchAssumption DEF Sound
  <1>5. mem' = m /\ Persist(m, TRUE) /\ timer' = timer
    BY <1>2 DEF Save
  <1>6. SavingInv'
    BY <1>1, <1>4, <1>5, PersistSound
  <1>7. JobInv' /\ RestInv'
    <2>1. CASE job = NoJob
      BY <1>2, <1>3, <2>1, NoJobType DEF JobInv, RestInv
    <2>2. CASE job # NoJob
      <3>1. mem.vault = api /\ api' = api /\ job' = job
        BY <1>2, <1>3, <2>2 DEF JobInv
      <3> QED
        BY <1>1, <1>2, <1>5, <2>2, <3>1 DEF JobInv, RestInv, Sound
    <2> QED
      BY <2>1, <2>2
  <1> QED
    BY <1>1, <1>2, <1>3, <1>4, <1>5, <1>6, <1>7, IInvNext

\* A connect begins, or is lost.
LEMMA ConnectKeeps ==
    ASSUME IInv, Connect \/ Abort
    PROVE  IInv'
  <1> USE IInvParts
  <1>1. UNCHANGED <<mem, disk, unsaved, saving, again, timer>>
    BY DEF Connect, Abort, store
  <1>2. SavingInv'
    BY <1>1 DEF SavingInv
  <1>3. CASE Connect
    <2>1. /\ job' = [NoJob EXCEPT !.step = "resolve"] /\ api' = mem.vault /\ mem.vault # NoVault
          /\ retrying' = retrying
      BY <1>3 DEF Connect
    <2>2. job' \in Jobs /\ job'.step = "resolve" /\ job'.mode = "none"
      BY <2>1, NoBaseType DEF NoJob, Jobs
    <2>3. api' \in Vaults \cup {NoVault}
      BY <2>1 DEF Settings
    <2>4. JobInv' /\ RestInv'
      BY <1>1, <2>1, <2>2, NoJobType DEF JobInv, RestInv
    <2> QED
      BY <1>1, <1>2, <2>1, <2>2, <2>3, <2>4, IInvNext
  <1>4. CASE Abort
    <2>1. job' = NoJob /\ retrying' = (mem.vault # NoVault) /\ (api' = NoVault \/ (api' = api /\ mem.vault # NoVault))
      BY <1>4 DEF Abort, EndJob
    <2>2. JobInv' /\ RestInv'
      BY <2>1, NoJobType DEF JobInv, RestInv
    <2> QED
      BY <1>1, <1>2, <2>1, <2>2, NoJobType, IInvNext
  <1>5. QED
    BY <1>3, <1>4

\* resolveAndApplySwitch trusts the base only where Sound allows it, and drops it otherwise.
LEMMA ResolveKeeps ==
    ASSUME IInv, Resolve
    PROVE  IInv'
  <1> USE IInvParts
  <1> DEFINE forced  == IF mem.pending = "none" /\ Mismatch THEN "merge" ELSE mem.pending
             pending == IF AlreadyApplied(forced) THEN "none" ELSE forced
             settled == [mem EXCEPT !.pending = pending]
             dropped == [settled EXCEPT !.base = NoBase]
             mode    == IF pending = "none" THEN "plain" ELSE pending
             old     == IF pending = "download" THEN mem.base ELSE NoBase
  <1>1. mem.vault \in Vaults \cup {NoVault} /\ mem.pending \in Modes \cup {"none"} /\ mem.base \in Base
        /\ mem.key \in Vaults \cup {NoVault, NoKey}
    BY DEF Settings
  <1>2. job.step = "resolve" /\ job # NoJob /\ mem.vault \in {api, NoVault} /\ api # NoVault /\ api \in Vaults
    BY NoJobType DEF Resolve, JobInv
  <1>3. /\ job' = [step |-> "apply", mode |-> mode, todo |-> Paths, old |-> old]
        /\ IF AlreadyApplied(forced) THEN Save(settled)
           ELSE /\ mem' = IF pending = "none" THEN settled ELSE dropped
                /\ timer' = (timer \/ ~(pending = "none"))
                /\ unsaved' = (unsaved \/ ~(pending = "none"))
                /\ UNCHANGED <<saving, again>>
        /\ UNCHANGED <<disk, api, retrying>>
    BY DEF Resolve
  <1>4. pending \in Modes \cup {"none"}
    BY <1>1 DEF Modes
  <1>5. mode \in Modes \cup {"plain"}
    BY <1>4
  <1>6. pending = "none" => Of(mem.base, api)
    <2>1. CASE AlreadyApplied(forced)
      <3>1. mem.key = mem.vault
        BY <2>1 DEF AlreadyApplied
      <3>2. mem.vault = api
        BY <1>2, <3>1 DEF JobInv
      <3> QED
        BY <1>2, <3>1, <3>2 DEF Sound
    <2>2. CASE ~AlreadyApplied(forced)
      <3> SUFFICES ASSUME pending = "none" PROVE Of(mem.base, api)
        OBVIOUS
      <3>1. mem.pending = "none" /\ ~Mismatch
        BY <2>2
      <3>2. CASE mem.base = NoBase
        BY <3>2, NoBaseType
      <3>3. CASE mem.key = NoKey
        BY <1>2, <3>1, <3>3 DEF Sound, JobInv
      <3>4. CASE mem.key = mem.vault
        <4>1. mem.vault = api
          BY <1>2, <3>4 DEF JobInv
        <4> QED
          BY <1>2, <3>4, <4>1 DEF Sound
      <3>5. QED
        BY <3>1, <3>2, <3>3, <3>4 DEF Mismatch
    <2>3. QED
      BY <2>1, <2>2
  <1>7. NoBase \in Base /\ Of(NoBase, api) /\ Of(NoBase, mem.vault)
    BY NoBaseType
  <1>8. AlreadyApplied(forced) => pending = "none"
    OBVIOUS
  <1> HIDE DEF forced, pending, mode
  <1>9. /\ settled \in Settings /\ settled.vault = mem.vault /\ settled.base = mem.base
        /\ dropped \in Settings /\ dropped.vault = mem.vault /\ dropped.base = NoBase
        /\ old \in Base
    BY <1>1, <1>4, <1>7 DEF Settings
  <1> HIDE DEF settled, dropped, old
  <1>10. Sound(dropped) /\ (pending = "none" => Sound(settled))
    BY <1>2, <1>6, <1>7, <1>9, SwitchAssumption DEF Sound
  <1>11. mem' \in Settings /\ Sound(mem') /\ mem'.vault = mem.vault /\ Of(mem'.base, api)
    BY <1>3, <1>6, <1>7, <1>8, <1>9, <1>10 DEF Save
  <1>12. SavingInv' /\ timer' \in BOOLEAN
    <2>1. CASE AlreadyApplied(forced)
      <3>1. Persist(settled, TRUE) /\ timer' = timer
        BY <1>3, <2>1 DEF Save
      <3>2. QED
        BY <1>8, <1>9, <1>10, <2>1, <3>1, PersistSound
    <2>2. CASE ~AlreadyApplied(forced)
      BY <1>3, <2>2 DEF SavingInv
    <2>3. QED
      BY <2>1, <2>2
  <1>13. job'.step = "apply" /\ job' # NoJob /\ api' = api /\ job' \in Jobs
    BY <1>3, <1>5, <1>9, NoJobType DEF Jobs
  <1>14. JobInv' /\ RestInv'
    BY <1>2, <1>11, <1>13 DEF JobInv, RestInv
  <1>15. QED
    BY <1>3, <1>11, <1>12, <1>13, <1>14, IInvNext

\* An entry that is the connection's own keeps the settings sound.
LEMMA RecordSound ==
    ASSUME mem \in Settings, Sound(mem), NEW p \in Paths, NEW e \in Entries, Own(e, api), Record(p, e),
           api \in Vaults \cup {NoVault}, Of(mem.base, api),
           mem.vault \in {api, NoVault} \/ (api # NoVault /\ mem.key = api)
    PROVE  /\ mem' \in Settings /\ Sound(mem') /\ Of(mem'.base, api)
           /\ mem'.vault = mem.vault /\ mem'.key = mem.key
  <1> DEFINE b == [mem.base EXCEPT ![p] = e]
  <1>1. mem.base \in Base
    BY DEF Settings
  <1>2. b \in Base
    BY <1>1 DEF Base
  <1>3. Of(b, api)
    BY <1>1 DEF Of, Base
  <1>4. mem' = [mem EXCEPT !.base = b]
    BY DEF Record
  <1> HIDE DEF b
  <1>5. /\ mem' \in Settings /\ mem'.base = b /\ mem'.vault = mem.vault /\ mem'.key = mem.key
        /\ mem'.pending = mem.pending
    BY <1>2, <1>4 DEF Settings
  <1>6. Sound(mem')
    BY <1>3, <1>5, SwitchAssumption DEF Sound
  <1>7. QED
    BY <1>3, <1>5, <1>6

\* An entry recorded against the vault of the connection is its own, and so is none.
LEMMA EntryOwn ==
    ASSUME NEW v \in Vaults \cup {NoVault}
    PROVE  Entry(v) \in Entries /\ NoEntry \in Entries /\ Own(Entry(v), v) /\ Own(NoEntry, v)
  BY DEF Entry, NoEntry, Entries, Own

\* One path of a connect: it is recorded, or fails.
LEMMA ItemKeeps ==
    ASSUME IInv, NEW p \in Paths, Item(p) \/ ItemFails(p)
    PROVE  IInv'
  <1> USE IInvParts
  <1>1. job.step = "apply" /\ job # NoJob /\ mem.vault \in {api, NoVault} /\ api # NoVault /\ Of(mem.base, api)
    BY NoJobType DEF Item, ItemFails, JobInv
  <1>2. job' = [job EXCEPT !.todo = @ \ {p}] /\ UNCHANGED <<disk, api, retrying>>
    BY DEF Item, ItemFails
  <1>3. (\E e \in Entries : Own(e, api) /\ Record(p, e)) \/ UNCHANGED <<mem, unsaved, saving, again, timer>>
    <2>1. CASE Item(p)
      <3>1. PICK e \in {Entry(api), NoEntry, mem.base[p]} : Record(p, e)
        BY <2>1 DEF Item
      <3>2. mem.base[p] \in Entries /\ Own(mem.base[p], api)
        BY <1>1 DEF Settings, Base, Of
      <3>3. e \in Entries /\ Own(e, api)
        BY <3>2, EntryOwn
      <3> QED
        BY <3>1, <3>3
    <2>2. CASE ItemFails(p)
      <3>1. PICK e : e = [job.old[p] EXCEPT !.into = api]
        OBVIOUS
      <3>2. job.old[p] \in Entries
        BY DEF Jobs, Base
      <3>3. e \in Entries /\ Own(e, api)
        BY <3>1, <3>2 DEF Entries, Own
      <3>4. Record(p, e) \/ UNCHANGED <<mem, unsaved, saving, again, timer>>
        BY <2>2, <3>1, Zenon DEF ItemFails, store
      <3> QED
        BY <3>3, <3>4
    <2> QED
      BY <2>1, <2>2
  <1>4. mem' \in Settings /\ Sound(mem') /\ Of(mem'.base, api) /\ mem'.vault = mem.vault
    BY <1>1, <1>3, RecordSound
  <1>5. SavingInv' /\ timer' \in BOOLEAN
    BY <1>3 DEF Record, SavingInv
  <1>6. job'.step = "apply" /\ job' # NoJob /\ job' \in Jobs
    BY <1>1, <1>2, NoJobType DEF Jobs
  <1>7. JobInv' /\ RestInv'
    BY <1>1, <1>2, <1>4, <1>6 DEF JobInv, RestInv
  <1>8. QED
    BY <1>2, <1>4, <1>5, <1>6, <1>7, IInvNext

\* switchTo returned: what is pending is done, and the base is the configured vault's.
LEMMA AppliedKeeps ==
    ASSUME IInv, Applied
    PROVE  IInv'
  <1> USE IInvParts
  <1> DEFINE m == [mem EXCEPT !.pending = "none"]
  <1>1. job.step = "apply" /\ job # NoJob /\ mem.vault \in {api, NoVault} /\ api # NoVault /\ Of(mem.base, api)
    BY NoJobType DEF Applied, JobInv
  <1>2. /\ m \in Settings /\ m.vault = mem.vault /\ m.key = mem.key /\ m.base = mem.base
    BY DEF Settings
  <1>3. job' = [job EXCEPT !.step = "finish"] /\ UNCHANGED <<disk, api, retrying>>
    BY DEF Applied
  <1>4. UNCHANGED <<mem, unsaved, saving, again, timer>> \/ Save(m)
    BY DEF Applied, store
  <1> HIDE DEF m
  <1>5. Sound(m)
    BY <1>1, <1>2, SwitchAssumption DEF Sound
  <1>6. mem' \in Settings /\ Sound(mem') /\ mem'.vault = mem.vault /\ mem'.base = mem.base
    BY <1>2, <1>4, <1>5 DEF Save
  <1>7. SavingInv' /\ timer' \in BOOLEAN
    <2>1. CASE Save(m)
      BY <1>2, <1>5, <2>1, PersistSound DEF Save
    <2>2. CASE UNCHANGED <<mem, unsaved, saving, again, timer>>
      BY <2>2 DEF SavingInv
    <2>3. QED
      BY <1>4, <2>1, <2>2
  <1>8. job'.step = "finish" /\ job' # NoJob
        /\ job' \in Jobs
    BY <1>1, <1>3, NoJobType DEF Jobs
  <1>9. JobInv' /\ RestInv'
    BY <1>1, <1>3, <1>6, <1>8 DEF JobInv, RestInv
  <1>10. QED
    BY <1>3, <1>6, <1>7, <1>8, <1>9, IInvNext

\* finishConnect declares the base the configured vault's, which it is, or no vault's.
LEMMA FinishKeeps ==
    ASSUME IInv, Finish
    PROVE  IInv'
  <1> USE IInvParts
  <1>1. job.step = "finish" /\ job # NoJob /\ mem.vault \in {api, NoVault} /\ api # NoVault /\ Of(mem.base, api)
    BY NoJobType DEF Finish, JobInv
  <1>2. /\ mem' = [mem EXCEPT !.key = mem.vault] /\ unsaved' = TRUE /\ timer' = TRUE /\ job' = NoJob
        /\ retrying' = FALSE /\ UNCHANGED <<disk, saving, again>>
        /\ api' = IF mem.vault = NoVault THEN NoVault ELSE api
    BY DEF Finish, EndJob
  <1>3. mem' \in Settings /\ mem'.vault = mem.vault /\ mem'.key = mem.vault /\ mem'.base = mem.base
    BY <1>2 DEF Settings
  <1>4. Sound(mem')
    BY <1>1, <1>3, SwitchAssumption DEF Sound
  <1>5. SavingInv'
    BY <1>2 DEF SavingInv
  <1>6. JobInv' /\ RestInv'
    BY <1>1, <1>2, <1>3, NoJobType DEF JobInv, RestInv
  <1>7. QED
    BY <1>2, <1>3, <1>4, <1>5, <1>6, NoJobType, IInvNext

\* Between connects: the key names the vault the event is recorded against.
LEMMA EventKeeps ==
    ASSUME IInv, NEW p \in Paths, Event(p)
    PROVE  IInv'
  <1> USE IInvParts
  <1>1. job = NoJob /\ ~retrying /\ api # NoVault /\ mem.key = api /\ Of(mem.base, api)
    BY DEF Event, RestInv
  <1>2. PICK e \in Entries : Own(e, api) /\ Record(p, e)
    BY EntryOwn DEF Event
  <1>3. UNCHANGED <<disk, api, retrying, job>>
    BY DEF Event
  <1>4. mem' \in Settings /\ Sound(mem') /\ Of(mem'.base, api) /\ mem'.key = mem.key
    BY <1>1, <1>2, RecordSound
  <1>5. SavingInv' /\ timer' \in BOOLEAN
    BY <1>2 DEF Record, SavingInv
  <1>6. JobInv' /\ RestInv'
    BY <1>1, <1>3, <1>4, NoJobType DEF JobInv, RestInv
  <1>7. QED
    BY <1>3, <1>4, <1>5, <1>6, IInvNext

-----------------------------------------------------------------------------
(* The theorems *)

\* The plugin starts in the invariant.
LEMMA InitInv == Init => IInv
  <1> SUFFICES ASSUME Init PROVE IInv
    OBVIOUS
  <1>1. Fresh \in Settings /\ Fresh.key = NoKey /\ Fresh.vault = NoVault
    BY NoBaseType DEF Fresh, Settings
  <1>2. Sound(Fresh)
    BY <1>1, SwitchAssumption DEF Sound
  <1>3. SavingInv
    BY DEF Init, SavingInv
  <1>4. JobInv /\ RestInv
    BY NoJobType DEF Init, JobInv, RestInv
  <1>5. QED
    BY <1>1, <1>2, <1>3, <1>4, IInvParts, NoJobType DEF Init

\* Every step of a user without UserMoves keeps the invariant.
LEMMA StepInv == ASSUME UserMoves = {} PROVE IInv /\ [Next]_vars => IInv'
  <1> SUFFICES ASSUME IInv, [Next]_vars PROVE IInv'
    OBVIOUS
  <1>1. ASSUME UNCHANGED vars PROVE IInv'
    BY <1>1 DEF vars, store, IInv, TypeOK, Snapshots, JobInv, RestInv
  <1>2. ASSUME Next PROVE IInv'
    BY <1>2, SaveKeeps, TimerKeeps, CrashKeeps, SwitchToVaultKeeps, SetupKeeps, DisconnectKeeps, ConnectKeeps,
       ResolveKeeps, ItemKeeps, AppliedKeeps, FinishKeeps, EventKeeps DEF Next, Steps
  <1>3. QED
    BY <1>1, <1>2

\* The inductive invariant holds in every state the plugin reaches.
THEOREM Invariant == ASSUME UserMoves = {} PROVE Spec => []IInv
  <1>1. IInv /\ [Next]_vars => IInv'
    BY StepInv
  <1>2. QED
    BY <1>1, InitInv, PTL DEF Spec

\* Settings, base and job keep their types, in memory and in data.json (main.ts loadSettings).
THEOREM TypeCorrect == ASSUME UserMoves = {} PROVE Spec => []TypeOK
  <1>1. IInv => TypeOK
    BY DEF IInv
  <1>2. Spec => []IInv
    BY Invariant
  <1>3. QED
    BY <1>1, <1>2, PTL

\* No plain pass, event or poll meets a base entry of another vault, but for one that a failed
\* download of this vault put back, after any number of switches, disconnects, failed items,
\* lost connections, failed saves and crashes (vaultKeyMismatch, switchDownload).
THEOREM BaseBelongsHolds == ASSUME UserMoves = {} PROVE Spec => []BaseBelongs
  <1>1. IInv => BaseBelongs
    <2> SUFFICES ASSUME IInv PROVE BaseBelongs
      OBVIOUS
    <2>1. CASE job.mode = "plain"
      <3>1. job # NoJob
        BY <2>1 DEF NoJob
      <3>2. job.step \in {"apply", "finish"}
        BY <2>1, <3>1 DEF IInv, TypeOK, JobInv
      <3>3. QED
        BY <3>2 DEF IInv, JobInv, Of, BaseBelongs
    <2>2. CASE job = NoJob /\ ~retrying /\ api # NoVault
      BY <2>2 DEF IInv, RestInv, Of, BaseBelongs
    <2>3. QED
      BY <2>1, <2>2 DEF BaseBelongs
  <1>2. Spec => []IInv
    BY Invariant
  <1>3. QED
    BY <1>1, <1>2, PTL

\* Whatever a crash finds in data.json, baseVaultKey claims no foreign entry but those a failed
\* download of the claimed vault put back (main.ts persist).
THEOREM KeyTellsTruthHolds == ASSUME UserMoves = {} PROVE Spec => []KeyTellsTruth
  <1>1. IInv => KeyTellsTruth
    BY DEF IInv, Snapshots, Sound, Of, KeyTellsTruth
  <1>2. Spec => []IInv
    BY Invariant
  <1>3. QED
    BY <1>1, <1>2, PTL

-----------------------------------------------------------------------------
(* The user's resolution *)

\* The settings m still ask for what the user chose, unless it was done: the key is not the
\* vault's, so switchAlreadyApplied does not take it for done.
Asks(m) == choice.done \/ (m.vault = choice.vault /\ m.pending = choice.mode /\ m.key # m.vault)

Choices == [vault : Vaults \cup {NoVault}, mode : Modes \cup {"none"}, taken : BOOLEAN, saved : BOOLEAN, done : BOOLEAN]

\* So do the settings in memory, a snapshot taken since, and data.json once it has had one; a
\* connect that has resolved what is pending does what was chosen.
ChoiceInv ==
    /\ choice \in Choices
    /\ (choice.done \/ (choice.mode # "none" /\ choice.vault # NoVault)) /\ (choice.saved => choice.taken)
    /\ Asks(mem) /\ (choice.saved => Asks(disk)) /\ (saving # NoSave /\ choice.taken => Asks(saving))
    /\ (job.step = "apply" => choice.done \/ job.mode = choice.mode)
    /\ (job.step = "finish" => choice.done)

\* Steps that leave the choice alone, or find it done.
LEMMA ChoiceStays ==
    ASSUME ChoiceInv, choice' = choice, disk' = disk, Asks(mem'), saving' = saving \/ saving' = NoSave \/ Asks(saving'),
           choice.done \/ job'.step \notin {"apply", "finish"} \/ (job'.step = "apply" /\ job'.mode = choice.mode)
    PROVE  ChoiceInv'
  BY DEF ChoiceInv, Asks

LEMMA NoChoiceKeeps == ASSUME choice' = NoChoice PROVE ChoiceInv'
  <1>1. /\ choice'.done = TRUE /\ choice'.saved = FALSE
        /\ choice' \in Choices
    BY DEF NoChoice, Choices
  <1> QED
    BY <1>1 DEF ChoiceInv, Asks

LEMMA ChoiceSaved == ASSUME IInv, ChoiceInv, SaveDone \/ SaveFails PROVE ChoiceInv'
  <1>1. saving # NoSave /\ (saving' = NoSave \/ saving' = mem) /\ UNCHANGED <<mem, job>>
    BY DEF SaveDone, SaveFails, Saved
  <1>2. PICK c : c = choice
    OBVIOUS
  <1>3. PICK saved \in BOOLEAN : /\ choice' = [c EXCEPT !.saved = saved, !.taken = TRUE]
                                 /\ \/ disk' = saving /\ saved = (c.saved \/ c.taken)
                                    \/ disk' = disk /\ saved = c.saved
    <2>1. c.saved \in BOOLEAN /\ c.taken \in BOOLEAN /\ c \in Choices
      BY <1>2 DEF ChoiceInv, Choices
    <2>2. CASE SaveDone
      <3>1. PICK saved \in BOOLEAN : saved = (c.saved \/ c.taken)
        OBVIOUS
      <3>2. choice' = [c EXCEPT !.saved = saved, !.taken = TRUE] /\ disk' = saving
        BY <1>2, <2>2, <3>1, Zenon DEF SaveDone
      <3> QED
        BY <3>1, <3>2, Zenon
    <2>3. CASE SaveFails
      <3>1. choice' = [c EXCEPT !.saved = c.saved, !.taken = TRUE] /\ disk' = disk
        <4>1. choice' = [c EXCEPT !.taken = TRUE] /\ disk' = disk
          BY <1>2, <2>3, Zenon DEF SaveFails
        <4> QED
          BY <2>1, <4>1 DEF Choices
      <3> QED
        BY <2>1, <3>1, Zenon
    <2> QED
      BY <2>2, <2>3
  <1>4. /\ choice' \in Choices
        /\ choice'.done = choice.done /\ choice'.vault = choice.vault /\ choice'.mode = choice.mode
        /\ choice'.saved = saved /\ choice'.taken = TRUE
    BY <1>2, <1>3 DEF ChoiceInv, Choices
  <1> QED
    BY <1>1, <1>2, <1>3, <1>4 DEF ChoiceInv, Asks

LEMMA ChoiceCrash == ASSUME IInv, ChoiceInv, Crash PROVE ChoiceInv'
  <1>1. /\ mem' = disk /\ disk' = disk /\ saving' = NoSave /\ job' = NoJob
    BY DEF Crash
  <1>2. CASE choice.saved
    <2>1. Asks(disk)
      BY <1>2 DEF ChoiceInv
    <2>2. Asks(mem')
      BY <1>1, <2>1
    <2>3. choice' = choice /\ job'.step = "none"
      BY <1>1, <1>2 DEF NoJob, Crash
    <2> QED
      BY <1>1, <2>2, <2>3, ChoiceStays
  <1>3. CASE ~choice.saved
    BY <1>3, NoChoiceKeeps DEF Crash
  <1> QED
    BY <1>2, <1>3

LEMMA ChoiceMade ==
    ASSUME UserMoves = {}, IInv, ChoiceInv, NEW v \in Vaults, NEW mode \in Modes, SwitchToVault(v, mode)
    PROVE  ChoiceInv'
  <1>1. job' = NoJob /\ disk' = disk /\ mem.key # v /\ mem \in Settings
    BY DEF SwitchToVault, MayAct, IInv, TypeOK
  <1>2. PICK m : m = [mem EXCEPT !.vault = v, !.pending = mode]
    OBVIOUS
  <1>3. m.vault = v /\ m.pending = mode /\ m.key = mem.key
    BY <1>1, <1>2 DEF Settings
  <1>4. PICK taken \in BOOLEAN : taken = (saving = NoSave)
    BY Zenon
  <1>5. /\ choice' = [vault |-> v, mode |-> mode, taken |-> taken, saved |-> FALSE, done |-> FALSE]
        /\ mem' = m /\ Persist(m, TRUE)
    BY <1>2, <1>4, Zenon DEF SwitchToVault, Save
  <1>6. saving' # NoSave /\ taken => saving' = m
    BY <1>4, <1>5 DEF Persist
  <1>7. mode # "none"
    BY DEF Modes
  <1>8. /\ choice' \in Choices
        /\ choice'.vault = v /\ choice'.mode = mode /\ choice'.taken = taken /\ choice'.saved = FALSE /\ choice'.done = FALSE
    BY <1>5 DEF Choices
  <1>9. job'.step = "none"
    BY <1>1 DEF NoJob
  <1>10. v # NoVault
    BY SwitchAssumption
  <1> QED
    BY <1>1, <1>3, <1>5, <1>6, <1>7, <1>8, <1>9, <1>10 DEF ChoiceInv, Asks

\* Saves that begin, connects that begin or end before they have resolved anything, and what is
\* recorded of a path, do not touch what was chosen.
LEMMA ChoiceAside ==
    ASSUME IInv, ChoiceInv,
           \/ UNCHANGED vars
           \/ TimerFires \/ Connect \/ Abort
           \/ \E p \in Paths : Item(p) \/ ItemFails(p) \/ Event(p)
    PROVE  ChoiceInv'
  <1>1. choice' = choice /\ disk' = disk
    BY DEF vars, TimerFires, Connect, Abort, Item, ItemFails, Event
  <1>2. mem'.vault = mem.vault /\ mem'.pending = mem.pending /\ mem'.key = mem.key
    <2>1. CASE mem' = mem
      BY <2>1
    <2>2. ASSUME NEW p \in Paths, NEW v, Record(p, v) PROVE mem'.vault = mem.vault /\ mem'.pending = mem.pending /\ mem'.key = mem.key
      <3>1. PICK b : b = [mem.base EXCEPT ![p] = v]
        OBVIOUS
      <3>2. mem' = [mem EXCEPT !.base = b]
        BY <2>2, <3>1, Zenon DEF Record
      <3>3. mem \in Settings
        BY DEF IInv, TypeOK
      <3> QED
        BY <3>2, <3>3 DEF Settings
    <2>3. mem' = mem \/ \E p \in Paths : \E v : Record(p, v)
      BY Zenon DEF vars, TimerFires, Connect, Abort, Item, ItemFails, Event
    <2> QED
      BY <2>1, <2>2, <2>3
  <1>3. Asks(mem')
    BY <1>2 DEF ChoiceInv, Asks
  <1>4. saving' = saving \/ saving' = mem
    BY DEF vars, store, TimerFires, Persist, Connect, Abort, Item, ItemFails, Event, Record
  <1>5. saving' = saving \/ Asks(saving')
    BY <1>4 DEF ChoiceInv, Asks
  <1>6. choice.done \/ job'.step \notin {"apply", "finish"} \/ (job'.step = "apply" /\ job'.mode = choice.mode)
    <2>1. CASE job' = job
      BY <2>1 DEF ChoiceInv
    <2>2. CASE Connect \/ Abort
      <3>1. job' = [NoJob EXCEPT !.step = "resolve"] \/ job' = NoJob
        BY <2>2 DEF Connect, Abort, EndJob
      <3>2. job'.step \in {"none", "resolve"}
        BY <3>1, NoJobType DEF Jobs
      <3> QED
        BY <3>2
    <2>3. ASSUME NEW p \in Paths, Item(p) \/ ItemFails(p) PROVE job'.step = job.step /\ job'.mode = job.mode
      <3>1. PICK todo : todo = job.todo \ {p}
        OBVIOUS
      <3>2. job' = [job EXCEPT !.todo = todo]
        BY <2>3, <3>1, Zenon DEF Item, ItemFails
      <3>3. job \in Jobs
        BY DEF IInv, TypeOK, Jobs
      <3> QED
        BY <3>2, <3>3 DEF Jobs
    <2>4. job' = job \/ Connect \/ Abort \/ \E p \in Paths : Item(p) \/ ItemFails(p)
      BY DEF vars, TimerFires, Event
    <2> QED
      BY <2>1, <2>2, <2>3, <2>4 DEF ChoiceInv
  <1> QED
    BY <1>1, <1>3, <1>5, <1>6, ChoiceStays

\* resolveAndApplySwitch takes up what was chosen.
LEMMA ChoiceResolved == ASSUME IInv, ChoiceInv, Resolve PROVE ChoiceInv'
  <1> DEFINE forced  == IF mem.pending = "none" /\ Mismatch THEN "merge" ELSE mem.pending
             pending == IF AlreadyApplied(forced) THEN "none" ELSE forced
             settled == [mem EXCEPT !.pending = pending]
             dropped == [settled EXCEPT !.base = NoBase]
             mode    == IF pending = "none" THEN "plain" ELSE pending
  <1>1. /\ job' = [step |-> "apply", mode |-> mode, todo |-> Paths,
                   old |-> IF pending = "download" THEN mem.base ELSE NoBase]
        /\ IF AlreadyApplied(forced) THEN Save(settled)
           ELSE /\ mem' = IF pending = "none" THEN settled ELSE dropped
                /\ UNCHANGED <<saving, again>>
        /\ choice' = choice /\ disk' = disk
    BY DEF Resolve
  <1>2. CASE choice.done
    <2>1. choice'.done
      BY <1>1, <1>2
    <2> QED
      BY <1>1, <1>2, <2>1, ChoiceStays DEF Asks
  <1>3. CASE ~choice.done
    <2>1. mem.vault = choice.vault /\ mem.pending = choice.mode /\ mem.key # mem.vault /\ choice.mode # "none"
      BY <1>3 DEF ChoiceInv, Asks
    <2>2. forced = choice.mode /\ ~AlreadyApplied(forced)
      BY <2>1 DEF AlreadyApplied
    <2>3. pending = choice.mode /\ mode = choice.mode
      BY <2>1, <2>2
    <2> HIDE DEF forced, pending, mode
    <2>4. settled.vault = mem.vault /\ settled.pending = pending /\ settled.key = mem.key /\ settled \in [vault : {mem.vault}, pending : {pending}, key : {mem.key}, base : {mem.base}]
      BY DEF IInv, TypeOK, Settings
    <2>5. dropped.vault = mem.vault /\ dropped.pending = pending /\ dropped.key = mem.key
      BY <2>4
    <2>6. mem' = dropped /\ saving' = saving
      BY <1>1, <2>1, <2>2, <2>3
    <2> HIDE DEF settled, dropped
    <2>7. Asks(mem')
      BY <2>1, <2>3, <2>5, <2>6 DEF Asks
    <2>8. job'.step = "apply" /\ job'.mode = choice.mode
      BY <1>1, <2>3
    <2> QED
      BY <1>1, <2>6, <2>7, <2>8, ChoiceStays
  <1> QED
    BY <1>2, <1>3

\* switchTo returned: if a resolution was open, it is done.
LEMMA ChoiceApplied == ASSUME IInv, ChoiceInv, Applied PROVE ChoiceInv'
  <1>1. PICK c : c = choice
    OBVIOUS
  <1>2. /\ c \in Choices
        /\ job.step = "apply" /\ (c.done \/ job.mode = c.mode) /\ (c.done \/ c.mode # "none") /\ (c.saved => c.taken)
    BY <1>1 DEF ChoiceInv, Applied
  <1>3. c.done \/ c.vault = api
    <2>1. mem.vault \in {api, NoVault}
      BY <1>2, NoJobType DEF IInv, JobInv
    <2> QED
      BY <1>1, <2>1 DEF ChoiceInv, Asks
  <1>4. PICK done \in BOOLEAN : done = (c.done \/ (c.vault = api /\ c.mode = job.mode))
    BY <1>2 DEF Choices
  <1>5. choice' = c \/ choice' = [c EXCEPT !.done = done]
    BY <1>1, <1>4, Zenon DEF Applied
  <1>6. job.mode = "plain" \/ choice' = [c EXCEPT !.done = done]
    BY <1>1, <1>4, Zenon DEF Applied
  <1>7. job.mode = "plain" => c.done
    BY <1>2 DEF Choices, Modes
  <1>8. choice'.done = TRUE /\ choice' \in Choices
        /\ choice'.saved = c.saved /\ choice'.taken = c.taken
    BY <1>2, <1>3, <1>4, <1>5, <1>6, <1>7 DEF Choices
  <1> QED
    BY <1>2, <1>8 DEF ChoiceInv, Asks

LEMMA ChoiceFinished == ASSUME IInv, ChoiceInv, Finish PROVE ChoiceInv'
  <1>1. choice.done /\ choice' = choice
    BY DEF Finish, ChoiceInv
  <1> QED
    BY <1>1 DEF ChoiceInv, Asks

\* The resolution the user chose for a vault is carried out before anything else is done with it,
\* across failed connects, crashes and saves that end late (main.ts pendingSwitch,
\* connectdecisions.ts switchAlreadyApplied).
THEOREM ResolutionHonouredHolds == ASSUME UserMoves = {} PROVE Spec => []ResolutionHonoured
  <1>1. Init => ChoiceInv
    <2> SUFFICES ASSUME Init PROVE ChoiceInv
      OBVIOUS
    <2>1. /\ choice \in Choices
          /\ choice.done = TRUE /\ choice.saved = FALSE
      BY DEF Init, NoChoice, Choices
    <2> QED
      BY <2>1 DEF ChoiceInv, Asks
  <1>2. IInv /\ ChoiceInv /\ [Next]_vars => ChoiceInv'
    <2> SUFFICES ASSUME IInv, ChoiceInv, [Next]_vars PROVE ChoiceInv'
      OBVIOUS
    <2>1. ASSUME Disconnect \/ \E v \in Vaults : Setup(v) PROVE ChoiceInv'
      BY <2>1, NoChoiceKeeps DEF Disconnect, Setup
    <2> QED
      BY <2>1, ChoiceSaved, ChoiceCrash, ChoiceMade, ChoiceAside, ChoiceResolved, ChoiceApplied, ChoiceFinished, Zenon DEF Next, Steps
  <1>3. IInv /\ ChoiceInv => ResolutionHonoured
    <2> SUFFICES ASSUME IInv, ChoiceInv, job.mode = "plain" PROVE choice.done
      BY DEF ResolutionHonoured
    <2>1. job # NoJob
      BY DEF NoJob
    <2>2. job.step \in {"apply", "finish"}
      BY <2>1 DEF IInv, TypeOK, JobInv
    <2>3. choice.mode # "plain"
      BY DEF ChoiceInv, Choices, Modes
    <2> QED
      BY <2>2, <2>3 DEF ChoiceInv
  <1>4. Spec => []IInv
    BY Invariant
  <1> QED
    BY <1>1, <1>2, <1>3, <1>4, PTL DEF Spec
=============================================================================
