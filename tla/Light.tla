------------------------------- MODULE Light -------------------------------
(***************************************************************************)
(* The status light (client/src/statuslight.ts, syncstate.ts and the claim *)
(* and paint code of main.ts): what the user is told about the engine, the *)
(* mounts and the edits that are not on the server yet.                    *)
(*                                                                         *)
(* The engine is reduced to the facts the light reads: its state, the link *)
(* and the running job.  Engine.tla models its recovery; here a job may    *)
(* start or fail at any time.  Of other devices only the refusal of an     *)
(* upload is left, one of the ways in which a file fails by itself and is  *)
(* settled all the same.                                                   *)
(***************************************************************************)
EXTENDS Naturals, FiniteSets

CONSTANTS
    Paths, NoPath,
    Classes,     \* what a failure makes of the link
    Troubles,    \* what is wrong with a mount that is not well
    MaxEdits,    \* bound: keystrokes and saves
    MaxFaults,   \* bound: failed jobs
    MaxLate      \* bound: hold timers that may be overdue at once (a suspended app)

ASSUME LightAssumption ==
    /\ IsFiniteSet(Paths)
    /\ NoPath \notin Paths
    /\ Classes \subseteq {"retrying", "lockedOut", "blocked"}
    /\ Troubles \subseteq {"offline", "error"}
    /\ {MaxEdits, MaxFaults, MaxLate} \subseteq Nat

VARIABLES
    state, link,   \* the engine's state, and what linkPhase says of a link that is down
    job,           \* the engine's job, with the paths a pass has yet to compare, or the path an
                   \* upload sends while the file has not changed again
    queue,         \* paths with a queued path event
    bulk,          \* syncPending > 0
    mount,         \* mountStatusSummary
    unsent,        \* paths whose file the server does not have yet
    claims,        \* unsyncedEdits; an "aged" claim is older than UNSYNCED_EDIT_MAX_MS
    late,          \* paths typed in or saved since the running job began
    overtaken,     \* paths saved while a job ran that settled their claim all the same
    isolated,      \* paths that failed by themselves in a job, not changed since
    prompt,        \* unsyncedPrompt
    light,         \* lightDisplay with heldSince, the hold's timers, lightTimer, and the mount
                   \* summary of the last paint
    edits, faults

facts == <<state, link, job, queue, bulk, mount>>
disk  == <<unsent, late, overtaken, isolated, edits>>
vars  == <<facts, disk, claims, prompt, light, faults>>

-----------------------------------------------------------------------------
(* The display machine *)

Attention == {"retrying", "lockedOut", "blocked"}
Phases    == Attention \cup {"off", "connecting", "idle", "syncing"}

Answer(l, shown, held, deferred, arm, disarm) ==
    [display |-> [l EXCEPT !.shown = shown, !.held = held, !.deferred = deferred],
     arm |-> arm, disarm |-> disarm]

\* Mutant: a failure waits for the hold like any other phase.
NextLightDisplayPolite(l, p) ==
    IF p = "syncing" THEN Answer(l, p, TRUE, "none", TRUE, l.held)
    ELSE IF l.held THEN Answer(l, l.shown, TRUE, p, FALSE, FALSE)
    ELSE Answer(l, p, FALSE, "none", FALSE, FALSE)

\* Mutant: more work cancels the timer of the hold and starts no other.
NextLightDisplayUnarmed(l, p) ==
    IF p = "syncing" THEN Answer(l, p, TRUE, "none", ~l.held, l.held)
    ELSE IF p \in Attention THEN Answer(l, p, FALSE, "none", FALSE, l.held)
    ELSE IF l.held THEN Answer(l, l.shown, TRUE, p, FALSE, FALSE)
    ELSE Answer(l, p, FALSE, "none", FALSE, FALSE)

\* nextLightDisplay, phase: work is shown and held, a failure overrides the hold, any
\* other phase waits for it.
NextLightDisplay(l, p) ==
    IF p = "syncing" THEN Answer(l, p, TRUE, "none", TRUE, l.held)
    ELSE IF p \in Attention THEN Answer(l, p, FALSE, "none", FALSE, l.held)
    ELSE IF l.held THEN Answer(l, l.shown, TRUE, p, FALSE, FALSE)
    ELSE Answer(l, p, FALSE, "none", FALSE, FALSE)

\* Mutant: the end of the hold forgets what waited for it.
SettleLightForgetful(l) == Answer(l, l.shown, FALSE, "none", FALSE, FALSE)

\* nextLightDisplay, settle: the hold is over and what waited is shown.
SettleLight(l) ==
    Answer(l, IF l.deferred = "none" THEN l.shown ELSE l.deferred, FALSE, "none", FALSE, FALSE)

\* applyLightAction.  clearTimeout reaches the timer lightTimer names and no other.
ApplyLightAction(l, a) ==
    LET left == l.timers - (IF a.disarm /\ l.handle THEN 1 ELSE 0)
    IN [a.display EXCEPT !.timers = left + (IF a.arm THEN 1 ELSE 0),
                         !.handle = a.arm \/ (@ /\ ~a.disarm),
                         !.due = @ /\ ~a.arm]

\* dispatchLight of a phase: a hold whose time is up ends first, its timer fired or not.
DispatchLight(l, p) ==
    LET l1 == IF l.held /\ l.due THEN ApplyLightAction(l, SettleLight(l)) ELSE l
    IN ApplyLightAction(l1, NextLightDisplay(l1, p))

-----------------------------------------------------------------------------
(* The projection *)

\* SyncEngine.phase with engineStateToPhase
Raw(s, l) ==
    CASE s = "disconnected" -> l
      [] s = "reconciling"  -> "syncing"
      [] OTHER              -> s

\* localWork: the upload of one path, from the first byte to its end.
Uploading(j) == j.kind = "path" /\ j.step = "send"

\* effectivePhase over pendingWork
EffectivePhase(s, l, b, j) ==
    LET p == Raw(s, l) IN IF p = "syncing" /\ ~b /\ ~Uploading(j) THEN "idle" ELSE p

\* unsyncedEditCount drops the claims that aged, but only a resting phase asks for it.
Pruned(p, c) ==
    IF p = "idle" THEN [q \in Paths |-> IF c[q] = "aged" THEN "none" ELSE c[q]] ELSE c

\* displayPhase, of claims just pruned
DisplayPhase(p, c) ==
    IF p = "idle" /\ \E q \in Paths : c[q] # "none" THEN "syncing" ELSE p

\* effectiveLightPhase: a mount in trouble outranks a resting and a syncing primary.
EffectiveLightPhase(p, m) ==
    CASE p \in {"idle", "off", "syncing"} /\ m = "error"   -> "blocked"
      [] p \in {"idle", "off", "syncing"} /\ m = "offline" -> "retrying"
      [] OTHER                                             -> p

\* What the facts say now, whether or not it has been painted, of the mount summary m.
Truth(m) ==
    LET p == EffectivePhase(state, link, bulk, job)
    IN EffectiveLightPhase(DisplayPhase(p, Pruned(p, claims)), m)

\* renderLight, of the facts as the step leaves them and the claims c.
RenderLight(c) ==
    LET p == EffectivePhase(state', link', bulk', job')
    IN /\ claims' = Pruned(p, c)
       /\ light' = [DispatchLight(light, EffectiveLightPhase(DisplayPhase(p, claims'), mount'))
                        EXCEPT !.mount = mount']

\* transition: onPhase paints when the state changes.
OnPhase(c) ==
    IF state' # state THEN RenderLight(c) ELSE claims' = c /\ UNCHANGED light

-----------------------------------------------------------------------------
(* Claims *)

\* Mutant: a save does not confirm the claim of the keystrokes before it.
NoteLocalChangeLoose(p, onDisk) ==
    LET c == [claims EXCEPT ![p] = IF @ \in {"disk", "none"} /\ onDisk THEN "disk"
                                   ELSE IF @ = "disk" THEN @ ELSE "buffer"]
    IN IF claims[p] = "none" THEN RenderLight(c) ELSE claims' = c /\ UNCHANGED light

\* noteLocalChange: a save confirms a claim for good; only a first claim is painted.
NoteLocalChange(p, onDisk) ==
    LET c == [claims EXCEPT ![p] = IF onDisk \/ @ = "disk" THEN "disk" ELSE "buffer"]
    IN IF claims[p] = "none" THEN RenderLight(c) ELSE claims' = c /\ UNCHANGED light

\* notePathSettled and settleUnsyncedBefore: the claims of S go, and the light is painted
\* if there were any.
Settle(S) ==
    LET c == [q \in Paths |-> IF q \in S THEN "none" ELSE claims[q]]
    IN /\ IF c # claims THEN RenderLight(c) ELSE UNCHANGED <<claims, light>>
       /\ overtaken' = overtaken \cup (S \cap late \cap unsent)

\* noteEditorEdit
Keystroke(p) ==
    /\ edits < MaxEdits
    /\ edits' = edits + 1
    /\ late' = late \cup {p}
    /\ prompt' = TRUE
    /\ UNCHANGED <<facts, unsent, overtaken, isolated, faults>>
    /\ NoteLocalChange(p, FALSE)

\* onModify and its like: a file changed on disk, and its event is queued.
Save(p) ==
    /\ edits < MaxEdits
    /\ edits' = edits + 1
    /\ unsent' = unsent \cup {p}
    /\ late' = late \cup {p}
    /\ overtaken' = overtaken \ {p}
    /\ isolated' = isolated \ {p}
    /\ queue' = queue \cup {p}
    /\ job' = IF job.kind = "path" THEN [job EXCEPT !.todo = @ \ {p}] ELSE job
    /\ UNCHANGED <<state, link, bulk, mount, prompt, faults>>
    /\ NoteLocalChange(p, TRUE)

\* UNSYNCED_EDIT_MAX_MS has passed since the last keystroke.
Age(p) ==
    /\ claims[p] = "buffer"
    /\ claims' = [claims EXCEPT ![p] = "aged"]
    /\ UNCHANGED <<facts, disk, prompt, light, faults>>

\* armUnsyncedPrompt's timer, which runs from the first keystroke and is not renewed.
PromptFires ==
    /\ prompt
    /\ prompt' = FALSE
    /\ UNCHANGED <<facts, disk, faults>>
    /\ RenderLight(claims)

-----------------------------------------------------------------------------
(* Jobs of the engine *)

NoJob     == [kind |-> "none", step |-> "none", path |-> NoPath, todo |-> {}]
Connected == state \in {"reconciling", "idle"}

\* handle, connect: a retry of a link that is down keeps showing it.
ConnectStart ==
    /\ job = NoJob
    /\ job' = [NoJob EXCEPT !.kind = "connect", !.step = "list"]
    /\ state' = IF link \in {"retrying", "lockedOut"} THEN "disconnected" ELSE "connecting"
    /\ late' = {}
    /\ UNCHANGED <<link, queue, bulk, mount, unsent, overtaken, isolated, edits, prompt, faults>>
    /\ OnPhase(claims)

\* reconcileAllBody by a poll: kind is "full" when a full scan is due, else "delta".
PassStart(kind) ==
    /\ job = NoJob
    /\ Connected
    /\ job' = [NoJob EXCEPT !.kind = kind, !.step = "list"]
    /\ late' = {}
    /\ UNCHANGED <<state, link, queue, bulk, mount, unsent, overtaken, isolated, edits, prompt, faults>>
    /\ UNCHANGED <<claims, light>>

\* onProgress with the count of the listing: what the server changed and files without a
\* base, not the known notes edited here.  The count a failed pass left behind may equal
\* the new one; then nothing is painted.
Listed ==
    /\ job.step = "list"
    /\ \E b \in BOOLEAN, news \in BOOLEAN :
        /\ IF b = bulk THEN news => b ELSE news
        /\ job' = [job EXCEPT !.step = "pass", !.todo = IF job.kind = "delta" THEN {} ELSE unsent]
        /\ bulk' = b
        /\ state' = IF (news /\ b) \/ job.kind = "delta" THEN "reconciling" ELSE state
        /\ UNCHANGED <<link, queue, mount, disk, prompt, faults>>
        /\ IF news THEN RenderLight(claims) ELSE OnPhase(claims)

\* The pass reads and sends one file.
Compare(p) ==
    /\ job.step = "pass"
    /\ p \in job.todo
    /\ job' = [job EXCEPT !.todo = @ \ {p}]
    /\ unsent' = unsent \ {p}
    /\ overtaken' = overtaken \ {p}
    /\ isolated' = isolated \ {p}
    /\ UNCHANGED <<state, link, queue, bulk, mount, late, edits, claims, prompt, light, faults>>

\* isolatedPass: the file cannot be read, is held back or refused; the pass goes on.
CompareFails(p) ==
    /\ job.step = "pass"
    /\ p \in job.todo
    /\ faults < MaxFaults
    /\ faults' = faults + 1
    /\ job' = [job EXCEPT !.todo = @ \ {p}]
    /\ isolated' = isolated \cup {p}
    /\ UNCHANGED <<state, link, queue, bulk, mount, unsent, late, overtaken, edits, claims, prompt, light>>

\* onProgress(0); edited notes may be left to send.
BulkDone ==
    /\ job.step = "pass"
    /\ bulk
    /\ bulk' = FALSE
    /\ UNCHANGED <<state, link, job, queue, mount, disk, prompt, faults>>
    /\ RenderLight(claims)

PassOver(kind) == job.kind = kind /\ job.step = "pass" /\ job.todo = {} /\ ~bulk

\* finishConnect settles every claim, those made during the pass included.
FinishConnect ==
    /\ PassOver("connect")
    /\ job' = [job EXCEPT !.step = "done"]
    /\ UNCHANGED <<state, link, queue, bulk, mount, unsent, late, isolated, edits, prompt, faults>>
    /\ Settle(Paths)

\* handle, connect: the link is up.
ConnectDone ==
    /\ job.kind = "connect"
    /\ job.step = "done"
    /\ job' = NoJob
    /\ link' = "ok"
    /\ state' = IF queue # {} THEN "reconciling" ELSE "idle"
    /\ UNCHANGED <<queue, bulk, mount, disk, prompt, faults>>
    /\ OnPhase(claims)

\* A full scan settles the claims made before it began.
FullDone ==
    /\ PassOver("full")
    /\ job' = NoJob
    /\ UNCHANGED <<state, link, queue, bulk, mount, unsent, late, isolated, edits, prompt, faults>>
    /\ Settle(Paths \ late)

DeltaDone ==
    /\ PassOver("delta")
    /\ job' = NoJob
    /\ UNCHANGED <<state, link, queue, bulk, mount, disk, claims, prompt, light, faults>>

\* handle, path: dropped while the link is down.
TakePath(p) ==
    /\ job = NoJob
    /\ p \in queue
    /\ queue' = queue \ {p}
    /\ job' = IF Connected THEN [NoJob EXCEPT !.kind = "path", !.step = "look", !.path = p] ELSE job
    /\ state' = IF Connected THEN "reconciling" ELSE state
    /\ late' = {}
    /\ UNCHANGED <<link, bulk, mount, unsent, overtaken, isolated, edits, prompt, faults>>
    /\ OnPhase(claims)

\* notePathWork(true): the file was read and differs, its upload begins.
PathSend ==
    /\ job.kind = "path"
    /\ job.step = "look"
    /\ job.path \in unsent
    /\ job' = [job EXCEPT !.step = "send", !.todo = {job.path}]
    /\ UNCHANGED <<state, link, queue, bulk, mount, disk, prompt, faults>>
    /\ RenderLight(claims)

\* notePathWork(false)
PathSent ==
    /\ Uploading(job)
    /\ job' = [job EXCEPT !.step = "sent"]
    /\ unsent' = unsent \ job.todo
    /\ overtaken' = overtaken \ job.todo
    /\ isolated' = isolated \ job.todo
    /\ UNCHANGED <<state, link, queue, bulk, mount, late, edits, prompt, faults>>
    /\ RenderLight(claims)

\* A CAS conflict is isolated: the work ends as if the file had been sent.
PathConflict ==
    /\ Uploading(job)
    /\ faults < MaxFaults
    /\ faults' = faults + 1
    /\ job' = [job EXCEPT !.step = "sent", !.todo = {}]
    /\ isolated' = isolated \cup job.todo
    /\ UNCHANGED <<state, link, queue, bulk, mount, unsent, late, overtaken, edits, prompt>>
    /\ RenderLight(claims)

\* The file has no base and cannot be read, or its push is held back: nothing to do.
PathPassedOver ==
    /\ job.kind = "path"
    /\ job.step = "look"
    /\ job.path \in unsent
    /\ faults < MaxFaults
    /\ faults' = faults + 1
    /\ job' = [job EXCEPT !.step = "sent"]
    /\ isolated' = isolated \cup {job.path}
    /\ UNCHANGED <<state, link, queue, bulk, mount, unsent, late, overtaken, edits, claims, prompt, light>>

\* onPathSettled, after an upload that was not failed, or with nothing to send.
PathSettled ==
    /\ job.kind = "path"
    /\ job.step = "sent" \/ (job.step = "look" /\ job.path \notin unsent)
    /\ job' = NoJob
    /\ UNCHANGED <<state, link, queue, bulk, mount, unsent, late, isolated, edits, prompt, faults>>
    /\ Settle({job.path})

\* pump: the queue is empty.
Drained ==
    /\ job = NoJob
    /\ queue = {}
    /\ state = "reconciling"
    /\ state' = "idle"
    /\ UNCHANGED <<link, job, queue, bulk, mount, disk, prompt, faults>>
    /\ OnPhase(claims)

\* notePathWork(false, failed) paints nothing; the error is on its way to failWith.
PathFailed ==
    /\ Uploading(job)
    /\ faults < MaxFaults
    /\ faults' = faults + 1
    /\ job' = [job EXCEPT !.step = "failing"]
    /\ UNCHANGED <<state, link, queue, bulk, mount, disk, claims, prompt, light>>

\* failWith: the queued paths are dropped, the pending count stays as it is.
FailWith(class) ==
    /\ job # NoJob
    /\ job.step \notin {"send", "sent"}
    /\ IF job.step = "failing" THEN UNCHANGED faults ELSE faults < MaxFaults /\ faults' = faults + 1
    /\ link' = class
    /\ state' = "disconnected"
    /\ queue' = {}
    /\ job' = NoJob
    /\ UNCHANGED <<bulk, mount, disk, prompt>>
    /\ OnPhase(claims)

\* handle, disconnect, with doTeardown
Disconnect ==
    /\ job = NoJob
    /\ state # "off"
    /\ state' = "off"
    /\ link' = "ok"
    /\ queue' = {}
    /\ mount' = "ok"
    /\ UNCHANGED <<job, bulk, disk, prompt, faults>>
    /\ OnPhase(claims)

\* A mount's onEvent, folded to the worst of the mounts by aggregateStatus.
MountEvent(m) ==
    /\ m # mount
    /\ mount' = m
    /\ UNCHANGED <<state, link, job, queue, bulk, disk, prompt, faults>>
    /\ RenderLight(claims)

\* removeMount, reinstateMount, updateMountDirection, followMountPointRename and a rotated token
\* drop scopes, the backoff's end resets a failed one: the summary gets better, unpainted.
ScopeDropped(m) ==
    /\ m # mount
    /\ mount # "ok" /\ (m = "ok" \/ mount = "error")
    /\ mount' = m
    /\ UNCHANGED <<state, link, job, queue, bulk, disk, claims, prompt, light, faults>>

-----------------------------------------------------------------------------
(* The hold *)

\* SYNCING_MIN_SHOW_MS has passed since heldSince.
TimeUp ==
    /\ light.held
    /\ ~light.due
    /\ light.timers <= MaxLate
    /\ light' = [light EXCEPT !.due = TRUE]
    /\ UNCHANGED <<facts, disk, claims, prompt, faults>>

\* A hold timer fires, which also clears lightTimer.  Only the newest waits for due.
TimerFires ==
    /\ light.timers > (IF light.due THEN 0 ELSE 1)
    /\ LET l == [light EXCEPT !.timers = @ - 1, !.handle = FALSE]
       IN light' = ApplyLightAction(l, SettleLight(l))
    /\ UNCHANGED <<facts, disk, claims, prompt, faults>>

\* onResume ends a hold; the pass it asks for may start at any time.
OnResume ==
    /\ light.held
    /\ LET l == [light EXCEPT !.timers = @ - (IF light.handle THEN 1 ELSE 0), !.handle = FALSE]
       IN light' = ApplyLightAction(l, SettleLight(l))
    /\ UNCHANGED <<facts, disk, claims, prompt, faults>>

\* applyTransport, setConnectStage, applyEditorStatus, staleClaimPrompt, setPendingBulk and a
\* mount's event that changes nothing paint again.
Repaint ==
    /\ UNCHANGED <<facts, disk, prompt, faults>>
    /\ RenderLight(claims)

-----------------------------------------------------------------------------
Init ==
    /\ state = "off"
    /\ link = "ok"
    /\ job = NoJob
    /\ queue = {}
    /\ bulk = FALSE
    /\ mount = "ok"
    /\ unsent \in SUBSET Paths       \* edits made while the app was closed
    /\ claims = [p \in Paths |-> "none"]
    /\ late = {}
    /\ overtaken = {}
    /\ isolated = {}
    /\ prompt = FALSE
    /\ light = [shown |-> "off", held |-> FALSE, deferred |-> "none",
                due |-> FALSE, timers |-> 0, handle |-> FALSE, mount |-> "ok"]
    /\ edits = 0
    /\ faults = 0

\* What the running job does next.
JobStep ==
    \/ Listed \/ BulkDone \/ FinishConnect \/ ConnectDone \/ FullDone \/ DeltaDone
    \/ PathSend \/ PathSent \/ PathSettled
    \/ \E p \in Paths : Compare(p)

Next ==
    \/ JobStep
    \/ ConnectStart \/ PassStart("full") \/ PassStart("delta") \/ Drained
    \/ PathFailed \/ Disconnect \/ PromptFires \/ TimeUp \/ TimerFires \/ OnResume \/ Repaint
    \/ \E p \in Paths : Keystroke(p) \/ Save(p) \/ Age(p) \/ TakePath(p)
    \/ \E c \in Classes : FailWith(c)
    \/ PathConflict \/ PathPassedOver \/ \E p \in Paths : CompareFails(p)
    \/ \E m \in Troubles \cup {"ok"} : MountEvent(m) \/ ScopeDropped(m)

Spec == Init /\ [][Next]_vars

\* A job goes on or fails, a timer fires in the end, and FULL_SCAN_INTERVAL_MS makes some
\* poll of a link that stays up a full scan.
Fairness ==
    /\ WF_vars(JobStep \/ \E c \in Classes : FailWith(c))
    /\ WF_vars(TimeUp)
    /\ WF_vars(TimerFires)
    /\ SF_vars(PassStart("full"))

LiveSpec == Spec /\ Fairness

-----------------------------------------------------------------------------
(* Properties *)

\* The variables of main.ts and of the display machine keep their types.
TypeOK ==
    /\ state \in {"off", "connecting", "reconciling", "idle", "disconnected"}
    /\ link \in Classes \cup {"ok"}
    /\ state = "disconnected" => link # "ok"
    /\ job.step \in {"none", "list", "pass", "done", "look", "send", "sent", "failing"}
    /\ queue \cup unsent \cup late \cup overtaken \cup isolated \subseteq Paths
    /\ claims \in [Paths -> {"none", "buffer", "aged", "disk"}]
    /\ light.shown \in Phases
    /\ light.timers \in 0 .. MaxLate + 1
    /\ light.handle => light.timers > 0

\* A failure is never queued behind the hold of statuslight.ts, nor missed because nothing
\* painted: the light warns while the link is down or a mount is in trouble.  And it warns of
\* nothing else, but for a mount's trouble that went, with its scope, after the last paint.
WarnsAtOnce ==
    /\ Truth(mount) \in Attention => light.shown \in Attention
    /\ light.shown \in Attention => Truth(light.mount) \in Attention

\* unsyncedEdits: "Fully synced" is never painted over a file the server does not have.
\* Apart are files saved again under a job that settled their claim, files that failed by
\* themselves in a job that went on, and the edits made while the app was closed, which
\* nothing claims, until the pass at hand has sent them.
GreenIsTrue ==
    light.shown = "idle" => /\ unsent \subseteq overtaken \cup isolated \cup job.todo
                            /\ \A p \in unsent : claims[p] = "none"

\* applyLightAction: a held light always has a timer left that will release it, whatever
\* timers suspended apps leaked before.
HoldEnds == light.held => light.timers > 0

\* A light that should rest comes to rest: no "Syncing..." latches over a synced vault.  (A
\* warning does, of a mount whose scope was dropped, until something paints.)
Settles == <>[](Truth(mount) = "idle" /\ light.mount = mount) => <>[](light.shown = "idle")
=============================================================================
