------------------------------ MODULE Engine ------------------------------
(***************************************************************************)
(* The client's sync engine (client/src/syncengine.ts) with the effects    *)
(* main.ts gives it: the link, socket and status machines, the recovery,   *)
(* poll and redial timers, the session token, and the way of a local edit  *)
(* from the disk through the queue to the server.                          *)
(*                                                                         *)
(* Events wait in one queue and are handled one at a time.  An event is    *)
(* handled as soon as nothing else runs, before any other callback, so     *)
(* every other action waits for Pump (Resting).  A job is split at its     *)
(* network calls; each of these may fail.                                  *)
(***************************************************************************)
EXTENDS Naturals, Sequences, FiniteSets, SequencesExt

CONSTANTS
    Paths, NoPath,
    Errors,       \* the answers, other than the one hoped for, that a call may get
    FaultKinds,   \* the other faults of this instance
    MaxFaults,    \* bound: how many errors and faults
    MaxEdits,     \* bound: how many edits the user makes
    Commands,     \* what the user may do
    MaxCommands   \* bound: how often

ASSUME EngineAssumption ==
    /\ IsFiniteSet(Paths)
    /\ NoPath \notin Paths
    /\ {MaxFaults, MaxEdits, MaxCommands} \subseteq Nat

VARIABLES
    state, link, queue, job,       \* the engine
    timer, poll, redial,           \* main.ts: reconnectTimer, pollTimer, the delayed redial
    transport, ws,                 \* the machine of the socket, and the socket
    token, api, password,          \* settings.authToken, this.api's token, settings.password
    scanDue,                       \* FULL_SCAN_INTERVAL_MS has passed since the last full scan
    rejected,                      \* rejectedPushes, of the content now on disk
    missed,                        \* pushes that failed on their own; the next full scan retries
    claims,                        \* unsyncedEdits
    dirty, told,                   \* edits not on the server; paths whose file event is to come
    news,                          \* paths that changed at the server since this device looked
    faults, edits, commands

engine  == <<state, link, queue, job>>
timers  == <<timer, poll, redial>>
socket  == <<transport, ws>>
session == <<token, api, password>>
wires   == <<timers, socket>>
device  == <<dirty, told, edits>>
work    == <<scanDue, rejected, missed, claims, device, news>>
bounds  == <<faults, commands>>
vars    == <<engine, wires, session, work, bounds>>

-----------------------------------------------------------------------------
(* The machines *)

\* engineMachine; unloading is terminal, and no rule leaves the state as it is.
Machine(s, e) ==
    IF s = "unloading" THEN s ELSE
    CASE e = "unload"         -> "unloading"
      [] e = "disconnect"     -> "off"
      [] e = "connectStart"   -> IF link \in {"retrying", "lockedOut"} THEN "disconnected" ELSE "connecting"
      [] e = "connected"      -> IF queue # <<>> THEN "reconciling" ELSE "idle"
      [] e = "failed"         -> "disconnected"
      [] e = "work"           -> IF s \in {"idle", "connecting", "disconnected"} THEN "reconciling" ELSE s
      [] e = "drained"        -> IF s = "reconciling" THEN "idle" ELSE s

\* isConnected
Connected == state \in {"reconciling", "idle"}

Event(k)  == [kind |-> k, path |-> NoPath]
Edited(p) == [kind |-> "path", path |-> p]
NoJob     == [kind |-> "none", step |-> "none", path |-> NoPath, full |-> FALSE, todo |-> {},
              old |-> {}, relogin |-> FALSE]

\* classifyConnectError: the failure class of an answer; plain errors carry no status.
Class(err, endpoint) ==
    CASE err \in {"versionMismatch", "sessionExpired"} -> "blocked"
      [] err \in {"degraded", "503", "odd"}            -> "degraded"
      [] err = "429"                                   -> "lockedOut"
      [] err = "404"                                   -> IF endpoint = "status" THEN "blocked" ELSE "transient"
      [] err \in {"401", "403", "mfa", "mustChange"}   -> "blocked"
      [] OTHER                                         -> "transient"

\* linkMachine with recoveryFor: what awaits the user blocks the link, the rest is retried.
Link(class) ==
    CASE class = "blocked"   -> "blocked"
      [] class = "lockedOut" -> "lockedOut"
      [] OTHER               -> "retrying"

\* transportRules: the next state, the poll, and what the event asks for.
Opened == {"live", "degraded"}
Transport(s, e) ==
    CASE e = "dial"      -> [state |-> "dialing", asks |-> "nothing"]
      [] e = "opened"    -> [state |-> "live", asks |-> "nothing"]
      [] e = "errored"   -> [state |-> IF s \in Opened THEN "degraded" ELSE "dialing", asks |-> "nothing"]
      [] e = "closed"    -> [state |-> "offline", asks |-> IF s \in Opened THEN "redial" ELSE "connect"]
      [] e = "staleTick" -> [state |-> "degraded", asks |-> "rews"]

-----------------------------------------------------------------------------
(* The queue *)

\* enqueue: a pending event of the same kind (and path) makes a second one needless.
Enqueue(q, ev) ==
    IF state = "unloading" \/ (ev.kind # "task" /\ ev \in Range(q)) THEN q ELSE Append(q, ev)

\* queue.filter: the events of these kinds, in their order.
Only(q, kinds) ==
    LET keep == {i \in DOMAIN q : q[i].kind \in kinds} IN
    [j \in 1 .. Cardinality(keep) |-> q[CHOOSE i \in keep : Cardinality({k \in keep : k <= i}) = j]]

\* nothing waits to be handled
Resting == queue = <<>> \/ job # NoJob

Spend == faults < MaxFaults /\ faults' = faults + 1

\* The handled event is done; pump falls idle once the queue is empty.
Done(s, q) ==
    /\ job' = NoJob
    /\ queue' = q
    /\ state' = IF q = <<>> THEN Machine(s, "drained") ELSE s

\* Mutant: a link that waits for the user arms no timer.
FailWithoutTimer(class) ==
    LET kept == Only(queue, {"disconnect", "task"}) IN
    /\ link' = Link(class)
    /\ Done(Machine(state, "failed"), kept)
    /\ timer' = (timer \/ (state # "unloading" /\ class # "blocked"))
    /\ poll' = (poll /\ timer)
    /\ UNCHANGED redial

\* Mutant: a failure drops the queued tasks as well.
FailWithoutTasks(class) ==
    LET kept == Only(queue, {"disconnect"}) IN
    /\ link' = Link(class)
    /\ Done(Machine(state, "failed"), kept)
    /\ timer' = (timer \/ state # "unloading")
    /\ poll' = (poll /\ timer)
    /\ UNCHANGED redial

\* failWith, then scheduleRecovery: only commands and tasks stay queued, one timer is armed.
FailWith(class) ==
    LET kept == Only(queue, {"disconnect", "task"}) IN
    /\ link' = Link(class)
    /\ Done(Machine(state, "failed"), kept)
    /\ timer' = (timer \/ state # "unloading")
    /\ poll' = (poll /\ timer)
    /\ UNCHANGED redial

\* doTeardown
Teardown ==
    /\ timer' = FALSE
    /\ poll' = FALSE
    /\ redial' = FALSE
    /\ ws' = "none"
    /\ transport' = "offline"

\* Mutant: a socket is dialled although the plugin unloads.
SpinUpWsAlways(available) ==
    /\ ws' = IF available THEN "dialing" ELSE "none"
    /\ transport' = IF available THEN "dialing" ELSE transport
    /\ redial' = FALSE

\* spinUpWs: a new socket replaces the old one, whose late events and redial are ignored.
SpinUpWs(available) ==
    IF state = "unloading" THEN UNCHANGED <<socket, redial>>
    ELSE /\ ws' = IF available THEN "dialing" ELSE "none"
         /\ transport' = IF available THEN "dialing" ELSE transport
         /\ redial' = FALSE

\* pump takes the next event; handle starts its effect or ignores it.
Pump ==
    /\ queue # <<>> /\ job = NoJob /\ state # "unloading"
    /\ LET ev == Head(queue)
           start == [NoJob EXCEPT !.kind = ev.kind, !.path = ev.path, !.old = claims] IN
       \/ /\ ev.kind = "disconnect"
          /\ link' = "ok"
          /\ Done("off", Only(Tail(queue), {"task"}))
          /\ Teardown
          /\ UNCHANGED <<session, faults>>
       \/ /\ ev.kind = "connect"
          /\ state' = Machine(state, "connectStart")
          /\ queue' = Tail(queue)
          /\ job' = [start EXCEPT !.step = IF token = "none" THEN "login" ELSE "status"]
          /\ api' = IF token = "none" THEN api ELSE token
          /\ timer' = FALSE /\ redial' = FALSE
          /\ ws' = "none" /\ transport' = "offline"
          /\ UNCHANGED <<link, poll, token, password, faults>>
       \/ /\ ev.kind \in {"remote", "path"} /\ Connected
          /\ state' = IF ev.kind = "path" THEN Machine(state, "work") ELSE state
          /\ queue' = Tail(queue)
          /\ job' = [start EXCEPT !.step = IF ev.kind = "path" THEN "meta" ELSE "changes"]
          /\ UNCHANGED <<link, wires, session, faults>>
       \/ /\ ev.kind = "task"
          /\ queue' = Tail(queue)
          /\ job' = [start EXCEPT !.step = "run"]
          /\ UNCHANGED <<state, link, wires, session, faults>>
       \/ /\ ev.kind = "rews" /\ Connected
          /\ Done(state, Tail(queue))
          /\ SpinUpWs(TRUE)
          /\ poll' = TRUE
          /\ UNCHANGED <<link, timer, session, faults>>
       \/ /\ ev.kind = "rews" /\ Connected
          /\ "noSocket" \in FaultKinds /\ Spend
          /\ Done(state, Enqueue(Tail(queue), Event("connect")))
          /\ SpinUpWs(FALSE)
          /\ UNCHANGED <<link, timer, poll, session>>
       \/ /\ ev.kind \in {"remote", "path", "rews"} /\ ~Connected
          /\ Done(state, Tail(queue))
          /\ UNCHANGED <<link, wires, session, faults>>
    /\ UNCHANGED <<work, commands>>

-----------------------------------------------------------------------------
(* The session *)

\* The first call of a job after a login.
FirstStep == CASE job.kind = "connect" -> "status"
               [] job.kind = "remote"  -> "changes"
               [] job.kind = "path"    -> "meta"

\* freshLogin: a password that is not stored serves once.
Login ==
    /\ job.step = "login"
    /\ password # "none"
    /\ token' = "good" /\ api' = "good"
    /\ password' = IF password = "once" THEN "none" ELSE password
    /\ job' = [job EXCEPT !.step = FirstStep]
    /\ UNCHANGED <<state, link, queue, wires, work, bounds>>

\* One silent login after a 401: establishSession with any password, withSyncRelogin
\* only with a stored one.
MayRelogin == ~job.relogin /\ (job.kind = "connect" \/ password = "stored")

\* The call a job is at meets a token the server no longer takes.  fileMeta's error
\* carries the body and not the status, so it counts as any other failure.
Rejected401 ==
    /\ job.step \in {"status", "changes", "meta"}
    /\ api = "expired"
    /\ IF job.step # "meta" /\ MayRelogin /\ ~(job.kind = "connect" /\ job.step = "changes")
       THEN /\ token' = "none"
            /\ job' = [job EXCEPT !.step = "login", !.relogin = TRUE]
            /\ UNCHANGED <<state, link, queue, timers, api, password>>
       ELSE /\ FailWith(IF job.step = "meta" THEN "transient" ELSE Class("401", job.step))
            /\ UNCHANGED session
    /\ UNCHANGED <<socket, work, bounds>>

\* No password to log in with.
NoPassword ==
    /\ job.step = "login"
    /\ password = "none"
    /\ FailWith(Class("sessionExpired", "login"))
    /\ UNCHANGED <<socket, session, work, bounds>>

\* A call of a job gets an error; those of fileMeta carry no status.
CallFails ==
    /\ job.step \in {"login", "status", "changes", "meta"}
    /\ Spend
    /\ \E err \in Errors :
           FailWith(IF job.step = "meta" THEN "transient" ELSE Class(err, job.step))
    /\ UNCHANGED <<socket, session, work, commands>>

\* The server is ready, speaks this plugin's protocol and still grants the vault.
StatusReady ==
    /\ job.step = "status"
    /\ api = "good"
    /\ job' = [job EXCEPT !.step = "changes"]
    /\ UNCHANGED <<state, link, queue, wires, session, work, bounds>>

-----------------------------------------------------------------------------
(* Passes and paths *)

\* Mutant: no pass is a full one.
ChangesDelta ==
    /\ job.step = "changes"
    /\ api = "good"
    /\ LET full == FALSE IN
       /\ job' = [job EXCEPT !.step = "pass", !.full = full, !.todo = IF full THEN Paths ELSE news]
       /\ missed' = IF full THEN {} ELSE missed
    /\ state' \in IF job.kind = "remote" /\ news # {} THEN {Machine(state, "work")}
                  ELSE {state, Machine(state, "work")}
    /\ news' = {}
    /\ UNCHANGED <<link, queue, wires, session, scanDue, rejected, claims, device, bounds>>

\* reconcileFull of a connect, and reconcileAllBody: a full scan when one is due, else the
\* paths that changed at the server.  A pass with
\* something to transfer moves the engine to reconciling (beginReconcile).
Changes ==
    /\ job.step = "changes"
    /\ api = "good"
    /\ LET full == job.kind = "connect" \/ scanDue IN
       /\ job' = [job EXCEPT !.step = "pass", !.full = full, !.todo = IF full THEN Paths ELSE news]
       /\ missed' = IF full THEN {} ELSE missed
    /\ state' \in IF job.kind = "remote" /\ news # {} THEN {Machine(state, "work")}
                  ELSE {state, Machine(state, "work")}
    /\ news' = {}
    /\ UNCHANGED <<link, queue, wires, session, scanDue, rejected, claims, device, bounds>>

\* What is on disk but neither on the server nor refused by it; what is in hand comes back.
InHand == IF job.step \in {"push", "commit"} THEN {job.path} ELSE {}

\* A pass takes a path, or reconcilePath has looked at its own; content the server refused
\* before is held (onPushHeld), and an unloading plugin takes no further path.
Take(p) ==
    /\ dirty' = dirty \ {p}
    /\ job' = [job EXCEPT !.step = "push", !.path = p, !.todo = @ \ {p}]
    /\ UNCHANGED <<state, queue, claims>>

Item(p) ==
    /\ job.step = "pass"
    /\ p \in job.todo
    /\ IF p \in dirty \ rejected /\ state # "unloading"
       THEN Take(p)
       ELSE /\ job' = [job EXCEPT !.todo = @ \ {p}]
            /\ UNCHANGED <<state, queue, claims, dirty>>
    /\ UNCHANGED <<link, wires, session, scanDue, rejected, missed, told, edits, news, bounds>>

Meta ==
    /\ job.step = "meta"
    /\ api = "good"
    /\ IF job.path \in dirty \ rejected
       THEN Take(job.path)
       ELSE /\ Done(state, queue)
            /\ claims' = claims \ {job.path}
            /\ UNCHANGED dirty
    /\ news' = news \ {job.path}
    /\ UNCHANGED <<link, wires, session, scanDue, rejected, missed, told, edits, faults, commands>>

\* The path in hand is done with: the pass goes on, reconcilePath settles its claim and ends.
Onward(unsynced, failed) ==
    /\ dirty' = dirty \cup unsynced
    /\ missed' = missed \cup failed
    /\ IF job.kind = "path"
       THEN Done(state, queue) /\ claims' = claims \ {job.path}
       ELSE /\ job' = [job EXCEPT !.step = "pass", !.path = NoPath]
            /\ UNCHANGED <<state, queue, claims>>
    /\ UNCHANGED <<link, timers>>

\* It failed: reconcilePath fails as a whole, a pass isolates the file (isolatedPass) unless
\* the connection is gone.
PutBack(class, aborts) ==
    IF job.kind = "path" \/ aborts
    THEN /\ FailWith(class)
         /\ dirty' = dirty \cup {job.path}
         /\ UNCHANGED <<claims, missed>>
    ELSE Onward({job.path}, {job.path})

\* pushFile up to its commit
Push ==
    /\ job.step = "push"
    /\ api = "good"
    /\ job' = [job EXCEPT !.step = "commit"]
    /\ UNCHANGED <<state, link, queue, wires, session, work, bounds>>

Push401 ==
    /\ job.step = "push"
    /\ api = "expired"
    /\ IF job.kind = "path" /\ MayRelogin
       THEN /\ token' = "none"
            /\ dirty' = dirty \cup {job.path}
            /\ job' = [job EXCEPT !.step = "login", !.relogin = TRUE]
            /\ UNCHANGED <<state, link, queue, timers, api, password, claims, missed>>
       ELSE PutBack(Class("401", "push"), FALSE) /\ UNCHANGED session
    /\ UNCHANGED <<socket, scanDue, rejected, told, edits, news, bounds>>

\* The answers to a commit that refuse the content: every 4xx but 409 and 404.
Refusals == {"401", "403", "429", "mustChange", "odd"}

\* A push gets an error.  The errors of a commit carry no class; a 404 (a chunk was swept
\* meanwhile) is a conflict of this file alone, a refused content goes to rejectedPushes.
PushFails ==
    /\ job.step \in {"push", "commit"}
    /\ Spend
    /\ \E err \in Errors :
          /\ IF job.step = "commit" /\ err = "404" THEN Onward({job.path}, {job.path})
             ELSE PutBack(IF job.step = "push" THEN Class(err, "push") ELSE "transient", err = "offline")
          /\ rejected' = IF job.step = "commit" /\ err \in Refusals
                         THEN rejected \cup ({job.path} \ dirty) ELSE rejected
    /\ UNCHANGED <<socket, session, scanDue, told, edits, news, commands>>

\* commit: done, or a conflict with what a peer committed meanwhile (the change will be
\* listed), or any other 4xx, 401 too: this content is refused and is not sent again.
Commit ==
    /\ job.step = "commit"
    /\ \/ /\ api = "good"
          /\ Onward({job.path} \cap news, {})
          /\ rejected' = rejected \ {job.path}
       \/ /\ api = "expired"
          /\ PutBack("transient", FALSE)
          /\ rejected' = rejected \cup ({job.path} \ dirty)
    /\ UNCHANGED <<socket, session, scanDue, told, edits, news, bounds>>

\* A pass has taken every path: reconcileAllBody, or finishConnect, which opens the socket
\* and starts the poll.  A claim made before the pass began is settled by a full scan;
\* finishConnect settles all there are.
PassEnds ==
    /\ job.kind = "remote" /\ job.step = "pass" /\ job.todo = {}
    /\ Done(state, queue)
    /\ claims' = IF job.full THEN claims \ job.old ELSE claims
    /\ scanDue' = (scanDue /\ ~job.full)
    /\ UNCHANGED <<link, wires, session, rejected, missed, device, news, bounds>>

FinishConnect ==
    /\ job.kind = "connect" /\ job.step = "pass" /\ job.todo = {}
    /\ link' = "ok"
    /\ Done(Machine(state, "connected"), queue)
    /\ claims' = {}
    /\ scanDue' = FALSE
    /\ poll' = (state # "unloading")
    /\ \/ SpinUpWs(TRUE) /\ UNCHANGED faults
       \/ "noSocket" \in FaultKinds /\ Spend /\ SpinUpWs(FALSE)
    /\ UNCHANGED <<timer, session, rejected, missed, device, news, commands>>

\* A task of the queue ends, well or not: its failure is its own.
TaskEnds ==
    /\ job.step = "run"
    /\ Done(state, queue)
    /\ UNCHANGED <<link, wires, session, work, bounds>>

-----------------------------------------------------------------------------
(* Timers, the socket, the user and the world; none of them runs before Pump. *)

\* What only adds an event to the queue.
Add(ev) ==
    /\ queue' = Enqueue(queue, ev)
    /\ UNCHANGED <<state, link, job, session, scanDue, rejected, missed, dirty, edits, news, faults>>

\* The timer of scheduleRecovery, the interval of startPolling, the delayed redial.
TimerFires ==
    /\ Resting /\ timer
    /\ timer' = FALSE
    /\ Add(Event("connect"))
    /\ UNCHANGED <<poll, redial, socket, claims, told, commands>>

PollTick ==
    /\ Resting /\ poll
    /\ Add(Event("remote"))
    /\ UNCHANGED <<wires, claims, told, commands>>

RedialFires ==
    /\ Resting /\ redial
    /\ redial' = FALSE
    /\ Add(Event("rews"))
    /\ UNCHANGED <<timer, poll, socket, claims, told, commands>>

\* applyTransport: every event of the socket restarts the poll.
Socket(e, sock) ==
    LET t == Transport(transport, e) IN
    /\ Resting /\ state # "unloading"
    /\ ws' = sock
    /\ transport' = t.state
    /\ poll' = TRUE
    /\ redial' = (redial \/ t.asks = "redial")
    /\ queue' = CASE t.asks = "rews"    -> Enqueue(queue, Event("rews"))
                  [] t.asks = "connect" -> Enqueue(queue, Event("connect"))
                  [] OTHER              -> queue
    /\ UNCHANGED <<state, link, job, timer, session, work, commands>>

SocketOpens  == ws = "dialing" /\ Socket("opened", "open") /\ UNCHANGED faults
SocketErrors == ws \in {"dialing", "open"} /\ "socket" \in FaultKinds /\ Spend /\ Socket("errored", "failing")
SocketCloses == \/ ws = "failing" /\ Socket("closed", "closed") /\ UNCHANGED faults
                \/ ws \in {"open", "dialing"} /\ "socket" \in FaultKinds /\ Spend /\ Socket("closed", "closed")

\* startWsLiveness: a socket that went silent without closing
StaleTick    == ws = "silent" /\ transport = "live" /\ Socket("staleTick", "silent") /\ UNCHANGED faults

SocketFallsSilent ==
    /\ Resting /\ ws = "open" /\ "socket" \in FaultKinds /\ Spend
    /\ ws' = "silent"
    /\ UNCHANGED <<engine, timers, transport, session, work, commands>>

\* A peer commits a change; the server tells an open socket of it.
PeerCommits(p) ==
    /\ Resting /\ "peer" \in FaultKinds /\ Spend
    /\ news' = news \cup {p}
    /\ queue' = IF ws = "open" THEN Enqueue(queue, Event("remote")) ELSE queue
    /\ UNCHANGED <<state, link, job, wires, session, scanDue, rejected, missed, claims, device, commands>>

\* The server drops the session: a restart, a sign-out elsewhere, the end of its lifetime.
TokenExpires ==
    /\ Resting /\ "expiry" \in FaultKinds /\ Spend
    /\ job.step = "commit" => "expiryInPush" \in FaultKinds
    /\ "good" \in {token, api}
    /\ token' = IF token = "good" THEN "expired" ELSE token
    /\ api' = IF api = "good" THEN "expired" ELSE api
    /\ UNCHANGED <<engine, wires, password, work, commands>>

\* Time passes: a full scan falls due.
ScanFallsDue ==
    /\ Resting /\ Connected /\ ~scanDue
    /\ scanDue' = TRUE
    /\ UNCHANGED <<engine, wires, session, rejected, missed, claims, device, news, bounds>>

\* The user writes to a note; the file event comes later.
Edit(p) ==
    /\ Resting /\ edits < MaxEdits /\ state # "unloading"
    /\ edits' = edits + 1
    /\ dirty' = dirty \cup {p}
    /\ told' = told \cup {p}
    /\ rejected' = rejected \ {p}
    /\ UNCHANGED <<engine, wires, session, scanDue, missed, claims, news, bounds>>

\* onLocalEvent: the edit is claimed (noteLocalChange) and queued.
LocalEvent(p) ==
    /\ Resting /\ p \in told
    /\ told' = told \ {p}
    /\ claims' = claims \cup {p}
    /\ queue' = Enqueue(queue, Edited(p))
    /\ job' = [job EXCEPT !.old = @ \ {p}]
    /\ UNCHANGED <<state, link, wires, session, scanDue, rejected, missed, dirty, edits, news, bounds>>

\* Commands
Command(c) ==
    /\ Resting /\ c \in Commands /\ commands < MaxCommands /\ state # "unloading"
    /\ commands' = commands + 1

Reconnect == Command("reconnect") /\ Add(Event("connect")) /\ UNCHANGED <<wires, claims, told>>
AddTask   == Command("task") /\ Add(Event("task")) /\ UNCHANGED <<wires, claims, told>>

Disconnect ==
    /\ Command("disconnect")
    /\ Add(Event("disconnect"))
    /\ UNCHANGED <<wires, claims, told>>

\* onResume: after a failed connect at once, else a look at the server
Resume ==
    /\ Command("resume")
    /\ timer' = (timer /\ state # "disconnected")
    /\ Add(Event(IF state = "disconnected" THEN "connect" ELSE "remote"))
    /\ UNCHANGED <<poll, redial, socket, claims, told>>

\* The setup wizard signs in anew, and reconnects.
SignIn ==
    /\ Command("signIn")
    /\ token' = "good"
    /\ password' \in {"once", "stored"}
    /\ queue' = Enqueue(queue, Event("connect"))
    /\ UNCHANGED <<state, link, job, wires, api, work, faults>>

SignOut ==
    /\ Command("signOut")
    /\ token' = "none" /\ password' = "none"
    /\ queue' = Enqueue(queue, Event("disconnect"))
    /\ UNCHANGED <<state, link, job, wires, api, work, faults>>

\* onunload, handled inside enqueue: a running job goes on with nothing left to arm
Unload ==
    /\ Command("unload")
    /\ state' = Machine(state, "unload")
    /\ link' = "ok"
    /\ queue' = <<>>
    /\ Teardown
    /\ UNCHANGED <<job, session, work, faults>>

-----------------------------------------------------------------------------
(* The specification *)

Init ==
    /\ state = "off" /\ link = "ok" /\ job = NoJob
    /\ queue = <<Event("connect")>>
    /\ timer = FALSE /\ poll = FALSE /\ redial = FALSE
    /\ transport = "offline" /\ ws = "none"
    /\ token \in {"none", "good"} /\ api = "none" /\ password \in {"once", "stored"}
    /\ scanDue = FALSE /\ rejected = {} /\ missed = {} /\ claims = {}
    /\ dirty = {} /\ told = {} /\ news = {}
    /\ faults = 0 /\ edits = 0 /\ commands = 0

JobStep ==
    \/ Login \/ Rejected401 \/ NoPassword \/ StatusReady \/ Changes \/ Meta
    \/ \E p \in Paths : Item(p)
    \/ Push \/ Push401 \/ Commit \/ PassEnds \/ FinishConnect \/ TaskEnds

Timers  == TimerFires \/ PollTick \/ RedialFires \/ StaleTick \/ ScanFallsDue
World   == \/ SocketOpens \/ SocketErrors \/ SocketCloses \/ SocketFallsSilent \/ TokenExpires
           \/ \E p \in Paths : PeerCommits(p) \/ Edit(p) \/ LocalEvent(p)
User    == Reconnect \/ AddTask \/ Disconnect \/ Resume \/ SignIn \/ SignOut \/ Unload

Next == Pump \/ JobStep \/ CallFails \/ PushFails \/ Timers \/ World \/ User

Spec == Init /\ [][Next]_vars

\* Network calls are answered (httpReq times out), timers fire and file events are delivered;
\* the latter wait while an event is being taken from the queue, hence the strong fairness.
Fairness ==
    /\ WF_vars(Pump)
    /\ WF_vars(JobStep)
    /\ SF_vars(TimerFires)
    /\ SF_vars(PollTick)
    /\ SF_vars(ScanFallsDue)
    /\ \A p \in Paths : SF_vars(LocalEvent(p))

LiveSpec == Spec /\ Fairness

-----------------------------------------------------------------------------
(* Properties *)

\* The engine, link and socket machines stay in their states, and the queue holds nothing
\* but the events of syncengine.ts.
TypeOK ==
    /\ state \in {"off", "connecting", "reconciling", "idle", "disconnected", "unloading"}
    /\ link \in {"ok", "retrying", "lockedOut", "blocked"}
    /\ queue \in Seq([kind : {"connect", "remote", "path", "task", "rews", "disconnect"},
                      path : Paths \cup {NoPath}])
    /\ {timer, poll, redial, scanDue} \subseteq BOOLEAN
    /\ transport \in {"offline", "dialing", "live", "degraded"}
    /\ ws \in {"none", "dialing", "open", "silent", "failing", "closed"}
    /\ {token, api} \subseteq {"none", "good", "expired"}
    /\ password \in {"none", "once", "stored"}
    /\ {dirty, told, news, rejected, missed, claims, job.todo, job.old} \subseteq SUBSET Paths

Queued(k) == \E i \in 1 .. Len(queue) : queue[i].kind = k

\* A link that is down is never left alone: a timer is armed, or a connect runs or waits
\* (failWith and scheduleRecovery: no dead end).
NeverStranded ==
    state = "disconnected" =>
        timer \/ job.kind = "connect" \/ Queued("connect") \/ Queued("disconnect")

\* While the engine is connected, an edit that is not on the server has something on the way
\* that will take it there: its file event, a queued or running job, a change of a peer that
\* will be listed, the full scan that retries what failed (failWith drops queued paths and
\* isolatedPass skips failed ones on the strength of it).
NoSilentEdit ==
    Connected =>
        dirty \subseteq told \cup news \cup missed \cup rejected \cup job.todo
                       \cup {p \in Paths : job.path = p \/ Edited(p) \in Range(queue)}

\* Once off, or unloading with a job still in flight, nothing is armed that could wake it
\* (doTeardown against the awaits of doConnectBody, spinUpWs and the delayed redial).
Quiet ==
    state = "unloading" \/ (state = "off" /\ Resting /\ job.kind # "connect" /\ ~Queued("connect")) =>
        ~timer /\ ~poll /\ ~redial /\ ws = "none"

\* Nothing to log in with: the user has to act.
LockedOut == token # "good" /\ password = "none"

\* Every edit reaches the server and its claim is settled, whatever failed on the way, unless
\* the user stops the sync or a commit of this very content was refused (the retries of
\* scheduleRecovery, the poll and the full scan; rejectedPushes).
EditsReachServer ==
    \A p \in Paths :
        p \in dirty \cup claims ~>
            \/ p \notin dirty \cup InHand \cup claims
            \/ p \in rejected \/ state \in {"off", "unloading"} \/ LockedOut

\* Content the server has no objection to is never given up (transport.ts: a 4xx at the
\* commit is the server refusing this content).
SoundEditsReachServer ==
    \A p \in Paths :
        p \in dirty \cup claims ~>
            p \notin dirty \cup InHand \cup claims \/ state \in {"off", "unloading"} \/ LockedOut

\* A task is run, also when its turn comes while the link is down or off: failWith keeps the
\* held-review resolvers that runScopeExclusive queued.
TasksRun == Queued("task") ~> job.kind = "task" \/ state = "unloading"

=============================================================================
