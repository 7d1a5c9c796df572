---------------------------- MODULE LightProofs ----------------------------
(***************************************************************************)
(* Proofs about Light, for any number of paths, edits, failures and late   *)
(* timers.  IInv is the inductive invariant: Typed is the type of the      *)
(* facts, Painted what the light and the claims owe to the last paint      *)
(* (Timers gives HoldEnds; Shown and WarnsInv give WarnsAtOnce), JobInv    *)
(* and Covered follow a file from its save to the server (with GreenInv    *)
(* they give GreenIsTrue).                                                 *)
(***************************************************************************)
EXTENDS Light, TLAPS

Steps == {"none", "list", "pass", "done", "look", "send", "sent", "failing"}

LightType ==
    [shown : Phases, held : BOOLEAN, deferred : Phases \cup {"none"}, due : BOOLEAN, timers : Nat,
     handle : BOOLEAN, mount : {"ok", "offline", "error"}]
Claims == [Paths -> {"none", "buffer", "aged", "disk"}]

Typed ==
    /\ state \in {"off", "connecting", "reconciling", "idle", "disconnected"}
    /\ link \in Classes \cup {"ok"}
    /\ state = "disconnected" => link # "ok"
    /\ bulk \in BOOLEAN
    /\ mount \in {"ok", "offline", "error"}
    /\ job \in [kind : {"none", "connect", "full", "delta", "path"}, step : Steps,
                path : Paths \cup {NoPath}, todo : SUBSET Paths]
    /\ queue \subseteq Paths /\ unsent \subseteq Paths /\ late \subseteq Paths
    /\ overtaken \subseteq Paths /\ isolated \subseteq Paths

\* A hold owns the timer lightTimer names, and only a suspended app leaks one.
Timers(l) ==
    /\ l.held => l.handle
    /\ l.handle => l.timers > 0
    /\ l.timers <= MaxLate + 1
    /\ ~l.held \/ l.due => l.timers <= MaxLate

\* What a hold shows, and what waits for its end.
Shown(l) ==
    /\ l.held => l.shown = "syncing"
    /\ ~l.held => l.deferred = "none"
    /\ l.deferred \notin Attention \cup {"syncing"}

\* When the facts call for a warning, without the claims and the pass, of the mounts as they were
\* painted last.  What is wrong with them now was wrong then.
Warned == state = "disconnected" \/ (state # "connecting" /\ light.mount # "ok")
WarnsInv ==
    /\ Warned <=> light.shown \in Attention
    /\ mount # "ok" => light.mount # "ok"

\* A green light, now or after the hold.
Green(l) == l.shown = "idle" \/ l.deferred = "idle"
GreenInv == Green(light) => Connected /\ \A p \in Paths : claims[p] = "none"

Painted ==
    /\ claims \in Claims /\ light \in LightType
    /\ Timers(light) /\ Shown(light)
    /\ WarnsInv /\ GreenInv

\* The jobs that settle claims leave no file behind but the ones saved since they began.
JobInv ==
    /\ job.step \in {"list", "look", "done"} => job.todo = {}
    /\ job.kind = "delta" => Connected
    /\ job.kind \in {"connect", "full"} /\ job.step \in {"pass", "done"} => 
            unsent \subseteq late \cup isolated \cup job.todo
    /\ job.kind = "path" /\ job.step = "send" => unsent \cap {job.path} \subseteq late \cup job.todo
    /\ job.kind = "path" /\ job.step = "sent" => /\ unsent \cap {job.path} \subseteq late \cup isolated
                                                /\ unsent \cap job.todo = {}

\* A file the server does not have is claimed, or about to be sent, or was overtaken or isolated,
\* once a pass has listed everything.
Covered ==
    Connected \/ (job.kind = "connect" /\ job.step \in {"pass", "done"}) =>
        unsent \subseteq overtaken \cup isolated \cup job.todo \cup {p \in Paths : claims[p] = "disk"}

IInv == Typed /\ Painted /\ JobInv /\ Covered

-----------------------------------------------------------------------------
(* The display machine *)

\* settle keeps the display machine sound: what waited is shown, and nothing waits any more.
LEMMA SettleSound ==
    ASSUME NEW l \in LightType, Shown(l), NEW a, a = SettleLight(l)
    PROVE  /\ a.display \in LightType /\ a.arm = FALSE /\ a.disarm = FALSE
           /\ a.display.held = FALSE /\ a.display.deferred = "none"
           /\ a.display.timers = l.timers /\ a.display.handle = l.handle /\ a.display.due = l.due
           /\ a.display.mount = l.mount
           /\ a.display.shown \in Attention <=> l.shown \in Attention
           /\ Green(a.display) <=> Green(l)
  <1> DEFINE s == IF l.deferred = "none" THEN l.shown ELSE l.deferred
             d == [l EXCEPT !.shown = s, !.held = FALSE, !.deferred = "none"]
  <1>1. l.shown \in Phases /\ l.held \in BOOLEAN /\ l.deferred \in Phases \cup {"none"}
    BY DEF LightType
  <1>2. s \in Phases /\ (s \in Attention <=> l.shown \in Attention) /\ (s = "idle" <=> Green(l))
    BY <1>1 DEF Shown, Green, Phases, Attention
  <1>3. SettleLight(l) = [display |-> d, arm |-> FALSE, disarm |-> FALSE]
    BY DEF SettleLight, Answer
  <1> HIDE DEF s
  <1>4. /\ d \in LightType /\ d.shown = s /\ d.held = FALSE /\ d.deferred = "none"
        /\ d.timers = l.timers /\ d.handle = l.handle /\ d.due = l.due /\ d.mount = l.mount
    BY <1>2 DEF LightType
  <1> HIDE DEF d
  <1>5. a.display = d /\ a.arm = FALSE /\ a.disarm = FALSE
    BY <1>3
  <1>6. QED
    BY <1>2, <1>4, <1>5 DEF Green

\* applyLightAction changes nothing of what is shown.
LEMMA ApplySound ==
    ASSUME NEW l \in LightType, NEW a, a.display \in LightType, a.arm \in BOOLEAN, a.disarm \in BOOLEAN,
           a.display.due = l.due, a.display.handle = l.handle, l.handle => l.timers > 0,
           NEW r, r = ApplyLightAction(l, a)
    PROVE  /\ r \in LightType
           /\ r.shown = a.display.shown /\ r.held = a.display.held /\ r.deferred = a.display.deferred
           /\ r.timers = (l.timers - (IF a.disarm /\ l.handle THEN 1 ELSE 0)) + (IF a.arm THEN 1 ELSE 0)
           /\ r.handle <=> a.arm \/ (l.handle /\ ~a.disarm)
           /\ r.due <=> l.due /\ ~a.arm
           /\ r.mount = a.display.mount
  <1> DEFINE d == a.display
             n == (l.timers - (IF a.disarm /\ l.handle THEN 1 ELSE 0)) + (IF a.arm THEN 1 ELSE 0)
             h == a.arm \/ (l.handle /\ ~a.disarm)
             u == l.due /\ ~a.arm
  <1>1. l.timers \in Nat /\ l.handle \in BOOLEAN /\ l.due \in BOOLEAN
    BY DEF LightType
  <1>2. n \in Nat /\ h \in BOOLEAN /\ u \in BOOLEAN
    BY <1>1
  <1>3. r = [d EXCEPT !.timers = n, !.handle = h, !.due = u]
    BY DEF ApplyLightAction
  <1> HIDE DEF n, h, u
  <1>4. d \in LightType
    OBVIOUS
  <1> HIDE DEF d
  <1>5. /\ r \in LightType /\ r.shown = d.shown /\ r.held = d.held /\ r.deferred = d.deferred
        /\ r.timers = n /\ r.handle = h /\ r.due = u /\ r.mount = d.mount
    BY <1>2, <1>3, <1>4 DEF LightType
  <1>6. QED
    BY <1>5 DEF d, n, h, u

\* dispatchLight: the phase is shown, or waits for the hold; a warning never waits, and the
\* timer of a hold is not lost.
LEMMA DispatchSound ==
    ASSUME NEW l \in LightType, NEW p \in Phases, Timers(l), Shown(l), NEW r, r = DispatchLight(l, p)
    PROVE  /\ r \in LightType /\ Timers(r) /\ Shown(r)
           /\ r.shown \in Attention <=> p \in Attention
           /\ Green(r) <=> p = "idle"
  <1> DEFINE l1 == IF l.held /\ l.due THEN ApplyLightAction(l, SettleLight(l)) ELSE l
  <1>0. MaxLate \in Nat
    BY LightAssumption
  <1>1. l1 \in LightType /\ Timers(l1) /\ Shown(l1)
    <2>1. CASE l.held /\ l.due
      <3> DEFINE a == SettleLight(l)
      <3>1. /\ a.display \in LightType /\ a.arm = FALSE /\ a.disarm = FALSE
            /\ a.display.held = FALSE /\ a.display.deferred = "none"
            /\ a.display.timers = l.timers /\ a.display.handle = l.handle /\ a.display.due = l.due
            /\ a.display.shown \in Attention <=> l.shown \in Attention
        BY SettleSound
      <3>2. l.handle => l.timers > 0
        BY DEF Timers
      <3>3. l.timers \in Nat /\ l.handle \in BOOLEAN /\ l.due \in BOOLEAN
        BY DEF LightType
      <3> DEFINE q == ApplyLightAction(l, a)
      <3> HIDE DEF a
      <3>4. /\ q \in LightType /\ q.held = FALSE /\ q.deferred = "none"
            /\ q.timers = l.timers /\ q.handle = l.handle /\ q.due = l.due
        <4>1. /\ q \in LightType /\ q.shown = a.display.shown /\ q.held = a.display.held
              /\ q.deferred = a.display.deferred
              /\ q.timers = (l.timers - (IF a.disarm /\ l.handle THEN 1 ELSE 0)) + (IF a.arm THEN 1 ELSE 0)
              /\ q.handle <=> a.arm \/ (l.handle /\ ~a.disarm)
              /\ q.due <=> l.due /\ ~a.arm
              /\ q.mount = a.display.mount
          BY <3>1, <3>2, ApplySound, ZenonT(60)
        <4> HIDE DEF q
        <4>2. QED
          BY <3>1, <3>3, <4>1 DEF LightType
      <3>5. l1 = q
        BY <2>1 DEF a
      <3> HIDE DEF q
      <3> HIDE DEF l1
      <3>6. QED
        BY <2>1, <3>4, <3>5, <1>0 DEF Timers, Shown, LightType, Attention
    <2>2. CASE ~(l.held /\ l.due)
      BY <2>2
    <2>3. QED
      BY <2>1, <2>2
  <1>2. r = ApplyLightAction(l1, NextLightDisplay(l1, p))
    BY DEF DispatchLight
  <1> HIDE DEF l1
  <1> DEFINE a == NextLightDisplay(l1, p)
  <1>3. /\ l1.shown \in Phases /\ l1.held \in BOOLEAN /\ l1.deferred \in Phases \cup {"none"}
        /\ l1.timers \in Nat /\ l1.handle \in BOOLEAN /\ l1.due \in BOOLEAN
    BY <1>1 DEF LightType
  <1>4. ASSUME NEW s \in Phases, NEW h \in BOOLEAN, NEW w \in Phases \cup {"none"},
               NEW arm \in BOOLEAN, NEW disarm \in BOOLEAN, a = Answer(l1, s, h, w, arm, disarm)
        PROVE  /\ r \in LightType /\ r.shown = s /\ r.held = h /\ r.deferred = w
               /\ r.timers = (l1.timers - (IF disarm /\ l1.handle THEN 1 ELSE 0)) + (IF arm THEN 1 ELSE 0)
               /\ r.handle <=> arm \/ (l1.handle /\ ~disarm)
               /\ r.due <=> l1.due /\ ~arm
    <2> DEFINE d == [l1 EXCEPT !.shown = s, !.held = h, !.deferred = w]
    <2>1. a = [display |-> d, arm |-> arm, disarm |-> disarm]
      BY <1>4 DEF Answer
    <2>2. /\ d \in LightType /\ d.shown = s /\ d.held = h /\ d.deferred = w
          /\ d.due = l1.due /\ d.handle = l1.handle
      BY <1>1 DEF LightType
    <2> HIDE DEF d, a
    <2>3. a.display = d /\ a.arm = arm /\ a.disarm = disarm
      BY <2>1
    <2>4. l1.handle => l1.timers > 0
      BY <1>1 DEF Timers
    <2>5. r = ApplyLightAction(l1, a)
      BY <1>2 DEF a
    <2>6. /\ r \in LightType
          /\ r.shown = a.display.shown /\ r.held = a.display.held /\ r.deferred = a.display.deferred
          /\ r.timers = (l1.timers - (IF a.disarm /\ l1.handle THEN 1 ELSE 0)) + (IF a.arm THEN 1 ELSE 0)
          /\ r.handle <=> a.arm \/ (l1.handle /\ ~a.disarm)
          /\ r.due <=> l1.due /\ ~a.arm
      BY <1>1, <2>2, <2>3, <2>4, <2>5, ApplySound
    <2>7. QED
      BY <2>2, <2>3, <2>6
  <1>5. CASE p = "syncing"
    <2>1. a = Answer(l1, p, TRUE, "none", TRUE, l1.held)
      BY <1>5 DEF NextLightDisplay
    <2> HIDE DEF a
    <2>2. /\ r \in LightType /\ r.shown = p /\ r.held = TRUE /\ r.deferred = "none"
          /\ r.timers = (l1.timers - (IF l1.held /\ l1.handle THEN 1 ELSE 0)) + 1
          /\ r.handle = TRUE /\ r.due = FALSE
      <3>1. /\ r \in LightType /\ r.shown = p /\ r.held = TRUE /\ r.deferred = "none"
            /\ r.timers = (l1.timers - (IF l1.held /\ l1.handle THEN 1 ELSE 0)) + (IF TRUE THEN 1 ELSE 0)
            /\ r.handle <=> TRUE \/ (l1.handle /\ ~l1.held)
            /\ r.due <=> l1.due /\ ~TRUE
        BY <1>3, <1>4, <2>1
      <3>2. QED
        BY <3>1 DEF LightType
    <2>3. QED
      BY <1>0, <1>1, <1>3, <1>5, <2>2 DEF Timers, Shown, Green, Attention
  <1>6. CASE p \in Attention
    <2>1. a = Answer(l1, p, FALSE, "none", FALSE, l1.held)
      BY <1>6 DEF NextLightDisplay, Attention
    <2> HIDE DEF a
    <2>2. /\ r \in LightType /\ r.shown = p /\ r.held = FALSE /\ r.deferred = "none"
          /\ r.timers = (l1.timers - (IF l1.held /\ l1.handle THEN 1 ELSE 0)) + 0
          /\ r.handle <=> (l1.handle /\ ~l1.held)
          /\ r.due <=> l1.due
      BY <1>3, <1>4, <2>1
    <2>3. QED
      BY <1>0, <1>1, <1>3, <1>6, <2>2 DEF Timers, Shown, Green, Attention
  <1>7. CASE p # "syncing" /\ p \notin Attention /\ l1.held
    <2>1. a = Answer(l1, l1.shown, TRUE, p, FALSE, FALSE)
      BY <1>7 DEF NextLightDisplay
    <2> HIDE DEF a
    <2>2. /\ r \in LightType /\ r.shown = l1.shown /\ r.held = TRUE /\ r.deferred = p
          /\ r.timers = (l1.timers - 0) + 0
          /\ r.handle <=> l1.handle
          /\ r.due <=> l1.due
      BY <1>3, <1>4, <2>1
    <2>3. QED
      BY <1>0, <1>1, <1>3, <1>7, <2>2 DEF Timers, Shown, Green, Attention
  <1>8. CASE p # "syncing" /\ p \notin Attention /\ ~l1.held
    <2>1. a = Answer(l1, p, FALSE, "none", FALSE, FALSE)
      BY <1>8 DEF NextLightDisplay
    <2> HIDE DEF a
    <2>2. /\ r \in LightType /\ r.shown = p /\ r.held = FALSE /\ r.deferred = "none"
          /\ r.timers = (l1.timers - 0) + 0
          /\ r.handle <=> l1.handle
          /\ r.due <=> l1.due
      BY <1>3, <1>4, <2>1
    <2>3. QED
      BY <1>0, <1>1, <1>3, <1>8, <2>2 DEF Timers, Shown, Green, Attention
  <1>9. QED
    BY <1>5, <1>6, <1>7, <1>8

\* The end of a hold, by a timer that fires or by a resume: its timer is gone with it, and what
\* is shown warns and rests as before.
LEMMA ReleaseSound ==
    ASSUME NEW l \in LightType, Timers(l), Shown(l), l.timers > 0, NEW k, NEW r
    PROVE  /\ k = [l EXCEPT !.timers = l.timers - 1, !.handle = FALSE]
           /\ r = ApplyLightAction(k, SettleLight(k))
           => /\ r \in LightType /\ Timers(r) /\ Shown(r)
              /\ r.shown \in Attention <=> l.shown \in Attention
              /\ Green(r) <=> Green(l)
              /\ r.mount = l.mount
  <1>12. SUFFICES ASSUME k = [l EXCEPT !.timers = l.timers - 1, !.handle = FALSE],
                         r = ApplyLightAction(k, SettleLight(k))
                  PROVE  /\ r \in LightType /\ Timers(r) /\ Shown(r)
                         /\ r.shown \in Attention <=> l.shown \in Attention
                         /\ Green(r) <=> Green(l)
                         /\ r.mount = l.mount
    OBVIOUS
  <1>0. MaxLate \in Nat
    BY LightAssumption
  <1>1. l.timers \in Nat /\ l.due \in BOOLEAN /\ l.held \in BOOLEAN
    BY DEF LightType
  <1>2. l.timers - 1 \in Nat /\ l.timers - 1 <= MaxLate
    BY <1>0, <1>1 DEF Timers
  <1>3. /\ k \in LightType /\ k.shown = l.shown /\ k.held = l.held /\ k.deferred = l.deferred
        /\ k.due = l.due /\ k.timers = l.timers - 1 /\ k.handle = FALSE /\ k.mount = l.mount
    BY <1>2, <1>12 DEF LightType
  <1>4. Shown(k) /\ (Green(k) <=> Green(l))
    BY <1>3 DEF Shown, Green
  <1>11. PICK a : a = SettleLight(k)
    OBVIOUS
  <1>5. /\ a.display \in LightType /\ a.arm = FALSE /\ a.disarm = FALSE
        /\ a.display.held = FALSE /\ a.display.deferred = "none"
        /\ a.display.handle = k.handle /\ a.display.due = k.due /\ a.display.mount = k.mount
        /\ a.display.shown \in Attention <=> k.shown \in Attention
        /\ Green(a.display) <=> Green(k)
    BY <1>3, <1>4, <1>11, SettleSound
  <1>6. r = ApplyLightAction(k, a)
    BY <1>11, <1>12
  <1>10. /\ k \in LightType /\ a.display \in LightType /\ a.arm \in BOOLEAN /\ a.disarm \in BOOLEAN
         /\ a.display.due = k.due /\ a.display.handle = k.handle /\ (k.handle => k.timers > 0)
    BY <1>3, <1>5
  <1>7. /\ r \in LightType
        /\ r.shown = a.display.shown /\ r.held = a.display.held /\ r.deferred = a.display.deferred
        /\ r.timers = (k.timers - (IF a.disarm /\ k.handle THEN 1 ELSE 0)) + (IF a.arm THEN 1 ELSE 0)
        /\ r.handle <=> a.arm \/ (k.handle /\ ~a.disarm)
        /\ r.due <=> k.due /\ ~a.arm
        /\ r.mount = a.display.mount
    BY <1>6, <1>10, ApplySound, ZenonT(60)
  <1>8. r.timers = l.timers - 1 /\ ~r.handle /\ ~r.held /\ r.deferred = "none"
    BY <1>1, <1>3, <1>5, <1>7
  <1>9. QED
    BY <1>0, <1>1, <1>2, <1>3, <1>4, <1>5, <1>7, <1>8 DEF Timers, Shown, Green, Attention

-----------------------------------------------------------------------------
(* The projection *)

\* effectivePhase, displayPhase and effectiveLightPhase: a warning is due exactly when the link is
\* down or a mount is in trouble, and rest is shown only of a link that is up with no claim left.
LEMMA ProjectionSound ==
    ASSUME NEW s \in {"off", "connecting", "reconciling", "idle", "disconnected"},
           NEW k \in Classes \cup {"ok"}, s = "disconnected" => k # "ok",
           NEW b \in BOOLEAN, NEW j, NEW m \in {"ok", "offline", "error"}, NEW c \in Claims,
           NEW p, p = EffectivePhase(s, k, b, j), NEW c1, c1 = Pruned(p, c),
           NEW t, t = EffectiveLightPhase(DisplayPhase(p, c1), m)
    PROVE  /\ c1 \in Claims
           /\ \A q \in Paths : c1[q] = "disk" <=> c[q] = "disk"
           /\ t \in Phases
           /\ t \in Attention <=> s = "disconnected" \/ (s # "connecting" /\ m # "ok")
           /\ t = "idle" => s \in {"idle", "reconciling"} /\ \A q \in Paths : c1[q] = "none"
  <1>1. p \in Phases /\ (p \in Attention <=> s = "disconnected") /\ (p = "connecting" <=> s = "connecting")
        /\ (p = "idle" => s \in {"idle", "reconciling"})
    BY LightAssumption DEF EffectivePhase, Raw, Phases, Attention
  <1>2. c1 \in Claims /\ \A q \in Paths : c1[q] = "disk" <=> c[q] = "disk"
    BY DEF Pruned, Claims
  <1> DEFINE d == DisplayPhase(p, c1)
  <1>3. d \in Phases /\ (d \in Attention <=> s = "disconnected") /\ (d = "connecting" <=> s = "connecting")
        /\ (d = "idle" => s \in {"idle", "reconciling"} /\ \A q \in Paths : c1[q] = "none")
    BY <1>1 DEF DisplayPhase, Phases, Attention
  <1> HIDE DEF d
  <1>4. t = EffectiveLightPhase(d, m)
    BY DEF d
  <1>5. QED
    BY <1>2, <1>3, <1>4 DEF EffectiveLightPhase, Phases, Attention

\* renderLight re-establishes what the light owes to the facts, whatever the step did to them.
LEMMA RenderSound ==
    ASSUME Painted, Typed', NEW c \in Claims, RenderLight(c)
    PROVE  Painted' /\ \A q \in Paths : claims'[q] = "disk" <=> c[q] = "disk"
  <1> DEFINE p == EffectivePhase(state', link', bulk', job')
             t == EffectiveLightPhase(DisplayPhase(p, claims'), mount')
  <1>0. PICK r : r = DispatchLight(light, t)
    OBVIOUS
  <1>1. claims' = Pruned(p, c) /\ light' = [r EXCEPT !.mount = mount']
    BY <1>0 DEF RenderLight
  <1>2. /\ state' \in {"off", "connecting", "reconciling", "idle", "disconnected"}
        /\ link' \in Classes \cup {"ok"} /\ (state' = "disconnected" => link' # "ok")
        /\ bulk' \in BOOLEAN /\ mount' \in {"ok", "offline", "error"}
    BY DEF Typed
  <1> HIDE DEF p, t
  <1>3. /\ claims' \in Claims
        /\ \A q \in Paths : claims'[q] = "disk" <=> c[q] = "disk"
        /\ t \in Phases
        /\ t \in Attention <=> state' = "disconnected" \/ (state' # "connecting" /\ mount' # "ok")
        /\ t = "idle" => state' \in {"idle", "reconciling"} /\ \A q \in Paths : claims'[q] = "none"
    BY <1>1, <1>2, ProjectionSound DEF p, t
  <1>4. /\ light' \in LightType /\ Timers(light') /\ Shown(light') /\ light'.mount = mount'
        /\ light'.shown \in Attention <=> t \in Attention
        /\ Green(light') <=> t = "idle"
    <2>1. /\ r \in LightType /\ Timers(r) /\ Shown(r)
          /\ r.shown \in Attention <=> t \in Attention
          /\ Green(r) <=> t = "idle"
      BY <1>0, <1>3, DispatchSound DEF Painted
    <2>2. /\ light' \in LightType /\ light'.mount = mount' /\ light'.shown = r.shown
          /\ light'.held = r.held /\ light'.deferred = r.deferred /\ light'.due = r.due
          /\ light'.timers = r.timers /\ light'.handle = r.handle
      BY <1>1, <1>2, <2>1 DEF LightType
    <2>3. QED
      BY <2>1, <2>2 DEF Timers, Shown, Green
  <1>5. WarnsInv'
    BY <1>3, <1>4 DEF WarnsInv, Warned
  <1>6. GreenInv'
    BY <1>3, <1>4 DEF GreenInv, Connected
  <1>7. QED
    BY <1>3, <1>4, <1>5, <1>6 DEF Painted

\* A step that paints nothing must change neither what calls for a warning nor the state, may
\* bring no mount in trouble, and may claim nothing anew.
LEMMA UnpaintedSound ==
    ASSUME Painted, UNCHANGED light, claims' \in Claims, Warned' <=> Warned, Connected => Connected',
           mount' # "ok" => mount # "ok",
           \A q \in Paths : claims[q] = "none" => claims'[q] = "none"
    PROVE  Painted'
  BY DEF Painted, WarnsInv, GreenInv

\* onPhase paints when the state changes; a step that keeps state and mount needs no paint.
LEMMA OnPhaseSound ==
    ASSUME Painted, Typed', OnPhase(claims), mount' = mount
    PROVE  Painted' /\ \A q \in Paths : claims'[q] = "disk" <=> claims[q] = "disk"
  <1>0. claims \in Claims
    BY DEF Painted
  <1>1. CASE state' # state
    BY <1>0, <1>1, RenderSound DEF OnPhase
  <1>2. CASE state' = state
    BY <1>0, <1>2, UnpaintedSound DEF OnPhase, Warned, Connected
  <1>3. QED
    BY <1>1, <1>2

\* noteLocalChange: a save confirms the claim, a keystroke confirms none.
LEMMA NoteSound ==
    ASSUME Painted, Typed', UNCHANGED <<state, mount>>, NEW p \in Paths, NEW o \in BOOLEAN,
           NoteLocalChange(p, o)
    PROVE  Painted' /\ \A q \in Paths : claims'[q] = "disk" <=> claims[q] = "disk" \/ (o /\ q = p)
  <1> DEFINE c == [claims EXCEPT ![p] = IF o \/ @ = "disk" THEN "disk" ELSE "buffer"]
  <1>1. claims \in Claims
    BY DEF Painted
  <1>2. /\ c \in Claims
        /\ \A q \in Paths : c[q] = "disk" <=> claims[q] = "disk" \/ (o /\ q = p)
        /\ claims[p] # "none" => \A q \in Paths : claims[q] = "none" => c[q] = "none"
    BY <1>1 DEF Claims
  <1>3. IF claims[p] = "none" THEN RenderLight(c) ELSE claims' = c /\ UNCHANGED light
    BY DEF NoteLocalChange
  <1> HIDE DEF c
  <1>4. CASE claims[p] = "none"
    BY <1>2, <1>3, <1>4, RenderSound
  <1>5. CASE claims[p] # "none"
    BY <1>2, <1>3, <1>5, UnpaintedSound DEF Warned, Connected
  <1>6. QED
    BY <1>4, <1>5

\* notePathSettled and settleUnsyncedBefore: the claims of S go, all others stay.
LEMMA ClaimsSettled ==
    ASSUME Painted, Typed', UNCHANGED <<state, mount>>, NEW S, Settle(S)
    PROVE  /\ Painted'
           /\ \A q \in Paths : claims'[q] = "disk" <=> claims[q] = "disk" /\ q \notin S
  <1> DEFINE c == [q \in Paths |-> IF q \in S THEN "none" ELSE claims[q]]
  <1>1. claims \in Claims
    BY DEF Painted
  <1>2. /\ c \in Claims
        /\ \A q \in Paths : c[q] = "disk" <=> claims[q] = "disk" /\ q \notin S
    BY <1>1 DEF Claims
  <1>3. IF c # claims THEN RenderLight(c) ELSE UNCHANGED <<claims, light>>
    BY DEF Settle
  <1> HIDE DEF c
  <1>4. CASE c # claims
    BY <1>2, <1>3, <1>4, RenderSound
  <1>5. CASE c = claims
    BY <1>1, <1>2, <1>3, <1>5, UnpaintedSound DEF Warned, Connected
  <1>6. QED
    BY <1>4, <1>5

-----------------------------------------------------------------------------
(* The actions *)

\* The user types.
LEMMA KeystrokeKeeps ==
    ASSUME IInv, NEW p \in Paths, Keystroke(p)
    PROVE  IInv'
  <1> USE DEF IInv
  <1>1. Typed'
    BY DEF Typed, Steps, Keystroke, facts
  <1>2. Painted' /\ \A q \in Paths : claims'[q] = "disk" <=> claims[q] = "disk"
    <2>1. NoteLocalChange(p, FALSE) /\ UNCHANGED <<state, mount>>
      BY DEF Keystroke, facts
    <2>2. Painted' /\ \A q \in Paths : claims'[q] = "disk" <=> claims[q] = "disk" \/ (FALSE /\ q = p)
      BY <1>1, <2>1, NoteSound
    <2>3. QED
      BY <2>2
  <1>3. JobInv'
    BY DEF JobInv, Typed, Connected, Keystroke, facts
  <1>4. Covered'
    BY <1>2 DEF Covered, JobInv, Typed, Connected, Keystroke, facts
  <1>5. QED
    BY <1>1, <1>2, <1>3, <1>4

\* A file changes on disk.
LEMMA SaveKeeps ==
    ASSUME IInv, NEW p \in Paths, Save(p)
    PROVE  IInv'
  <1> USE DEF IInv
  <1>1. Typed'
    BY DEF Typed, Steps, Save
  <1>2. Painted' /\ \A q \in Paths : claims'[q] = "disk" <=> claims[q] = "disk" \/ q = p
    <2>1. NoteLocalChange(p, TRUE) /\ UNCHANGED <<state, mount>>
      BY DEF Save
    <2>2. Painted' /\ \A q \in Paths : claims'[q] = "disk" <=> claims[q] = "disk" \/ (TRUE /\ q = p)
      BY <1>1, <2>1, NoteSound
    <2>3. QED
      BY <2>2
  <1>3. JobInv'
    BY DEF JobInv, Typed, Connected, Save
  <1>4. Covered'
    BY <1>2 DEF Covered, JobInv, Typed, Connected, Save
  <1>5. QED
    BY <1>1, <1>2, <1>3, <1>4

\* A claim grows old.
LEMMA AgeKeeps ==
    ASSUME IInv, NEW p \in Paths, Age(p)
    PROVE  IInv'
  <1> USE DEF IInv
  <1>1. Typed'
    BY DEF Typed, Steps, Age, facts, disk
  <1>2. Painted' /\ \A q \in Paths : claims'[q] = "disk" <=> claims[q] = "disk"
    <2>1. /\ claims' \in Claims /\ UNCHANGED <<light, state, mount>>
          /\ \A q \in Paths : claims[q] = "none" => claims'[q] = "none"
          /\ \A q \in Paths : claims'[q] = "disk" <=> claims[q] = "disk"
      BY DEF Painted, Claims, Age, facts, disk
    <2>2. QED
      BY <2>1, UnpaintedSound DEF Warned, Connected
  <1>3. JobInv'
    BY DEF JobInv, Typed, Connected, Age, facts, disk
  <1>4. Covered'
    BY <1>2 DEF Covered, JobInv, Typed, Connected, Age, facts, disk
  <1>5. QED
    BY <1>1, <1>2, <1>3, <1>4

\* The prompt paints.
LEMMA PromptFiresKeeps ==
    ASSUME IInv, PromptFires
    PROVE  IInv'
  <1> USE DEF IInv
  <1>1. Typed'
    BY DEF Typed, Steps, PromptFires, facts, disk
  <1>2. Painted' /\ \A q \in Paths : claims'[q] = "disk" <=> claims[q] = "disk"
    <2>1. claims \in Claims /\ RenderLight(claims)
      BY DEF Painted, PromptFires
    <2>2. QED
      BY <1>1, <2>1, RenderSound
  <1>3. JobInv'
    BY DEF JobInv, Typed, Connected, PromptFires, facts, disk
  <1>4. Covered'
    BY <1>2 DEF Covered, JobInv, Typed, Connected, PromptFires, facts, disk
  <1>5. QED
    BY <1>1, <1>2, <1>3, <1>4

\* A connect begins.
LEMMA ConnectStartKeeps ==
    ASSUME IInv, ConnectStart
    PROVE  IInv'
  <1> USE DEF IInv
  <1>1. Typed'
    BY LightAssumption DEF Typed, Steps, ConnectStart, NoJob
  <1>2. Painted' /\ \A q \in Paths : claims'[q] = "disk" <=> claims[q] = "disk"
    <2>1. OnPhase(claims) /\ mount' = mount
      BY DEF ConnectStart
    <2>2. QED
      BY <1>1, <2>1, OnPhaseSound
  <1>3. JobInv'
    BY DEF JobInv, Typed, Connected, ConnectStart, NoJob
  <1>4. Covered'
    BY <1>2 DEF Covered, JobInv, Typed, Connected, ConnectStart, NoJob
  <1>5. QED
    BY <1>1, <1>2, <1>3, <1>4

\* A pass begins.
LEMMA PassStartKeeps ==
    ASSUME IInv, NEW kind \in {"full", "delta"}, PassStart(kind)
    PROVE  IInv'
  <1> USE DEF IInv
  <1>1. Typed'
    BY DEF Typed, Steps, PassStart, NoJob
  <1>2. Painted' /\ \A q \in Paths : claims'[q] = "disk" <=> claims[q] = "disk"
    <2>1. claims \in Claims /\ UNCHANGED <<claims, light, state, mount>>
      BY DEF Painted, PassStart, NoJob
    <2>2. QED
      BY <2>1, UnpaintedSound DEF Warned, Connected
  <1>3. JobInv'
    BY DEF JobInv, Typed, Connected, PassStart, NoJob
  <1>4. Covered'
    BY <1>2 DEF Covered, JobInv, Typed, Connected, PassStart, NoJob
  <1>5. QED
    BY <1>1, <1>2, <1>3, <1>4

\* A pass has its listing.
LEMMA ListedKeeps ==
    ASSUME IInv, Listed
    PROVE  IInv'
  <1> USE DEF IInv
  <1>1. Typed'
    BY DEF Typed, Steps, Listed, disk
  <1>2. Painted' /\ \A q \in Paths : claims'[q] = "disk" <=> claims[q] = "disk"
    <2>1. mount' = mount /\ (RenderLight(claims) \/ OnPhase(claims)) /\ claims \in Claims
      BY DEF Painted, Listed
    <2>2. QED
      BY <1>1, <2>1, RenderSound, OnPhaseSound
  <1>3. JobInv'
    BY DEF JobInv, Typed, Connected, Listed, disk
  <1>4. Covered'
    BY <1>2 DEF Covered, JobInv, Typed, Connected, Listed, disk
  <1>5. QED
    BY <1>1, <1>2, <1>3, <1>4

\* A pass sends a file.
LEMMA CompareKeeps ==
    ASSUME IInv, NEW p \in Paths, Compare(p)
    PROVE  IInv'
  <1> USE DEF IInv
  <1>1. Typed'
    BY DEF Typed, Steps, Compare
  <1>2. Painted' /\ \A q \in Paths : claims'[q] = "disk" <=> claims[q] = "disk"
    <2>1. claims \in Claims /\ UNCHANGED <<claims, light, state, mount>>
      BY DEF Painted, Compare
    <2>2. QED
      BY <2>1, UnpaintedSound DEF Warned, Connected
  <1>3. JobInv'
    BY DEF JobInv, Typed, Connected, Compare
  <1>4. Covered'
    BY <1>2 DEF Covered, JobInv, Typed, Connected, Compare
  <1>5. QED
    BY <1>1, <1>2, <1>3, <1>4

\* A file of a pass fails by itself.
LEMMA CompareFailsKeeps ==
    ASSUME IInv, NEW p \in Paths, CompareFails(p)
    PROVE  IInv'
  <1> USE DEF IInv
  <1>1. Typed'
    BY DEF Typed, Steps, CompareFails
  <1>2. Painted' /\ \A q \in Paths : claims'[q] = "disk" <=> claims[q] = "disk"
    <2>1. claims \in Claims /\ UNCHANGED <<claims, light, state>> /\ (mount' # "ok" => mount # "ok")
      BY DEF Painted, CompareFails
    <2>2. QED
      BY <2>1, UnpaintedSound DEF Warned, Connected
  <1>3. JobInv'
    BY DEF JobInv, Typed, Connected, CompareFails
  <1>4. Covered'
    BY <1>2 DEF Covered, JobInv, Typed, Connected, CompareFails
  <1>5. QED
    BY <1>1, <1>2, <1>3, <1>4

\* The count of a pass reaches zero.
LEMMA BulkDoneKeeps ==
    ASSUME IInv, BulkDone
    PROVE  IInv'
  <1> USE DEF IInv
  <1>1. Typed'
    BY DEF Typed, Steps, BulkDone, disk
  <1>2. Painted' /\ \A q \in Paths : claims'[q] = "disk" <=> claims[q] = "disk"
    <2>1. claims \in Claims /\ RenderLight(claims)
      BY DEF Painted, BulkDone
    <2>2. QED
      BY <1>1, <2>1, RenderSound
  <1>3. JobInv'
    BY DEF JobInv, Typed, Connected, BulkDone, disk
  <1>4. Covered'
    BY <1>2 DEF Covered, JobInv, Typed, Connected, BulkDone, disk
  <1>5. QED
    BY <1>1, <1>2, <1>3, <1>4

\* A connect settles every claim.
LEMMA FinishConnectKeeps ==
    ASSUME IInv, FinishConnect
    PROVE  IInv'
  <1> USE DEF IInv
  <1>1. Typed'
    BY DEF Typed, Steps, Settle, FinishConnect, PassOver
  <1>2. Painted' /\ \A q \in Paths : claims'[q] = "disk" <=> claims[q] = "disk" /\ q \notin Paths
    <2>1. Settle(Paths) /\ UNCHANGED <<state, mount>>
      BY DEF FinishConnect, PassOver
    <2>2. QED
      BY <1>1, <2>1, ClaimsSettled
  <1>3. JobInv'
    BY DEF JobInv, Typed, Connected, FinishConnect, PassOver
  <1>4. Covered'
    BY <1>2 DEF Covered, JobInv, Typed, Connected, Settle, FinishConnect, PassOver
  <1>5. QED
    BY <1>1, <1>2, <1>3, <1>4

\* A connect ends.
LEMMA ConnectDoneKeeps ==
    ASSUME IInv, ConnectDone
    PROVE  IInv'
  <1> USE DEF IInv
  <1>1. Typed'
    BY LightAssumption DEF Typed, Steps, ConnectDone, NoJob, disk
  <1>2. Painted' /\ \A q \in Paths : claims'[q] = "disk" <=> claims[q] = "disk"
    <2>1. OnPhase(claims) /\ mount' = mount
      BY DEF ConnectDone
    <2>2. QED
      BY <1>1, <2>1, OnPhaseSound
  <1>3. JobInv'
    BY DEF JobInv, Typed, Connected, ConnectDone, NoJob, disk
  <1>4. Covered'
    BY <1>2 DEF Covered, JobInv, Typed, Connected, ConnectDone, NoJob, disk
  <1>5. QED
    BY <1>1, <1>2, <1>3, <1>4

\* A full scan settles the claims older than itself.
LEMMA FullDoneKeeps ==
    ASSUME IInv, FullDone
    PROVE  IInv'
  <1> USE DEF IInv
  <1>1. Typed'
    BY DEF Typed, Steps, Settle, FullDone, PassOver, NoJob
  <1>2. Painted' /\ \A q \in Paths : claims'[q] = "disk" <=> claims[q] = "disk" /\ q \notin Paths \ late
    <2>1. Settle(Paths \ late) /\ UNCHANGED <<state, mount>>
      BY DEF FullDone, PassOver, NoJob
    <2>2. QED
      BY <1>1, <2>1, ClaimsSettled
  <1>3. JobInv'
    BY DEF JobInv, Typed, Connected, FullDone, PassOver, NoJob
  <1>4. Covered'
    BY <1>2 DEF Covered, JobInv, Typed, Connected, Settle, FullDone, PassOver, NoJob
  <1>5. QED
    BY <1>1, <1>2, <1>3, <1>4

\* A delta pass ends.
LEMMA DeltaDoneKeeps ==
    ASSUME IInv, DeltaDone
    PROVE  IInv'
  <1> USE DEF IInv
  <1>1. Typed'
    BY DEF Typed, Steps, DeltaDone, PassOver, NoJob, disk
  <1>2. Painted' /\ \A q \in Paths : claims'[q] = "disk" <=> claims[q] = "disk"
    <2>1. claims \in Claims /\ UNCHANGED <<claims, light, state, mount>>
      BY DEF Painted, DeltaDone, PassOver, NoJob, disk
    <2>2. QED
      BY <2>1, UnpaintedSound DEF Warned, Connected
  <1>3. JobInv'
    BY DEF JobInv, Typed, Connected, DeltaDone, PassOver, NoJob, disk
  <1>4. Covered'
    BY <1>2 DEF Covered, JobInv, Typed, Connected, DeltaDone, PassOver, NoJob, disk
  <1>5. QED
    BY <1>1, <1>2, <1>3, <1>4

\* A path event is handled or dropped.
LEMMA TakePathKeeps ==
    ASSUME IInv, NEW p \in Paths, TakePath(p)
    PROVE  IInv'
  <1> USE DEF IInv
  <1>1. Typed'
    BY DEF Typed, Steps, TakePath, NoJob
  <1>2. Painted' /\ \A q \in Paths : claims'[q] = "disk" <=> claims[q] = "disk"
    <2>1. OnPhase(claims) /\ mount' = mount
      BY DEF TakePath
    <2>2. QED
      BY <1>1, <2>1, OnPhaseSound
  <1>3. JobInv'
    BY DEF JobInv, Typed, Connected, TakePath, NoJob
  <1>4. Covered'
    BY <1>2 DEF Covered, JobInv, Typed, Connected, TakePath, NoJob
  <1>5. QED
    BY <1>1, <1>2, <1>3, <1>4

\* An upload begins.
LEMMA PathSendKeeps ==
    ASSUME IInv, PathSend
    PROVE  IInv'
  <1> USE DEF IInv
  <1>1. Typed'
    BY DEF Typed, Steps, PathSend, disk
  <1>2. Painted' /\ \A q \in Paths : claims'[q] = "disk" <=> claims[q] = "disk"
    <2>1. claims \in Claims /\ RenderLight(claims)
      BY DEF Painted, PathSend
    <2>2. QED
      BY <1>1, <2>1, RenderSound
  <1>3. JobInv'
    BY DEF JobInv, Typed, Connected, PathSend, disk
  <1>4. Covered'
    BY <1>2 DEF Covered, JobInv, Typed, Connected, PathSend, disk
  <1>5. QED
    BY <1>1, <1>2, <1>3, <1>4

\* An upload ends.
LEMMA PathSentKeeps ==
    ASSUME IInv, PathSent
    PROVE  IInv'
  <1> USE DEF IInv
  <1>1. Typed'
    BY DEF Typed, Steps, PathSent, Uploading
  <1>2. Painted' /\ \A q \in Paths : claims'[q] = "disk" <=> claims[q] = "disk"
    <2>1. claims \in Claims /\ RenderLight(claims)
      BY DEF Painted, PathSent
    <2>2. QED
      BY <1>1, <2>1, RenderSound
  <1>3. JobInv'
    BY DEF JobInv, Typed, Connected, PathSent, Uploading
  <1>4. Covered'
    BY <1>2 DEF Covered, JobInv, Typed, Connected, PathSent, Uploading
  <1>5. QED
    BY <1>1, <1>2, <1>3, <1>4

\* An upload meets a newer version.
LEMMA PathConflictKeeps ==
    ASSUME IInv, PathConflict
    PROVE  IInv'
  <1> USE DEF IInv
  <1>1. Typed'
    BY DEF Typed, Steps, PathConflict, Uploading
  <1>2. Painted' /\ \A q \in Paths : claims'[q] = "disk" <=> claims[q] = "disk"
    <2>1. claims \in Claims /\ RenderLight(claims)
      BY DEF Painted, PathConflict
    <2>2. QED
      BY <1>1, <2>1, RenderSound
  <1>3. JobInv'
    BY DEF JobInv, Typed, Connected, PathConflict, Uploading
  <1>4. Covered'
    BY <1>2 DEF Covered, JobInv, Typed, Connected, PathConflict, Uploading
  <1>5. QED
    BY <1>1, <1>2, <1>3, <1>4

\* A path event finds a file that cannot be read, or is held back.
LEMMA PathPassedOverKeeps ==
    ASSUME IInv, PathPassedOver
    PROVE  IInv'
  <1> USE DEF IInv
  <1>1. Typed'
    BY DEF Typed, Steps, PathPassedOver
  <1>2. Painted' /\ \A q \in Paths : claims'[q] = "disk" <=> claims[q] = "disk"
    <2>1. claims \in Claims /\ UNCHANGED <<claims, light, state>> /\ (mount' # "ok" => mount # "ok")
      BY DEF Painted, PathPassedOver
    <2>2. QED
      BY <2>1, UnpaintedSound DEF Warned, Connected
  <1>3. JobInv'
    BY DEF JobInv, Typed, Connected, PathPassedOver
  <1>4. Covered'
    BY <1>2 DEF Covered, JobInv, Typed, Connected, PathPassedOver
  <1>5. QED
    BY <1>1, <1>2, <1>3, <1>4

\* A path event ends.
LEMMA PathSettledKeeps ==
    ASSUME IInv, PathSettled
    PROVE  IInv'
  <1> USE DEF IInv
  <1>1. Typed'
    BY DEF Typed, Steps, Settle, PathSettled, NoJob
  <1>2. Painted' /\ \A q \in Paths : claims'[q] = "disk" <=> claims[q] = "disk" /\ q \notin {job.path}
    <2>1. Settle({job.path}) /\ UNCHANGED <<state, mount>>
      BY DEF PathSettled, NoJob
    <2>2. QED
      BY <1>1, <2>1, ClaimsSettled
  <1>3. JobInv'
    BY DEF JobInv, Typed, Connected, PathSettled, NoJob
  <1>4. Covered'
    BY <1>2 DEF Covered, JobInv, Typed, Connected, Settle, PathSettled, NoJob
  <1>5. QED
    BY <1>1, <1>2, <1>3, <1>4

\* The queue is empty.
LEMMA DrainedKeeps ==
    ASSUME IInv, Drained
    PROVE  IInv'
  <1> USE DEF IInv
  <1>1. Typed'
    BY DEF Typed, Steps, Drained, NoJob, disk
  <1>2. Painted' /\ \A q \in Paths : claims'[q] = "disk" <=> claims[q] = "disk"
    <2>1. OnPhase(claims) /\ mount' = mount
      BY DEF Drained
    <2>2. QED
      BY <1>1, <2>1, OnPhaseSound
  <1>3. JobInv'
    BY DEF JobInv, Typed, Connected, Drained, NoJob, disk
  <1>4. Covered'
    BY <1>2 DEF Covered, JobInv, Typed, Connected, Drained, NoJob, disk
  <1>5. QED
    BY <1>1, <1>2, <1>3, <1>4

\* An upload fails.
LEMMA PathFailedKeeps ==
    ASSUME IInv, PathFailed
    PROVE  IInv'
  <1> USE DEF IInv
  <1>1. Typed'
    BY DEF Typed, Steps, PathFailed, Uploading, disk
  <1>2. Painted' /\ \A q \in Paths : claims'[q] = "disk" <=> claims[q] = "disk"
    <2>1. claims \in Claims /\ UNCHANGED <<claims, light, state, mount>>
      BY DEF Painted, PathFailed, Uploading, disk
    <2>2. QED
      BY <2>1, UnpaintedSound DEF Warned, Connected
  <1>3. JobInv'
    BY DEF JobInv, Typed, Connected, PathFailed, Uploading, disk
  <1>4. Covered'
    BY <1>2 DEF Covered, JobInv, Typed, Connected, PathFailed, Uploading, disk
  <1>5. QED
    BY <1>1, <1>2, <1>3, <1>4

\* The engine goes offline.
LEMMA FailWithKeeps ==
    ASSUME IInv, NEW c \in Classes, FailWith(c)
    PROVE  IInv'
  <1> USE DEF IInv
  <1>1. Typed'
    BY LightAssumption DEF Typed, Steps, FailWith, NoJob, disk
  <1>2. Painted' /\ \A q \in Paths : claims'[q] = "disk" <=> claims[q] = "disk"
    <2>1. OnPhase(claims) /\ mount' = mount
      BY DEF FailWith
    <2>2. QED
      BY <1>1, <2>1, OnPhaseSound
  <1>3. JobInv'
    BY DEF JobInv, Typed, Connected, FailWith, NoJob, disk
  <1>4. Covered'
    BY <1>2 DEF Covered, JobInv, Typed, Connected, FailWith, NoJob, disk
  <1>5. QED
    BY <1>1, <1>2, <1>3, <1>4

\* The user disconnects.
LEMMA DisconnectKeeps ==
    ASSUME IInv, Disconnect
    PROVE  IInv'
  <1> USE DEF IInv
  <1>1. Typed'
    BY DEF Typed, Steps, Disconnect, NoJob, disk
  <1>2. Painted' /\ \A q \in Paths : claims'[q] = "disk" <=> claims[q] = "disk"
    <2>1. claims \in Claims /\ RenderLight(claims)
      BY DEF Painted, OnPhase, Disconnect
    <2>2. QED
      BY <1>1, <2>1, RenderSound
  <1>3. JobInv'
    BY DEF JobInv, Typed, Connected, Disconnect, NoJob, disk
  <1>4. Covered'
    BY <1>2 DEF Covered, JobInv, Typed, Connected, Disconnect, NoJob, disk
  <1>5. QED
    BY <1>1, <1>2, <1>3, <1>4

\* A mount reports.
LEMMA MountEventKeeps ==
    ASSUME IInv, NEW m \in Troubles \cup {"ok"}, MountEvent(m)
    PROVE  IInv'
  <1> USE DEF IInv
  <1>1. Typed'
    BY LightAssumption DEF Typed, Steps, MountEvent, disk
  <1>2. Painted' /\ \A q \in Paths : claims'[q] = "disk" <=> claims[q] = "disk"
    <2>1. claims \in Claims /\ RenderLight(claims)
      BY DEF Painted, MountEvent
    <2>2. QED
      BY <1>1, <2>1, RenderSound
  <1>3. JobInv'
    BY DEF JobInv, Typed, Connected, MountEvent, disk
  <1>4. Covered'
    BY <1>2 DEF Covered, JobInv, Typed, Connected, MountEvent, disk
  <1>5. QED
    BY <1>1, <1>2, <1>3, <1>4

\* A mount's trouble goes with its scope.
LEMMA ScopeDroppedKeeps ==
    ASSUME IInv, NEW m \in Troubles \cup {"ok"}, ScopeDropped(m)
    PROVE  IInv'
  <1> USE DEF IInv
  <1>1. Typed'
    BY LightAssumption DEF Typed, Steps, ScopeDropped, disk
  <1>2. Painted' /\ \A q \in Paths : claims'[q] = "disk" <=> claims[q] = "disk"
    <2>1. claims \in Claims /\ UNCHANGED <<claims, light, state>> /\ (mount' # "ok" => mount # "ok")
      BY DEF Painted, ScopeDropped
    <2>2. QED
      BY <2>1, UnpaintedSound DEF Warned, Connected
  <1>3. JobInv'
    BY DEF JobInv, Typed, Connected, ScopeDropped, disk
  <1>4. Covered'
    BY <1>2 DEF Covered, JobInv, Typed, Connected, ScopeDropped, disk
  <1>5. QED
    BY <1>1, <1>2, <1>3, <1>4

\* The time of a hold is up.
LEMMA TimeUpKeeps ==
    ASSUME IInv, TimeUp
    PROVE  IInv'
  <1> USE DEF IInv
  <1>1. Typed'
    BY DEF Typed, Steps, TimeUp, facts, disk
  <1>2. Painted' /\ \A q \in Paths : claims'[q] = "disk" <=> claims[q] = "disk"
    <2>1. UNCHANGED <<claims, state, mount>>
      BY DEF TimeUp, facts, disk
    <2>2. light' \in LightType /\ Timers(light') /\ Shown(light') /\ light'.shown = light.shown
          /\ light'.deferred = light.deferred /\ light'.mount = light.mount
      BY LightAssumption DEF Painted, LightType, Timers, Shown, TimeUp
    <2>3. QED
      BY <2>1, <2>2 DEF Painted, WarnsInv, Warned, GreenInv, Green, Connected, Claims
  <1>3. JobInv'
    BY DEF JobInv, Typed, Connected, TimeUp, facts, disk
  <1>4. Covered'
    BY <1>2 DEF Covered, JobInv, Typed, Connected, TimeUp, facts, disk
  <1>5. QED
    BY <1>1, <1>2, <1>3, <1>4

\* A hold timer fires.
LEMMA TimerFiresKeeps ==
    ASSUME IInv, TimerFires
    PROVE  IInv'
  <1> USE DEF IInv
  <1>1. Typed'
    BY DEF Typed, Steps, TimerFires, facts, disk
  <1>2. Painted' /\ \A q \in Paths : claims'[q] = "disk" <=> claims[q] = "disk"
    <2>1. UNCHANGED <<claims, state, mount>>
      BY DEF TimerFires, facts, disk
    <2> DEFINE k == [light EXCEPT !.timers = light.timers - 1, !.handle = FALSE]
    <2>2. light.timers > 0 /\ light' = ApplyLightAction(k, SettleLight(k))
      BY DEF Painted, LightType, TimerFires
    <2>3. /\ light' \in LightType /\ Timers(light') /\ Shown(light')
          /\ light'.shown \in Attention <=> light.shown \in Attention
          /\ Green(light') <=> Green(light)
          /\ light'.mount = light.mount
      <3> HIDE DEF k
      <3>1. k = [light EXCEPT !.timers = light.timers - 1, !.handle = FALSE]
        BY DEF k
      <3>2. QED
        BY <2>2, <3>1, ReleaseSound, ZenonT(60) DEF Painted
    <2>4. QED
      BY <2>1, <2>3 DEF Painted, WarnsInv, Warned, GreenInv, Connected
  <1>3. JobInv'
    BY DEF JobInv, Typed, Connected, TimerFires, facts, disk
  <1>4. Covered'
    BY <1>2 DEF Covered, JobInv, Typed, Connected, TimerFires, facts, disk
  <1>5. QED
    BY <1>1, <1>2, <1>3, <1>4

\* The app resumes.
LEMMA OnResumeKeeps ==
    ASSUME IInv, OnResume
    PROVE  IInv'
  <1> USE DEF IInv
  <1>1. Typed'
    BY DEF Typed, Steps, OnResume, facts, disk
  <1>2. Painted' /\ \A q \in Paths : claims'[q] = "disk" <=> claims[q] = "disk"
    <2>1. UNCHANGED <<claims, state, mount>>
      BY DEF OnResume, facts, disk
    <2> DEFINE k == [light EXCEPT !.timers = light.timers - 1, !.handle = FALSE]
    <2>2. light.timers > 0 /\ light' = ApplyLightAction(k, SettleLight(k))
      BY DEF Painted, LightType, Timers, OnResume
    <2>3. /\ light' \in LightType /\ Timers(light') /\ Shown(light')
          /\ light'.shown \in Attention <=> light.shown \in Attention
          /\ Green(light') <=> Green(light)
          /\ light'.mount = light.mount
      <3> HIDE DEF k
      <3>1. k = [light EXCEPT !.timers = light.timers - 1, !.handle = FALSE]
        BY DEF k
      <3>2. QED
        BY <2>2, <3>1, ReleaseSound, ZenonT(60) DEF Painted
    <2>4. QED
      BY <2>1, <2>3 DEF Painted, WarnsInv, Warned, GreenInv, Connected
  <1>3. JobInv'
    BY DEF JobInv, Typed, Connected, OnResume, facts, disk
  <1>4. Covered'
    BY <1>2 DEF Covered, JobInv, Typed, Connected, OnResume, facts, disk
  <1>5. QED
    BY <1>1, <1>2, <1>3, <1>4

\* The light is painted again.
LEMMA RepaintKeeps ==
    ASSUME IInv, Repaint
    PROVE  IInv'
  <1> USE DEF IInv
  <1>1. Typed'
    BY DEF Typed, Steps, Repaint, facts, disk
  <1>2. Painted' /\ \A q \in Paths : claims'[q] = "disk" <=> claims[q] = "disk"
    <2>1. claims \in Claims /\ RenderLight(claims)
      BY DEF Painted, Repaint
    <2>2. QED
      BY <1>1, <2>1, RenderSound
  <1>3. JobInv'
    BY DEF JobInv, Typed, Connected, Repaint, facts, disk
  <1>4. Covered'
    BY <1>2 DEF Covered, JobInv, Typed, Connected, Repaint, facts, disk
  <1>5. QED
    BY <1>1, <1>2, <1>3, <1>4

-----------------------------------------------------------------------------
(* The theorems *)

\* The plugin starts in the invariant.
LEMMA InitInv == Init => IInv
  <1> SUFFICES ASSUME Init PROVE IInv
    OBVIOUS
  <1>1. Typed
    BY DEF Init, Typed, Steps, NoJob
  <1>2. claims \in Claims /\ light \in LightType
    BY DEF Init, Claims, LightType, Phases
  <1>3. Timers(light) /\ Shown(light)
    BY LightAssumption DEF Init, Timers, Shown, Attention
  <1>4. WarnsInv /\ GreenInv
    BY DEF Init, WarnsInv, Warned, GreenInv, Green, Attention
  <1>5. JobInv /\ Covered
    BY DEF Init, JobInv, Covered, Connected, NoJob
  <1>6. QED
    BY <1>1, <1>2, <1>3, <1>4, <1>5 DEF IInv, Painted

\* Every step keeps the invariant.
LEMMA StepInv == IInv /\ [Next]_vars => IInv'
  <1> SUFFICES ASSUME IInv, [Next]_vars PROVE IInv'
    OBVIOUS
  <1>1. ASSUME JobStep PROVE IInv'
    BY <1>1, ListedKeeps, BulkDoneKeeps, FinishConnectKeeps, ConnectDoneKeeps, FullDoneKeeps, DeltaDoneKeeps,
       PathSendKeeps, PathSentKeeps, PathSettledKeeps, CompareKeeps DEF JobStep
  <1>2. ASSUME ConnectStart \/ PassStart("full") \/ PassStart("delta") \/ Drained PROVE IInv'
    BY <1>2, ConnectStartKeeps, PassStartKeeps, DrainedKeeps
  <1>3. ASSUME PathFailed \/ Disconnect \/ PromptFires \/ TimeUp \/ TimerFires \/ OnResume \/ Repaint PROVE IInv'
    BY <1>3, PathFailedKeeps, DisconnectKeeps, PromptFiresKeeps, TimeUpKeeps, TimerFiresKeeps, OnResumeKeeps,
       RepaintKeeps
  <1>4. ASSUME NEW p \in Paths, Keystroke(p) \/ Save(p) \/ Age(p) \/ TakePath(p) PROVE IInv'
    BY <1>4, KeystrokeKeeps, SaveKeeps, AgeKeeps, TakePathKeeps
  <1>5. ASSUME NEW c \in Classes, FailWith(c) PROVE IInv'
    BY <1>5, FailWithKeeps
  <1>6. ASSUME NEW m \in Troubles \cup {"ok"}, MountEvent(m) \/ ScopeDropped(m) PROVE IInv'
    BY <1>6, MountEventKeeps, ScopeDroppedKeeps
  <1>7. ASSUME UNCHANGED vars PROVE IInv'
    BY <1>7 DEF vars, facts, disk, IInv, Typed, Painted, WarnsInv, Warned, GreenInv, JobInv, Covered, Connected
  <1>8. ASSUME PathConflict \/ PathPassedOver \/ \E p \in Paths : CompareFails(p) PROVE IInv'
    BY <1>8, PathConflictKeeps, PathPassedOverKeeps, CompareFailsKeeps
  <1>9. QED
    BY <1>1, <1>2, <1>3, <1>4, <1>5, <1>6, <1>7, <1>8 DEF Next

\* The inductive invariant holds in every state the plugin reaches.
THEOREM Invariant == Spec => []IInv
  <1>1. QED
    BY InitInv, StepInv, PTL DEF Spec

\* The variables of main.ts and of the display machine keep their types, and no more than MaxLate
\* timers leak (statuslight.ts, main.ts applyLightAction).
THEOREM TypeCorrect == Spec => []TypeOK
  <1>1. IInv => TypeOK
    <2> SUFFICES ASSUME IInv PROVE TypeOK
      OBVIOUS
    <2>1. MaxLate \in Nat /\ light.timers \in Nat /\ light.timers <= MaxLate + 1
      BY LightAssumption DEF IInv, Painted, LightType, Timers
    <2>2. light.timers \in 0 .. MaxLate + 1
      BY <2>1
    <2>3. QED
      BY <2>2 DEF IInv, Typed, Painted, LightType, Claims, Timers, Steps, TypeOK
  <1>2. QED
    BY <1>1, Invariant, PTL

\* A held light always has a timer left that will release it, however many timers a suspended app
\* leaked before (main.ts applyLightAction).
THEOREM HoldEndsHolds == Spec => []HoldEnds
  <1>1. IInv => HoldEnds
    BY DEF IInv, Painted, Timers, HoldEnds
  <1>2. QED
    BY <1>1, Invariant, PTL

\* The light warns while the link is down or a mount is in trouble, and of nothing else but a
\* mount's trouble that went unpainted: no failure waits for a hold or is missed because nothing
\* painted (statuslight.ts, main.ts renderLight, removeMount).
THEOREM WarnsAtOnceHolds == Spec => []WarnsAtOnce
  <1>1. IInv => WarnsAtOnce
    <2> SUFFICES ASSUME IInv PROVE WarnsAtOnce
      OBVIOUS
    <2>1. ASSUME NEW m \in {"ok", "offline", "error"}
          PROVE  Truth(m) \in Attention <=> state = "disconnected" \/ (state # "connecting" /\ m # "ok")
      BY ProjectionSound DEF IInv, Typed, Painted, Truth
    <2>2. mount \in {"ok", "offline", "error"} /\ light.mount \in {"ok", "offline", "error"}
      BY DEF IInv, Typed, Painted, LightType
    <2>3. QED
      BY <2>1, <2>2 DEF IInv, Painted, WarnsInv, Warned, WarnsAtOnce
  <1>2. QED
    BY <1>1, Invariant, PTL

\* "Fully synced" is never shown over a file the server does not have, but for the exceptions
\* GreenIsTrue names (main.ts unsyncedEdits, reconcile.ts isolatedPass and reconcilePath).
THEOREM GreenIsTrueHolds == Spec => []GreenIsTrue
  <1>1. IInv => GreenIsTrue
    <2> SUFFICES ASSUME IInv, light.shown = "idle" PROVE GreenIsTrue
      BY DEF GreenIsTrue
    <2>1. Connected /\ \A p \in Paths : claims[p] = "none"
      BY DEF IInv, Painted, GreenInv, Green
    <2>2. unsent \subseteq Paths
      BY DEF IInv, Typed
    <2>3. QED
      BY <2>1, <2>2 DEF IInv, Covered, GreenIsTrue
  <1>2. QED
    BY <1>1, Invariant, PTL
=============================================================================
