------------------------- MODULE NoteConflictProofs -------------------------
(***************************************************************************)
(* Proofs about NoteConflict, for any number of modals, edits and faults,  *)
(* without RacyMoves.  While a modal shows the copy, the copy is what it   *)
(* shows or gone; so whatever a resolution read of it is what every other  *)
(* modal shows too, and what the sweep is about to remove stays covered    *)
(* when a resolution writes over the note.                                 *)
(***************************************************************************)
EXTENDS NoteConflict, TLAPS

ModalType ==
    [open : BOOLEAN, shows : BOOLEAN, theirs : Content, mine : Content, blind : BOOLEAN,
     rs : {"idle", "local", "uploading", "done", "stale", "failed"}, saw : BOOLEAN,
     choice : Choices \cup {"none"}, step : Steps, bytes : Content]

Typed ==
    /\ note \in Content /\ copy \in Content /\ settled \in Content /\ unread \in Content
    /\ text \in BOOLEAN /\ sweep \in BOOLEAN /\ busy \in BOOLEAN
    /\ edits \in 0 .. MaxEdits /\ faults \in 0 .. MaxFaults
    /\ modal \in [Modals -> ModalType]

\* What a modal with the value r relies on, of note n, copy c, text t and settled s.
Sane(r, n, c, t, s) ==
    /\ r.rs = "local" <=> r.step # "none"
    /\ r.rs = "local" => r.shows
    /\ r.shows => c \in {r.mine, {}}
    /\ r.step \in {"writing", "keepingWrite"} => r.bytes = r.mine
    /\ r.step = "removingCopy" /\ r.choice # "theirs" => c \subseteq n \cup s
    /\ ~t /\ r.shows => n \subseteq r.theirs \cup r.mine

ModalInv == \A m \in Modals : Sane(modal[m], note, copy, text, settled)

\* Modals that show a copy show the same one.
OneCopy == \A m, o \in Modals : modal[m].shows /\ modal[o].shows => modal[m].mine = modal[o].mine

SweepInv == sweep => copy \subseteq note \cup settled

IInv == Typed /\ ModalInv /\ OneCopy /\ SweepInv /\ NoUnseenLoss

-----------------------------------------------------------------------------
(* The modals *)

\* A step of one modal that leaves the files alone, and shows what it showed or what is there.
LEMMA ModalKeeps ==
    ASSUME IInv, NEW m \in Modals, NEW r \in ModalType, modal' = [modal EXCEPT ![m] = r],
           Sane(r, note, copy, text, settled'), settled \subseteq settled', settled' \in Content,
           faults' \in 0 .. MaxFaults,
           r.shows => (modal[m].shows /\ r.mine = modal[m].mine) \/ (copy # {} /\ r.mine = copy),
           UNCHANGED <<note, copy, text, unread, sweep, busy, edits>>
    PROVE  IInv'
  <1>1. modal \in [Modals -> ModalType] /\ modal'[m] = r /\ \A o \in Modals \ {m} : modal'[o] = modal[o]
    BY DEF IInv, Typed
  <1>2. Typed'
    BY DEF IInv, Typed
  <1>3. ModalInv'
    <2> SUFFICES ASSUME NEW o \in Modals PROVE Sane(modal'[o], note, copy, text, settled')
      BY DEF ModalInv
    <2>1. CASE o = m
      BY <1>1, <2>1
    <2>2. CASE o # m
      <3>1. modal'[o] = modal[o] /\ Sane(modal[o], note, copy, text, settled)
        BY <1>1, <2>2 DEF IInv, ModalInv
      <3>2. QED
        BY <3>1 DEF Sane
    <2>3. QED
      BY <2>1, <2>2
  <1>4. OneCopy'
    <2>1. \A o \in Modals : modal[o].shows => copy \in {modal[o].mine, {}}
      BY DEF IInv, ModalInv, Sane
    <2>2. QED
      BY <1>1, <2>1 DEF IInv, OneCopy
  <1>5. SweepInv' /\ NoUnseenLoss'
    BY DEF IInv, SweepInv, NoUnseenLoss
  <1>6. QED
    BY <1>2, <1>3, <1>4, <1>5 DEF IInv

\* The local part of a resolution ends: the modal shows nothing until it is reset.
LEMMA LeavesSound ==
    ASSUME Typed, NEW m \in Modals, modal[m].rs = "local", NEW e \in {"localDone", "stale", "error"}, Leaves(m, e)
    PROVE  \E r \in ModalType : /\ modal' = [modal EXCEPT ![m] = r]
                                /\ r.rs # "local" /\ r.step = "none" /\ r.shows = FALSE
  <1> DEFINE x == Machine(modal[m].rs, FALSE, e)
             r == [Closed EXCEPT !.open = modal[m].open, !.rs = x]
  <1>1. x \in {"uploading", "stale", "failed"}
    BY DEF Machine
  <1>2. modal[m].open \in BOOLEAN
    BY DEF Typed, ModalType
  <1>3. modal' = [modal EXCEPT ![m] = r]
    BY DEF Leaves
  <1> HIDE DEF x
  <1>4. Closed \in ModalType /\ Closed.step = "none" /\ Closed.shows = FALSE
    BY DEF Closed, ModalType, Steps, Content
  <1>5. r \in ModalType /\ r.rs # "local" /\ r.step = "none" /\ r.shows = FALSE
    BY <1>1, <1>2, <1>4 DEF ModalType
  <1>6. QED
    BY <1>3, <1>5

\* So an end that leaves the files alone keeps the invariant.
LEMMA LeavesKeeps ==
    ASSUME IInv, NEW m \in Modals, modal[m].rs = "local", NEW e \in {"localDone", "stale", "error"}, Leaves(m, e),
           faults' \in 0 .. MaxFaults, UNCHANGED <<note, copy, text, settled, unread, sweep, busy, edits>>
    PROVE  IInv'
  <1>1. Typed /\ settled \in Content
    BY DEF IInv, Typed
  <1>2. PICK r \in ModalType : /\ modal' = [modal EXCEPT ![m] = r]
                               /\ r.rs # "local" /\ r.step = "none" /\ r.shows = FALSE
    BY <1>1, LeavesSound
  <1>3. Sane(r, note, copy, text, settled')
    BY <1>2 DEF Sane
  <1>4. QED
    BY <1>1, <1>2, <1>3, ModalKeeps

\* A fault counts within its bound.
LEMMA SpendSound == ASSUME Typed, Spend \/ UNCHANGED faults PROVE faults' \in 0 .. MaxFaults
  BY NoteConflictAssumption DEF Typed, Spend

\* A step from one part of a resolution to the next that reads nothing.
LEMMA StepOnly ==
    ASSUME Typed, NEW m \in Modals, NEW s
    PROVE  /\ [modal[m] EXCEPT !.step = s] = [modal[m] EXCEPT !.step = s, !.bytes = modal[m].bytes]
           /\ modal[m].bytes \in Content
  <1>1. modal[m] \in ModalType
    BY DEF Typed
  <1>2. QED
    BY <1>1 DEF ModalType

\* What a modal shows when it opens or is reset, of what it could read.
LEMMA ShownSound ==
    ASSUME IInv, NEW u \in SUBSET {"theirs", "mine"}, u = {} \/ text, NEW r, r = Shown(u)
    PROVE  /\ r \in ModalType /\ Sane(r, note, copy, text, settled)
           /\ r.shows => copy # {} /\ r.mine = copy
  <1>1. note \in Content /\ copy \in Content /\ {} \in Content
    BY DEF IInv, Typed, Content
  <1>2. CASE ~Listed
    <2>1. r = [open |-> TRUE, shows |-> FALSE, theirs |-> {}, mine |-> {}, blind |-> FALSE, rs |-> "idle",
               saw |-> FALSE, choice |-> "none", step |-> "none", bytes |-> {}]
      BY <1>2 DEF Shown, Closed
    <2>2. QED
      BY <1>1, <2>1 DEF ModalType, Steps, Sane
  <1>3. CASE Listed
    <2>1. PICK t, b : t = (IF "theirs" \in u THEN {} ELSE note) /\ b = ("mine" \in u)
      OBVIOUS
    <2>2. t \in {{}, note} /\ b \in BOOLEAN /\ (~text => t = note)
      BY <2>1
    <2>3. r = [open |-> TRUE, shows |-> TRUE, theirs |-> t, mine |-> copy, blind |-> b, rs |-> "idle",
               saw |-> FALSE, choice |-> "none", step |-> "none", bytes |-> {}]
      BY <1>3, <2>1 DEF Shown, Closed
    <2>4. QED
      BY <1>1, <1>3, <2>2, <2>3 DEF ModalType, Steps, Sane, Listed
  <1>4. QED
    BY <1>2, <1>3

\* So a render that leaves the files alone keeps the invariant.
LEMMA RenderKeeps ==
    ASSUME IInv, NEW m \in Modals, Render(m), UNCHANGED <<note, copy, text, settled, unread, sweep, busy, edits>>
    PROVE  IInv'
  <1>1. Typed /\ settled \in Content
    BY DEF IInv, Typed
  <1>2. PICK u \in SUBSET {"theirs", "mine"} :
            /\ (u = {} \/ text) /\ (Spend \/ UNCHANGED faults)
            /\ modal' = [modal EXCEPT ![m] = Shown(u)]
    BY DEF Render
  <1>3. faults' \in 0 .. MaxFaults
    BY <1>1, <1>2, SpendSound
  <1>4. QED
    BY <1>1, <1>2, <1>3, ShownSound, ModalKeeps

-----------------------------------------------------------------------------
(* The actions *)

\* A modal opens or closes.
LEMMA OpenKeeps ==
    ASSUME IInv, NEW m \in Modals, Open(m) \/ Close(m)
    PROVE  IInv'
  <1>1. Typed /\ settled \in Content /\ modal[m] \in ModalType /\ Sane(modal[m], note, copy, text, settled)
    BY DEF IInv, Typed, ModalInv
  <1>2. UNCHANGED <<note, copy, text, settled, unread, sweep, busy, edits>>
    BY DEF Open, Close
  <1>4. CASE Open(m)
    BY <1>2, <1>4, RenderKeeps DEF Open
  <1>5. CASE Close(m)
    <2>0. faults' \in 0 .. MaxFaults
      BY <1>1, <1>5 DEF Typed, Close
    <2> DEFINE r == IF modal[m].rs = "idle" THEN Closed ELSE [modal[m] EXCEPT !.open = FALSE]
    <2>1. modal' = [modal EXCEPT ![m] = r]
      BY <1>1, <1>5 DEF Close, Typed
    <2>2. CASE modal[m].rs = "idle"
      <3>1. Closed \in ModalType /\ Sane(Closed, note, copy, text, settled) /\ Closed.shows = FALSE
        BY DEF Closed, ModalType, Steps, Content, Sane
      <3>2. modal' = [modal EXCEPT ![m] = Closed]
        BY <2>1, <2>2
      <3>3. QED
        BY <1>1, <1>2, <2>0, <3>1, <3>2, ModalKeeps
    <2>3. CASE modal[m].rs # "idle"
      <3>1. /\ r \in ModalType /\ r.rs = modal[m].rs /\ r.step = modal[m].step /\ r.shows = modal[m].shows
            /\ r.mine = modal[m].mine /\ r.theirs = modal[m].theirs /\ r.bytes = modal[m].bytes
            /\ r.choice = modal[m].choice
        BY <1>1, <2>3 DEF ModalType
      <3> HIDE DEF r
      <3>2. Sane(r, note, copy, text, settled)
        BY <1>1, <3>1 DEF Sane
      <3>3. QED
        BY <1>1, <1>2, <2>0, <2>1, <3>1, <3>2, ModalKeeps
    <2>4. QED
      BY <2>2, <2>3
  <1>6. QED
    BY <1>4, <1>5

\* A resolution starts, on a modal that shows both versions.
LEMMA ResolveKeeps ==
    ASSUME IInv, NEW m \in Modals, NEW choice \in Choices, Resolve(m, choice)
    PROVE  IInv'
  <1>1. Typed /\ settled \in Content /\ modal[m] \in ModalType /\ Sane(modal[m], note, copy, text, settled)
    BY DEF IInv, Typed, ModalInv
  <1>2. UNCHANGED <<note, copy, text, settled, unread, sweep, busy, edits, faults>>
    BY DEF Resolve
  <1>3. faults' \in 0 .. MaxFaults
    BY <1>1, <1>2 DEF Typed
  <1> DEFINE s == CASE choice = "mine" -> "checking" [] choice = "both" -> "keepingBoth"
                    [] choice = "theirs" -> "removingCopy"
             r == [modal[m] EXCEPT !.rs = "local", !.choice = choice, !.step = s]
  <1>4. s \in {"checking", "keepingBoth", "removingCopy"} /\ (s = "removingCopy" => choice = "theirs")
    BY DEF Choices
  <1>5. modal[m].shows /\ modal[m].rs = "idle"
    BY DEF Resolve
  <1>6. modal' = [modal EXCEPT ![m] = r]
    <2>1. Machine(modal[m].rs, FALSE, "start") = "local"
      BY <1>5 DEF Machine
    <2>2. modal' = [modal EXCEPT ![m] = [modal[m] EXCEPT !.rs = Machine(modal[m].rs, FALSE, "start"),
                                                         !.choice = choice, !.step = s]]
      BY Zenon DEF Resolve
    <2>3. QED
      BY <2>1, <2>2
  <1> HIDE DEF s
  <1>7. /\ r \in ModalType /\ r.rs = "local" /\ r.step = s /\ r.shows = modal[m].shows
        /\ r.mine = modal[m].mine /\ r.theirs = modal[m].theirs /\ r.choice = choice
    BY <1>1, <1>4 DEF ModalType, Steps
  <1> HIDE DEF r
  <1>8. Sane(r, note, copy, text, settled)
    BY <1>1, <1>4, <1>5, <1>7 DEF Sane
  <1>9. QED
    BY <1>1, <1>2, <1>3, <1>6, <1>7, <1>8, ModalKeeps

\* The wait for the upload, and the end of it.
LEMMA UploadTickKeeps ==
    ASSUME IInv, NEW m \in Modals, UploadTick(m)
    PROVE  IInv'
  <1>1. Typed /\ settled \in Content /\ modal[m] \in ModalType /\ Sane(modal[m], note, copy, text, settled)
    BY DEF IInv, Typed, ModalInv
  <1>2. UNCHANGED <<note, copy, text, settled, unread, sweep, busy, edits, faults>> /\ modal[m].rs = "uploading"
    BY DEF UploadTick
  <1>3. faults' \in 0 .. MaxFaults
    BY <1>1, <1>2 DEF Typed
  <1>4. PICK e \in Sees(m) :
            modal' = [modal EXCEPT ![m] = [@ EXCEPT !.rs = Machine(modal[m].rs, modal[m].saw, e),
                                                    !.saw = modal[m].saw \/ e = "engineBusy"]]
    BY DEF UploadTick
  <1> DEFINE x == Machine(modal[m].rs, modal[m].saw, e)
             w == modal[m].saw \/ e = "engineBusy"
             r == [modal[m] EXCEPT !.rs = x, !.saw = w]
  <1>5. e \in {"engineBusy", "capElapsed", "engineIdle", "nothing", "graceElapsed"}
    BY DEF Sees
  <1>6. x \in {"uploading", "done"} /\ w \in BOOLEAN
    BY <1>1, <1>2, <1>5 DEF Machine, ModalType
  <1>7. modal' = [modal EXCEPT ![m] = r]
    BY <1>4, Zenon
  <1> HIDE DEF x, w
  <1>8. /\ r \in ModalType /\ r.rs = x /\ r.step = modal[m].step /\ r.shows = modal[m].shows
        /\ r.mine = modal[m].mine /\ r.theirs = modal[m].theirs /\ r.bytes = modal[m].bytes
        /\ r.choice = modal[m].choice
    BY <1>1, <1>6 DEF ModalType
  <1> HIDE DEF r
  <1>9. Sane(r, note, copy, text, settled)
    BY <1>1, <1>2, <1>6, <1>8 DEF Sane
  <1>10. QED
    BY <1>1, <1>2, <1>3, <1>7, <1>8, <1>9, ModalKeeps

\* The machine is reset.
LEMMA ResetKeeps ==
    ASSUME IInv, NEW m \in Modals, Reset(m)
    PROVE  IInv'
  <1>1. Typed /\ settled \in Content
    BY DEF IInv, Typed
  <1>2. UNCHANGED <<note, copy, text, settled, unread, sweep, busy, edits>>
    BY DEF Reset
  <1>3. CASE modal[m].open
    BY <1>2, <1>3, RenderKeeps DEF Reset
  <1>4. CASE ~modal[m].open
    <2>1. modal' = [modal EXCEPT ![m] = Closed] /\ faults' \in 0 .. MaxFaults
      BY <1>1, <1>4 DEF Reset, Typed
    <2>2. Closed \in ModalType /\ Sane(Closed, note, copy, text, settled) /\ Closed.shows = FALSE
      BY DEF Closed, ModalType, Steps, Content, Sane
    <2>3. QED
      BY <1>1, <1>2, <2>1, <2>2, ModalKeeps
  <1>5. QED
    BY <1>3, <1>4

\* A resolution goes on to a step s that needs nothing of the files, with what it read of the copy.
LEMMA GoesKeeps ==
    ASSUME IInv, NEW m \in Modals, modal[m].rs = "local", NEW s \in Steps \ {"none"}, NEW b \in Content,
           NEW r, r = [modal[m] EXCEPT !.step = s, !.bytes = b], modal' = [modal EXCEPT ![m] = r],
           s \in {"writing", "keepingWrite"} => b = copy /\ copy # {},
           s = "removingCopy" => copy \subseteq settled',
           settled \subseteq settled', settled' \in Content, faults' \in 0 .. MaxFaults,
           UNCHANGED <<note, copy, text, unread, sweep, busy, edits>>
    PROVE  IInv'
  <1>1. modal[m] \in ModalType /\ Sane(modal[m], note, copy, text, settled)
    BY DEF IInv, Typed, ModalInv
  <1>2. /\ r \in ModalType /\ r.rs = "local" /\ r.shows = modal[m].shows /\ r.step = s /\ r.bytes = b
        /\ r.mine = modal[m].mine /\ r.theirs = modal[m].theirs
    BY <1>1 DEF ModalType
  <1>3. Sane(r, note, copy, text, settled')
    BY <1>1, <1>2 DEF Sane
  <1>4. QED
    BY <1>1, <1>2, <1>3, ModalKeeps

\* The preview is checked.
LEMMA CheckKeeps ==
    ASSUME IInv, NEW m \in Modals, Check(m)
    PROVE  IInv'
  <1>1. Typed /\ settled \in Content /\ modal[m].rs = "local"
    BY DEF IInv, Typed, Check, At
  <1>2. UNCHANGED <<note, copy, text, settled, unread, sweep, busy, edits>> /\ (Spend \/ UNCHANGED faults)
    BY DEF Check
  <1>3. faults' \in 0 .. MaxFaults
    BY <1>1, <1>2, SpendSound
  <1>4. Goes(m, "reading") \/ Leaves(m, "localDone") \/ Leaves(m, "stale")
    BY DEF Check
  <1>5. CASE Goes(m, "reading")
    <2>1. modal' = [modal EXCEPT ![m] = [modal[m] EXCEPT !.step = "reading", !.bytes = modal[m].bytes]]
          /\ modal[m].bytes \in Content
      BY <1>1, <1>5, StepOnly DEF Goes, Typed
    <2>2. "reading" \in Steps \ {"none"}
      BY DEF Steps
    <2>3. QED
      BY <1>1, <1>2, <1>3, <2>1, <2>2, GoesKeeps
  <1>6. QED
    BY <1>1, <1>2, <1>3, <1>4, <1>5, LeavesKeeps

\* The copy is read, to be written over the note or to a new one.
LEMMA ReadKeeps ==
    ASSUME IInv, NEW m \in Modals, ReadCopy(m) \/ KeepBoth(m)
    PROVE  IInv'
  <1>1. Typed /\ settled \in Content /\ copy \in Content /\ modal[m].rs = "local"
    BY DEF IInv, Typed, ReadCopy, KeepBoth, At
  <1>2. UNCHANGED <<note, copy, text, settled, unread, sweep, busy, edits>> /\ (Spend \/ UNCHANGED faults)
    BY DEF ReadCopy, KeepBoth
  <1>3. faults' \in 0 .. MaxFaults
    BY <1>1, <1>2, SpendSound
  <1>4. \/ copy # {} /\ \E s \in {"writing", "keepingWrite"} :
               modal' = [modal EXCEPT ![m] = [modal[m] EXCEPT !.step = s, !.bytes = copy]]
        \/ Leaves(m, "localDone") \/ Leaves(m, "error")
    BY <1>1 DEF ReadCopy, KeepBoth, Typed
  <1>5. ASSUME copy # {}, NEW s \in {"writing", "keepingWrite"},
               modal' = [modal EXCEPT ![m] = [modal[m] EXCEPT !.step = s, !.bytes = copy]]
        PROVE  IInv'
    <2>1. s \in Steps \ {"none"} /\ s # "removingCopy"
      BY DEF Steps
    <2>2. QED
      BY <1>1, <1>2, <1>3, <1>5, <2>1, GoesKeeps
  <1>6. QED
    BY <1>1, <1>2, <1>3, <1>4, <1>5, LeavesKeeps

\* "Keep both": what was read is written to a note of its own, and covers the copy.
LEMMA KeepWriteKeeps ==
    ASSUME IInv, NEW m \in Modals, KeepWrite(m)
    PROVE  IInv'
  <1>1. Typed /\ settled \in Content /\ modal[m].rs = "local" /\ modal[m].step = "keepingWrite"
        /\ modal[m] \in ModalType /\ Sane(modal[m], note, copy, text, settled)
    BY DEF IInv, Typed, ModalInv, KeepWrite, At
  <1>2. UNCHANGED <<note, copy, text, unread, sweep, busy, edits>> /\ (Spend \/ UNCHANGED faults)
    BY DEF KeepWrite
  <1>3. faults' \in 0 .. MaxFaults
    BY <1>1, <1>2, SpendSound
  <1>4. CASE settled' = settled \cup modal[m].bytes /\ Goes(m, "removingCopy")
    <2>1. modal' = [modal EXCEPT ![m] = [modal[m] EXCEPT !.step = "removingCopy", !.bytes = modal[m].bytes]]
          /\ modal[m].bytes \in Content
      BY <1>1, <1>4, StepOnly DEF Goes, Typed
    <2>2. copy \subseteq modal[m].bytes
      BY <1>1 DEF Sane
    <2>3. settled' \in Content /\ "removingCopy" \in Steps \ {"none"}
      BY <1>1, <1>4, <2>1 DEF Content, Steps
    <2>4. QED
      BY <1>1, <1>2, <1>3, <1>4, <2>1, <2>2, <2>3, GoesKeeps
  <1>5. CASE Leaves(m, "error") /\ UNCHANGED settled
    BY <1>1, <1>2, <1>3, <1>5, LeavesKeeps
  <1>6. QED
    BY <1>4, <1>5 DEF KeepWrite

\* "Keep mine": the copy is written over the version the modal showed, and over nothing newer.
LEMMA WriteNoteKeeps ==
    ASSUME IInv, NEW m \in Modals, WriteNote(m)
    PROVE  IInv'
  <1>1. Typed /\ settled \in Content /\ note \in Content /\ modal[m].rs = "local" /\ modal[m].step = "writing"
        /\ modal[m] \in ModalType /\ Sane(modal[m], note, copy, text, settled)
    BY DEF IInv, Typed, ModalInv, WriteNote, At
  <1>2. UNCHANGED <<copy, text, unread, sweep, busy, edits>> /\ (Spend \/ UNCHANGED faults)
    BY DEF WriteNote
  <1>3. faults' \in 0 .. MaxFaults
    BY <1>1, <1>2, SpendSound
  <1>4. ASSUME PreviewStillCurrent(m), note' = modal[m].bytes, settled' = settled \cup modal[m].theirs,
               Goes(m, "removingCopy")
        PROVE  IInv'
    <2>1. /\ note' = modal[m].mine /\ modal[m].shows = TRUE /\ copy \in {modal[m].mine, {}}
          /\ (~text => note \subseteq modal[m].theirs \cup modal[m].mine)
      BY <1>1, <1>4 DEF Sane, ModalType
    <2>2. PICK r : r = [modal[m] EXCEPT !.step = "removingCopy"]
      OBVIOUS
    <2>3. modal' = [modal EXCEPT ![m] = r]
      BY <1>4, <2>2 DEF Goes
    <2>4. /\ r \in ModalType /\ r.rs = "local" /\ r.step = "removingCopy" /\ r.shows = TRUE
          /\ r.mine = modal[m].mine /\ r.theirs = modal[m].theirs
      BY <1>1, <2>1, <2>2 DEF ModalType, Steps
    <2>5. modal'[m] = r /\ \A o \in Modals \ {m} : modal'[o] = modal[o]
      BY <1>1, <2>3 DEF Typed
    <2>6. Typed'
      <3>1. modal' \in [Modals -> ModalType]
        BY <1>1, <2>3, <2>4 DEF Typed
      <3>2. note' \in Content /\ settled' \in Content
        BY <1>1, <1>4, <2>1 DEF ModalType, Content
      <3>3. QED
        BY <1>1, <1>2, <1>3, <3>1, <3>2 DEF Typed
    <2>7. copy \subseteq note' /\ settled \subseteq settled'
      BY <1>4, <2>1
    <2>8. ModalInv'
      <3> SUFFICES ASSUME NEW o \in Modals PROVE Sane(modal'[o], note', copy, text, settled')
        BY <1>2 DEF ModalInv
      <3>1. CASE o = m
        BY <2>1, <2>4, <2>5, <2>7, <3>1 DEF Sane
      <3>2. CASE o # m
        <4>1. modal'[o] = modal[o] /\ Sane(modal[o], note, copy, text, settled)
          BY <2>5, <3>2 DEF IInv, ModalInv
        <4>2. modal[o].shows => modal[o].mine = note'
          BY <2>1 DEF IInv, OneCopy
        <4>3. QED
          BY <2>7, <4>1, <4>2 DEF Sane
      <3>3. QED
        BY <3>1, <3>2
    <2>9. OneCopy'
      BY <2>1, <2>4, <2>5 DEF IInv, OneCopy
    <2>10. SweepInv'
      BY <1>2, <2>7 DEF SweepInv
    <2>11. NoUnseenLoss'
      <3> SUFFICES ASSUME NEW e \in (1 .. edits) \ Stamps PROVE e \in note' \cup copy \cup settled' \cup unread
        BY <1>2 DEF NoUnseenLoss
      <3>1. e \in note \cup copy \cup settled \cup unread
        BY DEF IInv, NoUnseenLoss
      <3>2. CASE e \in note
        <4>1. CASE text
          BY <1>4, <3>2, <4>1 DEF PreviewStillCurrent, Norm
        <4>2. CASE ~text
          BY <1>4, <2>1, <3>2, <4>2
        <4>3. QED
          BY <4>1, <4>2
      <3>3. QED
        BY <2>7, <3>1, <3>2
    <2>12. QED
      BY <2>6, <2>8, <2>9, <2>10, <2>11 DEF IInv
  <1>5. CASE Leaves(m, "stale") /\ UNCHANGED <<note, settled>>
    BY <1>1, <1>2, <1>3, <1>5, LeavesKeeps
  <1>6. CASE Leaves(m, "error") /\ UNCHANGED <<note, settled>>
    BY <1>1, <1>2, <1>3, <1>6, LeavesKeeps
  <1>7. QED
    BY <1>4, <1>5, <1>6 DEF WriteNote

\* A copy that goes is covered: by a deletion, by the note, or by what was settled.
LEMMA CopyLeaves ==
    ASSUME IInv, NEW m \in Modals, copy' = {}, settled \subseteq settled', settled' \in Content,
           unread \subseteq unread', unread' \in Content,
           copy \subseteq note \cup settled' \cup unread', NEW r \in ModalType, modal' = [modal EXCEPT ![m] = r],
           r = modal[m] \/ (r.rs # "local" /\ r.step = "none" /\ r.shows = FALSE),
           sweep' \in {sweep, FALSE}, faults' \in 0 .. MaxFaults, UNCHANGED <<note, text, busy, edits>>
    PROVE  IInv'
  <1>1. Typed /\ modal'[m] = r /\ \A o \in Modals \ {m} : modal'[o] = modal[o]
    BY DEF IInv, Typed
  <1>2. Typed'
    BY <1>1 DEF Typed, Content
  <1>3. ModalInv'
    <2> SUFFICES ASSUME NEW o \in Modals PROVE Sane(modal'[o], note, copy', text, settled')
      BY DEF ModalInv
    <2>1. CASE modal'[o] = modal[o]
      <3>1. Sane(modal[o], note, copy, text, settled)
        BY DEF IInv, ModalInv
      <3>2. QED
        BY <2>1, <3>1 DEF Sane
    <2>2. CASE modal'[o] # modal[o]
      <3>1. o = m /\ modal'[o] = r /\ r.rs # "local" /\ r.step = "none" /\ r.shows = FALSE
        BY <1>1, <2>2
      <3>2. QED
        BY <3>1 DEF Sane
    <2>3. QED
      BY <2>1, <2>2
  <1>4. OneCopy'
    BY <1>1 DEF IInv, OneCopy
  <1>5. SweepInv' /\ NoUnseenLoss'
    BY DEF IInv, SweepInv, NoUnseenLoss
  <1>6. QED
    BY <1>2, <1>3, <1>4, <1>5 DEF IInv

\* The resolution removes the copy last.
LEMMA RemoveCopyKeeps ==
    ASSUME IInv, NEW m \in Modals, RemoveCopy(m)
    PROVE  IInv'
  <1>1. Typed /\ settled \in Content /\ modal[m].rs = "local" /\ modal[m].step = "removingCopy"
        /\ modal[m] \in ModalType /\ Sane(modal[m], note, copy, text, settled)
    BY DEF IInv, Typed, ModalInv, RemoveCopy, At
  <1>2. UNCHANGED <<note, text, sweep, busy, edits>> /\ (Spend \/ UNCHANGED faults)
    BY DEF RemoveCopy
  <1>3. faults' \in 0 .. MaxFaults
    BY <1>1, <1>2, SpendSound
  <1>4. ASSUME copy' = {}, Leaves(m, "localDone"),
               NEW gone, gone = IF modal[m].choice = "theirs" THEN modal[m].mine ELSE {},
               settled' = IF modal[m].blind THEN settled ELSE settled \cup gone,
               unread' = IF modal[m].blind THEN unread \cup gone ELSE unread
        PROVE  IInv'
    <2>0. gone \in Content /\ unread \in Content
      BY <1>1, <1>4 DEF ModalType, Content, Typed
    <2>1. /\ settled \subseteq settled' /\ settled' \in Content
          /\ unread \subseteq unread' /\ unread' \in Content
      BY <1>1, <1>4, <2>0 DEF Content
    <2>2. copy \subseteq note \cup settled' \cup unread'
      BY <1>1, <1>4 DEF Sane
    <2>3. PICK r \in ModalType : /\ modal' = [modal EXCEPT ![m] = r]
                                 /\ r.rs # "local" /\ r.step = "none" /\ r.shows = FALSE
      BY <1>1, <1>4, LeavesSound
    <2>4. QED
      BY <1>2, <1>3, <1>4, <2>1, <2>2, <2>3, CopyLeaves
  <1>5. CASE Leaves(m, "error") /\ UNCHANGED <<copy, settled, unread>>
    BY <1>1, <1>2, <1>3, <1>5, LeavesKeeps
  <1>6. QED
    BY <1>4, <1>5 DEF RemoveCopy

-----------------------------------------------------------------------------
(* Editors, engine, other devices and the sweep *)

\* What the conditions on both files need when no modal moves.
LEMMA FilesKeep ==
    ASSUME IInv, Typed', UNCHANGED <<modal, text>>, settled \subseteq settled',
           \A m \in Modals : modal[m].shows => copy' \in {copy, {}},
           (\E m \in Modals : modal[m].shows) => copy' \subseteq copy /\ note \subseteq note' \cup settled',
           ~text /\ (\E m \in Modals : modal[m].shows) => note' \subseteq note,
           SweepInv', NoUnseenLoss'
    PROVE  IInv'
  <1>1. ModalInv'
    <2> SUFFICES ASSUME NEW m \in Modals PROVE Sane(modal[m], note', copy', text, settled')
      BY DEF ModalInv
    <2>1. Sane(modal[m], note, copy, text, settled) /\ modal[m] \in ModalType
      BY DEF IInv, Typed, ModalInv
    <2>2. CASE modal[m].shows
      BY <2>1, <2>2 DEF Sane
    <2>3. CASE ~modal[m].shows
      BY <2>1, <2>3 DEF Sane
    <2>4. QED
      BY <2>2, <2>3
  <1>2. OneCopy'
    BY DEF IInv, OneCopy
  <1>3. QED
    BY <1>1, <1>2 DEF IInv

\* The note or the copy grows, under no modal that relies on it.
LEMMA GrowKeeps ==
    ASSUME IInv, RacyMoves = {}, NoteChanges \/ CopyChanges
    PROVE  IInv'
  <1>1. Typed /\ SweepInv /\ NoUnseenLoss
    BY DEF IInv
  <1>2. edits' \in 1 .. MaxEdits /\ edits' = edits + 1 /\ edits \in Nat
    BY <1>1, NoteConflictAssumption DEF Typed, NoteChanges, CopyChanges, Grow
  <1>3. UNCHANGED <<text, settled, unread, modal, sweep, busy, faults>>
    BY DEF NoteChanges, CopyChanges
  <1>4. note' \in {note, note \cup {edits'}} /\ copy' \in {copy, copy \cup {edits'}} /\ edits' \in note' \cup copy'
    BY DEF NoteChanges, CopyChanges
  <1>5. Typed'
    <2>1. note' \in Content /\ copy' \in Content
      BY <1>1, <1>2, <1>4 DEF Typed, Content
    <2>2. QED
      BY <1>1, <1>2, <1>3, <2>1 DEF Typed
  <1>6. (copy' = copy /\ (~text => \A m \in Modals : ~modal[m].shows))
        \/ (note' = note /\ ~sweep /\ \A m \in Modals : ~modal[m].shows)
    BY DEF NoteChanges, CopyChanges, NoteMayChange
  <1>7. SweepInv'
    BY <1>1, <1>3, <1>4, <1>6 DEF SweepInv
  <1>8. NoUnseenLoss'
    <2>1. \A e \in 1 .. edits' : e \in 1 .. edits \/ e = edits'
      BY <1>2
    <2>2. QED
      BY <1>1, <1>3, <1>4, <2>1 DEF NoUnseenLoss
  <1>9. QED
    BY <1>3, <1>4, <1>5, <1>6, <1>7, <1>8, FilesKeep

\* Somebody deletes a file, and what was in it counts as settled; or the engine starts or stops.
LEMMA WorldKeeps ==
    ASSUME IInv, CopyGoes \/ NoteGoes \/ Engine
    PROVE  IInv'
  <1>1. Typed /\ SweepInv /\ NoUnseenLoss
    BY DEF IInv
  <1>2. UNCHANGED <<text, unread, modal, sweep, edits, faults>>
    BY DEF CopyGoes, NoteGoes, Engine
  <1>3. /\ note' \in {note, {}} /\ copy' \in {copy, {}}
        /\ settled' \in {settled, settled \cup copy, settled \cup note}
        /\ note \cup copy \cup settled \subseteq note' \cup copy' \cup settled'
        /\ note \cup settled \subseteq note' \cup settled'
    BY DEF CopyGoes, NoteGoes, Engine
  <1>4. busy' \in BOOLEAN
    BY <1>1 DEF Typed, CopyGoes, NoteGoes, Engine
  <1>5. Typed'
    <2>1. note' \in Content /\ copy' \in Content /\ settled' \in Content
      BY <1>1, <1>3 DEF Typed, Content
    <2>2. QED
      BY <1>1, <1>2, <1>4, <2>1 DEF Typed
  <1>6. SweepInv' /\ NoUnseenLoss'
    BY <1>1, <1>2, <1>3 DEF SweepInv, NoUnseenLoss
  <1>7. QED
    BY <1>2, <1>3, <1>5, <1>6, FilesKeep

\* The sweep reads a copy the note covers, and removes one that is covered still.
LEMMA SweepKeeps ==
    ASSUME IInv, SweepReads \/ SweepRemoves
    PROVE  IInv'
  <1>1. Typed /\ SweepInv /\ NoUnseenLoss
    BY DEF IInv
  <1>2. CASE SweepReads
    <2>1. Typed' /\ UNCHANGED <<note, copy, text, settled, unread, modal>>
      BY <1>1, <1>2 DEF Typed, SweepReads
    <2>2. copy \subseteq note
      BY <1>2 DEF SweepReads, Cosmetic, Norm, Keys
    <2>3. SweepInv' /\ NoUnseenLoss'
      BY <1>1, <1>2, <2>1, <2>2 DEF SweepInv, NoUnseenLoss, SweepReads
    <2>4. QED
      BY <2>1, <2>3, FilesKeep
  <1>3. CASE SweepRemoves
    <2>1. /\ UNCHANGED <<note, text, settled, unread, modal, busy, edits>> /\ copy' \in {copy, {}}
          /\ sweep /\ sweep' = FALSE /\ (Spend \/ UNCHANGED faults)
      BY <1>3 DEF SweepRemoves
    <2>2. Typed'
      <3>1. faults' \in 0 .. MaxFaults
        BY <1>1, <2>1, SpendSound
      <3>2. copy' \in Content
        BY <1>1, <2>1 DEF Typed, Content
      <3>3. QED
        BY <1>1, <2>1, <3>1, <3>2 DEF Typed
    <2>3. SweepInv' /\ NoUnseenLoss'
      BY <1>1, <2>1 DEF SweepInv, NoUnseenLoss
    <2>4. QED
      BY <2>1, <2>2, <2>3, FilesKeep
  <1>4. QED
    BY <1>2, <1>3

-----------------------------------------------------------------------------
(* The theorems *)

\* A conflict as a pass leaves it satisfies the invariant.
LEMMA InitInv == Init => IInv
  <1> SUFFICES ASSUME Init PROVE IInv
    OBVIOUS
  <1>1. 1 \in 1 .. MaxEdits /\ 2 \in 1 .. MaxEdits /\ 2 \in 0 .. MaxEdits /\ 0 \in 0 .. MaxFaults
    BY NoteConflictAssumption
  <1>2. edits = 2 /\ note \in {{1}, {1, 2}} /\ copy \in {{1}, {1, 2}} /\ settled = (1 .. edits) \ (note \cup copy)
        /\ text \in BOOLEAN /\ sweep = FALSE /\ busy = FALSE /\ faults = 0 /\ unread = {} /\ unread \in Content
    BY DEF Init, Content
  <1>3. Closed \in ModalType /\ Closed.step = "none" /\ Closed.rs = "idle" /\ Closed.shows = FALSE
    BY DEF Closed, ModalType, Steps, Content
  <1>4. modal \in [Modals -> ModalType] /\ \A m \in Modals : modal[m] = Closed
    BY <1>3 DEF Init
  <1>5. note \in Content /\ copy \in Content
    BY <1>1, <1>2 DEF Content
  <1>6. settled \in Content
    <2>1. 1 .. edits \subseteq 1 .. MaxEdits
      BY <1>1, <1>2, NoteConflictAssumption
    <2>2. QED
      BY <1>2, <2>1 DEF Content
  <1>7. Typed
    BY <1>1, <1>2, <1>4, <1>5, <1>6 DEF Typed
  <1>8. ModalInv /\ OneCopy
    BY <1>3, <1>4 DEF ModalInv, OneCopy, Sane
  <1>9. SweepInv /\ NoUnseenLoss
    BY <1>2 DEF SweepInv, NoUnseenLoss
  <1>10. QED
    BY <1>7, <1>8, <1>9 DEF IInv

\* Every step keeps the invariant.
LEMMA StepInv == ASSUME RacyMoves = {} PROVE IInv /\ [Next]_vars => IInv'
  <1> SUFFICES ASSUME IInv, [Next]_vars PROVE IInv'
    OBVIOUS
  <1>1. CASE UNCHANGED vars
    BY <1>1 DEF vars, IInv, Typed, ModalInv, OneCopy, SweepInv, NoUnseenLoss
  <1>2. ASSUME NEW m \in Modals, Open(m) \/ Close(m) \/ Step(m) \/ UploadTick(m) PROVE IInv'
    BY <1>2, OpenKeeps, UploadTickKeeps, CheckKeeps, ReadKeeps, WriteNoteKeeps, KeepWriteKeeps,
       RemoveCopyKeeps, ResetKeeps DEF Step
  <1>3. QED
    BY <1>1, <1>2, ResolveKeeps, GrowKeeps, WorldKeeps, SweepKeeps DEF Next

\* The inductive invariant holds in every state, as long as nobody makes one of RacyMoves.
THEOREM Invariant == ASSUME RacyMoves = {} PROVE Spec => []IInv
  <1>1. IInv /\ [Next]_vars => IInv'
    BY StepInv
  <1>2. QED
    BY <1>1, InitInv, PTL DEF Spec

\* A resolution never destroys an edit nobody was shown, with any number of modals, edits, faults
\* and passes in between (main.ts resolveNoteConflict), but for a copy that could not be read and
\* was shown as empty.
THEOREM NoUnseenLossHolds == ASSUME RacyMoves = {} PROVE Spec => []NoUnseenLoss
  <1>1. IInv => NoUnseenLoss
    BY DEF IInv
  <1>2. Spec => []IInv
    BY Invariant
  <1>3. QED
    BY <1>1, <1>2, PTL

\* The sweep deletes no copy the note, or a deletion somebody chose, does not cover, whatever
\* resolutions and passes did since it read the copy (main.ts dismissCosmeticConflicts).
THEOREM SweepSafeHolds == ASSUME RacyMoves = {} PROVE Spec => SweepSafe
  <1>1. IInv => (sweep /\ ~sweep' /\ copy' = {} => copy \subseteq note \cup settled)
    BY DEF IInv, SweepInv
  <1>2. Spec => []IInv
    BY Invariant
  <1>3. QED
    BY <1>1, <1>2, PTL DEF SweepSafe, Spec
=============================================================================
