---------------------------- MODULE NoteConflict ----------------------------
(***************************************************************************)
(* The resolution of one note conflict (client/src/main.ts                 *)
(* listNoteConflicts, dismissCosmeticConflicts, resolveNoteConflict;       *)
(* noteconflict.ts; resolvefsm.ts).  A conflict is a file: the copy beside *)
(* the note keeps this device's version, the note has the other one.  The  *)
(* modals and the sweep that clears cosmetic conflicts run outside the     *)
(* engine's queue, so passes, editors and other devices change both files  *)
(* between their steps.                                                    *)
(*                                                                         *)
(* A content is the set of its edits, {} when there is no file.  Edits in  *)
(* Stamps are timestamp keys the user chose to ignore.                     *)
(***************************************************************************)
EXTENDS Naturals, FiniteSets

CONSTANTS
    Modals,       \* modals opened one after the other; a closed one may still be resolving
    Stamps,       \* edits that only add an ignored timestamp key
    RacyMoves,    \* the awkward things the user or another device may do
    FaultKinds,
    MaxFaults,    \* bound: how many faults
    MaxEdits      \* bound: how many edits

ASSUME NoteConflictAssumption ==
    /\ Modals \subseteq Nat /\ IsFiniteSet(Modals) /\ MaxFaults \in Nat /\ MaxEdits \in Nat \ {0, 1} /\ Stamps \subseteq 1 .. MaxEdits
    /\ RacyMoves \subseteq {"copyChanges", "noDiffChanges"}
    /\ FaultKinds \subseteq {"read", "write", "remove"}

VARIABLES
    note, copy,   \* the two files
    text,         \* both are text, and small enough to be compared
    settled,      \* what "keep both" made a note of its own, and what somebody saw and did not
                  \* choose, or deleted
    unread,       \* what went with a copy that a modal could not read and showed as empty
    modal,        \* what each modal shows (blind: not the copy, for want of reading it), and its
                  \* resolution
    sweep,        \* the sweep is about to remove the copy
    busy,         \* the engine runs a job
    edits, faults

vars == <<note, copy, text, settled, unread, modal, sweep, busy, edits, faults>>

Content == SUBSET (1 .. MaxEdits)
Steps   == {"none", "checking", "reading", "writing", "keepingBoth", "keepingWrite", "removingCopy"}
Choices == {"mine", "theirs", "both"}
Closed  == [open |-> FALSE, shows |-> FALSE, theirs |-> {}, mine |-> {}, blind |-> FALSE, rs |-> "idle", saw |-> FALSE,
            choice |-> "none", step |-> "none", bytes |-> {}]
Spend   == faults < MaxFaults /\ faults' = faults + 1

\* listNoteConflicts: a copy beside its original
Listed == note # {} /\ copy # {}

\* normalizedContent, ignoredTimestampKeysPresent
Norm(c) == c \ Stamps
Keys(c) == c \cap Stamps

\* resolveMachine: an event the state has no transition for changes nothing.
Machine(s, saw, e) ==
    CASE e = "reset"                                   -> "idle"
      [] s = "idle" /\ e = "start"                     -> "local"
      [] s = "local" /\ e = "localDone"                -> "uploading"
      [] s \in {"local", "uploading"} /\ e = "stale"   -> "stale"
      [] s \in {"local", "uploading"} /\ e = "error"   -> "failed"
      [] s = "uploading" /\ e = "engineIdle" /\ saw    -> "done"
      [] s = "uploading" /\ e = "graceElapsed" /\ ~saw -> "done"
      [] s = "uploading" /\ e = "capElapsed"           -> "done"
      [] OTHER                                         -> s

InFlight(m) == modal[m].rs \in {"local", "uploading"}

-----------------------------------------------------------------------------
(* The editors, the engine and the other devices *)

Grow == edits < MaxEdits /\ edits' = edits + 1

\* That a file without a diff changes under a modal that shows its size is one of RacyMoves.
NoteMayChange ==
    ~text /\ (\E m \in Modals : modal[m].shows) => "noDiffChanges" \in RacyMoves

\* The user edits the note, or a pass pulls a newer version of it.
NoteChanges ==
    /\ Grow /\ note # {} /\ NoteMayChange
    /\ note' = note \cup {edits'}
    /\ UNCHANGED <<copy, text, settled, unread, modal, sweep, busy, faults>>

\* The user goes on with the copy.  That he does so while a modal shows it, or a sweep has
\* read it, is one of RacyMoves.
CopyChanges ==
    /\ Grow /\ copy # {}
    /\ sweep \/ (\E m \in Modals : modal[m].shows) => "copyChanges" \in RacyMoves
    /\ copy' = copy \cup {edits'}
    /\ UNCHANGED <<note, text, settled, unread, modal, sweep, busy, faults>>

\* Another device resolves the conflict, or deletes the note; a pass brings it here.
CopyGoes ==
    /\ busy /\ copy # {}
    /\ copy' = {} /\ settled' = settled \cup copy
    /\ UNCHANGED <<note, text, unread, modal, sweep, busy, edits, faults>>

NoteGoes ==
    /\ busy /\ note # {} /\ NoteMayChange
    /\ note' = {} /\ settled' = settled \cup note
    /\ UNCHANGED <<copy, text, unread, modal, sweep, busy, edits, faults>>

Engine ==
    /\ busy' = ~busy
    /\ UNCHANGED <<note, copy, text, settled, unread, modal, sweep, edits, faults>>

-----------------------------------------------------------------------------
(* dismissCosmeticConflicts, at load and when a modal opens *)

\* Mutant: the ignored keys of the two sides are not compared.
CosmeticByContent == Norm(note) = Norm(copy)

Cosmetic == Norm(note) = Norm(copy) /\ Keys(note) = Keys(copy)

\* Binary files are not compared, but a conflict without a diff may be one of large texts.
SweepReads ==
    /\ ~sweep /\ Listed /\ Cosmetic
    /\ sweep' = TRUE
    /\ UNCHANGED <<note, copy, text, settled, unread, modal, busy, edits, faults>>

\* resolveNoteConflict "theirs"; a failed removal skips the entry.
SweepRemoves ==
    /\ sweep /\ sweep' = FALSE
    /\ \/ copy' = {} /\ UNCHANGED faults
       \/ "remove" \in FaultKinds /\ Spend /\ UNCHANGED copy
    /\ UNCHANGED <<note, text, settled, unread, modal, busy, edits>>

-----------------------------------------------------------------------------
(* The modal *)

\* The render of what is listed now, of two texts by readTextOrEmpty: the sides in u cannot be
\* read and show as empty.
Shown(u) ==
    IF ~Listed THEN [Closed EXCEPT !.open = TRUE]
    ELSE [Closed EXCEPT !.open = TRUE, !.shows = TRUE, !.theirs = IF "theirs" \in u THEN {} ELSE note,
                        !.mine = copy, !.blind = "mine" \in u]

Render(m) ==
    \E u \in SUBSET {"theirs", "mine"} :
        /\ IF u = {} THEN UNCHANGED faults ELSE "read" \in FaultKinds /\ text /\ Spend
        /\ modal' = [modal EXCEPT ![m] = Shown(u)]

\* onOpen; a new modal is the first that is free.
Open(m) ==
    /\ modal[m] = Closed /\ Listed
    /\ \A o \in Modals : ~modal[o].open /\ (modal[o] = Closed => m <= o)
    /\ Render(m)
    /\ UNCHANGED <<note, copy, text, settled, unread, sweep, busy, edits>>

\* onClose: a resolution goes on.
Close(m) ==
    /\ modal[m].open
    /\ modal' = [modal EXCEPT ![m] = IF @.rs = "idle" THEN Closed ELSE [@ EXCEPT !.open = FALSE]]
    /\ UNCHANGED <<note, copy, text, settled, unread, sweep, busy, edits, faults>>

Resolve(m, choice) ==
    /\ modal[m].open /\ modal[m].shows /\ modal[m].rs = "idle" /\ ~busy
    /\ modal' = [modal EXCEPT ![m] = [@ EXCEPT !.rs = Machine(modal[m].rs, FALSE, "start"), !.choice = choice,
                   !.step = CASE choice = "mine" -> "checking" [] choice = "both" -> "keepingBoth"
                              [] choice = "theirs" -> "removingCopy"]]
    /\ UNCHANGED <<note, copy, text, settled, unread, sweep, busy, edits, faults>>

At(m, step) == modal[m].rs = "local" /\ modal[m].step = step
Goes(m, step) == modal' = [modal EXCEPT ![m] = [@ EXCEPT !.step = step]]
Leaves(m, e) ==
    modal' = [modal EXCEPT ![m] = [Closed EXCEPT !.open = modal[m].open, !.rs = Machine(modal[m].rs, FALSE, e)]]

\* Mutant: what the modal showed is good for ever.
PreviewTrusted(m) == TRUE

\* previewStillCurrent, when the modal had a text to show
PreviewStillCurrent(m) == text => note # {} /\ Norm(note) = Norm(modal[m].theirs)

\* A read that fails is "unreadable", which stops a resolution as well.
Check(m) ==
    /\ At(m, "checking")
    /\ \/ PreviewStillCurrent(m) /\ copy # {} /\ Goes(m, "reading") /\ UNCHANGED faults
       \/ PreviewStillCurrent(m) /\ copy = {} /\ Leaves(m, "localDone") /\ UNCHANGED faults
       \/ ~PreviewStillCurrent(m) /\ Leaves(m, "stale") /\ UNCHANGED faults
       \/ "read" \in FaultKinds /\ text /\ Spend /\ Leaves(m, "stale")
    /\ UNCHANGED <<note, copy, text, settled, unread, sweep, busy, edits>>

ReadCopy(m) ==
    /\ At(m, "reading")
    /\ \/ /\ copy # {}
          /\ modal' = [modal EXCEPT ![m] = [@ EXCEPT !.step = "writing", !.bytes = copy]]
          /\ UNCHANGED faults
       \/ copy = {} /\ Leaves(m, "error") /\ UNCHANGED faults
       \/ "read" \in FaultKinds /\ Spend /\ Leaves(m, "error")
    /\ UNCHANGED <<note, copy, text, settled, unread, sweep, busy, edits>>

\* The preview is checked again right before the write.
WriteNote(m) ==
    /\ At(m, "writing")
    /\ \/ /\ PreviewStillCurrent(m)
          /\ note' = modal[m].bytes
          /\ settled' = settled \cup modal[m].theirs
          /\ Goes(m, "removingCopy") /\ UNCHANGED faults
       \/ ~PreviewStillCurrent(m) /\ Leaves(m, "stale") /\ UNCHANGED <<note, settled, faults>>
       \/ "write" \in FaultKinds /\ Spend /\ Leaves(m, "error") /\ UNCHANGED <<note, settled>>
    /\ UNCHANGED <<copy, text, unread, sweep, busy, edits>>

KeepBoth(m) ==
    /\ At(m, "keepingBoth")
    /\ \/ copy = {} /\ Leaves(m, "localDone") /\ UNCHANGED faults
       \/ /\ copy # {} /\ UNCHANGED faults
          /\ modal' = [modal EXCEPT ![m] = [@ EXCEPT !.step = "keepingWrite", !.bytes = copy]]
       \/ "read" \in FaultKinds /\ Spend /\ Leaves(m, "error")
    /\ UNCHANGED <<note, copy, text, settled, unread, sweep, busy, edits>>

\* A new name, so that no file is written over.
KeepWrite(m) ==
    /\ At(m, "keepingWrite")
    /\ \/ settled' = settled \cup modal[m].bytes /\ Goes(m, "removingCopy") /\ UNCHANGED faults
       \/ "write" \in FaultKinds /\ Spend /\ Leaves(m, "error") /\ UNCHANGED settled
    /\ UNCHANGED <<note, copy, text, unread, sweep, busy, edits>>

\* The copy is the conflict: it goes last, unchecked.
RemoveCopy(m) ==
    /\ At(m, "removingCopy")
    /\ \/ /\ copy' = {} /\ Leaves(m, "localDone") /\ UNCHANGED faults
          /\ LET gone == IF modal[m].choice = "theirs" THEN modal[m].mine ELSE {}
             IN /\ settled' = IF modal[m].blind THEN settled ELSE settled \cup gone
                /\ unread' = IF modal[m].blind THEN unread \cup gone ELSE unread
       \/ "remove" \in FaultKinds /\ Spend /\ Leaves(m, "error") /\ UNCHANGED <<copy, settled, unread>>
    /\ UNCHANGED <<note, text, sweep, busy, edits>>

\* awaitUploadSettled: the events a tick may see, by the engine and the clock
Sees(m) ==
    IF busy THEN {"engineBusy", "capElapsed"}
    ELSE IF modal[m].saw THEN {"engineIdle"} ELSE {"nothing", "graceElapsed", "capElapsed"}

\* Mutant: nothing but the engine ends the wait.
UploadTickPatient(m) ==
    /\ modal[m].rs = "uploading"
    /\ \E e \in Sees(m) \ {"graceElapsed", "capElapsed"} :
           modal' = [modal EXCEPT ![m] = [@ EXCEPT !.rs = Machine(modal[m].rs, modal[m].saw, e),
                                                   !.saw = modal[m].saw \/ e = "engineBusy"]]
    /\ UNCHANGED <<note, copy, text, settled, unread, sweep, busy, edits, faults>>

UploadTick(m) ==
    /\ modal[m].rs = "uploading"
    /\ \E e \in Sees(m) :
           modal' = [modal EXCEPT ![m] = [@ EXCEPT !.rs = Machine(modal[m].rs, modal[m].saw, e),
                                                   !.saw = modal[m].saw \/ e = "engineBusy"]]
    /\ UNCHANGED <<note, copy, text, settled, unread, sweep, busy, edits, faults>>

\* The machine is reset, and an open modal shows what is listed now.
Reset(m) ==
    /\ modal[m].rs \in {"done", "stale", "failed"}
    /\ IF modal[m].open THEN Render(m) ELSE modal' = [modal EXCEPT ![m] = Closed] /\ UNCHANGED faults
    /\ UNCHANGED <<note, copy, text, settled, unread, sweep, busy, edits>>

-----------------------------------------------------------------------------

\* A conflict as a pass leaves it: both versions carry the first edit, and each may have the second.
Init ==
    /\ edits = 2 /\ note \in {{1}, {1, 2}} /\ copy \in {{1}, {1, 2}}
    /\ text \in BOOLEAN
    /\ settled = (1 .. edits) \ (note \cup copy)
    /\ unread = {} /\ modal = [m \in Modals |-> Closed] /\ sweep = FALSE /\ busy = FALSE /\ faults = 0

Step(m) ==
    Check(m) \/ ReadCopy(m) \/ WriteNote(m) \/ KeepBoth(m) \/ KeepWrite(m) \/ RemoveCopy(m) \/ Reset(m)

Next ==
    \/ NoteChanges \/ CopyChanges \/ CopyGoes \/ NoteGoes \/ Engine
    \/ SweepReads \/ SweepRemoves
    \/ \E m \in Modals : Open(m) \/ Close(m) \/ Step(m) \/ UploadTick(m)
    \/ \E m \in Modals, choice \in Choices : Resolve(m, choice)

Spec == Init /\ [][Next]_vars

\* A started call returns; the clock of a wait runs on, so it ends by its cap at the latest.
Elapses(m) == UploadTick(m) /\ modal'[m].rs = "done"
LiveSpec == Spec /\ \A m \in Modals : WF_vars(Step(m)) /\ WF_vars(Elapses(m))

-----------------------------------------------------------------------------
(* Properties *)

\* Every variable has its type, and a modal has a step exactly while its local part runs
\* (resolvefsm.ts).
TypeOK ==
    /\ {note, copy, settled, unread} \subseteq Content
    /\ {text, sweep, busy} \subseteq BOOLEAN /\ edits \in 0 .. MaxEdits /\ faults \in 0 .. MaxFaults
    /\ \A m \in Modals :
          /\ modal[m].rs \in {"idle", "local", "uploading", "done", "stale", "failed"}
          /\ modal[m].step \in Steps /\ modal[m].choice \in Choices \cup {"none"}
          /\ {modal[m].theirs, modal[m].mine, modal[m].bytes} \subseteq Content
          /\ modal[m].rs = "local" <=> modal[m].step # "none"

\* A resolution never destroys an edit nobody was shown: what leaves both files was in a version
\* the user saw and did not choose, or was deleted by somebody (main.ts resolveNoteConflict:
\* "keep mine" can't silently overwrite a newer version).  Apart is the copy that a modal could
\* not read and showed as empty, when the user then keeps the other version.
NoUnseenLoss ==
    \A e \in (1 .. edits) \ Stamps : e \in note \cup copy \cup settled \cup unread

\* What the sweep deletes without asking is in the note, ignored timestamp keys included, or
\* was deleted there by somebody (main.ts dismissCosmeticConflicts: it must lose nothing at all).
SweepSafe ==
    [][sweep /\ ~sweep' /\ copy' = {} => copy \subseteq note \cup settled]_vars

\* A resolution comes to an end and its buttons work again, with or without a server
\* (resolvefsm.ts: it never blocks on the network).
ResolutionEnds == \A m \in Modals : modal[m].rs # "idle" ~> modal[m].rs = "idle"

=============================================================================
