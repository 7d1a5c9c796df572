-------------------------- MODULE MCNoteConflict --------------------------
(* Two modals, and three edits of which the second is in a timestamp key.   *)
EXTENDS NoteConflict
=============================================================================
