------------------------------ MODULE Session ------------------------------
(***************************************************************************)
(* The document and its files: new, open, save, save as, the autosave and  *)
(* the recovery of EditorController, and the dialogs of Main.qml that ask  *)
(* before work is lost.                                                    *)
(*                                                                         *)
(* Everything runs on the GUI thread.  What interleaves is the user, the   *)
(* autosave timer, the window's close button and a crash: a modal dialog   *)
(* keeps the user from the rest of the window, but stops neither the timer *)
(* nor, if it is drawn inside the window, the close button; an export runs *)
(* the event loop from inside its handler.  Writing a file may fail, and   *)
(* the process may end while it writes one.                                *)
(*                                                                         *)
(* Data: a document is a number, a new one for every edit, and whether its *)
(* first pattern has a lane, which no edit changes.                        *)
(***************************************************************************)
EXTENDS Integers

CONSTANTS
  Paths,        \* project files the user names
  Recovery,     \* recovery_path_
  NoPath,       \* the empty project path
  Nothing,      \* no file at a path
  Unreadable,   \* a file that ProjectFile::load refuses
  Disks,        \* what the files may hold before the first start
  MaxEdits      \* bound: edits in all sessions

VARIABLES
  process,      \* "up", "closed" by the user, or "crashed"
  ctl,          \* EditorController and the disk, see Controller
  exporting,    \* export_in_progress_
  dialog,       \* the dialog in front of the window
  pending,      \* pendingProjectAction
  edits,        \* history variable: edits so far
  owed,         \* history variable: autosaved work the user has not given up
  waived        \* history variable: Discard pressed since the last edit

window == <<process, exporting, dialog, pending>>
history == <<edits, owed, waived>>
vars == <<ctl, window, history>>

Files == Paths \cup {Recovery}
Document == [n : 0..MaxEdits + 9, lane : BOOLEAN]
Blank == [n |-> 0, lane |-> TRUE]

ASSUME PathsAssumption == Recovery \notin Paths /\ NoPath \notin Files
ASSUME ContentAssumption ==
  /\ MaxEdits \in Nat
  /\ Nothing \notin Document
  /\ Disks \subseteq [Files -> Document \cup {Nothing, Unreadable}]

\* project_, project_dirty_, project_path_, recovery_available_, the files,
\* and whether an open failed after it had replaced the project.
Controller ==
  [doc : Document, dirty : BOOLEAN, path : Files \cup {NoPath},
   available : BOOLEAN, half : BOOLEAN,
   disk : [Files -> Document \cup {Nothing, Unreadable}]]

-----------------------------------------------------------------------------
(* EditorController: the document and its files.                           *)

\* remove_recovery_file
WithoutRecovery(c) ==
  [c EXCEPT !.disk[Recovery] = Nothing, !.available = FALSE]

\* The constructor.
Started(disk) ==
  [doc |-> Blank, dirty |-> FALSE, path |-> NoPath, half |-> FALSE,
   disk |-> disk, available |-> disk[Recovery] # Nothing]

\* newProject
NewProject(c) ==
  WithoutRecovery([c EXCEPT !.doc = Blank, !.dirty = FALSE, !.path = NoPath,
                            !.half = FALSE])

\* saveProjectAs, when the file could be written.  The recovery file goes in the
\* same step: a crash in between and a removal that fails, which leave it behind,
\* are left out.
Saved(c, p) ==
  WithoutRecovery([c EXCEPT !.disk[p] = c.doc, !.path = p, !.dirty = FALSE])

Opens(content) == content \in Document /\ content.lane

\* openProject replaces the project before it looks for its first lane, and
\* keeps the recovery file only when that is the file it opens.
OpenProject(c, p) ==
  LET opened == [c EXCEPT !.doc = c.disk[p], !.path = p, !.dirty = FALSE,
                          !.half = FALSE]
  IN  CASE c.disk[p] \notin Document -> c
        [] c.disk[p] \in Document /\ ~Opens(c.disk[p]) ->
             [c EXCEPT !.doc = c.disk[p], !.half = TRUE]
        [] Opens(c.disk[p]) ->
             IF p = Recovery THEN opened ELSE WithoutRecovery(opened)

\* A faulty variant of RecoverAutosave: the recovered work counts as saved.
RecoverAutosaveClean(c) ==
  LET opened == OpenProject(c, Recovery)
  IN  IF c.available /\ Opens(c.disk[Recovery])
      THEN [opened EXCEPT !.path = NoPath]
      ELSE IF c.available THEN opened ELSE c

\* recoverAutosave
RecoverAutosave(c) ==
  LET opened == OpenProject(c, Recovery)
  IN  IF c.available /\ Opens(c.disk[Recovery])
      THEN [opened EXCEPT !.path = NoPath, !.dirty = TRUE]
      ELSE IF c.available THEN opened ELSE c

\* autosave_if_needed
Autosaved(c) == [c EXCEPT !.disk[Recovery] = c.doc, !.available = TRUE]

\* A faulty variant of Interrupted: the file is truncated before it is written.
InterruptedTruncated(disk, p) == [disk EXCEPT ![p] = Unreadable]

\* A file the process was writing when it ended: QSaveFile writes another
\* file and renames it at the end.
Interrupted(disk, p) == disk

-----------------------------------------------------------------------------
(* Main.qml: the user's requests.                                          *)

\* The window takes input: nothing modal is in front of it.
Free == process = "up" /\ dialog = "none" /\ ~exporting

\* performProjectAction, the controller being in state c.
Perform(action, c) ==
  /\ ctl' = IF action = "new" THEN NewProject(c) ELSE c
  /\ dialog' = IF action = "open" THEN "open" ELSE "none"
  /\ process' = IF action = "close" THEN "closed" ELSE "up"
  /\ pending' = "none"

Unchanged == UNCHANGED <<exporting, edits>>

\* Any command that changes the document.
Edit ==
  /\ Free
  /\ edits < MaxEdits
  /\ edits' = edits + 1
  /\ ctl' = [ctl EXCEPT !.doc.n = edits + 1, !.dirty = TRUE]
  /\ waived' = FALSE
  /\ UNCHANGED <<window, owed>>

\* requestProjectAction: the keys for New and Open.
Request(action) ==
  /\ Free
  /\ IF ctl.dirty
     THEN dialog' = "unsaved" /\ pending' = action /\ UNCHANGED <<ctl, process>>
     ELSE Perform(action, ctl)
  /\ Unchanged
  /\ UNCHANGED <<owed, waived>>

\* A faulty variant of Close: the window closes as it is told.
CloseAtOnce ==
  /\ process = "up"
  /\ dialog \in {"none", "recovery", "unsaved"}
  /\ process' = "closed"
  /\ UNCHANGED <<dialog, pending, exporting, ctl, history>>

\* onClosing.  A file dialog is a modal window of its own, behind which the
\* window system keeps the button from the main window.
Close ==
  /\ process = "up"
  /\ dialog \in {"none", "recovery", "unsaved"}
  /\ IF ctl.dirty
     THEN dialog' = "unsaved" /\ pending' = "close" /\ UNCHANGED process
     ELSE process' = "closed" /\ UNCHANGED <<dialog, pending>>
  /\ UNCHANGED <<exporting, ctl, history>>

\* saveProjectAs(p) could not write the file.
SaveFails ==
  /\ dialog' = "none"
  /\ UNCHANGED <<ctl, process, pending, exporting, history>>

\* The key for Save.
SaveKey ==
  /\ Free
  /\ \/ /\ ctl.path = NoPath
        /\ dialog' = "save"
        /\ UNCHANGED <<ctl, owed>>
     \/ /\ ctl.path # NoPath
        /\ ctl' = Saved(ctl, ctl.path)
        /\ owed' = Nothing
        /\ UNCHANGED dialog
  /\ Unchanged
  /\ UNCHANGED <<process, pending, waived>>

\* The key for Save As.
SaveAsKey ==
  /\ Free
  /\ dialog' = "save"
  /\ UNCHANGED <<ctl, process, pending, exporting, history>>

\* exportWav: stops playback and renders with the event loop running.
ExportBegin ==
  /\ Free
  /\ exporting' = TRUE
  /\ UNCHANGED <<ctl, process, dialog, pending, history>>

ExportEnd ==
  /\ process = "up"
  /\ exporting
  /\ exporting' = FALSE
  /\ UNCHANGED <<ctl, process, dialog, pending, history>>

-----------------------------------------------------------------------------
(* Main.qml: the dialogs.                                                  *)

In(d) == process = "up" /\ dialog = d

\* recoveryDialog
RecoveryDiscard ==
  /\ In("recovery")
  /\ ctl' = WithoutRecovery(ctl)
  /\ dialog' = "none"
  /\ owed' = Nothing
  /\ Unchanged
  /\ UNCHANGED <<process, pending, waived>>

RecoveryRecover ==
  /\ In("recovery")
  /\ ctl' = RecoverAutosave(ctl)
  /\ dialog' = "none"
  /\ UNCHANGED <<process, pending, exporting, history>>

\* openProjectDialog: the user picks a file or none.
OpenPicked ==
  /\ In("open")
  /\ \E p \in Files : ctl.disk[p] # Nothing /\ ctl' = OpenProject(ctl, p)
  /\ dialog' = "none"
  /\ UNCHANGED <<process, pending, exporting, history>>

\* saveProjectDialog: a pending action follows the save.  (Bound: the user
\* does not name the recovery file here.)
SavePicked ==
  /\ In("save")
  /\ \E p \in Paths :
       IF pending # "none"
       THEN Perform(pending, Saved(ctl, p))
       ELSE /\ ctl' = Saved(ctl, p)
            /\ dialog' = "none"
            /\ UNCHANGED <<process, pending>>
  /\ owed' = Nothing
  /\ Unchanged
  /\ UNCHANGED waived

SavePickedFails == In("save") /\ SaveFails

\* Cancelling a file dialog leaves pendingProjectAction as it is.
CancelFile ==
  /\ In("open") \/ In("save")
  /\ dialog' = "none"
  /\ UNCHANGED <<ctl, process, pending, exporting, history>>

\* unsavedDialog
UnsavedCancel ==
  /\ In("unsaved")
  /\ pending' = "none"
  /\ dialog' = "none"
  /\ UNCHANGED <<ctl, process, exporting, history>>

UnsavedDiscard ==
  /\ In("unsaved")
  /\ Perform(pending, ctl)
  /\ owed' = Nothing
  /\ waived' = TRUE
  /\ Unchanged

\* saveThenContinue
UnsavedSave ==
  /\ In("unsaved")
  /\ IF ctl.path = NoPath
     THEN dialog' = "save" /\ UNCHANGED <<ctl, process, pending, owed>>
     ELSE Perform(pending, Saved(ctl, ctl.path)) /\ owed' = Nothing
  /\ Unchanged
  /\ UNCHANGED waived

\* A faulty variant of UnsavedSaveFails: the action follows a failed save.
UnsavedSaveIgnoresFailure ==
  /\ In("unsaved")
  /\ ctl.path # NoPath
  /\ Perform(pending, ctl)
  /\ UNCHANGED <<exporting, history>>

UnsavedSaveFails == In("unsaved") /\ ctl.path # NoPath /\ SaveFails

-----------------------------------------------------------------------------
(* The timer, a crash and a start.                                         *)

\* The autosave timer; an autosave that fails changes nothing.
AutosaveTick ==
  /\ process = "up"
  /\ ctl.dirty
  /\ ~exporting
  /\ ctl' = Autosaved(ctl)
  /\ owed' = IF waived THEN owed ELSE ctl.doc
  /\ UNCHANGED <<window, edits, waived>>

\* The files a save under way may be writing.
Writing ==
  (IF ctl.dirty THEN {Recovery} ELSE {})
    \cup (IF ctl.path # NoPath THEN {ctl.path} ELSE {})
    \cup (IF dialog = "save" THEN Paths ELSE {})

\* The process ends at any moment, or while it writes a file.
Crash ==
  /\ process = "up"
  /\ process' = "crashed"
  /\ \E disk \in {ctl.disk} \cup {Interrupted(ctl.disk, p) : p \in Writing} :
       ctl' = [ctl EXCEPT !.disk = disk]
  /\ UNCHANGED <<exporting, dialog, pending, history>>

\* The constructor, and Component.onCompleted of the window.
Start ==
  /\ process # "up"
  /\ process' = "up"
  /\ ctl' = Started(ctl.disk)
  /\ dialog' = IF ctl'.available THEN "recovery" ELSE "none"
  /\ pending' = "none"
  /\ exporting' = FALSE
  /\ waived' = FALSE
  /\ UNCHANGED <<edits, owed>>

Init ==
  /\ process = "closed"
  /\ ctl \in {Started(disk) : disk \in Disks}
  /\ exporting = FALSE
  /\ dialog = "none"
  /\ pending = "none"
  /\ edits = 0
  /\ owed = Nothing
  /\ waived = FALSE

Next ==
  \/ Edit \/ Request("new") \/ Request("open") \/ Close
  \/ SaveKey \/ SaveAsKey \/ ExportBegin \/ ExportEnd
  \/ RecoveryDiscard \/ RecoveryRecover
  \/ OpenPicked \/ SavePicked \/ SavePickedFails \/ CancelFile
  \/ UnsavedCancel \/ UnsavedDiscard \/ UnsavedSave \/ UnsavedSaveFails
  \/ AutosaveTick \/ Crash \/ Start

Spec == Init /\ [][Next]_vars

-----------------------------------------------------------------------------
(* Properties.                                                             *)

\* What the title bar shows without a star can be had again: the document is
\* a blank one or what its file holds, whatever saves, opens, failures and
\* recoveries came before.  Two states are excepted because the code breaks
\* it there: after an open that failed half-way (openProject replaces the
\* project before it fails), and when the document is saved over the
\* recovery file (saveProjectAs deletes what it has just written).
CleanMeansSaved ==
  process = "up" /\ ~ctl.dirty /\ ~ctl.half /\ ctl.path # Recovery =>
    IF ctl.path = NoPath THEN ctl.doc = Blank ELSE ctl.disk[ctl.path] = ctl.doc

\* Work that the autosave has written stays in the recovery file, over
\* crashes, failed saves, other dialogs and starts, until a later autosave
\* replaces it, the user saves, or the user presses Discard.  A document
\* without a lane is excepted: it cannot be recovered.
AutosavedWorkSurvives ==
  owed \in Document /\ Opens(owed) => ctl.disk[Recovery] = owed

\* A document with unsaved work gives way to another one, or is closed, only
\* if it is in a file by then or the user has pressed Discard since the last
\* edit: no cancelled dialog, failed save or pending action that was left
\* over gets past the question.  (Saving over the recovery file is excepted
\* again.)
OnlyDiscardLosesWork ==
  [][LET GivesWay == ctl'.doc # ctl.doc /\ edits' = edits
     IN  /\ process = "up" /\ ctl.dirty /\ ctl.path # Recovery
         /\ GivesWay \/ process' = "closed"
         => waived' \/ \E p \in Paths : ctl'.disk[p] = ctl.doc]_vars
=============================================================================
