---------------------------- MODULE EditorProofs ----------------------------
(***************************************************************************)
(* Theorems of EditorController's three state machines.                    *)
(*                                                                         *)
(* Session, for any files, any contents of them at the first start and any *)
(* number of edits.  The argument: work the autosave has written and the   *)
(* user has not given up is owed.  While it is owed and the document in    *)
(* the window has nothing unsaved, the recovery dialog of a start is in    *)
(* front, and every way out of that dialog takes the work up or gives it   *)
(* up.                                                                     *)
(*                                                                         *)
(* EditHistory, for any documents, bounds and lengths.  The argument: the  *)
(* notes, every part of every command, the notes a drag keeps and the      *)
(* velocities a gesture keeps have ids below the next id, which only       *)
(* grows while a clip is open; and if no note and no click is shorter than *)
(* the shortest note a drag makes, all of them have a start from 0 on and  *)
(* at least that length, which is what keeps the bounds of a drag at the   *)
(* start of a note in order.  A command is undone and made again one part  *)
(* at a time, so it leads from such notes to such notes whatever was done  *)
(* since it was made.                                                      *)
(* The same section proves that, under that hypothesis, it implements      *)
(* DocumentTimeline.  There is a line of documents that the commands of    *)
(* both stacks link, each to the next, and that Settled is on; an          *)
(* uninterrupted gesture remembers what its notes were, so that it leaves  *)
(* Settled where it is until its command links it to the next document;    *)
(* an edit cuts and extends the line, and undo and redo move along it.     *)
(*                                                                         *)
(* Arrangement, for any drops, clip lengths, files and number of commands. *)
(* The argument: every project is sound, that is, ids are apart and below  *)
(* the next ones, and clips lie on tracks and patterns that are there;     *)
(* the documents of the history are sound as well, and each edit to undo   *)
(* or redo leads from one of them to the next.  On sound documents the two *)
(* closures of an edit are inverse.  An import adds to all documents items *)
(* with new ids, which no edit knows.                                      *)
(***************************************************************************)
EXTENDS Session, EditHistory, Arrangement, FiniteSetTheorems, SequenceTheorems,
        WellFoundedInduction, TLAPS

-----------------------------------------------------------------------------
(* Session                                                                 *)

\* The work the user is owed can be recovered.
Owes == owed \in Document /\ Opens(owed)

\* The types.
SessionType ==
  /\ ctl \in Controller
  /\ process \in {"up", "closed", "crashed"}
  /\ exporting \in BOOLEAN
  /\ dialog \in {"none", "unsaved", "open", "save", "recovery"}
  /\ pending \in {"none", "new", "open", "close"}
  /\ edits \in 0 .. MaxEdits
  /\ waived \in BOOLEAN

\* Where the work that is owed may be at risk: the dialog of a start stands
\* between the user and the window until the recovery file is dealt with, a
\* file is opened over unsaved work only once it is waived, and a document
\* without unsaved work owes none.
WorkInv ==
  /\ waived => ~Owes
  /\ process = "up" =>
       /\ dialog = "recovery" => ctl.available /\ ~ctl.dirty
       /\ dialog = "open" => ~Owes /\ (ctl.dirty => waived)
       /\ dialog # "recovery" /\ ~ctl.dirty => ~Owes

IInv == SessionType /\ CleanMeansSaved /\ AutosavedWorkSurvives /\ WorkInv

-----------------------------------------------------------------------------
(* What the operations of the controller return.                           *)

\* A blank document is a document.
LEMMA BlankIsDocument == Blank \in Document
  BY ContentAssumption DEF Blank, Document

\* remove_recovery_file touches the recovery file alone.
LEMMA WithoutRecoveryValue ==
  ASSUME NEW c \in Controller
  PROVE  LET d == WithoutRecovery(c)
         IN  /\ d \in Controller
             /\ d.doc = c.doc /\ d.path = c.path
             /\ d.dirty = c.dirty /\ d.half = c.half
             /\ \A f \in Files \ {Recovery} : d.disk[f] = c.disk[f]
  BY DEF WithoutRecovery, Controller, Files

\* newProject leaves a blank document without a file, and the project files
\* as they are.
LEMMA NewProjectValue ==
  ASSUME NEW c \in Controller
  PROVE  LET d == NewProject(c)
         IN  /\ d \in Controller
             /\ d.doc = Blank /\ d.path = NoPath /\ d.dirty = FALSE
             /\ \A f \in Files \ {Recovery} : d.disk[f] = c.disk[f]
<1> DEFINE b == [c EXCEPT !.doc = Blank, !.dirty = FALSE, !.path = NoPath,
                          !.half = FALSE]
<1>1. /\ b \in Controller /\ b.disk = c.disk
      /\ b.doc = Blank /\ b.path = NoPath /\ b.dirty = FALSE
  BY BlankIsDocument DEF Controller
<1> HIDE DEF b
<1>2. NewProject(c) = WithoutRecovery(b)
  BY DEF NewProject, b
<1> QED
  BY <1>1, <1>2, WithoutRecoveryValue

\* saveProjectAs leaves the document in its file, unless that is the recovery
\* file, which it removes.
LEMMA SavedValue ==
  ASSUME NEW c \in Controller, NEW p \in Files
  PROVE  LET d == Saved(c, p)
         IN  /\ d \in Controller
             /\ d.doc = c.doc /\ d.path = p /\ d.dirty = FALSE
             /\ p # Recovery => d.disk[p] = c.doc
<1> DEFINE b == [c EXCEPT !.disk[p] = c.doc, !.path = p, !.dirty = FALSE]
<1>1. /\ b \in Controller /\ b.disk[p] = c.doc
      /\ b.doc = c.doc /\ b.path = p /\ b.dirty = FALSE
  BY DEF Controller
<1> HIDE DEF b
<1>2. Saved(c, p) = WithoutRecovery(b)
  BY DEF Saved, b
<1> QED
  BY <1>1, <1>2, WithoutRecoveryValue

\* openProject either refuses the file, or fails half-way, or shows what the
\* file holds; in the first two cases the files stay as they are.
LEMMA OpenProjectValue ==
  ASSUME NEW c \in Controller, NEW p \in Files
  PROVE  LET d == OpenProject(c, p)
         IN  /\ d \in Controller
             /\ \/ d = c
                \/ d.half = TRUE
                \/ d.path = p /\ (p # Recovery => d.disk[p] = d.doc)
             /\ ~Opens(c.disk[p]) =>
                  d.disk = c.disk /\ d.dirty = c.dirty
                    /\ d.available = c.available
<1> DEFINE opened == [c EXCEPT !.doc = c.disk[p], !.path = p, !.dirty = FALSE,
                               !.half = FALSE]
           half == [c EXCEPT !.doc = c.disk[p], !.half = TRUE]
<1>1. CASE c.disk[p] \notin Document
  BY <1>1 DEF OpenProject, Opens
<1>2. CASE c.disk[p] \in Document /\ ~Opens(c.disk[p])
  <2>1. OpenProject(c, p) = half
    BY <1>2 DEF OpenProject
  <2>2. /\ half \in Controller /\ half.half = TRUE
        /\ half.disk = c.disk /\ half.dirty = c.dirty
        /\ half.available = c.available
    BY <1>2 DEF Controller
  <2> HIDE DEF half
  <2> QED
    BY <2>1, <2>2
<1>3. CASE Opens(c.disk[p])
  <2>1. OpenProject(c, p)
          = IF p = Recovery THEN opened ELSE WithoutRecovery(opened)
    BY <1>3 DEF OpenProject, Opens
  <2>2. /\ opened \in Controller /\ opened.path = p
        /\ opened.disk[p] = opened.doc
    BY <1>3 DEF Controller, Opens
  <2> HIDE DEF opened
  <2> QED
    BY <1>3, <2>1, <2>2, WithoutRecoveryValue
<1> QED
  BY <1>1, <1>2, <1>3

\* recoverAutosave, as the recovery dialog calls it: the files stay, and work
\* that can be recovered is unsaved work again.
LEMMA RecoverAutosaveValue ==
  ASSUME NEW c \in Controller, c.available
  PROVE  LET d == RecoverAutosave(c)
         IN  /\ d \in Controller
             /\ d.disk = c.disk
             /\ Opens(c.disk[Recovery]) => d.dirty = TRUE
             /\ d = c \/ d.half = TRUE \/ d.dirty = TRUE \/ d.path = Recovery
<1> DEFINE opened == OpenProject(c, Recovery)
<1>0. Recovery \in Files
  BY DEF Files
<1>1. opened \in Controller
  BY <1>0, OpenProjectValue
<1>2. CASE Opens(c.disk[Recovery])
  <2>1. opened = [c EXCEPT !.doc = c.disk[Recovery], !.path = Recovery,
                           !.dirty = FALSE, !.half = FALSE]
    BY <1>2 DEF OpenProject, Opens
  <2>2. opened.disk = c.disk
    BY <2>1 DEF Controller
  <2> HIDE DEF opened
  <2>3. RecoverAutosave(c) = [opened EXCEPT !.path = NoPath, !.dirty = TRUE]
    BY <1>2 DEF RecoverAutosave, opened
  <2> QED
    BY <1>1, <1>2, <2>2, <2>3 DEF Controller
<1>3. CASE ~Opens(c.disk[Recovery])
  <2>1. RecoverAutosave(c) = opened
    BY <1>3 DEF RecoverAutosave
  <2>2. /\ opened.disk = c.disk
        /\ opened = c \/ opened.half = TRUE \/ opened.path = Recovery
    BY <1>0, <1>3, OpenProjectValue
  <2> HIDE DEF opened
  <2> QED
    BY <1>1, <1>3, <2>1, <2>2
<1> QED
  BY <1>2, <1>3

\* The constructor shows a blank document and leaves the files alone.
LEMMA StartedValue ==
  ASSUME NEW disk \in [Files -> Document \cup {Nothing, Unreadable}]
  PROVE  LET d == Started(disk)
         IN  /\ d \in Controller
             /\ d.doc = Blank /\ d.path = NoPath /\ d.dirty = FALSE
             /\ d.disk = disk
             /\ d.available <=> disk[Recovery] # Nothing
  BY BlankIsDocument DEF Started, Controller, Files

-----------------------------------------------------------------------------
(* The inductive invariant is one.                                         *)

\* CleanMeansSaved of a controller in a running process.
Clean(c) ==
  ~c.dirty /\ ~c.half /\ c.path # Recovery =>
    IF c.path = NoPath THEN c.doc = Blank ELSE c.disk[c.path] = c.doc

\* Every operation that takes the star from the title has put the document
\* into its file, or taken it from there, or shows a blank one.
LEMMA OperationsAreClean ==
  ASSUME NEW c \in Controller
  PROVE  /\ Clean(NewProject(c))
         /\ \A p \in Files : Clean(Saved(c, p))
         /\ \A p \in Files : Clean(c) => Clean(OpenProject(c, p))
         /\ Clean(c) => Clean(WithoutRecovery(c))
         /\ Clean(c) /\ c.available => Clean(RecoverAutosave(c))
<1>1. Clean(NewProject(c))
  BY NewProjectValue DEF Clean
<1>2. ASSUME NEW p \in Files PROVE Clean(Saved(c, p))
  <2> DEFINE d == Saved(c, p)
  <2>1. /\ d.doc = c.doc /\ d.path = p
        /\ p # Recovery => d.disk[p] = c.doc
    BY SavedValue
  <2> HIDE DEF d
  <2>2. Clean(d)
    BY <2>1, PathsAssumption DEF Clean
  <2> QED
    BY <2>2 DEF d
<1>3. ASSUME NEW p \in Files, Clean(c) PROVE Clean(OpenProject(c, p))
  <2> DEFINE d == OpenProject(c, p)
  <2>1. d = c \/ d.half = TRUE \/ (d.path = p /\ (p # Recovery => d.disk[p] = d.doc))
    BY OpenProjectValue
  <2> HIDE DEF d
  <2>2. Clean(d)
    BY <1>3, <2>1, PathsAssumption DEF Clean
  <2> QED
    BY <2>2 DEF d
<1>4. ASSUME Clean(c) PROVE Clean(WithoutRecovery(c))
  BY <1>4, WithoutRecoveryValue DEF Clean, Controller
<1>5. ASSUME Clean(c), c.available PROVE Clean(RecoverAutosave(c))
  BY <1>5, RecoverAutosaveValue DEF Clean
<1> QED
  BY <1>1, <1>2, <1>3, <1>4, <1>5

\* performProjectAction keeps the types and cleanliness of its controller.
LEMMA PerformValue ==
  ASSUME NEW action, NEW c \in Controller, Perform(action, c)
  PROVE  /\ ctl' \in Controller
         /\ Clean(c) => Clean(ctl')
         /\ action # "new" => ctl' = c
         /\ dialog' \in {"none", "open"} /\ pending' = "none"
         /\ process' \in {"up", "closed"}
         /\ process' = "up" /\ dialog' = "open" <=> action = "open"
         /\ process' = "closed" <=> action = "close"
<1>1. CASE action = "new"
  BY <1>1, NewProjectValue, OperationsAreClean DEF Perform
<1>2. CASE action # "new"
  BY <1>2 DEF Perform
<1> QED
  BY <1>1, <1>2

\* The initial states satisfy the inductive invariant.
LEMMA InitIInv == Init => IInv
<1> SUFFICES ASSUME Init PROVE IInv
  OBVIOUS
<1>1. PICK disk \in Disks : ctl = Started(disk)
  BY DEF Init
<1>2. disk \in [Files -> Document \cup {Nothing, Unreadable}]
  BY ContentAssumption
<1>3. ctl \in Controller
  BY <1>1, <1>2, StartedValue
<1>4. SessionType
  <2>1. exporting \in BOOLEAN /\ waived \in BOOLEAN
    BY DEF Init
  <2> QED
    BY <1>3, <2>1, ContentAssumption DEF Init, SessionType
<1>5. ~Owes /\ process # "up"
  BY ContentAssumption DEF Init, Owes
<1> QED
  BY <1>4, <1>5
     DEF IInv, CleanMeansSaved, AutosavedWorkSurvives, WorkInv, Owes

\* Every step keeps the types.
LEMMA NextSessionType == IInv /\ [Next]_vars => SessionType'
<1> SUFFICES ASSUME IInv, [Next]_vars PROVE SessionType'
  OBVIOUS
<1>0. SessionType /\ ctl \in Controller
  BY DEF IInv, SessionType
<1> USE <1>0 DEF SessionType, window, history, Unchanged, Free, In
<1>1. CASE Edit
  <2>1. edits + 1 \in 0 .. MaxEdits /\ edits + 1 \in 0 .. MaxEdits + 9
    BY <1>1, ContentAssumption DEF Edit
  <2>2. [ctl.doc EXCEPT !.n = edits + 1] \in Document
    BY <2>1 DEF Controller, Document
  <2>3. ctl' = [ctl EXCEPT !.doc = [ctl.doc EXCEPT !.n = edits + 1],
                           !.dirty = TRUE]
    BY <1>1 DEF Edit, Controller
  <2> DEFINE doc == [ctl.doc EXCEPT !.n = edits + 1]
  <2> HIDE DEF doc
  <2>4. ctl' \in Controller
    BY <2>2, <2>3 DEF Controller, doc
  <2> QED
    BY <1>1, <2>1, <2>4 DEF Edit
<1>2. ASSUME NEW action \in {"new", "open"}, Request(action) PROVE SessionType'
  <2>1. CASE ctl.dirty
    BY <1>2, <2>1 DEF Request
  <2>2. CASE ~ctl.dirty
    BY <1>2, <2>2, PerformValue DEF Request
  <2> QED
    BY <2>1, <2>2
<1>3. CASE Close \/ SaveAsKey \/ ExportBegin \/ ExportEnd
  BY <1>3 DEF Close, SaveAsKey, ExportBegin, ExportEnd
<1>4. CASE SaveKey
  <2>1. ctl.path # NoPath => Saved(ctl, ctl.path) \in Controller
    BY SavedValue DEF Controller
  <2> QED
    BY <1>4, <2>1 DEF SaveKey
<1>5. CASE RecoveryDiscard
  BY <1>5, WithoutRecoveryValue DEF RecoveryDiscard
<1>6. CASE RecoveryRecover
  BY <1>6, RecoverAutosaveValue DEF RecoveryRecover, IInv, WorkInv
<1>7. CASE OpenPicked
  <2>1. ctl' \in Controller
    BY <1>7, OpenProjectValue DEF OpenPicked
  <2> QED
    BY <1>7, <2>1 DEF OpenPicked
<1>8. CASE SavePicked
  <2>1. PICK p \in Paths :
          IF pending # "none"
          THEN Perform(pending, Saved(ctl, p))
          ELSE ctl' = Saved(ctl, p) /\ dialog' = "none"
                 /\ UNCHANGED <<process, pending>>
    BY <1>8 DEF SavePicked
  <2>2. Saved(ctl, p) \in Controller
    BY SavedValue DEF Files
  <2>3. UNCHANGED <<exporting, edits, waived>>
    BY <1>8 DEF SavePicked
  <2>4. CASE pending # "none"
    BY <2>1, <2>2, <2>3, <2>4, PerformValue
  <2>5. CASE pending = "none"
    BY <2>1, <2>2, <2>3, <2>5
  <2> QED
    BY <2>4, <2>5
<1>9. CASE SavePickedFails \/ CancelFile \/ UnsavedCancel \/ UnsavedSaveFails
  BY <1>9 DEF SavePickedFails, CancelFile, UnsavedCancel, UnsavedSaveFails,
     SaveFails
<1>10. CASE UnsavedDiscard
  BY <1>10, PerformValue DEF UnsavedDiscard
<1>11. CASE UnsavedSave
  <2>1. CASE ctl.path = NoPath
    BY <1>11, <2>1 DEF UnsavedSave
  <2>2. CASE ctl.path # NoPath
    <3>1. Saved(ctl, ctl.path) \in Controller
      BY <2>2, SavedValue DEF Controller
    <3> QED
      BY <1>11, <2>2, <3>1, PerformValue DEF UnsavedSave
  <2> QED
    BY <2>1, <2>2
<1>12. CASE AutosaveTick
  <2>1. ctl' \in Controller
    BY <1>12 DEF AutosaveTick, Autosaved, Controller
  <2> QED
    BY <1>12, <2>1 DEF AutosaveTick
<1>13. CASE Crash
  <2>1. ctl' \in Controller
    BY <1>13 DEF Crash, Interrupted, Controller
  <2> QED
    BY <1>13, <2>1 DEF Crash
<1>14. CASE Start
  <2>1. ctl' \in Controller
    BY <1>14, StartedValue DEF Start, Controller
  <2> QED
    BY <1>14, <2>1 DEF Start
<1>15. CASE UNCHANGED vars
  BY <1>15 DEF vars
<1> QED
  BY <1>1, <1>2, <1>3, <1>4, <1>5, <1>6, <1>7, <1>8, <1>9, <1>10, <1>11,
     <1>12, <1>13, <1>14, <1>15 DEF Next

\* Every step keeps CleanMeansSaved.
LEMMA NextClean == IInv /\ [Next]_vars => CleanMeansSaved'
<1> SUFFICES ASSUME IInv, [Next]_vars, process' = "up" PROVE Clean(ctl')
  BY DEF CleanMeansSaved, Clean
<1>0. ctl \in Controller /\ (process = "up" => Clean(ctl))
  BY DEF IInv, SessionType, CleanMeansSaved, Clean
<1> USE <1>0 DEF window, history, Unchanged, Free, In
<1>1. ASSUME ctl'.dirty PROVE Clean(ctl')
  BY <1>1 DEF Clean
<1>2. CASE Edit
  BY <1>1, <1>2 DEF Edit, Controller
<1>3. ASSUME NEW action \in {"new", "open"}, Request(action) PROVE Clean(ctl')
  <2>1. CASE ctl.dirty
    BY <1>3, <2>1 DEF Request
  <2>2. CASE ~ctl.dirty
    BY <1>3, <2>2, PerformValue DEF Request
  <2> QED
    BY <2>1, <2>2
<1>4. CASE Close \/ SaveAsKey \/ ExportBegin \/ ExportEnd
  BY <1>4 DEF Close, SaveAsKey, ExportBegin, ExportEnd
<1>5. CASE SaveKey
  <2>1. ctl.path # NoPath => Clean(Saved(ctl, ctl.path))
    BY OperationsAreClean DEF Controller
  <2> QED
    BY <1>5, <2>1 DEF SaveKey
<1>6. CASE RecoveryDiscard
  BY <1>6, OperationsAreClean DEF RecoveryDiscard
<1>7. CASE RecoveryRecover
  BY <1>7, OperationsAreClean DEF RecoveryRecover, IInv, WorkInv
<1>8. CASE OpenPicked
  BY <1>8, OperationsAreClean DEF OpenPicked
<1>9. CASE SavePicked
  <2>1. PICK p \in Paths :
          IF pending # "none"
          THEN Perform(pending, Saved(ctl, p))
          ELSE ctl' = Saved(ctl, p)
    BY <1>9 DEF SavePicked
  <2>2. Saved(ctl, p) \in Controller /\ Clean(Saved(ctl, p))
    BY SavedValue, OperationsAreClean DEF Files
  <2> QED
    BY <2>1, <2>2, PerformValue
<1>10. CASE SavePickedFails \/ CancelFile \/ UnsavedCancel \/ UnsavedSaveFails
  BY <1>10 DEF SavePickedFails, CancelFile, UnsavedCancel, UnsavedSaveFails,
     SaveFails
<1>11. CASE UnsavedDiscard
  BY <1>11, PerformValue DEF UnsavedDiscard
<1>12. CASE UnsavedSave
  <2>1. CASE ctl.path = NoPath
    BY <1>12, <2>1 DEF UnsavedSave
  <2>2. CASE ctl.path # NoPath
    <3>1. /\ Saved(ctl, ctl.path) \in Controller
          /\ Clean(Saved(ctl, ctl.path))
      BY <2>2, SavedValue, OperationsAreClean DEF Controller
    <3> QED
      BY <1>12, <2>2, <3>1, PerformValue DEF UnsavedSave
  <2> QED
    BY <2>1, <2>2
<1>13. CASE AutosaveTick
  BY <1>1, <1>13 DEF AutosaveTick, Autosaved, Controller
<1>14. CASE Crash
  BY <1>14 DEF Crash
<1>15. CASE Start
  <2>1. /\ ctl'.doc = Blank /\ ctl'.path = NoPath
    BY <1>15, StartedValue DEF Start, Controller
  <2> QED
    BY <2>1 DEF Clean
<1>16. CASE UNCHANGED vars
  BY <1>16 DEF vars
<1> QED
  BY <1>2, <1>3, <1>4, <1>5, <1>6, <1>7, <1>8, <1>9, <1>10, <1>11, <1>12,
     <1>13, <1>14, <1>15, <1>16 DEF Next

\* Every step keeps the work that is owed, and what says where it may be lost.
LEMMA NextWork == IInv /\ [Next]_vars => AutosavedWorkSurvives' /\ WorkInv'
<1> SUFFICES ASSUME IInv, [Next]_vars
             PROVE  AutosavedWorkSurvives' /\ WorkInv'
  OBVIOUS
<1>0. /\ ctl \in Controller /\ waived \in BOOLEAN
      /\ Owes => ctl.disk[Recovery] = owed
      /\ WorkInv
  BY DEF IInv, SessionType, AutosavedWorkSurvives, Owes
<1> USE <1>0 DEF AutosavedWorkSurvives, WorkInv, window, history, Unchanged,
    Free, In
<1>1. ASSUME owed' = Nothing,
             process' = "up" => dialog' # "recovery",
             dialog' = "open" /\ ctl'.dirty => waived'
      PROVE  AutosavedWorkSurvives' /\ WorkInv'
  <2>1. ~Owes'
    BY <1>1, ContentAssumption DEF Owes
  <2> QED
    BY <1>1, <2>1 DEF Owes
<1>2. CASE Edit
  <2>1. ctl'.dirty /\ ctl'.disk = ctl.disk
    BY <1>2 DEF Edit, Controller
  <2> QED
    BY <1>2, <2>1 DEF Edit, Owes
<1>3. ASSUME NEW action \in {"new", "open"}, Request(action)
      PROVE  AutosavedWorkSurvives' /\ WorkInv'
  <2>1. CASE ctl.dirty
    BY <1>3, <2>1 DEF Request, Owes
  <2>2. CASE ~ctl.dirty
    <3>1. ~Owes /\ ~Owes'
      BY <1>3, <2>2 DEF Request, Owes
    <3>2. ~ctl'.dirty /\ dialog' # "recovery"
      BY <1>3, <2>2, NewProjectValue DEF Request, Perform
    <3> QED
      BY <1>3, <2>2, <3>1, <3>2 DEF Request, Perform, Owes
  <2> QED
    BY <2>1, <2>2
<1>4. CASE Close \/ SaveAsKey \/ ExportBegin \/ ExportEnd
  BY <1>4 DEF Close, SaveAsKey, ExportBegin, ExportEnd, Owes
<1>5. CASE SaveKey
  <2>1. CASE ctl.path = NoPath
    BY <1>5, <2>1 DEF SaveKey, Owes
  <2>2. CASE ctl.path # NoPath
    BY <1>1, <1>5, <2>2 DEF SaveKey
  <2> QED
    BY <2>1, <2>2
<1>6. CASE RecoveryDiscard
  BY <1>1, <1>6 DEF RecoveryDiscard
<1>7. CASE RecoveryRecover
  <2>1. ctl' = RecoverAutosave(ctl) /\ ctl.available
    BY <1>7 DEF RecoveryRecover
  <2>2. /\ ctl'.disk = ctl.disk
        /\ Opens(ctl.disk[Recovery]) => ctl'.dirty = TRUE
    BY <2>1, RecoverAutosaveValue
  <2>3. Owes => ctl'.dirty
    BY <2>2 DEF Owes
  <2> QED
    BY <1>7, <2>2, <2>3 DEF RecoveryRecover, Owes
<1>8. CASE OpenPicked
  <2>1. ~Owes /\ ~Owes' /\ dialog' = "none"
    BY <1>8 DEF OpenPicked, Owes
  <2> QED
    BY <1>8, <2>1 DEF OpenPicked, Owes
<1>9. CASE SavePicked
  <2>1. PICK p \in Paths :
          IF pending # "none"
          THEN Perform(pending, Saved(ctl, p))
          ELSE ctl' = Saved(ctl, p) /\ dialog' = "none"
    BY <1>9 DEF SavePicked
  <2>2. Saved(ctl, p) \in Controller /\ Saved(ctl, p).dirty = FALSE
    BY SavedValue DEF Files
  <2>3. dialog' \in {"none", "open"} /\ ctl'.dirty = FALSE
    BY <2>1, <2>2, NewProjectValue DEF Perform
  <2> QED
    BY <1>1, <1>9, <2>3 DEF SavePicked
<1>10. CASE SavePickedFails \/ CancelFile \/ UnsavedCancel \/ UnsavedSaveFails
  BY <1>10 DEF SavePickedFails, CancelFile, UnsavedCancel, UnsavedSaveFails,
     SaveFails, Owes
<1>11. CASE UnsavedDiscard
  BY <1>1, <1>11 DEF UnsavedDiscard, Perform
<1>12. CASE UnsavedSave
  <2>1. CASE ctl.path = NoPath
    BY <1>12, <2>1 DEF UnsavedSave, Owes
  <2>2. CASE ctl.path # NoPath
    <3>1. /\ Saved(ctl, ctl.path) \in Controller
          /\ Saved(ctl, ctl.path).dirty = FALSE
      BY <2>2, SavedValue DEF Controller
    <3>2. dialog' \in {"none", "open"} /\ ctl'.dirty = FALSE
      BY <1>12, <2>2, <3>1, NewProjectValue DEF UnsavedSave, Perform
    <3> QED
      BY <1>1, <1>12, <2>2, <3>2 DEF UnsavedSave
  <2> QED
    BY <2>1, <2>2
<1>13. CASE AutosaveTick
  <2>1. /\ ctl'.disk[Recovery] = ctl.doc /\ ctl'.dirty = ctl.dirty
        /\ ctl'.available = TRUE
    BY <1>13 DEF AutosaveTick, Autosaved, Controller, Files
  <2>2. CASE waived
    BY <1>13, <2>1, <2>2 DEF AutosaveTick, Owes
  <2>3. CASE ~waived
    BY <1>13, <2>1, <2>3 DEF AutosaveTick, Owes
  <2> QED
    BY <2>2, <2>3
<1>14. CASE Crash
  <2>1. ctl'.disk = ctl.disk
    BY <1>14 DEF Crash, Interrupted, Controller
  <2> QED
    BY <1>14, <2>1 DEF Crash, Owes
<1>15. CASE Start
  <2>1. /\ ctl'.disk = ctl.disk /\ ctl'.dirty = FALSE
        /\ ctl'.available <=> ctl.disk[Recovery] # Nothing
    BY <1>15, StartedValue DEF Start, Controller
  <2>2. Owes => ctl'.available
    BY <2>1, ContentAssumption DEF Owes
  <2> QED
    BY <1>15, <2>1, <2>2 DEF Start, Owes
<1>16. CASE UNCHANGED vars
  BY <1>16 DEF vars, Owes
<1> QED
  BY <1>2, <1>3, <1>4, <1>5, <1>6, <1>7, <1>8, <1>9, <1>10, <1>11, <1>12,
     <1>13, <1>14, <1>15, <1>16 DEF Next

\* The inductive invariant holds in every reachable state.
THEOREM Invariance == Spec => []IInv
<1>1. Init => IInv
  BY InitIInv
<1>2. IInv /\ [Next]_vars => IInv'
  BY NextSessionType, NextClean, NextWork DEF IInv
<1> QED
  BY <1>1, <1>2, PTL DEF Spec

-----------------------------------------------------------------------------
(* What follows.                                                           *)

\* A title without a star is true: whatever newProject, openProject,
\* saveProjectAs and recoverAutosave did before, and whichever of them failed,
\* the document is blank or what its file holds.
THEOREM SavedIsOnDisk == Spec => []CleanMeansSaved
<1>1. IInv => CleanMeansSaved
  BY DEF IInv
<1> QED
  BY <1>1, Invariance, PTL

\* What autosave_if_needed has written can be recovered until it is replaced,
\* saved or given up, over any number of crashes and starts.
THEOREM AutosaveIsKept == Spec => []AutosavedWorkSurvives
<1>1. IInv => AutosavedWorkSurvives
  BY DEF IInv
<1> QED
  BY <1>1, Invariance, PTL

\* A step that replaces or closes a document with unsaved work.
LosesDocument ==
  /\ process = "up" /\ ctl.dirty /\ ctl.path # Recovery
  /\ (ctl'.doc # ctl.doc /\ edits' = edits) \/ process' = "closed"

\* ... comes after Discard or leaves the document in a project file.
LEMMA LosesNothing ==
  IInv /\ Next /\ LosesDocument =>
    waived' \/ \E p \in Paths : ctl'.disk[p] = ctl.doc
<1> SUFFICES ASSUME IInv, Next, LosesDocument
             PROVE  waived' \/ \E p \in Paths : ctl'.disk[p] = ctl.doc
  OBVIOUS
<1>0. ctl \in Controller /\ WorkInv
  BY DEF IInv, SessionType
<1> USE <1>0 DEF LosesDocument, window, history, Unchanged, Free, In
\* Saving to a project file and going on to a pending action leaves the
\* document in that file.
<1>1. ASSUME NEW p \in Paths, NEW action, Perform(action, Saved(ctl, p))
      PROVE  ctl'.disk[p] = ctl.doc
  <2>1. p \in Files \ {Recovery}
    BY PathsAssumption DEF Files
  <2>2. Saved(ctl, p) \in Controller /\ Saved(ctl, p).disk[p] = ctl.doc
    BY <2>1, SavedValue
  <2>3. ctl' = NewProject(Saved(ctl, p)) \/ ctl' = Saved(ctl, p)
    BY <1>1 DEF Perform
  <2> QED
    BY <2>1, <2>2, <2>3, NewProjectValue
<1>2. CASE Edit
  BY <1>2, ContentAssumption DEF Edit, IInv, SessionType
<1>3. ASSUME NEW action \in {"new", "open"}, Request(action) PROVE FALSE
  BY <1>3 DEF Request
<1>4. CASE Close \/ SaveAsKey \/ ExportBegin \/ ExportEnd
  BY <1>4 DEF Close, SaveAsKey, ExportBegin, ExportEnd
<1>5. CASE SaveKey
  <2>1. ctl.path # NoPath => Saved(ctl, ctl.path).doc = ctl.doc
    BY SavedValue DEF Controller
  <2> QED
    BY <1>5, <2>1 DEF SaveKey
<1>6. CASE RecoveryDiscard \/ RecoveryRecover
  BY <1>6 DEF RecoveryDiscard, RecoveryRecover, WorkInv
<1>7. CASE OpenPicked
  BY <1>7 DEF OpenPicked, WorkInv
<1>8. CASE SavePicked
  <2>1. PICK p \in Paths :
          IF pending # "none"
          THEN Perform(pending, Saved(ctl, p))
          ELSE ctl' = Saved(ctl, p) /\ UNCHANGED process
    BY <1>8 DEF SavePicked
  <2>2. CASE pending # "none"
    BY <1>1, <2>1, <2>2
  <2>3. CASE pending = "none"
    <3>1. Saved(ctl, p).doc = ctl.doc
      BY SavedValue DEF Files
    <3> QED
      BY <1>8, <2>1, <2>3, <3>1 DEF SavePicked
  <2> QED
    BY <2>2, <2>3
<1>9. CASE SavePickedFails \/ CancelFile \/ UnsavedCancel \/ UnsavedSaveFails
  BY <1>9 DEF SavePickedFails, CancelFile, UnsavedCancel, UnsavedSaveFails,
     SaveFails
<1>10. CASE UnsavedDiscard
  BY <1>10 DEF UnsavedDiscard
<1>11. CASE UnsavedSave
  <2>1. CASE ctl.path = NoPath
    BY <1>11, <2>1 DEF UnsavedSave
  <2>2. CASE ctl.path # NoPath
    <3>1. ctl.path \in Paths
      BY <2>2 DEF Controller, Files
    <3> QED
      BY <1>1, <1>11, <2>2, <3>1 DEF UnsavedSave
  <2> QED
    BY <2>1, <2>2
<1>12. CASE AutosaveTick
  BY <1>12 DEF AutosaveTick, Autosaved, Controller
<1>13. CASE Crash
  BY <1>13 DEF Crash, Controller
<1>14. CASE Start
  BY <1>14 DEF Start
<1> QED
  BY <1>2, <1>3, <1>4, <1>5, <1>6, <1>7, <1>8, <1>9, <1>10, <1>11, <1>12,
     <1>13, <1>14 DEF Next

\* No dialog that was cancelled, save that failed or pending action that was
\* left over lets requestProjectAction or onClosing lose unsaved work.
THEOREM WorkIsNotLost == Spec => OnlyDiscardLosesWork
<1>1. IInv /\ [Next]_vars =>
        [LosesDocument =>
           waived' \/ \E p \in Paths : ctl'.disk[p] = ctl.doc]_vars
  BY LosesNothing
<1> QED
  BY <1>1, Invariance, PTL DEF Spec, OnlyDiscardLosesWork, LosesDocument

-----------------------------------------------------------------------------
(* EditHistory                                                             *)

\* No note is shorter than the shortest one that a drag makes.
NoneShort ==
  /\ SnapDuration >= MinDuration
  /\ \A doc \in Opened : \A i \in DOMAIN doc : doc[i].dur >= MinDuration

Starts == {p \in Int : NoneShort => p >= 0}
Lengths == {d \in Int : NoneShort => d >= MinDuration}
ValidNote == [pos : Starts, dur : Lengths, vel : Velocities, rel : {0, 1}]

\* The documents, and the values of a field, of notes with ids below n.
DocsBelow(n) == UNION {[S -> ValidNote] : S \in SUBSET (1 .. n - 1)}
Fields == {"pos", "dur", "vel"}
Values(f) == IF f = "pos" THEN Starts ELSE IF f = "dur" THEN Lengths ELSE Velocities
ValuesBelow(f, n) == UNION {[S -> Values(f)] : S \in SUBSET (1 .. n - 1)}

PartsBelow(n) ==
  [do : {"add", "remove"}, notes : DocsBelow(n)]
    \cup UNION {[do : {"set"}, field : {f}, old : ValuesBelow(f, n),
                 new : ValuesBelow(f, n)] : f \in Fields}
CommandsBelow(n) == Seq(PartsBelow(n))

LEMMA DocParts ==
  ASSUME NEW n, NEW doc
  PROVE  doc \in DocsBelow(n) <=> DOMAIN doc \subseteq 1 .. n - 1 /\ doc \in [DOMAIN doc -> ValidNote]
BY DEF DocsBelow

LEMMA ValueParts ==
  ASSUME NEW n, NEW f, NEW value
  PROVE  value \in ValuesBelow(f, n) <=> DOMAIN value \subseteq 1 .. n - 1 /\ value \in [DOMAIN value -> Values(f)]
BY DEF ValuesBelow

LEMMA WriteField ==
  ASSUME NEW note \in ValidNote, NEW f \in Fields, NEW v \in Values(f)
  PROVE  [note EXCEPT ![f] = v] \in ValidNote
<1>1. CASE f = "pos"
  BY <1>1 DEF ValidNote, Values
<1>2. CASE f = "dur"
  BY <1>2 DEF ValidNote, Values
<1>3. CASE f = "vel"
  BY <1>3 DEF ValidNote, Values
<1>. QED
  BY <1>1, <1>2, <1>3 DEF Fields

LEMMA FieldValue ==
  ASSUME NEW note \in ValidNote, NEW f \in Fields
  PROVE  note[f] \in Values(f)
<1>1. CASE f = "pos"
  BY <1>1 DEF ValidNote, Values
<1>2. CASE f = "dur"
  BY <1>2 DEF ValidNote, Values
<1>3. CASE f = "vel"
  BY <1>3 DEF ValidNote, Values
<1>. QED
  BY <1>1, <1>2, <1>3 DEF Fields

LEMMA WrittenDoc ==
  ASSUME NEW n, NEW doc \in DocsBelow(n), NEW f \in Fields, NEW value,
         \A i \in DOMAIN value \cap DOMAIN doc : value[i] \in Values(f)
  PROVE  /\ Written(doc, f, value) \in DocsBelow(n)
         /\ DOMAIN Written(doc, f, value) = DOMAIN doc
<1>1. /\ DOMAIN doc \subseteq 1 .. n - 1
      /\ \A i \in DOMAIN doc : doc[i] \in ValidNote
  BY DocParts
<1>2. ASSUME NEW i \in DOMAIN doc
      PROVE  (IF i \in DOMAIN value THEN [doc[i] EXCEPT ![f] = value[i]] ELSE doc[i]) \in ValidNote
  <2>1. CASE i \in DOMAIN value
    BY <1>1, <2>1, WriteField
  <2>2. CASE i \notin DOMAIN value
    BY <1>1, <2>2
  <2>. QED
    BY <2>1, <2>2
<1>3. DOMAIN Written(doc, f, value) = DOMAIN doc
  BY DEF Written
<1>4. Written(doc, f, value) \in [DOMAIN doc -> ValidNote]
  BY <1>2 DEF Written
<1>. QED
  BY <1>1, <1>3, <1>4, DocParts

LEMMA ReleaseWritten ==
  ASSUME NEW n, NEW doc \in DocsBelow(n), NEW S
  PROVE  Written(doc, "rel", [i \in S |-> 0]) \in DocsBelow(n)
<1>1. /\ DOMAIN doc \subseteq 1 .. n - 1
      /\ \A i \in DOMAIN doc : doc[i] \in ValidNote
  BY DocParts
<1>2. \A note \in ValidNote : [note EXCEPT !["rel"] = 0] \in ValidNote
  BY DEF ValidNote
<1>3. Written(doc, "rel", [i \in S |-> 0]) \in [DOMAIN doc -> ValidNote]
  BY <1>1, <1>2 DEF Written
<1>4. DOMAIN Written(doc, "rel", [i \in S |-> 0]) = DOMAIN doc
  BY DEF Written
<1>. QED
  BY <1>1, <1>3, <1>4, DocParts

LEMMA UpdatedDoc ==
  ASSUME NEW n, NEW doc \in DocsBelow(n), NEW f \in Fields, NEW value \in ValuesBelow(f, n)
  PROVE  Updated(doc, f, value) \in DocsBelow(n)
<1>. DEFINE ok == {i \in DOMAIN value \cap DOMAIN doc : Accepted(f, value[i])}
<1>1. \A i \in DOMAIN value : value[i] \in Values(f)
  BY ValueParts
<1>2. /\ DOMAIN Restrict(value, ok) = ok
      /\ \A i \in ok : Restrict(value, ok)[i] = value[i]
  BY DEF Restrict
<1>3. Written(doc, f, Restrict(value, ok)) \in DocsBelow(n)
  BY <1>1, <1>2, WrittenDoc
<1>. HIDE DEF ok
<1>4. Written(Written(doc, f, Restrict(value, ok)), "rel", [i \in ok |-> 0]) \in DocsBelow(n)
  BY <1>3, ReleaseWritten
<1>. QED
  BY <1>3, <1>4 DEF Updated, ok

LEMMA AddedDoc ==
  ASSUME NEW n, NEW doc \in DocsBelow(n), NEW new \in DocsBelow(n)
  PROVE  Added(doc, new) \in DocsBelow(n)
<1>1. /\ DOMAIN doc \subseteq 1 .. n - 1 /\ DOMAIN new \subseteq 1 .. n - 1
      /\ \A i \in DOMAIN doc : doc[i] \in ValidNote
      /\ \A i \in DOMAIN new : new[i] \in ValidNote
  BY DocParts
<1>2. DOMAIN Added(doc, new) = DOMAIN doc \cup DOMAIN new
  BY DEF Added, Over
<1>3. Added(doc, new) \in [DOMAIN doc \cup DOMAIN new -> ValidNote]
  BY <1>1 DEF Added, Over
<1>. QED
  BY <1>1, <1>2, <1>3, DocParts

LEMMA RestrictedDoc ==
  ASSUME NEW n, NEW doc \in DocsBelow(n), NEW S \in SUBSET DOMAIN doc
  PROVE  Restrict(doc, S) \in DocsBelow(n)
<1>1. DOMAIN Restrict(doc, S) = S
  BY DEF Restrict
<1>2. Restrict(doc, S) \in [S -> ValidNote]
  BY DocParts DEF Restrict
<1>. QED
  BY <1>1, <1>2, DocParts

LEMMA RemovedDoc ==
  ASSUME NEW n, NEW doc \in DocsBelow(n), NEW ids
  PROVE  Removed(doc, ids) \in DocsBelow(n)
BY RestrictedDoc DEF Removed

LEMMA UndoPartDoc ==
  ASSUME NEW n, NEW doc \in DocsBelow(n), NEW part \in PartsBelow(n)
  PROVE  UndoPart(part, doc) \in DocsBelow(n) /\ RedoPart(doc, part) \in DocsBelow(n)
<1>1. CASE part \in [do : {"add"}, notes : DocsBelow(n)]
  BY <1>1, AddedDoc, RemovedDoc DEF UndoPart, RedoPart
<1>2. CASE part \in [do : {"remove"}, notes : DocsBelow(n)]
  BY <1>2, AddedDoc, RemovedDoc DEF UndoPart, RedoPart
<1>3. ASSUME NEW f \in Fields,
             part \in [do : {"set"}, field : {f}, old : ValuesBelow(f, n), new : ValuesBelow(f, n)]
      PROVE  UndoPart(part, doc) \in DocsBelow(n) /\ RedoPart(doc, part) \in DocsBelow(n)
  <2>1. part.do = "set" /\ part.field = f /\ part.old \in ValuesBelow(f, n) /\ part.new \in ValuesBelow(f, n)
    BY <1>3
  <2>. QED
    BY <2>1, UpdatedDoc DEF UndoPart, RedoPart
<1>. QED
  BY <1>1, <1>2, <1>3 DEF PartsBelow
-----------------------------------------------------------------------------
(* Least elements, finite maxima                                           *)

\* A nonempty set of naturals has a least element, which Min chooses.
LEMMA LeastNat == ASSUME NEW T \in SUBSET Nat, T # {}
                  PROVE  Min(T) \in T /\ \A y \in T : Min(T) <= y
<1>. DEFINE R == OpToRel(<, Nat)
<1>1. \A x, y \in Nat : x < y => <<x, y>> \in R
  BY Zenon DEF OpToRel
<1>2. IsWellFoundedOn(R, Nat)
  BY NatLessThanWellFounded, Zenon
<1>. HIDE DEF R
<1>3. PICK x \in T : \A y \in T : <<y, x>> \notin R
  BY <1>2, WFMin, Zenon
<1>4. \A y \in T : ~(y < x)
  BY <1>1, <1>3, Zenon
<1>5. \A y \in T : x <= y
  BY <1>3, <1>4
<1>. QED
  BY <1>3, <1>5 DEF Min

\* What holds at 0, and at k + 1 below n when it does at k, holds at n.
LEMMA CountUp ==
  ASSUME NEW n \in Nat, NEW Good \in SUBSET Nat, 0 \in Good,
         \A k \in 0 .. n - 1 : k \in Good => k + 1 \in Good
  PROVE  n \in Good
<1>. DEFINE Bad == (0 .. n) \ Good
            m == Min(Bad)
<1>1. SUFFICES ASSUME n \notin Good PROVE FALSE
  OBVIOUS
<1>2. Bad \in SUBSET Nat /\ Bad # {}
  BY <1>1
<1>3. m \in Bad /\ \A y \in Bad : m <= y
  BY <1>2, LeastNat
<1>. HIDE DEF m
<1>4. m \in 0 .. n /\ m \notin Good /\ m # 0
  BY <1>3
<1>5. m - 1 \in 0 .. n - 1 /\ m - 1 \in Good
  BY <1>3, <1>4
<1>. QED
  BY <1>4, <1>5

\* A finite set of naturals that is not empty has a largest element, which Max
\* chooses.
LEMMA LargestNat == ASSUME NEW T \in SUBSET Nat, NEW n \in Nat, T # {}, \A x \in T : x <= n
                    PROVE  Max(T) \in T /\ \A y \in T : y <= Max(T)
<1>. DEFINE Bounds == {u \in Nat : \A x \in T : x <= u}
            b == Min(Bounds)
<1>1. n \in Bounds
  OBVIOUS
<1>2. b \in Bounds /\ \A u \in Bounds : b <= u
  <2>. HIDE DEF Bounds
  <2>. QED
    BY <1>1, LeastNat DEF Bounds
<1>. HIDE DEF b
<1>3. b \in Nat /\ \A x \in T : x <= b
  BY <1>2
<1>4. b \in T
  <2>1. SUFFICES ASSUME b \notin T PROVE FALSE
    OBVIOUS
  <2>2. \A x \in T : x <= b - 1 /\ b - 1 \in Nat
    BY <1>3, <2>1
  <2>3. b - 1 \in Bounds
    BY <2>2
  <2>. QED
    BY <1>2, <1>3, <2>3
<1>5. \A y \in T : b >= y
  BY <1>3
<1>. QED
  BY <1>4, <1>5 DEF Max

-----------------------------------------------------------------------------
(* Undone and Redone                                                       *)

\* Steps that stay in a set lead from each of its elements along a list of them.
Steps(n, S, step) == step \in [1 .. n -> [S -> S]]
Path(n, S, step, first, d) ==
  d \in [0 .. n -> S] /\ d[0] = first /\ \A k \in 1 .. n : d[k] = step[k][d[k - 1]]

LEMMA StepsLead ==
  ASSUME NEW n \in Nat, NEW S, NEW first \in S, NEW step, Steps(n, S, step)
  PROVE  \E d : Path(n, S, step, first, d)
<1>. DEFINE Leads(m, d) == d[0] = first /\ \A k \in 1 .. m : d[k] = step[k][d[k - 1]]
            Good == {m \in 0 .. n : \E d \in [0 .. m -> S] : Leads(m, d)}
<1>0. step \in [1 .. n -> [S -> S]]
  BY DEF Steps
<1>1. 0 \in Good
  <2>1. [k \in 0 .. 0 |-> first] \in [0 .. 0 -> S] /\ Leads(0, [k \in 0 .. 0 |-> first])
    OBVIOUS
  <2>2. 0 \in 0 .. n
    OBVIOUS
  <2>. HIDE DEF Leads
  <2>. QED
    BY <2>1, <2>2
<1>2. ASSUME NEW m \in 0 .. n - 1, m \in Good PROVE m + 1 \in Good
  <2>1. PICK d \in [0 .. m -> S] : Leads(m, d)
    BY <1>2
  <2>. DEFINE e == [k \in 0 .. m + 1 |-> IF k = m + 1 THEN step[m + 1][d[m]] ELSE d[k]]
  <2>2. m + 1 \in 1 .. n /\ m \in 0 .. m /\ 0 \in 0 .. m /\ m \in Nat
    OBVIOUS
  <2>3. step[m + 1][d[m]] \in S
    BY <1>0, <2>2
  <2>4. e \in [0 .. m + 1 -> S]
    BY <2>2, <2>3
  <2>5. e[0] = first
    BY <2>1, <2>2
  <2>6. ASSUME NEW k \in 1 .. m + 1 PROVE e[k] = step[k][e[k - 1]]
    <3>1. CASE k = m + 1
      BY <2>2, <3>1
    <3>2. CASE k # m + 1
      <4>1. k \in 1 .. m /\ k \in 0 .. m + 1 /\ k - 1 \in 0 .. m + 1 /\ k - 1 # m + 1
        BY <2>2, <3>2
      <4>2. e[k] = d[k] /\ e[k - 1] = d[k - 1]
        BY <3>2, <4>1
      <4>. QED
        BY <2>1, <4>1, <4>2
    <3>. QED
      BY <3>1, <3>2
  <2>. HIDE DEF e
  <2>7. Leads(m + 1, e)
    BY <2>5, <2>6
  <2>. QED
    BY <2>2, <2>4, <2>7
<1>3. n \in Good
  <2>1. Good \in SUBSET Nat /\ \A k \in 0 .. n - 1 : k \in Good => k + 1 \in Good
    <3>1. Good \in SUBSET Nat
      OBVIOUS
    <3>. HIDE DEF Good
    <3>. QED
      BY <1>2, <3>1
  <2>. HIDE DEF Good
  <2>. QED
    BY <1>1, <2>1, CountUp
<1>. QED
  BY <1>3 DEF Path

\* A command is made again by making its parts again, in order.
LEMMA RedoneSteps ==
  ASSUME NEW n, NEW doc \in DocsBelow(n), NEW cmd \in CommandsBelow(n)
  PROVE  \E d \in [0 .. Len(cmd) -> DocsBelow(n)] :
           /\ d[0] = doc /\ Redone(cmd, doc) = d[Len(cmd)]
           /\ \A k \in 1 .. Len(cmd) : d[k] = RedoPart(d[k - 1], cmd[k])
<1>. DEFINE D == DocsBelow(n)
            m == Len(cmd)
            step == [k \in 1 .. m |-> [x \in D |-> RedoPart(x, cmd[k])]]
            Body(f) == [k \in 0 .. m |-> IF k = 0 THEN doc ELSE RedoPart(f[k - 1], cmd[k])]
            made == CHOOSE f : f = Body(f)
<1>1. m \in Nat /\ doc \in D /\ \A k \in 1 .. m : cmd[k] \in PartsBelow(n)
  BY DEF CommandsBelow
<1>2. step \in [1 .. m -> [D -> D]]
  BY <1>1, UndoPartDoc
<1>3. PICK d \in [0 .. m -> D] : d[0] = doc /\ \A k \in 1 .. m : d[k] = step[k][d[k - 1]]
  <2>1. Steps(m, D, step)
    BY <1>2 DEF Steps
  <2>. HIDE DEF D, m, step
  <2>2. PICK p : Path(m, D, step, doc, p)
    BY <1>1, <2>1, StepsLead
  <2>. QED
    BY <2>2 DEF Path
<1>4. d = Body(d)
  <2>1. ASSUME NEW k \in 0 .. m
        PROVE  d[k] = IF k = 0 THEN doc ELSE RedoPart(d[k - 1], cmd[k])
    <3>1. CASE k = 0
      BY <1>3, <3>1
    <3>2. CASE k # 0
      <4>1. k \in 1 .. m /\ k - 1 \in 0 .. m
        BY <1>1, <3>2
      <4>2. d[k] = step[k][d[k - 1]] /\ d[k - 1] \in D
        BY <1>3, <4>1
      <4>. QED
        BY <3>2, <4>1, <4>2
    <3>. QED
      BY <3>1, <3>2
  <2>. QED
    BY <1>3, <2>1
<1>5. made = Body(made)
  <2>. HIDE DEF Body
  <2>. QED
    BY <1>4
<1>6. Redone(cmd, doc) = made[m]
  BY DEF Redone
<1>. HIDE DEF made
<1>7. made[0] = doc /\ \A k \in 1 .. m : made[k] = RedoPart(made[k - 1], cmd[k])
  <2>1. made[0] = Body(made)[0] /\ \A k \in 1 .. m : made[k] = Body(made)[k]
    <3>. HIDE DEF Body
    <3>. QED
      BY <1>5
  <2>2. 0 \in 0 .. m /\ \A k \in 1 .. m : k \in 0 .. m /\ k # 0
    BY <1>1
  <2>. QED
    BY <2>1, <2>2
<1>. DEFINE Good == {k \in 0 .. m : made[k] \in D}
<1>8. ASSUME NEW k \in 0 .. m PROVE made[k] \in D
  <2>1. Good \in SUBSET Nat /\ 0 \in Good
    BY <1>1, <1>7
  <2>2. \A j \in 0 .. m - 1 : j \in Good => j + 1 \in Good
    <3>1. ASSUME NEW j \in 0 .. m - 1, j \in Good PROVE j + 1 \in Good
      <4>1. j + 1 \in 1 .. m /\ (j + 1) - 1 = j
        BY <1>1
      <4>2. made[j + 1] = RedoPart(made[j], cmd[j + 1])
        BY <1>7, <4>1
      <4>. QED
        BY <1>1, <3>1, <4>1, <4>2, UndoPartDoc
    <3>. QED
      BY <3>1
  <2>3. k \in Nat /\ 0 .. k - 1 \subseteq 0 .. m - 1
    BY <1>1
  <2>. HIDE DEF Good
  <2>4. \A j \in 0 .. k - 1 : j \in Good => j + 1 \in Good
    BY ONLY <2>2, <2>3, Zenon
  <2>5. k \in Good
    BY <2>1, <2>3, <2>4, CountUp, Zenon
  <2>. QED
    BY ONLY <2>5 DEF Good
<1>9. made \in [0 .. m -> D]
  <2>1. made = [k \in 0 .. m |-> made[k]]
    BY <1>5
  <2>. QED
    BY <1>8, <2>1
<1>. QED
  BY <1>6, <1>7, <1>9

\* It is undone from its last part to its first.
LEMMA UndoneSteps ==
  ASSUME NEW n, NEW doc \in DocsBelow(n), NEW cmd \in CommandsBelow(n)
  PROVE  \E d \in [0 .. Len(cmd) -> DocsBelow(n)] :
           /\ d[Len(cmd)] = doc /\ Undone(cmd, doc) = d[0]
           /\ \A k \in 1 .. Len(cmd) : d[k - 1] = UndoPart(cmd[k], d[k])
<1>. DEFINE D == DocsBelow(n)
            m == Len(cmd)
            step == [k \in 1 .. m |-> [x \in D |-> UndoPart(cmd[m - k + 1], x)]]
            Body(f) == [k \in 0 .. m |-> IF k = m THEN doc ELSE UndoPart(cmd[k + 1], f[k + 1])]
            left == CHOOSE f : f = Body(f)
<1>1. m \in Nat /\ doc \in D /\ \A k \in 1 .. m : cmd[k] \in PartsBelow(n)
  BY DEF CommandsBelow
<1>2. step \in [1 .. m -> [D -> D]]
  <2>1. \A k \in 1 .. m : m - k + 1 \in 1 .. m
    BY <1>1
  <2>. QED
    BY <1>1, <2>1, UndoPartDoc
<1>3. PICK e \in [0 .. m -> D] : e[0] = doc /\ \A k \in 1 .. m : e[k] = step[k][e[k - 1]]
  <2>1. Steps(m, D, step)
    BY <1>2 DEF Steps
  <2>. HIDE DEF D, m, step
  <2>2. PICK p : Path(m, D, step, doc, p)
    BY <1>1, <2>1, StepsLead
  <2>. QED
    BY <2>2 DEF Path
<1>. DEFINE d == [k \in 0 .. m |-> e[m - k]]
<1>4. d = Body(d)
  <2>1. ASSUME NEW k \in 0 .. m
        PROVE  d[k] = IF k = m THEN doc ELSE UndoPart(cmd[k + 1], d[k + 1])
    <3>1. CASE k = m
      BY <1>1, <1>3, <3>1
    <3>2. CASE k # m
      <4>. DEFINE j == m - k
      <4>1. j \in 1 .. m /\ j - 1 \in 0 .. m /\ m - j + 1 = k + 1 /\ k + 1 \in 0 .. m /\ m - (k + 1) = j - 1
        BY <1>1, <3>2
      <4>2. e[j] = step[j][e[j - 1]] /\ e[j - 1] \in D
        BY <1>3, <4>1
      <4>3. e[j] = UndoPart(cmd[m - j + 1], e[j - 1])
        BY <4>1, <4>2
      <4>4. d[k] = e[j] /\ d[k + 1] = e[j - 1]
        BY <4>1
      <4>. QED
        BY <3>2, <4>1, <4>3, <4>4
    <3>. QED
      BY <3>1, <3>2
  <2>. QED
    BY <2>1
<1>5. left = Body(left)
  <2>. HIDE DEF Body, d
  <2>. QED
    BY <1>4
<1>6. Undone(cmd, doc) = left[0]
  BY DEF Undone
<1>. HIDE DEF left
<1>7. left[m] = doc /\ \A k \in 1 .. m : left[k - 1] = UndoPart(cmd[k], left[k])
  <2>1. left[m] = Body(left)[m] /\ \A k \in 0 .. m : left[k] = Body(left)[k]
    BY <1>1, <1>5
  <2>2. ASSUME NEW k \in 1 .. m PROVE left[k - 1] = UndoPart(cmd[k], left[k])
    <3>1. k - 1 \in 0 .. m /\ k - 1 # m /\ (k - 1) + 1 = k
      BY <1>1
    <3>2. left[k - 1] = Body(left)[k - 1]
      BY <2>1, <3>1
    <3>. QED
      BY <3>1, <3>2
  <2>. QED
    BY <1>1, <2>1, <2>2
<1>. DEFINE Good == {k \in 0 .. m : left[m - k] \in D}
<1>8. ASSUME NEW k \in 0 .. m PROVE left[k] \in D
  <2>1. Good \in SUBSET Nat /\ 0 \in Good
    BY <1>1, <1>7
  <2>2. \A j \in 0 .. m - 1 : j \in Good => j + 1 \in Good
    <3>1. ASSUME NEW j \in 0 .. m - 1, j \in Good PROVE j + 1 \in Good
      <4>1. m - j \in 1 .. m /\ (m - j) - 1 = m - (j + 1) /\ j + 1 \in 0 .. m
        BY <1>1
      <4>2. left[m - (j + 1)] = UndoPart(cmd[m - j], left[m - j])
        BY <1>7, <4>1
      <4>. QED
        BY <1>1, <3>1, <4>1, <4>2, UndoPartDoc
    <3>. QED
      BY <3>1
  <2>3. m - k \in 0 .. m /\ m - (m - k) = k
    BY <1>1
  <2>. HIDE DEF Good
  <2>4. m - k \in Good
    <3>1. \A i \in 0 .. m : i \in Good
      <4>1. TAKE i \in 0 .. m
      <4>2. \A j \in 0 .. i - 1 : j \in Good => j + 1 \in Good
        BY <1>1, <2>2
      <4>. QED
        BY <1>1, <2>1, <4>2, CountUp
    <3>. QED
      BY <2>3, <3>1
  <2>. QED
    BY <2>3, <2>4 DEF Good
<1>9. left \in [0 .. m -> D]
  <2>1. left = [k \in 0 .. m |-> left[k]]
    BY <1>5
  <2>. QED
    BY <1>8, <2>1
<1>. QED
  BY <1>6, <1>7, <1>9

\* Undone or made again, a command leaves a document.
LEMMA HistoryDoc ==
  ASSUME NEW n, NEW doc \in DocsBelow(n), NEW cmd \in CommandsBelow(n)
  PROVE  Undone(cmd, doc) \in DocsBelow(n) /\ Redone(cmd, doc) \in DocsBelow(n)
<1>1. Len(cmd) \in Nat
  BY DEF CommandsBelow
<1>. QED
  BY <1>1, UndoneSteps, RedoneSteps

-----------------------------------------------------------------------------
(* The inductive invariant                                                 *)

\* All notes that the sequence or the history knows have ids below the next.
HistoryInv ==
  /\ nextId \in Nat \ {0}
  /\ notes \in DocsBelow(nextId)
  /\ undoStack \in Seq(CommandsBelow(nextId))
  /\ redoStack \in Seq(CommandsBelow(nextId))
  /\ batch \in CommandsBelow(nextId)

Modes == {"none", "erase", "create", "move", "start", "end"}

\* And those that an open drag or velocity gesture knows.
DragInv ==
  /\ drag \in [mode : Modes, id : 0 .. nextId - 1, initial : DocsBelow(nextId)]
  /\ drag.mode = "none" => drag = NoDrag

VelocityInv ==
  /\ gesture \in [old : ValuesBelow("vel", nextId), new : ValuesBelow("vel", nextId)]
  /\ DOMAIN gesture.old = {} => gesture = NoGesture

EditInv == HistoryInv /\ DragInv /\ VelocityInv

USE BoundsAssumption, LengthsAssumption, VelocityAssumption, OpenedAssumption

\* What is below n is below all that are not less.
LEMMA BelowGrows ==
  ASSUME NEW n \in Int, NEW m \in Int, n <= m
  PROVE  /\ DocsBelow(n) \subseteq DocsBelow(m)
         /\ \A f : ValuesBelow(f, n) \subseteq ValuesBelow(f, m)
         /\ PartsBelow(n) \subseteq PartsBelow(m)
         /\ CommandsBelow(n) \subseteq CommandsBelow(m)
         /\ Seq(CommandsBelow(n)) \subseteq Seq(CommandsBelow(m))
<1>1. 1 .. n - 1 \subseteq 1 .. m - 1
  OBVIOUS
<1>2. DocsBelow(n) \subseteq DocsBelow(m)
  BY <1>1 DEF DocsBelow
<1>3. \A f : ValuesBelow(f, n) \subseteq ValuesBelow(f, m)
  BY <1>1 DEF ValuesBelow
<1>4. PartsBelow(n) \subseteq PartsBelow(m)
  BY <1>2, <1>3 DEF PartsBelow
<1>5. \A S, T : S \subseteq T => Seq(S) \subseteq Seq(T)
  OBVIOUS
<1>6. CommandsBelow(n) \subseteq CommandsBelow(m)
  BY <1>4, <1>5 DEF CommandsBelow
<1>. QED
  BY <1>2, <1>3, <1>4, <1>5, <1>6

\* The empty document, and none for a field.
LEMMA NoNotes ==
  ASSUME NEW n
  PROVE  /\ Empty \in DocsBelow(n) /\ DOMAIN Empty = {}
         /\ Empty \in ValuesBelow("vel", n)
<1>1. DOMAIN Empty = {} /\ \A S : Empty \in [{} -> S]
  BY DEF Empty
<1>. QED
  BY <1>1, DocParts, ValueParts

\* The greater of two.
LEMMA LargerOfTwo ==
  ASSUME NEW a \in Int, NEW b \in Int
  PROVE  /\ Max({a, b}) \in {a, b} /\ Max({a, b}) >= a /\ Max({a, b}) >= b
         /\ Min({a, b}) \in {a, b} /\ Min({a, b}) <= a /\ Min({a, b}) <= b
<1>1. \E x \in {a, b} : \A y \in {a, b} : x >= y
  OBVIOUS
<1>2. \E x \in {a, b} : \A y \in {a, b} : x =< y
  OBVIOUS
<1>. QED
  BY <1>1, <1>2 DEF Max, Min

\* An opened document is below its next id.
LEMMA OpenedDoc ==
  ASSUME NEW doc \in Opened
  PROVE  NextId(doc) \in Nat \ {0} /\ doc \in DocsBelow(NextId(doc))
<1>. DEFINE T == {0} \cup DOMAIN doc
<1>1. T \in SUBSET Nat /\ T # {} /\ \A x \in T : x <= MaxId
  BY DEF Ids
<1>2. Max(T) \in T /\ \A y \in T : y <= Max(T)
  <2>. HIDE DEF T
  <2>. QED
    BY <1>1, LargestNat
<1>3. NextId(doc) = Max(T) + 1
  BY DEF NextId
<1>. HIDE DEF T
<1>4. NextId(doc) \in Nat \ {0} /\ \A x \in T : x <= NextId(doc) - 1
  BY <1>1, <1>2, <1>3
<1>5. DOMAIN doc \subseteq 1 .. NextId(doc) - 1
  BY <1>4 DEF T, Ids
<1>6. \A i \in DOMAIN doc : doc[i] \in ValidNote
  BY DEF Note, ValidNote, Starts, Lengths, NoneShort
<1>. QED
  BY <1>4, <1>5, <1>6, DocParts

-----------------------------------------------------------------------------
(* Commands                                                                *)

LEMMA FieldBelow ==
  ASSUME NEW n, NEW doc \in DocsBelow(n), NEW f \in Fields, NEW ids \in SUBSET DOMAIN doc
  PROVE  Field(doc, f, ids) \in ValuesBelow(f, n)
<1>1. DOMAIN Field(doc, f, ids) = ids
  BY DEF Field
<1>2. DOMAIN doc \subseteq 1 .. n - 1 /\ \A i \in DOMAIN doc : doc[i] \in ValidNote
  BY DocParts
<1>3. \A i \in ids : doc[i][f] \in Values(f)
  BY <1>2, FieldValue
<1>4. Field(doc, f, ids) \in [ids -> Values(f)]
  BY <1>3 DEF Field
<1>. QED
  BY <1>1, <1>2, <1>4, ValueParts

LEMMA SetCommand ==
  ASSUME NEW n, NEW f \in Fields, NEW old \in ValuesBelow(f, n), NEW new \in ValuesBelow(f, n)
  PROVE  SetNotes(f, old, new) \in CommandsBelow(n)
<1>. DEFINE part == [do |-> "set", field |-> f, old |-> old, new |-> new]
<1>1. part \in [do : {"set"}, field : {f}, old : ValuesBelow(f, n), new : ValuesBelow(f, n)]
  OBVIOUS
<1>2. part \in PartsBelow(n)
  <2>. HIDE DEF part
  <2>. QED
    BY <1>1, Zenon DEF PartsBelow
<1>3. \A S : << >> \in Seq(S)
  OBVIOUS
<1>4. \A S : \A x \in S : <<x>> \in Seq(S)
  OBVIOUS
<1>5. << >> \in CommandsBelow(n) /\ <<part>> \in CommandsBelow(n)
  <2>. HIDE DEF part
  <2>. QED
    BY <1>2, <1>3, <1>4, Zenon DEF CommandsBelow
<1>. QED
  BY <1>5 DEF SetNotes

LEMMA NotesCommand ==
  ASSUME NEW n, NEW ns \in DocsBelow(n)
  PROVE  /\ [do |-> "add", notes |-> ns] \in PartsBelow(n)
         /\ RemoveNotes(ns) \in CommandsBelow(n)
         /\ << >> \in CommandsBelow(n)
<1>1. [do |-> "add", notes |-> ns] \in PartsBelow(n) /\ [do |-> "remove", notes |-> ns] \in PartsBelow(n)
  BY DEF PartsBelow
<1>2. \A S : << >> \in Seq(S) /\ \A x \in S : <<x>> \in Seq(S)
  OBVIOUS
<1>. QED
  BY <1>1, <1>2 DEF RemoveNotes, CommandsBelow

LEMMA AddCommand ==
  ASSUME NEW n \in Int, NEW i \in 1 .. n - 1, NEW note \in ValidNote
  PROVE  /\ Only(i, note) \in DocsBelow(n)
         /\ AddPart(i, note) \in PartsBelow(n)
         /\ AddNote(i, note) \in CommandsBelow(n)
<1>1. DOMAIN Only(i, note) = {i} /\ Only(i, note) \in [{i} -> ValidNote]
  BY DEF Only
<1>2. Only(i, note) \in DocsBelow(n)
  BY <1>1, DocParts
<1>3. AddPart(i, note) \in PartsBelow(n)
  BY <1>2, NotesCommand DEF AddPart
<1>4. \A S : \A x \in S : <<x>> \in Seq(S)
  OBVIOUS
<1>. QED
  BY <1>2, <1>3, <1>4 DEF AddNote, CommandsBelow

\* Commands concatenated are a command.
LEMMA JoinedCommand ==
  ASSUME NEW n, NEW c \in CommandsBelow(n), NEW e \in CommandsBelow(n)
  PROVE  c \o e \in CommandsBelow(n)
BY DEF CommandsBelow

-----------------------------------------------------------------------------
(* The history's operations                                                *)

StacksBelow(n) ==
  /\ undoStack \in Seq(CommandsBelow(n))
  /\ redoStack \in Seq(CommandsBelow(n))
  /\ batch \in CommandsBelow(n)

NewStacksBelow(n) ==
  /\ undoStack' \in Seq(CommandsBelow(n))
  /\ redoStack' \in Seq(CommandsBelow(n))
  /\ batch' \in CommandsBelow(n)

LEMMA Pushed ==
  ASSUME NEW n, StacksBelow(n), NEW cmd \in CommandsBelow(n),
         Push(cmd) \/ PushUnlessEmpty(cmd) \/ BeginBatch(cmd)
  PROVE  NewStacksBelow(n)
<1>1. \A S : << >> \in Seq(S) /\ \A s \in Seq(S) : \A x \in S : Append(s, x) \in Seq(S)
  OBVIOUS
<1>2. << >> \in CommandsBelow(n) /\ << >> \in Seq(CommandsBelow(n))
  BY <1>1 DEF CommandsBelow
<1>3. batch \o cmd \in CommandsBelow(n) /\ << >> \o cmd \in CommandsBelow(n)
  BY <1>2, JoinedCommand DEF StacksBelow
<1>4. Append(undoStack, cmd) \in Seq(CommandsBelow(n))
  BY <1>1 DEF StacksBelow
<1>5. CASE UNCHANGED stacks
  BY <1>5 DEF stacks, StacksBelow, NewStacksBelow
<1>6. CASE Push(cmd)
  <2>1. CASE inBatch
    BY <1>3, <1>6, <2>1 DEF Push, StacksBelow, NewStacksBelow
  <2>2. CASE ~inBatch
    BY <1>2, <1>4, <1>6, <2>2 DEF Push, StacksBelow, NewStacksBelow
  <2>. QED
    BY <2>1, <2>2
<1>7. CASE BeginBatch(cmd)
  BY <1>3, <1>7 DEF BeginBatch, StacksBelow, NewStacksBelow
<1>. QED
  BY <1>5, <1>6, <1>7 DEF PushUnlessEmpty

LEMMA Committed ==
  ASSUME NEW n, StacksBelow(n), CommitBatch \/ ClearHistory
  PROVE  NewStacksBelow(n)
<1>1. \A S : << >> \in Seq(S) /\ \A s \in Seq(S) : \A x \in S : Append(s, x) \in Seq(S)
  OBVIOUS
<1>2. << >> \in CommandsBelow(n) /\ << >> \in Seq(CommandsBelow(n))
  BY <1>1 DEF CommandsBelow
<1>3. Append(undoStack, batch) \in Seq(CommandsBelow(n))
  BY <1>1 DEF StacksBelow
<1>. QED
  BY <1>2, <1>3 DEF CommitBatch, ClearHistory, StacksBelow, NewStacksBelow

\* A step after which every part is below the next id keeps the invariant.
LEMMA Kept ==
  ASSUME nextId' \in Nat \ {0}, notes' \in DocsBelow(nextId'), NewStacksBelow(nextId'),
         DragInv', VelocityInv'
  PROVE  EditInv'
BY DEF EditInv, HistoryInv, NewStacksBelow

\* While the next id grows, what was below it stays below it.
LEMMA Below ==
  ASSUME EditInv, nextId' \in Nat, nextId <= nextId'
  PROVE  /\ nextId' \in Nat \ {0}
         /\ notes \in DocsBelow(nextId')
         /\ StacksBelow(nextId')
         /\ (drag' = drag => DragInv') /\ (gesture' = gesture => VelocityInv')
<1>1. nextId \in Nat \ {0}
  BY DEF EditInv, HistoryInv
<1>2. /\ DocsBelow(nextId) \subseteq DocsBelow(nextId')
      /\ ValuesBelow("vel", nextId) \subseteq ValuesBelow("vel", nextId')
      /\ CommandsBelow(nextId) \subseteq CommandsBelow(nextId')
      /\ Seq(CommandsBelow(nextId)) \subseteq Seq(CommandsBelow(nextId'))
  BY <1>1, BelowGrows
<1>3. StacksBelow(nextId')
  BY <1>2 DEF EditInv, HistoryInv, StacksBelow
<1>4. ASSUME drag' = drag PROVE DragInv'
  <2>1. 0 .. nextId - 1 \subseteq 0 .. nextId' - 1
    BY <1>1
  <2>2. drag \in [mode : Modes, id : 0 .. nextId' - 1, initial : DocsBelow(nextId')]
    BY <1>2, <2>1 DEF EditInv, DragInv
  <2>. QED
    BY <1>4, <2>2 DEF EditInv, DragInv, NoDrag
<1>5. ASSUME gesture' = gesture PROVE VelocityInv'
  <2>1. gesture \in [old : ValuesBelow("vel", nextId'), new : ValuesBelow("vel", nextId')]
    BY <1>2 DEF EditInv, VelocityInv
  <2>. QED
    BY <1>5, <2>1 DEF EditInv, VelocityInv, NoGesture
<1>. QED
  BY <1>1, <1>2, <1>3, <1>4, <1>5 DEF EditInv, HistoryInv

LEMMA Quiet ==
  ASSUME NEW n \in Nat \ {0}
  PROVE  /\ NoDrag \in [mode : Modes, id : 0 .. n - 1, initial : DocsBelow(n)]
         /\ NoGesture \in [old : ValuesBelow("vel", n), new : ValuesBelow("vel", n)]
<1>1. Empty \in DocsBelow(n) /\ Empty \in ValuesBelow("vel", n)
  BY NoNotes
<1>2. 0 \in 0 .. n - 1
  OBVIOUS
<1>3. NoDrag \in [mode : Modes, id : 0 .. n - 1, initial : DocsBelow(n)]
  BY <1>1, <1>2 DEF NoDrag, Modes
<1>4. NoGesture \in [old : ValuesBelow("vel", n), new : ValuesBelow("vel", n)]
  BY <1>1 DEF NoGesture
<1>. QED
  BY <1>3, <1>4

\* Where a gesture ends.
LEMMA Ended ==
  ASSUME nextId' \in Nat \ {0}
  PROVE  (drag' = NoDrag => DragInv') /\ (gesture' = NoGesture => VelocityInv')
BY Quiet, Zenon DEF DragInv, VelocityInv

LEMMA InitEditInv == EditInit => EditInv
<1>. SUFFICES ASSUME EditInit PROVE EditInv
  OBVIOUS
<1>1. nextId \in Nat \ {0} /\ notes \in DocsBelow(nextId)
  BY OpenedDoc DEF EditInit
<1>2. << >> \in CommandsBelow(nextId) /\ << >> \in Seq(CommandsBelow(nextId))
  BY DEF CommandsBelow
<1>3. HistoryInv
  BY <1>1, <1>2 DEF EditInit, HistoryInv
<1>4. DragInv /\ VelocityInv
  BY <1>1, Quiet, Zenon DEF EditInit, DragInv, VelocityInv
<1>. QED
  BY <1>3, <1>4 DEF EditInv

LEMMA OpenClipInv == ASSUME EditInv, OpenClip PROVE EditInv'
<1>1. nextId' \in Nat \ {0} /\ notes' \in DocsBelow(nextId')
  BY OpenedDoc DEF OpenClip
<1>2. NewStacksBelow(nextId')
  BY DEF OpenClip, ClearHistory, NewStacksBelow, CommandsBelow
<1>3. drag' = NoDrag /\ gesture' = NoGesture
  BY DEF OpenClip, Dragging, InGesture, EditInv, DragInv, VelocityInv
<1>. QED
  BY <1>1, <1>2, <1>3, Ended, Kept

\* The least and the greatest value of a function on a finite set.
LEMMA Extremes ==
  ASSUME NEW S, IsFiniteSet(S), S # {}, NEW g \in [S -> Int]
  PROVE  \E lo \in S, hi \in S : \A i \in S : g[lo] <= g[i] /\ g[i] <= g[hi]
<1>1. PICK n \in Nat : ExistsSurjection(1 .. n, S)
  BY FS_NatSurjection
<1>2. PICK h \in [1 .. n -> S] : \A x \in S : \E k \in 1 .. n : h[k] = x
  BY <1>1 DEF ExistsSurjection, Surjection
<1>. DEFINE Least(k, lo, hi) == \A j \in 1 .. k : g[h[lo]] <= g[h[j]] /\ g[h[j]] <= g[h[hi]]
            Good == {k \in 0 .. n : \E lo, hi \in 1 .. n : Least(k, lo, hi)}
<1>3. n # 0
  BY <1>2
<1>4. 0 \in Good
  BY <1>3
<1>5. ASSUME NEW k \in 0 .. n - 1, k \in Good PROVE k + 1 \in Good
  <2>1. PICK lo \in 1 .. n, hi \in 1 .. n : Least(k, lo, hi)
    BY <1>5
  <2>2. k + 1 \in 1 .. n /\ \A j \in 1 .. n : g[h[j]] \in Int
    BY <1>2, SMTT(20)
  <2>3. \A j \in 1 .. k + 1 : j \in 1 .. k \/ j = k + 1
    BY SMTT(20)
  <2>4. PICK l \in {lo, k + 1} : g[h[l]] <= g[h[lo]] /\ g[h[l]] <= g[h[k + 1]]
    BY <2>2, SMTT(20)
  <2>5. PICK u \in {hi, k + 1} : g[h[hi]] <= g[h[u]] /\ g[h[k + 1]] <= g[h[u]]
    BY <2>2, SMTT(20)
  <2>6. l \in 1 .. n /\ u \in 1 .. n
    BY <2>2, <2>4, <2>5
  <2>7. ASSUME NEW j \in 1 .. k + 1 PROVE g[h[l]] <= g[h[j]] /\ g[h[j]] <= g[h[u]]
    <3>0. j \in 1 .. n
      OBVIOUS
    <3>1. /\ g[h[j]] \in Int /\ g[h[l]] \in Int /\ g[h[u]] \in Int
          /\ g[h[lo]] \in Int /\ g[h[hi]] \in Int
      BY <2>2, <2>6, <3>0
    <3>2. CASE j = k + 1
      <4>1. g[h[l]] <= g[h[k + 1]] /\ g[h[k + 1]] <= g[h[u]]
        BY <2>4, <2>5
      <4>. QED
        BY <3>2, <4>1
    <3>3. CASE j \in 1 .. k
      <4>1. g[h[lo]] <= g[h[j]] /\ g[h[j]] <= g[h[hi]]
        BY <2>1, <3>3
      <4>2. g[h[l]] <= g[h[lo]] /\ g[h[hi]] <= g[h[u]]
        BY <2>4, <2>5
      <4>3. \A a, b, c \in Int : a <= b /\ b <= c => a <= c
        OBVIOUS
      <4>. QED
        BY <3>1, <4>1, <4>2, <4>3, Zenon
    <3>. QED
      BY <2>3, <3>2, <3>3
  <2>8. Least(k + 1, l, u)
    BY <2>7
  <2>. QED
    <3>. HIDE DEF Least
    <3>1. k + 1 \in 0 .. n
      BY SMTT(20)
    <3>. QED
      BY <2>6, <2>8, <3>1
<1>6. n \in Good
  <2>1. Good \in SUBSET Nat
    OBVIOUS
  <2>. HIDE DEF Good
  <2>. QED
    BY <1>4, <1>5, <2>1, CountUp
<1>7. PICK lo \in 1 .. n, hi \in 1 .. n : Least(n, lo, hi)
  BY <1>6
<1>8. h[lo] \in S /\ h[hi] \in S
  BY <1>2
<1>9. ASSUME NEW i \in S PROVE g[h[lo]] <= g[i] /\ g[i] <= g[h[hi]]
  <2>1. PICK k \in 1 .. n : h[k] = i
    BY <1>2
  <2>. QED
    BY <1>7, <2>1
<1>. QED
  BY <1>8, <1>9

\* Max and Min choose them.
LEMMA Largest ==
  ASSUME NEW T \in SUBSET Int, NEW x \in T
  PROVE  /\ (\A y \in T : y <= x) => Max(T) = x
         /\ (\A y \in T : x <= y) => Min(T) = x
<1>1. ASSUME \A y \in T : y <= x PROVE Max(T) = x
  BY <1>1 DEF Max
<1>2. ASSUME \A y \in T : x <= y PROVE Min(T) = x
  BY <1>2 DEF Min
<1>. QED
  BY <1>1, <1>2

LEMMA ListOfIds ==
  ASSUME NEW S, IsFiniteSet(S)
  PROVE  SetToSeq(S) \in [1 .. Cardinality(S) -> S] /\ Cardinality(S) \in Nat
<1>1. Cardinality(S) \in Nat /\ ExistsBijection(1 .. Cardinality(S), S)
  BY FS_CardinalityType
<1>2. \E f \in [1 .. Cardinality(S) -> S] : IsInjective(f)
  BY <1>1 DEF ExistsBijection, Bijection, Injection, IsInjective
<1>. QED
  BY <1>1, <1>2 DEF SetToSeq

-----------------------------------------------------------------------------
(* Key commands                                                            *)

LEMMA WriteInv ==
  ASSUME EditInv, NEW f \in Fields, NEW ids \in SUBSET DOMAIN notes,
         NEW value \in [ids -> Values(f)], Write(ids, f, value)
  PROVE  EditInv'
<1>1. nextId' = nextId /\ drag' = drag /\ gesture' = gesture /\ notes' = Written(notes, f, value)
      /\ Push(SetNotes(f, Field(notes, f, ids), value))
  BY DEF Write
<1>2. nextId \in Nat \ {0} /\ nextId <= nextId'
  BY <1>1 DEF EditInv, HistoryInv
<1>3. notes \in DocsBelow(nextId') /\ StacksBelow(nextId') /\ DragInv' /\ VelocityInv'
  BY <1>1, <1>2, Below
<1>4. DOMAIN value = ids /\ \A i \in DOMAIN value : value[i] \in Values(f)
  OBVIOUS
<1>5. notes' \in DocsBelow(nextId')
  BY <1>1, <1>3, <1>4, WrittenDoc
<1>6. DOMAIN notes \subseteq 1 .. nextId' - 1
  BY <1>3, DocParts
<1>7. value \in ValuesBelow(f, nextId')
  BY <1>4, <1>6, ValueParts
<1>8. Field(notes, f, ids) \in ValuesBelow(f, nextId')
  BY <1>3, FieldBelow
<1>9. NewStacksBelow(nextId')
  <2>1. SetNotes(f, Field(notes, f, ids), value) \in CommandsBelow(nextId')
    BY <1>7, <1>8, SetCommand
  <2>. QED
    BY <1>1, <1>3, <2>1, Pushed
<1>. QED
  BY <1>1, <1>2, <1>3, <1>5, <1>9, Kept

\* The fields of a note of the sequence.
LEMMA NoteFields ==
  ASSUME NEW n, NEW doc \in DocsBelow(n), NEW i \in DOMAIN doc
  PROVE  /\ i \in 1 .. n - 1
         /\ doc[i] \in ValidNote
         /\ doc[i].pos \in Starts /\ doc[i].pos \in Int
         /\ doc[i].dur \in Lengths /\ doc[i].dur \in Int
         /\ doc[i].vel \in Velocities
<1>1. i \in 1 .. n - 1 /\ doc[i] \in ValidNote
  BY DocParts
<1>. QED
  BY <1>1 DEF ValidNote, Starts, Lengths

\* What edits and drags clamp.
LEMMA Clamped ==
  ASSUME NEW x \in Int
  PROVE  Max({0, x}) \in Starts /\ Max({MinDuration, x}) \in Lengths
<1>1. Max({0, x}) \in Int /\ Max({0, x}) >= 0
  BY LargerOfTwo
<1>2. Max({MinDuration, x}) \in Int /\ Max({MinDuration, x}) >= MinDuration
  BY LargerOfTwo
<1>. QED
  BY <1>1, <1>2 DEF Starts, Lengths

LEMMA FieldSets ==
  /\ {"pos", "dur", "vel"} = Fields
  /\ Values("pos") = Starts /\ Values("dur") = Lengths /\ Values("vel") = Velocities
BY DEF Fields, Values

LEMMA EditSelectedInv ==
  ASSUME EditInv, NEW ids \in SUBSET DOMAIN notes, NEW d \in Int, NEW v \in Velocities,
         MoveSelected(ids, d) \/ ResizeSelected(ids, d) \/ SetSelectedVelocity(ids, v)
  PROVE  EditInv'
<1>1. \A i \in ids : notes[i].pos \in Int /\ notes[i].dur \in Int
  BY NoteFields DEF EditInv, HistoryInv
<1>2. CASE MoveSelected(ids, d)
  <2>. DEFINE value == [i \in ids |-> Max({0, notes[i].pos + d})]
  <2>1. ASSUME NEW i \in ids PROVE Max({0, notes[i].pos + d}) \in Starts
    <3>1. notes[i].pos + d \in Int
      BY <1>1
    <3>. QED
      BY <3>1, Clamped
  <2>2. value \in [ids -> Values("pos")]
    BY <2>1, FieldSets
  <2>3. Write(ids, "pos", value)
    BY <1>2 DEF MoveSelected
  <2>. HIDE DEF value
  <2>. QED
    BY <2>2, <2>3, WriteInv, FieldSets
<1>3. CASE ResizeSelected(ids, d)
  <2>. DEFINE value == [i \in ids |-> Max({MinDuration, notes[i].dur + d})]
  <2>1. ASSUME NEW i \in ids PROVE Max({MinDuration, notes[i].dur + d}) \in Lengths
    <3>1. notes[i].dur + d \in Int
      BY <1>1
    <3>. QED
      BY <3>1, Clamped
  <2>2. value \in [ids -> Values("dur")]
    BY <2>1, FieldSets
  <2>3. Write(ids, "dur", value)
    BY <1>3 DEF ResizeSelected
  <2>. HIDE DEF value
  <2>. QED
    BY <2>2, <2>3, WriteInv, FieldSets
<1>4. CASE SetSelectedVelocity(ids, v)
  <2>. DEFINE value == [i \in ids |-> v]
  <2>1. value \in [ids -> Values("vel")]
    BY FieldSets
  <2>2. Write(ids, "vel", value)
    BY <1>4 DEF SetSelectedVelocity
  <2>. HIDE DEF value
  <2>. QED
    BY <2>1, <2>2, WriteInv, FieldSets
<1>. QED
  BY <1>2, <1>3, <1>4

LEMMA DeleteNotesInv ==
  ASSUME EditInv, NEW ids \in SUBSET DOMAIN notes, DeleteNotes(ids)
  PROVE  EditInv'
<1>1. nextId' = nextId /\ drag' = drag /\ gesture' = gesture /\ notes' = Removed(notes, ids)
      /\ Push(RemoveNotes(Restrict(notes, ids)))
  BY DEF DeleteNotes
<1>2. nextId \in Nat \ {0} /\ nextId <= nextId'
  BY <1>1 DEF EditInv, HistoryInv
<1>3. notes \in DocsBelow(nextId') /\ StacksBelow(nextId') /\ DragInv' /\ VelocityInv'
  BY <1>1, <1>2, Below
<1>4. notes' \in DocsBelow(nextId')
  BY <1>1, <1>3, RemovedDoc
<1>5. RemoveNotes(Restrict(notes, ids)) \in CommandsBelow(nextId')
  BY <1>3, RestrictedDoc, NotesCommand
<1>6. NewStacksBelow(nextId')
  BY <1>1, <1>3, <1>5, Pushed
<1>. QED
  BY <1>1, <1>2, <1>3, <1>4, <1>6, Kept

\* Undo and redo take the last command of one list to the other.
LEMMA LastCommand ==
  ASSUME NEW C, NEW s \in Seq(C), s # << >>, NEW t \in Seq(C)
  PROVE  Last(s) \in C /\ Front(s) \in Seq(C) /\ Append(t, Last(s)) \in Seq(C)
<1>1. Len(s) \in Nat \ {0} /\ s \in [1 .. Len(s) -> C]
  OBVIOUS
<1>2. Last(s) \in C
  BY <1>1 DEF Last
<1>3. Front(s) \in Seq(C)
  BY <1>1 DEF Front
<1>. QED
  BY <1>2, <1>3

LEMMA UndoInv == ASSUME EditInv, Undo PROVE EditInv'
<1>1. nextId' = nextId /\ drag' = drag /\ gesture' = gesture /\ batch' = batch
  BY DEF Undo
<1>2. nextId \in Nat \ {0} /\ nextId <= nextId'
  BY <1>1 DEF EditInv, HistoryInv
<1>3. notes \in DocsBelow(nextId') /\ StacksBelow(nextId') /\ DragInv' /\ VelocityInv'
  BY <1>1, <1>2, Below
<1>4. /\ Last(undoStack) \in CommandsBelow(nextId') /\ Front(undoStack) \in Seq(CommandsBelow(nextId'))
      /\ Append(redoStack, Last(undoStack)) \in Seq(CommandsBelow(nextId'))
  BY <1>3, LastCommand DEF Undo, StacksBelow
<1>5. notes' \in DocsBelow(nextId')
  BY <1>3, <1>4, HistoryDoc DEF Undo
<1>6. NewStacksBelow(nextId')
  BY <1>1, <1>3, <1>4 DEF Undo, StacksBelow, NewStacksBelow
<1>. QED
  BY <1>1, <1>2, <1>3, <1>5, <1>6, Kept

LEMMA RedoInv == ASSUME EditInv, Redo PROVE EditInv'
<1>1. nextId' = nextId /\ drag' = drag /\ gesture' = gesture /\ batch' = batch
  BY DEF Redo
<1>2. nextId \in Nat \ {0} /\ nextId <= nextId'
  BY <1>1 DEF EditInv, HistoryInv
<1>3. notes \in DocsBelow(nextId') /\ StacksBelow(nextId') /\ DragInv' /\ VelocityInv'
  BY <1>1, <1>2, Below
<1>4. /\ Last(redoStack) \in CommandsBelow(nextId') /\ Front(redoStack) \in Seq(CommandsBelow(nextId'))
      /\ Append(undoStack, Last(redoStack)) \in Seq(CommandsBelow(nextId'))
  BY <1>3, LastCommand DEF Redo, StacksBelow
<1>5. notes' \in DocsBelow(nextId')
  BY <1>3, <1>4, HistoryDoc DEF Redo
<1>6. NewStacksBelow(nextId')
  BY <1>1, <1>3, <1>4 DEF Redo, StacksBelow, NewStacksBelow
<1>. QED
  BY <1>1, <1>2, <1>3, <1>5, <1>6, Kept

\* A copy keeps what is valid of the note: it starts later, by the length of
\* all that is copied.
LEMMA CopiedNote ==
  ASSUME NEW note \in ValidNote, NEW span \in Int, NoneShort => span >= 0
  PROVE  [note EXCEPT !.pos = @ + span, !.rel = 0] \in ValidNote
<1>1. note.pos \in Int /\ (NoneShort => note.pos >= 0)
  BY DEF ValidNote, Starts
<1>2. note.pos + span \in Starts
  BY <1>1 DEF Starts
<1>. QED
  BY <1>2 DEF ValidNote

LEMMA SpanOfNotes ==
  ASSUME NEW n \in Nat, NEW doc \in DocsBelow(n), NEW ids \in SUBSET DOMAIN doc, ids # {}
  PROVE  LET span == Max({doc[i].pos + doc[i].dur : i \in ids}) - Min({doc[i].pos : i \in ids})
         IN  span \in Int /\ (NoneShort => span >= 0)
<1>. DEFINE start == [i \in ids |-> doc[i].pos]
            end == [i \in ids |-> doc[i].pos + doc[i].dur]
            Starting == {doc[i].pos : i \in ids}
            Ending == {doc[i].pos + doc[i].dur : i \in ids}
<1>1. IsFiniteSet(ids)
  <2>1. ids \in SUBSET (1 .. n - 1)
    BY DocParts
  <2>2. IsFiniteSet(1 .. n - 1)
    <3>1. 1 \in Int /\ n - 1 \in Int
      OBVIOUS
    <3>. QED
      BY <3>1, FS_Interval, Zenon
  <2>. QED
    BY <2>1, <2>2, FS_Subset
<1>2. \A i \in ids : doc[i].pos \in Int /\ doc[i].dur \in Int /\ doc[i].dur \in Lengths
  BY NoteFields
<1>3. start \in [ids -> Int] /\ end \in [ids -> Int]
  BY <1>2
<1>4. PICK lo \in ids : \A i \in ids : start[lo] <= start[i]
  <2>. HIDE DEF start
  <2>. QED
    BY <1>1, <1>3, Extremes
<1>5. PICK hi \in ids : \A i \in ids : end[i] <= end[hi]
  <2>. HIDE DEF end
  <2>. QED
    BY <1>1, <1>3, Extremes
<1>6. Min(Starting) = start[lo]
  <2>1. start[lo] \in Starting /\ Starting \in SUBSET Int /\ \A y \in Starting : start[lo] <= y
    BY <1>2, <1>4
  <2>. HIDE DEF Starting, start
  <2>. QED
    BY <2>1, Largest
<1>7. Max(Ending) = end[hi]
  <2>1. end[hi] \in Ending /\ Ending \in SUBSET Int /\ \A y \in Ending : y <= end[hi]
    BY <1>2, <1>5
  <2>. HIDE DEF Ending, end
  <2>. QED
    BY <2>1, Largest
<1>8. end[hi] \in Int /\ start[lo] \in Int /\ end[lo] \in Int
  BY <1>3
<1>9. end[lo] <= end[hi]
  BY <1>5
<1>10. NoneShort => start[lo] <= end[lo]
  <2>1. NoneShort => doc[lo].dur >= MinDuration
    BY <1>2 DEF Lengths
  <2>. QED
    BY <1>2, <2>1
<1>. HIDE DEF start, end
<1>. QED
  BY <1>6, <1>7, <1>8, <1>9, <1>10

LEMMA DuplicateInv ==
  ASSUME EditInv, NEW ids \in SUBSET DOMAIN notes, ids # {}, Duplicate(ids)
  PROVE  EditInv'
<1>. DEFINE start  == Min({notes[i].pos : i \in ids})
            span   == Max({notes[i].pos + notes[i].dur : i \in ids}) - start
            order  == SetToSeq(ids)
            copies == [k \in nextId..(nextId + Len(order) - 1) |->
                         LET n == notes[order[k - nextId + 1]]
                         IN  [n EXCEPT !.pos = @ + span, !.rel = 0]]
            parts == [k \in 1..Len(order) |->
                           AddPart(nextId + k - 1, copies[nextId + k - 1])]
<1>1. /\ nextId' = nextId + Len(order) /\ notes' = Added(notes, copies)
      /\ Push(parts) /\ drag' = drag /\ gesture' = gesture
  BY DEF Duplicate
<1>2. nextId \in Nat \ {0} /\ notes \in DocsBelow(nextId)
  BY DEF EditInv, HistoryInv
<1>3. IsFiniteSet(ids)
  <2>1. ids \in SUBSET (1 .. nextId - 1)
    BY <1>2, DocParts
  <2>2. IsFiniteSet(1 .. nextId - 1)
    <3>1. 1 \in Int /\ nextId - 1 \in Int
      BY <1>2
    <3>. QED
      BY <3>1, FS_Interval, Zenon
  <2>. QED
    BY <2>1, <2>2, FS_Subset
<1>4. Len(order) \in Nat /\ order \in [1 .. Len(order) -> ids]
  <2>1. order \in [1 .. Cardinality(ids) -> ids] /\ Cardinality(ids) \in Nat
    BY <1>3, ListOfIds
  <2>2. Len(order) = Cardinality(ids)
    <3>. HIDE DEF order
    <3>. QED
      BY <2>1
  <2>. QED
    BY <2>1, <2>2
<1>5. span \in Int /\ (NoneShort => span >= 0)
  BY <1>2, SpanOfNotes
<1>. HIDE DEF order, span
<1>6. nextId' \in Nat \ {0} /\ nextId <= nextId'
  <2>1. nextId' = nextId + Len(order)
    BY <1>1, Zenon
  <2>. QED
    BY <1>2, <1>4, <2>1
<1>7. notes \in DocsBelow(nextId') /\ StacksBelow(nextId') /\ DragInv' /\ VelocityInv'
  BY <1>1, <1>6, Below
<1>8. \A k \in nextId..(nextId + Len(order) - 1) : copies[k] \in ValidNote
  <2>1. TAKE k \in nextId..(nextId + Len(order) - 1)
  <2>2. k - nextId + 1 \in 1 .. Len(order)
    BY <1>2, <1>4
  <2>3. notes[order[k - nextId + 1]] \in ValidNote
    BY <1>2, <1>4, <2>2, NoteFields
  <2>. QED
    BY <1>5, <2>3, CopiedNote
<1>9. DOMAIN copies = nextId..(nextId + Len(order) - 1)
  OBVIOUS
<1>10. copies \in [DOMAIN copies -> ValidNote]
  BY <1>8
<1>. HIDE DEF copies
<1>11. copies \in DocsBelow(nextId')
  <2>1. DOMAIN copies \subseteq 1 .. nextId' - 1
    BY <1>1, <1>2, <1>4, <1>9
  <2>. QED
    BY <1>10, <2>1, DocParts
<1>12. notes' \in DocsBelow(nextId')
  BY <1>1, <1>7, <1>11, AddedDoc
<1>13. \A k \in 1 .. Len(order) : AddPart(nextId + k - 1, copies[nextId + k - 1]) \in PartsBelow(nextId')
  <2>1. TAKE k \in 1 .. Len(order)
  <2>2. /\ nextId + k - 1 \in nextId..(nextId + Len(order) - 1)
        /\ nextId + k - 1 \in 1 .. nextId' - 1
    BY <1>1, <1>2, <1>4, SMTT(20)
  <2>. QED
    BY <1>6, <1>8, <2>2, AddCommand
<1>14. parts \in CommandsBelow(nextId')
  BY <1>4, <1>13 DEF CommandsBelow
<1>. HIDE DEF parts
<1>15. NewStacksBelow(nextId')
  BY <1>1, <1>7, <1>14, Pushed
<1>. QED
  BY <1>6, <1>7, <1>12, <1>15, Kept

-----------------------------------------------------------------------------
(* Presses                                                                 *)

LEMMA PressEraseInv ==
  ASSUME EditInv, NEW ids, ids \in SUBSET DOMAIN notes, PressErase(ids)
  PROVE  EditInv'
<1>. DEFINE cmd == IF ids = {} THEN << >> ELSE RemoveNotes(Restrict(notes, ids))
<1>1. /\ nextId' = nextId /\ gesture' = gesture /\ notes' = Removed(notes, ids)
      /\ drag' = [NoDrag EXCEPT !.mode = "erase"] /\ BeginBatch(cmd)
  BY DEF PressErase
<1>2. nextId \in Nat \ {0} /\ nextId <= nextId'
  BY <1>1 DEF EditInv, HistoryInv
<1>3. notes \in DocsBelow(nextId') /\ StacksBelow(nextId') /\ VelocityInv'
  BY <1>1, <1>2, Below
<1>4. notes' \in DocsBelow(nextId')
  BY <1>1, <1>3, RemovedDoc
<1>5. cmd \in CommandsBelow(nextId')
  <2>1. RemoveNotes(Restrict(notes, ids)) \in CommandsBelow(nextId') /\ << >> \in CommandsBelow(nextId')
    BY <1>3, RestrictedDoc, NotesCommand
  <2>. QED
    BY <2>1
<1>. HIDE DEF cmd
<1>6. NewStacksBelow(nextId')
  BY <1>1, <1>3, <1>5, Pushed
<1>7. DragInv'
  <2>1. NoDrag \in [mode : Modes, id : 0 .. nextId' - 1, initial : DocsBelow(nextId')]
    BY <1>1, <1>2, Quiet
  <2>2. drag' \in [mode : Modes, id : 0 .. nextId' - 1, initial : DocsBelow(nextId')] /\ drag'.mode = "erase"
    <3>. HIDE DEF NoDrag
    <3>. QED
      BY <1>1, <2>1 DEF Modes
  <2>. QED
    BY <2>2 DEF DragInv
<1>. QED
  BY <1>1, <1>2, <1>3, <1>4, <1>6, <1>7, Kept

LEMMA PressNoteInv ==
  ASSUME EditInv, NEW mode \in {"move", "start", "end"}, NEW ids \in SUBSET DOMAIN notes,
         PressNote(mode, ids)
  PROVE  EditInv'
<1>1. /\ nextId' = nextId /\ gesture' = gesture /\ notes' = notes /\ UNCHANGED stacks
      /\ drag' = [mode |-> mode, id |-> 0, initial |-> Restrict(notes, ids)]
  BY DEF PressNote
<1>2. nextId \in Nat \ {0} /\ nextId <= nextId'
  BY <1>1 DEF EditInv, HistoryInv
<1>3. notes \in DocsBelow(nextId') /\ StacksBelow(nextId') /\ VelocityInv'
  BY <1>1, <1>2, Below
<1>4. NewStacksBelow(nextId')
  BY <1>1, <1>3 DEF stacks, StacksBelow, NewStacksBelow
<1>5. DragInv'
  <2>1. Restrict(notes, ids) \in DocsBelow(nextId') /\ 0 \in 0 .. nextId' - 1
    BY <1>1, <1>2, <1>3, RestrictedDoc
  <2>. QED
    BY <1>1, <2>1 DEF DragInv, Modes
<1>. QED
  BY <1>1, <1>2, <1>3, <1>4, <1>5, Kept

LEMMA PressEmptyInv ==
  ASSUME EditInv, NEW pos \in Positions, PressEmpty(pos)
  PROVE  EditInv'
<1>. DEFINE note == [pos |-> pos, dur |-> SnapDuration, vel |-> DefaultVelocity, rel |-> 0]
<1>1. /\ nextId' = nextId + 1 /\ gesture' = gesture /\ UNCHANGED stacks
      /\ notes' = Added(notes, Only(nextId, note))
      /\ drag' = [NoDrag EXCEPT !.mode = "create", !.id = nextId]
  BY DEF PressEmpty
<1>2. nextId \in Nat \ {0} /\ nextId <= nextId' /\ nextId' \in Nat \ {0}
  BY <1>1 DEF EditInv, HistoryInv
<1>3. notes \in DocsBelow(nextId') /\ StacksBelow(nextId') /\ VelocityInv'
  BY <1>1, <1>2, Below
<1>4. NewStacksBelow(nextId')
  BY <1>1, <1>3 DEF stacks, StacksBelow, NewStacksBelow
<1>5. note \in ValidNote
  BY DEF ValidNote, Starts, Lengths, Positions, NoneShort
<1>. HIDE DEF note
<1>6. nextId \in 1 .. nextId' - 1 /\ nextId \in 0 .. nextId' - 1
  BY <1>1, <1>2
<1>7. Only(nextId, note) \in DocsBelow(nextId')
  BY <1>2, <1>5, <1>6, AddCommand
<1>8. notes' \in DocsBelow(nextId')
  BY <1>1, <1>3, <1>7, AddedDoc
<1>9. DragInv'
  <2>1. NoDrag \in [mode : Modes, id : 0 .. nextId' - 1, initial : DocsBelow(nextId')]
    BY <1>2, Quiet
  <2>2. drag' \in [mode : Modes, id : 0 .. nextId' - 1, initial : DocsBelow(nextId')] /\ drag'.mode = "create"
    <3>. HIDE DEF NoDrag
    <3>. QED
      BY <1>1, <1>6, <2>1 DEF Modes
  <2>. QED
    BY <2>2 DEF DragInv
<1>. QED
  BY <1>2, <1>3, <1>4, <1>8, <1>9, Kept

-----------------------------------------------------------------------------
(* Drags                                                                   *)

\* A step of a drag only writes notes.
LEMMA DragStep ==
  ASSUME EditInv, UNCHANGED <<nextId, stacks, drag, gesture, interrupted>>,
         notes' \in DocsBelow(nextId)
  PROVE  EditInv'
<1>1. nextId' = nextId /\ drag' = drag /\ gesture' = gesture /\ UNCHANGED stacks
  OBVIOUS
<1>2. nextId \in Nat \ {0} /\ nextId <= nextId'
  BY <1>1 DEF EditInv, HistoryInv
<1>3. StacksBelow(nextId') /\ DragInv' /\ VelocityInv'
  BY <1>1, <1>2, Below
<1>4. NewStacksBelow(nextId')
  BY <1>1, <1>3 DEF stacks, StacksBelow, NewStacksBelow
<1>. QED
  BY <1>1, <1>2, <1>3, <1>4, Kept

LEMMA DragCreateInv ==
  ASSUME EditInv, NEW dur \in Int, DragCreate(dur)
  PROVE  EditInv'
<1>1. notes \in DocsBelow(nextId)
  BY DEF EditInv, HistoryInv
<1>. DEFINE value == Only(drag.id, Max({MinDuration, dur}))
<1>2. \A i \in DOMAIN value : value[i] \in Values("dur")
  BY Clamped, FieldSets DEF Only
<1>. HIDE DEF value
<1>3. Written(notes, "dur", value) \in DocsBelow(nextId)
  BY <1>1, <1>2, WrittenDoc, FieldSets
<1>4. notes' \in DocsBelow(nextId)
  BY <1>1, <1>3 DEF DragCreate, value
<1>. QED
  BY <1>4, DragStep DEF DragCreate

\* The notes of a drag as they were at the press.
LEMMA GrabbedNotes ==
  ASSUME EditInv
  PROVE  /\ drag.initial \in DocsBelow(nextId)
         /\ Grabbed \in SUBSET DOMAIN drag.initial /\ Grabbed \in SUBSET DOMAIN notes
         /\ \A i \in Grabbed : /\ drag.initial[i].pos \in Starts /\ drag.initial[i].pos \in Int
                               /\ drag.initial[i].dur \in Lengths /\ drag.initial[i].dur \in Int
<1>1. drag.initial \in DocsBelow(nextId)
  BY DEF EditInv, DragInv
<1>2. Grabbed \in SUBSET DOMAIN drag.initial /\ Grabbed \in SUBSET DOMAIN notes
  BY DEF Grabbed
<1>. QED
  BY <1>1, <1>2, NoteFields

LEMMA DragMoveInv ==
  ASSUME EditInv, NEW d \in Int, DragMove(d) \/ DragEnd(d)
  PROVE  EditInv'
<1>1. notes \in DocsBelow(nextId)
  BY DEF EditInv, HistoryInv
<1>2. CASE DragMove(d)
  <2>. DEFINE value == [i \in Grabbed |-> Max({0, drag.initial[i].pos + d})]
  <2>1. ASSUME NEW i \in Grabbed PROVE Max({0, drag.initial[i].pos + d}) \in Values("pos")
    <3>1. drag.initial[i].pos + d \in Int
      BY GrabbedNotes
    <3>. QED
      BY <3>1, Clamped, FieldSets
  <2>2. \A i \in DOMAIN value : value[i] \in Values("pos")
    BY <2>1
  <2>3. notes' = Written(notes, "pos", value)
    BY <1>2 DEF DragMove
  <2>. HIDE DEF value
  <2>4. notes' \in DocsBelow(nextId)
    BY <1>1, <2>2, <2>3, WrittenDoc, FieldSets
  <2>. QED
    BY <1>2, <2>4, DragStep DEF DragMove
<1>3. CASE DragEnd(d)
  <2>. DEFINE value == [i \in Grabbed |-> Max({MinDuration, drag.initial[i].dur + d})]
  <2>1. ASSUME NEW i \in Grabbed PROVE Max({MinDuration, drag.initial[i].dur + d}) \in Values("dur")
    <3>1. drag.initial[i].dur + d \in Int
      BY GrabbedNotes
    <3>. QED
      BY <3>1, Clamped, FieldSets
  <2>2. \A i \in DOMAIN value : value[i] \in Values("dur")
    BY <2>1
  <2>3. notes' = Written(notes, "dur", value)
    BY <1>3 DEF DragEnd
  <2>. HIDE DEF value
  <2>4. notes' \in DocsBelow(nextId)
    BY <1>1, <2>2, <2>3, WrittenDoc, FieldSets
  <2>. QED
    BY <1>3, <2>4, DragStep DEF DragEnd
<1>. QED
  BY <1>2, <1>3

\* A start that is clamped leaves at least the shortest length, unless the
\* note was shorter.
LEMMA ClampedStart ==
  ASSUME NEW v \in Int, NEW pos \in Starts, NEW dur \in Lengths,
         NEW x \in Int, x \in Clamp(v, pos + dur - MinDuration)
  PROVE  x \in Starts /\ pos + dur - x \in Lengths
<1>1. pos \in Int /\ dur \in Int /\ MinDuration \in Int
  BY DEF Starts, Lengths
<1>2. pos + dur - x \in Int
  BY <1>1
<1>3. ASSUME NoneShort PROVE x >= 0 /\ pos + dur - x >= MinDuration
  <2>. DEFINE high == pos + dur - MinDuration
  <2>1. pos >= 0 /\ dur >= MinDuration
    BY <1>3 DEF Starts, Lengths
  <2>2. high \in Int /\ high >= 0
    BY <1>1, <2>1
  <2>. HIDE DEF high
  <2>3. Clamp(v, high) = {Max({0, Min({v, high})})}
    BY <2>2 DEF Clamp
  <2>4. Min({v, high}) \in Int /\ Min({v, high}) <= high
    BY <2>2, LargerOfTwo
  <2>5. Max({0, Min({v, high})}) \in {0, Min({v, high})} /\ Max({0, Min({v, high})}) >= 0
    <3>1. \A b \in Int : Max({0, b}) \in {0, b} /\ Max({0, b}) >= 0
      BY LargerOfTwo
    <3>. QED
      BY <2>4, <3>1, Zenon
  <2>6. x = Max({0, Min({v, high})})
    BY <2>3 DEF high
  <2>7. x >= 0 /\ x <= high
    BY <2>2, <2>4, <2>5, <2>6
  <2>. QED
    BY <1>1, <2>7 DEF high
<1>. QED
  BY <1>2, <1>3 DEF Starts, Lengths

LEMMA DragStartInv ==
  ASSUME EditInv, NEW d \in Int, DragStart(d)
  PROVE  EditInv'
<1>. DEFINE end(i) == drag.initial[i].pos + drag.initial[i].dur
<1>1. notes \in DocsBelow(nextId)
  BY DEF EditInv, HistoryInv
<1>2. PICK pos \in [Grabbed -> (-MinDuration)..MaxPos] :
        /\ \A i \in Grabbed : pos[i] \in Clamp(drag.initial[i].pos + d, end(i) - MinDuration)
        /\ notes' = Written(Written(notes, "pos", pos), "dur", [i \in Grabbed |-> end(i) - pos[i]])
  BY DEF DragStart
<1>3. ASSUME NEW i \in Grabbed PROVE pos[i] \in Starts /\ end(i) - pos[i] \in Lengths
  <2>1. pos[i] \in (-MinDuration)..MaxPos
    BY <1>2
  <2>2. pos[i] \in Int
    BY <2>1
  <2>3. /\ drag.initial[i].pos \in Starts /\ drag.initial[i].pos \in Int
        /\ drag.initial[i].dur \in Lengths /\ drag.initial[i].dur \in Int
    BY GrabbedNotes
  <2>4. drag.initial[i].pos + d \in Int
    BY <2>3
  <2>5. pos[i] \in Clamp(drag.initial[i].pos + d, drag.initial[i].pos + drag.initial[i].dur - MinDuration)
    BY <1>2, <2>3
  <2>. QED
    BY <2>2, <2>3, <2>4, <2>5, ClampedStart
<1>. DEFINE lengths == [i \in Grabbed |-> end(i) - pos[i]]
<1>4. \A i \in DOMAIN pos : pos[i] \in Values("pos")
  BY <1>2, <1>3, FieldSets
<1>5. \A i \in DOMAIN lengths : lengths[i] \in Values("dur")
  BY <1>3, FieldSets
<1>6. Written(notes, "pos", pos) \in DocsBelow(nextId)
  BY <1>1, <1>4, WrittenDoc, FieldSets
<1>7. notes' = Written(Written(notes, "pos", pos), "dur", lengths)
  BY <1>2
<1>. HIDE DEF lengths
<1>8. notes' \in DocsBelow(nextId)
  BY <1>5, <1>6, <1>7, WrittenDoc, FieldSets
<1>. QED
  BY <1>8, DragStep DEF DragStart

-----------------------------------------------------------------------------
(* Releases                                                                *)

\* The end of a drag that pushes a command.
LEMMA ReleasePush ==
  ASSUME EditInv, NEW cmd \in CommandsBelow(nextId), PushUnlessEmpty(cmd) \/ CommitBatch,
         drag' = NoDrag, UNCHANGED <<notes, nextId, gesture, interrupted>>
  PROVE  EditInv'
<1>1. nextId' = nextId /\ notes' = notes /\ gesture' = gesture
  OBVIOUS
<1>2. nextId' \in Nat \ {0} /\ nextId <= nextId'
  BY <1>1 DEF EditInv, HistoryInv
<1>3. notes' \in DocsBelow(nextId') /\ StacksBelow(nextId') /\ VelocityInv'
  BY <1>1, <1>2, Below
<1>4. NewStacksBelow(nextId')
  BY <1>1, <1>3, Pushed, Committed
<1>5. DragInv'
  BY <1>2, Ended
<1>. QED
  BY <1>1, <1>2, <1>3, <1>4, <1>5, Kept

LEMMA ReleaseCreateInv ==
  ASSUME EditInv, ReleaseErase \/ ReleaseCreate
  PROVE  EditInv'
<1>1. nextId \in Nat \ {0} /\ notes \in DocsBelow(nextId)
  BY DEF EditInv, HistoryInv
<1>2. << >> \in CommandsBelow(nextId)
  BY <1>1, NotesCommand
<1>3. CASE ReleaseErase
  BY <1>2, <1>3, ReleasePush DEF ReleaseErase
<1>4. CASE ReleaseCreate
  <2>. DEFINE cmd == IF drag.id \in DOMAIN notes THEN AddNote(drag.id, notes[drag.id]) ELSE << >>
  <2>1. cmd \in CommandsBelow(nextId)
    <3>1. CASE drag.id \in DOMAIN notes
      <4>1. drag.id \in 1 .. nextId - 1 /\ notes[drag.id] \in ValidNote
        BY <1>1, <3>1, NoteFields
      <4>2. AddNote(drag.id, notes[drag.id]) \in CommandsBelow(nextId)
        BY <1>1, <4>1, AddCommand
      <4>. QED
        BY <3>1, <4>2
    <3>2. CASE drag.id \notin DOMAIN notes
      BY <1>2, <3>2
    <3>. QED
      BY <3>1, <3>2
  <2>2. PushUnlessEmpty(cmd) /\ drag' = NoDrag /\ UNCHANGED <<notes, nextId, gesture, interrupted>>
    BY <1>4 DEF ReleaseCreate
  <2>. HIDE DEF cmd
  <2>. QED
    BY <2>1, <2>2, ReleasePush
<1>. QED
  BY <1>3, <1>4

LEMMA ReleaseNoteInv ==
  ASSUME EditInv, ReleaseNote
  PROVE  EditInv'
<1>1. notes \in DocsBelow(nextId)
  BY DEF EditInv, HistoryInv
<1>2. ASSUME NEW f \in Fields PROVE Changes(f) \in CommandsBelow(nextId)
  <2>. DEFINE ids == {i \in Grabbed : notes[i][f] # drag.initial[i][f]}
  <2>1. ids \in SUBSET DOMAIN notes /\ ids \in SUBSET DOMAIN drag.initial
    BY GrabbedNotes
  <2>2. Changes(f) = SetNotes(f, Field(drag.initial, f, ids), Field(notes, f, ids))
    BY DEF Changes
  <2>. HIDE DEF ids
  <2>3. Field(drag.initial, f, ids) \in ValuesBelow(f, nextId) /\ Field(notes, f, ids) \in ValuesBelow(f, nextId)
    BY <1>1, <2>1, FieldBelow, GrabbedNotes
  <2>. QED
    BY <2>2, <2>3, SetCommand
<1>3. Changes("pos") \o Changes("dur") \in CommandsBelow(nextId)
  BY <1>2, JoinedCommand, FieldSets
<1>4. PushUnlessEmpty(Changes("pos") \o Changes("dur")) /\ drag' = NoDrag
      /\ UNCHANGED <<notes, nextId, gesture, interrupted>>
  BY DEF ReleaseNote
<1>. QED
  BY <1>3, <1>4, ReleasePush

-----------------------------------------------------------------------------
(* The velocity lane                                                       *)

LEMMA PreviewInv ==
  ASSUME EditInv, NEW old \in ValuesBelow("vel", nextId), NEW new \in ValuesBelow("vel", nextId),
         DOMAIN old # {}, NEW v \in Velocities, Preview(old, new, v)
  PROVE  EditInv'
<1>. DEFINE here == DOMAIN old \cap DOMAIN notes
            value == [i \in here |-> v]
<1>1. /\ nextId' = nextId /\ drag' = drag /\ UNCHANGED stacks
      /\ notes' = Written(notes, "vel", value)
      /\ gesture' = [old |-> old, new |-> Over(value, new)]
  BY DEF Preview
<1>2. nextId' \in Nat \ {0} /\ nextId <= nextId'
  BY <1>1 DEF EditInv, HistoryInv
<1>3. notes \in DocsBelow(nextId') /\ StacksBelow(nextId') /\ DragInv'
  BY <1>1, <1>2, Below
<1>4. NewStacksBelow(nextId')
  BY <1>1, <1>3 DEF stacks, StacksBelow, NewStacksBelow
<1>5. DOMAIN value = here /\ \A i \in DOMAIN value : value[i] \in Values("vel")
  BY FieldSets
<1>6. here \subseteq 1 .. nextId' - 1
  BY <1>3, DocParts
<1>. HIDE DEF value
<1>7. notes' \in DocsBelow(nextId')
  BY <1>1, <1>3, <1>5, WrittenDoc, FieldSets
<1>8. Over(value, new) \in ValuesBelow("vel", nextId')
  <2>1. DOMAIN new \subseteq 1 .. nextId' - 1 /\ \A i \in DOMAIN new : new[i] \in Values("vel")
    BY <1>1, ValueParts
  <2>2. DOMAIN Over(value, new) = DOMAIN value \cup DOMAIN new
    BY DEF Over
  <2>3. Over(value, new) \in [DOMAIN value \cup DOMAIN new -> Values("vel")]
    BY <1>5, <2>1 DEF Over
  <2>. QED
    BY <1>5, <1>6, <2>1, <2>2, <2>3, ValueParts
<1>9. VelocityInv'
  BY <1>1, <1>8 DEF VelocityInv
<1>. QED
  BY <1>2, <1>3, <1>4, <1>7, <1>9, Kept

LEMMA BeginVelocityGestureInv ==
  ASSUME EditInv, NEW ids \in SUBSET DOMAIN notes, ids # {}, NEW v \in Velocities,
         BeginVelocityGesture(ids, v)
  PROVE  EditInv'
<1>1. notes \in DocsBelow(nextId)
  BY DEF EditInv, HistoryInv
<1>. DEFINE old == Field(notes, "vel", ids)
<1>2. old \in ValuesBelow("vel", nextId) /\ DOMAIN old # {}
  BY <1>1, FieldBelow, FieldSets DEF Field
<1>3. Preview(old, old, v)
  BY DEF BeginVelocityGesture
<1>. HIDE DEF old
<1>. QED
  BY <1>2, <1>3, PreviewInv

LEMMA PreviewVelocityGestureInv ==
  ASSUME EditInv, NEW v \in Velocities, PreviewVelocityGesture(v)
  PROVE  EditInv'
<1>1. gesture.old \in ValuesBelow("vel", nextId) /\ gesture.new \in ValuesBelow("vel", nextId)
  BY DEF EditInv, VelocityInv
<1>2. DOMAIN gesture.old # {} /\ Preview(gesture.old, gesture.new, v)
  BY DEF PreviewVelocityGesture, InGesture
<1>. QED
  BY <1>1, <1>2, PreviewInv

LEMMA CommitVelocityGestureInv ==
  ASSUME EditInv, CommitVelocityGesture
  PROVE  EditInv'
<1>. DEFINE cmd == IF gesture.new = gesture.old THEN << >> ELSE SetNotes("vel", gesture.old, gesture.new)
<1>1. /\ nextId' = nextId /\ drag' = drag /\ notes' = notes /\ gesture' = NoGesture
      /\ PushUnlessEmpty(cmd)
  BY DEF CommitVelocityGesture
<1>2. nextId' \in Nat \ {0} /\ nextId <= nextId'
  BY <1>1 DEF EditInv, HistoryInv
<1>3. notes' \in DocsBelow(nextId') /\ StacksBelow(nextId') /\ DragInv'
  BY <1>1, <1>2, Below
<1>4. cmd \in CommandsBelow(nextId')
  <2>1. gesture.old \in ValuesBelow("vel", nextId') /\ gesture.new \in ValuesBelow("vel", nextId')
    BY <1>1 DEF EditInv, VelocityInv
  <2>2. SetNotes("vel", gesture.old, gesture.new) \in CommandsBelow(nextId')
    BY <2>1, SetCommand, FieldSets
  <2>3. << >> \in CommandsBelow(nextId')
    BY <1>3, NotesCommand
  <2>. QED
    BY <2>2, <2>3
<1>. HIDE DEF cmd
<1>5. NewStacksBelow(nextId')
  BY <1>1, <1>3, <1>4, Pushed
<1>6. VelocityInv'
  BY <1>1, <1>2, Ended
<1>. QED
  BY <1>2, <1>3, <1>5, <1>6, Kept

-----------------------------------------------------------------------------
(* The theorems                                                            *)

\* Undo, redo, edits and drags that all take any value keep the invariant.
LEMMA KeyInv == ASSUME EditInv, Key PROVE EditInv'
<1>1. ASSUME NEW ids \in Some,
             \/ \E d \in {-1, 1} : MoveSelected(ids, d) \/ ResizeSelected(ids, d)
             \/ \E v \in Velocities : SetSelectedVelocity(ids, v)
             \/ DeleteNotes(ids)
             \/ Duplicate(ids)
      PROVE  EditInv'
  <2>1. ids \in SUBSET DOMAIN notes /\ ids # {}
    BY DEF Some
  <2>2. ASSUME NEW d \in {-1, 1}, MoveSelected(ids, d) \/ ResizeSelected(ids, d) PROVE EditInv'
    <3>1. d \in Int
      OBVIOUS
    <3>. QED
      BY <2>1, <2>2, <3>1, EditSelectedInv
  <2>3. ASSUME NEW v \in Velocities, SetSelectedVelocity(ids, v) PROVE EditInv'
    <3>1. 1 \in Int
      OBVIOUS
    <3>. QED
      BY <2>1, <2>3, <3>1, EditSelectedInv
  <2>. QED
    BY <1>1, <2>1, <2>2, <2>3, DeleteNotesInv, DuplicateInv
<1>. QED
  BY <1>1, UndoInv, RedoInv DEF Key

LEMMA PressInv == ASSUME EditInv, Press PROVE EditInv'
<1>1. ASSUME NEW ids \in {{}} \cup {{i} : i \in DOMAIN notes}, PressErase(ids) PROVE EditInv'
  <2>1. ids \in SUBSET DOMAIN notes
    OBVIOUS
  <2>. QED
    BY <1>1, <2>1, PressEraseInv
<1>2. ASSUME NEW ids \in Some PROVE ids \in SUBSET DOMAIN notes /\ ids # {}
  BY DEF Some
<1>3. ASSUME NEW ids \in Some, NEW mode \in {"move", "start", "end"}, PressNote(mode, ids)
      PROVE  EditInv'
  BY <1>2, <1>3, PressNoteInv
<1>4. ASSUME NEW ids \in Some, NEW v \in Velocities, BeginVelocityGesture(ids, v)
      PROVE  EditInv'
  BY <1>2, <1>4, BeginVelocityGestureInv
<1>. QED
  BY <1>1, <1>3, <1>4, PressEmptyInv DEF Press

LEMMA MouseInv == ASSUME EditInv, Mouse PROVE EditInv'
<1>1. ASSUME NEW d \in {-1, 0, 1}, DragMove(d) \/ DragEnd(d) \/ DragStart(d) PROVE EditInv'
  <2>1. d \in Int
    OBVIOUS
  <2>. QED
    BY <1>1, <2>1, DragMoveInv, DragStartInv
<1>2. ASSUME NEW dur \in Durations, DragCreate(dur) PROVE EditInv'
  <2>1. dur \in Int
    BY DEF Durations
  <2>. QED
    BY <1>2, <2>1, DragCreateInv
<1>. QED
  BY <1>1, <1>2, PreviewVelocityGestureInv, ReleaseCreateInv, ReleaseNoteInv,
     CommitVelocityGestureInv DEF Mouse

LEMMA EditInvariance == EditSpec => []EditInv
<1>1. EditInit => EditInv
  BY InitEditInv
<1>2. EditInv /\ [EditNext]_editVars => EditInv'
  <2>. SUFFICES ASSUME EditInv, [EditNext]_editVars PROVE EditInv'
    OBVIOUS
  <2>1. CASE EditNext
    BY <2>1, OpenClipInv, KeyInv, PressInv, MouseInv DEF EditNext
  <2>2. CASE UNCHANGED editVars
    BY <2>2 DEF editVars, EditInv, HistoryInv, DragInv, VelocityInv, NoDrag, NoGesture
  <2>. QED
    BY <2>1, <2>2
<1>. QED
  BY <1>1, <1>2, PTL DEF EditSpec

\* The ids that a command names are those of its parts.
LEMMA CommandIdsBelow ==
  ASSUME NEW n, NEW cmd \in CommandsBelow(n)
  PROVE  CommandIds(cmd) \subseteq 1 .. n - 1
<1>1. \A k \in DOMAIN cmd : cmd[k] \in PartsBelow(n)
  BY DEF CommandsBelow
<1>2. ASSUME NEW part \in PartsBelow(n) PROVE PartIds(part) \subseteq 1 .. n - 1
  <2>1. CASE part \in [do : {"add", "remove"}, notes : DocsBelow(n)]
    <3>1. part.do # "set" /\ part.notes \in DocsBelow(n)
      BY <2>1
    <3>. QED
      BY <3>1, DocParts DEF PartIds
  <2>2. ASSUME NEW f \in Fields,
               part \in [do : {"set"}, field : {f}, old : ValuesBelow(f, n), new : ValuesBelow(f, n)]
        PROVE  PartIds(part) \subseteq 1 .. n - 1
    <3>1. part.do = "set" /\ part.new \in ValuesBelow(f, n)
      BY <2>2
    <3>. QED
      BY <3>1, ValueParts DEF PartIds
  <2>. QED
    BY <2>1, <2>2 DEF PartsBelow
<1>. QED
  BY <1>1, <1>2 DEF CommandIds

LEMMA IdsFromInv == EditInv => IdsAreNotReused
<1>. SUFFICES ASSUME EditInv PROVE IdsAreNotReused
  OBVIOUS
<1>1. nextId \in Nat \ {0} /\ DOMAIN notes \subseteq 1 .. nextId - 1
  BY DocParts DEF EditInv, HistoryInv
<1>2. drag.id \in 0 .. nextId - 1 /\ DOMAIN drag.initial \subseteq 1 .. nextId - 1
  BY DocParts DEF EditInv, DragInv
<1>3. DOMAIN gesture.old \subseteq 1 .. nextId - 1
  BY ValueParts DEF EditInv, VelocityInv
<1>4. ASSUME NEW cmd \in Range(undoStack) \cup Range(redoStack) \cup {batch}
      PROVE  cmd \in CommandsBelow(nextId)
  BY DEF Range, EditInv, HistoryInv
<1>5. drag.id < nextId
  BY <1>1, <1>2
<1>. QED
  BY <1>1, <1>2, <1>3, <1>4, <1>5, CommandIdsBelow DEF IdsAreNotReused

\* No id that a note, a command of the undo or redo list, a drag or a velocity
\* gesture knows is ever given to another note: add_note's counter stays above
\* them all, through every interleaving of gestures, edits, undo and redo.
THEOREM IdsStayUnique == EditSpec => []IdsAreNotReused
BY EditInvariance, IdsFromInv, PTL

\* Where a click and the opened documents make no note shorter than the
\* shortest one a drag makes, no edit, drag, undo or redo leaves a note with a
\* start before the clip or without a length: std::clamp is not called with
\* its bounds crossed.
THEOREM NotesStayValid == ASSUME NoneShort PROVE EditSpec => []NotesAreValid
<1>1. EditInv => NotesAreValid
  <2>. SUFFICES ASSUME EditInv, NEW i \in DOMAIN notes PROVE notes[i].pos >= 0 /\ notes[i].dur > 0
    BY DEF NotesAreValid
  <2>1. notes[i].pos \in Starts /\ notes[i].dur \in Lengths
    BY NoteFields DEF EditInv, HistoryInv
  <2>. QED
    BY <2>1 DEF Starts, Lengths
<1>. QED
  BY <1>1, EditInvariance, PTL

-----------------------------------------------------------------------------
(* The timeline: documents that are alike                                  *)

\* What pop_back leaves of a list.
LEMMA LastCutOff ==
  ASSUME NEW S, NEW s \in Seq(S), Len(s) > 0
  PROVE  /\ SubSeq(s, 1, Len(s) - 1) \in Seq(S)
         /\ Len(SubSeq(s, 1, Len(s) - 1)) = Len(s) - 1
         /\ DOMAIN SubSeq(s, 1, Len(s) - 1) = 1 .. Len(s) - 1
         /\ \A k \in 1 .. Len(s) - 1 : SubSeq(s, 1, Len(s) - 1)[k] = s[k]
<1>. DEFINE n == Len(s) - 1
            cut == SubSeq(s, 1, n)
<1>1. n \in Nat /\ n <= Len(s)
  OBVIOUS
<1>2. cut \in Seq(S)
  BY <1>1
<1>3. cut = [k \in 1 .. n |-> s[k]]
  BY <1>1
<1>4. DOMAIN cut = 1 .. n /\ \A k \in 1 .. n : cut[k] = s[k]
  BY ONLY <1>3
<1>5. Len(cut) = n
  <2>1. Len(cut) \in Nat /\ DOMAIN cut = 1 .. Len(cut)
    BY ONLY <1>2
  <2>. HIDE DEF n, cut
  <2>2. \A a, b \in Nat : 1 .. a \subseteq 1 .. b => a <= b
    OBVIOUS
  <2>3. Len(cut) <= n /\ n <= Len(cut)
    BY ONLY <1>1, <1>4, <2>1, <2>2, Zenon
  <2>4. \A a, b \in Nat : a <= b /\ b <= a => a = b
    OBVIOUS
  <2>. QED
    BY ONLY <1>1, <2>1, <2>3, <2>4, Zenon
<1>. QED
  BY ONLY <1>2, <1>4, <1>5

\* Two documents that the commands do not promise to tell apart: Heard makes
\* them equal.
Alike(d, e) ==
  /\ DOMAIN d = DOMAIN e
  /\ \A i \in DOMAIN d, f \in Fields : d[i][f] = e[i][f]

LEMMA AlikeHeard ==
  ASSUME NEW d, NEW e
  PROVE  Alike(d, e) <=> Heard(d) = Heard(e)
<1>1. ASSUME Alike(d, e) PROVE Heard(d) = Heard(e)
  <2>1. DOMAIN d = DOMAIN e /\ \A i \in DOMAIN d : d[i].pos = e[i].pos /\ d[i].dur = e[i].dur /\ d[i].vel = e[i].vel
    BY <1>1 DEF Alike, Fields
  <2>. QED
    BY <2>1 DEF Heard
<1>2. ASSUME Heard(d) = Heard(e) PROVE Alike(d, e)
  <2>1. DOMAIN Heard(d) = DOMAIN d /\ DOMAIN Heard(e) = DOMAIN e
    BY DEF Heard
  <2>2. \A i \in DOMAIN d : Heard(d)[i].pos = d[i].pos /\ Heard(d)[i].dur = d[i].dur /\ Heard(d)[i].vel = d[i].vel
    BY DEF Heard
  <2>3. \A i \in DOMAIN e : Heard(e)[i].pos = e[i].pos /\ Heard(e)[i].dur = e[i].dur /\ Heard(e)[i].vel = e[i].vel
    BY DEF Heard
  <2>4. DOMAIN d = DOMAIN e /\ \A i \in DOMAIN d : d[i].pos = e[i].pos /\ d[i].dur = e[i].dur /\ d[i].vel = e[i].vel
    BY <1>2, <2>1, <2>2, <2>3
  <2>. QED
    BY <2>4 DEF Alike, Fields
<1>. QED
  BY <1>1, <1>2

LEMMA AlikeChain ==
  ASSUME NEW d, NEW e, NEW f, Alike(d, e), Alike(e, f)
  PROVE  Alike(d, f)
BY DEF Alike

LEMMA AlikeBack ==
  ASSUME NEW d, NEW e, Alike(d, e)
  PROVE  Alike(e, d) /\ Alike(d, d)
BY DEF Alike

LEMMA AlikeSelf == \A d : Alike(d, d)
BY DEF Alike

\* new is doc but for the field f of the notes that value names.
Sets(new, doc, f, value) ==
  /\ DOMAIN new = DOMAIN doc
  /\ \A i \in DOMAIN doc, g \in Fields :
       /\ i \in DOMAIN value /\ g = f => new[i][g] = value[i]
       /\ i \notin DOMAIN value \/ g # f => new[i][g] = doc[i][g]

WithField(note, f, v) == [note EXCEPT ![f] = v]

LEMMA NoteFieldSet ==
  ASSUME NEW note \in ValidNote, NEW f \in Fields \cup {"rel"}, NEW v, NEW g \in Fields
  PROVE  /\ g = f => WithField(note, f, v)[g] = v
         /\ g # f => WithField(note, f, v)[g] = note[g]
<1>1. CASE f = "pos"
  BY <1>1 DEF ValidNote, Fields, WithField
<1>2. CASE f = "dur"
  BY <1>2 DEF ValidNote, Fields, WithField
<1>3. CASE f = "vel"
  BY <1>3 DEF ValidNote, Fields, WithField
<1>4. CASE f = "rel"
  BY <1>4 DEF ValidNote, Fields, WithField
<1>. QED
  BY <1>1, <1>2, <1>3, <1>4 DEF Fields

LEMMA WrittenSets ==
  ASSUME NEW n, NEW doc \in DocsBelow(n), NEW f \in Fields \cup {"rel"}, NEW value
  PROVE  Sets(Written(doc, f, value), doc, f, value)
<1>1. \A i \in DOMAIN doc : doc[i] \in ValidNote
  BY DocParts
<1>2. /\ DOMAIN Written(doc, f, value) = DOMAIN doc
      /\ \A i \in DOMAIN doc : Written(doc, f, value)[i] =
            IF i \in DOMAIN value THEN WithField(doc[i], f, value[i]) ELSE doc[i]
  BY DEF Written, WithField
<1>3. ASSUME NEW i \in DOMAIN doc, NEW g \in Fields
      PROVE  /\ i \in DOMAIN value /\ g = f => Written(doc, f, value)[i][g] = value[i]
             /\ i \notin DOMAIN value \/ g # f => Written(doc, f, value)[i][g] = doc[i][g]
  <2>1. CASE i \in DOMAIN value
    <3>1. Written(doc, f, value)[i] = WithField(doc[i], f, value[i]) /\ doc[i] \in ValidNote
      BY <1>1, <1>2, <2>1
    <3>2. /\ g = f => WithField(doc[i], f, value[i])[g] = value[i]
          /\ g # f => WithField(doc[i], f, value[i])[g] = doc[i][g]
      BY <3>1, NoteFieldSet
    <3>. QED
      BY <2>1, <3>1, <3>2
  <2>2. CASE i \notin DOMAIN value
    BY <1>2, <2>2
  <2>. QED
    BY <2>1, <2>2
<1>. QED
  BY <1>2, <1>3 DEF Sets

\* What update_velocity does to the release velocity is not heard.
LEMMA ReleaseAlike ==
  ASSUME NEW n, NEW doc \in DocsBelow(n), NEW value
  PROVE  Alike(Written(doc, "rel", value), doc)
<1>1. Sets(Written(doc, "rel", value), doc, "rel", value)
  BY WrittenSets
<1>. QED
  BY <1>1 DEF Sets, Alike, Fields

\* What the history wrote is accepted.
LEMMA AllAccepted ==
  ASSUME NoneShort, NEW f \in Fields, NEW v \in Values(f)
  PROVE  Accepted(f, v)
<1>1. CASE f = "pos"
  BY <1>1 DEF Values, Starts, Accepted
<1>2. CASE f = "dur"
  <2>1. v \in Int /\ v >= MinDuration
    BY <1>2 DEF Values, Lengths
  <2>2. v > 0
    BY <2>1
  <2>. QED
    BY <1>2, <2>2 DEF Accepted
<1>3. CASE f = "vel"
  BY <1>3 DEF Accepted
<1>. QED
  BY <1>1, <1>2, <1>3 DEF Fields

LEMMA UpdatedSets ==
  ASSUME NoneShort, NEW n, NEW doc \in DocsBelow(n), NEW f \in Fields, NEW value \in ValuesBelow(f, n)
  PROVE  Sets(Updated(doc, f, value), doc, f, value)
<1>. DEFINE ok == {i \in DOMAIN value \cap DOMAIN doc : Accepted(f, value[i])}
            some == Restrict(value, ok)
            set == Written(doc, f, some)
<1>1. \A i \in DOMAIN value : value[i] \in Values(f)
  BY ValueParts
<1>2. ok = DOMAIN value \cap DOMAIN doc
  BY <1>1, AllAccepted
<1>3. DOMAIN some = ok /\ \A i \in ok : some[i] = value[i]
  BY DEF Restrict
<1>4. set \in DocsBelow(n)
  <2>1. \A i \in DOMAIN some \cap DOMAIN doc : some[i] \in Values(f)
    BY <1>1, <1>2, <1>3
  <2>. HIDE DEF some
  <2>. QED
    BY <2>1, WrittenDoc
<1>5. Sets(set, doc, f, some)
  BY WrittenSets
<1>. HIDE DEF some, set
<1>6. Sets(set, doc, f, value)
  BY <1>2, <1>3, <1>5 DEF Sets
<1>7. CASE f # "vel"
  <2>1. Updated(doc, f, value) = set
    BY <1>7 DEF Updated, set, some
  <2>. QED
    BY <1>6, <2>1
<1>8. CASE f = "vel"
  <2>. DEFINE zero == [i \in ok |-> 0]
  <2>1. Updated(doc, f, value) = Written(set, "rel", zero)
    BY <1>8 DEF Updated, set, some
  <2>. HIDE DEF zero
  <2>2. Alike(Written(set, "rel", zero), set)
    BY <1>4, ReleaseAlike
  <2>. QED
    BY <1>6, <2>1, <2>2 DEF Alike, Sets
<1>. QED
  BY <1>7, <1>8

LEMMA SetsAlike ==
  ASSUME NEW d, NEW e, NEW c, NEW b, NEW f, NEW value, Alike(d, e), Sets(c, d, f, value), Sets(b, e, f, value)
  PROVE  Alike(c, b)
<1>1. DOMAIN c = DOMAIN b /\ DOMAIN c = DOMAIN d /\ DOMAIN d = DOMAIN e
  BY DEF Alike, Sets
<1>2. ASSUME NEW i \in DOMAIN c, NEW g \in Fields PROVE c[i][g] = b[i][g]
  <2>1. CASE i \in DOMAIN value /\ g = f
    BY <1>1, <2>1 DEF Sets
  <2>2. CASE i \notin DOMAIN value \/ g # f
    <3>1. c[i][g] = d[i][g] /\ b[i][g] = e[i][g]
      BY <1>1, <2>2 DEF Sets
    <3>. QED
      BY <1>1, <3>1 DEF Alike
  <2>. QED
    BY <2>1, <2>2
<1>. QED
  BY <1>1, <1>2 DEF Alike

LEMMA AddedAlike ==
  ASSUME NEW d, NEW e, NEW new, Alike(d, e)
  PROVE  Alike(Added(d, new), Added(e, new))
<1>1. /\ DOMAIN Added(d, new) = DOMAIN d \cup DOMAIN new
      /\ DOMAIN Added(e, new) = DOMAIN e \cup DOMAIN new
      /\ \A i \in DOMAIN d \cup DOMAIN new : Added(d, new)[i] = IF i \in DOMAIN d THEN d[i] ELSE new[i]
      /\ \A i \in DOMAIN e \cup DOMAIN new : Added(e, new)[i] = IF i \in DOMAIN e THEN e[i] ELSE new[i]
  BY DEF Added, Over
<1>. QED
  BY <1>1 DEF Alike

LEMMA RemovedAlike ==
  ASSUME NEW d, NEW e, NEW ids, Alike(d, e)
  PROVE  Alike(Removed(d, ids), Removed(e, ids))
<1>1. /\ DOMAIN Removed(d, ids) = DOMAIN d \ ids /\ DOMAIN Removed(e, ids) = DOMAIN e \ ids
      /\ \A i \in DOMAIN d \ ids : Removed(d, ids)[i] = d[i]
      /\ \A i \in DOMAIN e \ ids : Removed(e, ids)[i] = e[i]
  BY DEF Removed, Restrict
<1>. QED
  BY <1>1 DEF Alike

\* A part does the same to two documents that are alike.
LEMMA PartAlike ==
  ASSUME NoneShort, NEW n, NEW d \in DocsBelow(n), NEW e \in DocsBelow(n), Alike(d, e),
         NEW part \in PartsBelow(n)
  PROVE  Alike(UndoPart(part, d), UndoPart(part, e)) /\ Alike(RedoPart(d, part), RedoPart(e, part))
<1>1. CASE part \in [do : {"add", "remove"}, notes : DocsBelow(n)]
  <2>1. part.do \in {"add", "remove"}
    BY <1>1
  <2>. QED
    BY <2>1, AddedAlike, RemovedAlike DEF UndoPart, RedoPart
<1>2. ASSUME NEW f \in Fields,
             part \in [do : {"set"}, field : {f}, old : ValuesBelow(f, n), new : ValuesBelow(f, n)]
      PROVE  Alike(UndoPart(part, d), UndoPart(part, e)) /\ Alike(RedoPart(d, part), RedoPart(e, part))
  <2>1. part.do = "set" /\ part.field = f /\ part.old \in ValuesBelow(f, n) /\ part.new \in ValuesBelow(f, n)
    BY <1>2
  <2>2. ASSUME NEW value \in ValuesBelow(f, n) PROVE Alike(Updated(d, f, value), Updated(e, f, value))
    BY UpdatedSets, SetsAlike
  <2>. QED
    BY <2>1, <2>2 DEF UndoPart, RedoPart
<1>. QED
  BY <1>1, <1>2 DEF PartsBelow

-----------------------------------------------------------------------------
(* Commands on documents that are alike                                    *)

\* One document after the other along the parts of a command.
RedoPath(n, cmd, d) ==
  d \in [0 .. Len(cmd) -> DocsBelow(n)] /\ \A k \in 1 .. Len(cmd) : d[k] = RedoPart(d[k - 1], cmd[k])
UndoPath(n, cmd, d) ==
  d \in [0 .. Len(cmd) -> DocsBelow(n)] /\ \A k \in 1 .. Len(cmd) : d[k - 1] = UndoPart(cmd[k], d[k])

\* Paths that start alike stay alike.
LEMMA RedoPathsAlike ==
  ASSUME NoneShort, NEW n, NEW cmd \in CommandsBelow(n), NEW d, NEW e,
         RedoPath(n, cmd, d), RedoPath(n, cmd, e), Alike(d[0], e[0])
  PROVE  Alike(d[Len(cmd)], e[Len(cmd)])
<1>. DEFINE m == Len(cmd)
            Good == {k \in 0 .. m : Alike(d[k], e[k])}
<1>1. /\ m \in Nat /\ \A k \in 1 .. m : cmd[k] \in PartsBelow(n)
      /\ \A k \in 0 .. m : d[k] \in DocsBelow(n) /\ e[k] \in DocsBelow(n)
      /\ \A k \in 1 .. m : d[k] = RedoPart(d[k - 1], cmd[k]) /\ e[k] = RedoPart(e[k - 1], cmd[k])
  BY DEF CommandsBelow, RedoPath
<1>2. Good \in SUBSET Nat /\ 0 \in Good
  BY <1>1
<1>3. ASSUME NEW k \in 0 .. m - 1, k \in Good PROVE k + 1 \in Good
  <2>1. k + 1 \in 1 .. m /\ k + 1 \in 0 .. m /\ (k + 1) - 1 = k /\ k \in 0 .. m
    BY <1>1
  <2>2. d[k + 1] = RedoPart(d[k], cmd[k + 1]) /\ e[k + 1] = RedoPart(e[k], cmd[k + 1])
    BY <1>1, <2>1
  <2>3. /\ Alike(d[k], e[k]) /\ d[k] \in DocsBelow(n) /\ e[k] \in DocsBelow(n)
        /\ cmd[k + 1] \in PartsBelow(n)
    BY <1>1, <1>3, <2>1
  <2>4. Alike(RedoPart(d[k], cmd[k + 1]), RedoPart(e[k], cmd[k + 1]))
    BY <2>3, PartAlike, Zenon
  <2>. QED
    BY <2>1, <2>2, <2>4
<1>4. m \in Good
  <2>. HIDE DEF Good
  <2>. QED
    BY <1>1, <1>2, <1>3, CountUp
<1>. QED
  BY <1>4

LEMMA UndoPathsAlike ==
  ASSUME NoneShort, NEW n, NEW cmd \in CommandsBelow(n), NEW d, NEW e,
         UndoPath(n, cmd, d), UndoPath(n, cmd, e), Alike(d[Len(cmd)], e[Len(cmd)])
  PROVE  Alike(d[0], e[0])
<1>. DEFINE m == Len(cmd)
            Good == {k \in 0 .. m : Alike(d[m - k], e[m - k])}
<1>1. /\ m \in Nat /\ \A k \in 1 .. m : cmd[k] \in PartsBelow(n)
      /\ \A k \in 0 .. m : d[k] \in DocsBelow(n) /\ e[k] \in DocsBelow(n)
      /\ \A k \in 1 .. m : d[k - 1] = UndoPart(cmd[k], d[k]) /\ e[k - 1] = UndoPart(cmd[k], e[k])
  BY DEF CommandsBelow, UndoPath
<1>2. Good \in SUBSET Nat /\ 0 \in Good
  BY <1>1
<1>3. ASSUME NEW k \in 0 .. m - 1, k \in Good PROVE k + 1 \in Good
  <2>. DEFINE j == m - k
  <2>1. j \in 1 .. m /\ j \in 0 .. m /\ j - 1 = m - (k + 1) /\ k + 1 \in 0 .. m
    BY <1>1
  <2>2. d[j - 1] = UndoPart(cmd[j], d[j]) /\ e[j - 1] = UndoPart(cmd[j], e[j])
    BY <1>1, <2>1
  <2>3. Alike(d[j], e[j]) /\ d[j] \in DocsBelow(n) /\ e[j] \in DocsBelow(n) /\ cmd[j] \in PartsBelow(n)
    BY <1>1, <1>3, <2>1
  <2>. HIDE DEF j
  <2>4. Alike(UndoPart(cmd[j], d[j]), UndoPart(cmd[j], e[j]))
    BY <2>3, PartAlike, Zenon
  <2>. QED
    BY <2>1, <2>2, <2>4
<1>4. m \in Good
  <2>. HIDE DEF Good
  <2>. QED
    BY <1>1, <1>2, <1>3, CountUp
<1>5. m - m = 0
  BY <1>1
<1>. QED
  BY <1>4, <1>5

\* A command is made again, and undone, along such a path.
LEMMA CommandPaths ==
  ASSUME NEW n, NEW doc \in DocsBelow(n), NEW cmd \in CommandsBelow(n)
  PROVE  /\ \E d : RedoPath(n, cmd, d) /\ d[0] = doc /\ Redone(cmd, doc) = d[Len(cmd)]
         /\ \E d : UndoPath(n, cmd, d) /\ d[Len(cmd)] = doc /\ Undone(cmd, doc) = d[0]
<1>1. \E d : RedoPath(n, cmd, d) /\ d[0] = doc /\ Redone(cmd, doc) = d[Len(cmd)]
  BY RedoneSteps DEF RedoPath
<1>2. \E d : UndoPath(n, cmd, d) /\ d[Len(cmd)] = doc /\ Undone(cmd, doc) = d[0]
  BY UndoneSteps DEF UndoPath
<1>. QED
  BY <1>1, <1>2

LEMMA CommandAlike ==
  ASSUME NoneShort, NEW n, NEW d \in DocsBelow(n), NEW e \in DocsBelow(n), Alike(d, e),
         NEW cmd \in CommandsBelow(n)
  PROVE  Alike(Undone(cmd, d), Undone(cmd, e)) /\ Alike(Redone(cmd, d), Redone(cmd, e))
<1>1. Alike(Redone(cmd, d), Redone(cmd, e))
  <2>1. PICK x : RedoPath(n, cmd, x) /\ x[0] = d /\ Redone(cmd, d) = x[Len(cmd)]
    BY CommandPaths
  <2>2. PICK y : RedoPath(n, cmd, y) /\ y[0] = e /\ Redone(cmd, e) = y[Len(cmd)]
    BY CommandPaths
  <2>3. Alike(x[0], y[0])
    BY <2>1, <2>2
  <2>4. Alike(x[Len(cmd)], y[Len(cmd)])
    BY <2>1, <2>2, <2>3, RedoPathsAlike, Zenon
  <2>. QED
    BY <2>1, <2>2, <2>4
<1>2. Alike(Undone(cmd, d), Undone(cmd, e))
  <2>1. PICK x : UndoPath(n, cmd, x) /\ x[Len(cmd)] = d /\ Undone(cmd, d) = x[0]
    BY CommandPaths
  <2>2. PICK y : UndoPath(n, cmd, y) /\ y[Len(cmd)] = e /\ Undone(cmd, e) = y[0]
    BY CommandPaths
  <2>3. Alike(x[Len(cmd)], y[Len(cmd)])
    BY <2>1, <2>2
  <2>4. Alike(x[0], y[0])
    BY <2>1, <2>2, <2>3, UndoPathsAlike, Zenon
  <2>. QED
    BY <2>1, <2>2, <2>4
<1>. QED
  BY <1>1, <1>2

\* What a path along the parts says of the command.
LEMMA RedoneAlong ==
  ASSUME NoneShort, NEW n, NEW cmd \in CommandsBelow(n), NEW d, RedoPath(n, cmd, d)
  PROVE  Alike(Redone(cmd, d[0]), d[Len(cmd)])
<1>1. d[0] \in DocsBelow(n)
  <2>1. Len(cmd) \in Nat
    BY DEF CommandsBelow
  <2>. QED
    BY <2>1 DEF RedoPath
<1>2. PICK x : RedoPath(n, cmd, x) /\ x[0] = d[0] /\ Redone(cmd, d[0]) = x[Len(cmd)]
  BY <1>1, CommandPaths
<1>3. Alike(x[0], d[0])
  BY <1>2, AlikeSelf
<1>4. Alike(x[Len(cmd)], d[Len(cmd)])
  BY <1>2, <1>3, RedoPathsAlike, Zenon
<1>. QED
  BY <1>2, <1>4

LEMMA UndoneAlong ==
  ASSUME NoneShort, NEW n, NEW cmd \in CommandsBelow(n), NEW d, UndoPath(n, cmd, d)
  PROVE  Alike(Undone(cmd, d[Len(cmd)]), d[0])
<1>1. d[Len(cmd)] \in DocsBelow(n)
  <2>1. Len(cmd) \in Nat
    BY DEF CommandsBelow
  <2>. QED
    BY <2>1 DEF UndoPath
<1>2. PICK x : UndoPath(n, cmd, x) /\ x[Len(cmd)] = d[Len(cmd)] /\ Undone(cmd, d[Len(cmd)]) = x[0]
  BY <1>1, CommandPaths
<1>3. Alike(x[Len(cmd)], d[Len(cmd)])
  BY <1>2, AlikeSelf
<1>4. Alike(x[0], d[0])
  BY <1>2, <1>3, UndoPathsAlike, Zenon
<1>. QED
  BY <1>2, <1>4

\* A command leads from one document to another, and back.
Links(cmd, d, e) == Alike(Undone(cmd, e), d) /\ Alike(Redone(cmd, d), e)

LEMMA LinksAlike ==
  ASSUME NoneShort, NEW n, NEW cmd \in CommandsBelow(n),
         NEW d \in DocsBelow(n), NEW e \in DocsBelow(n), Links(cmd, d, e),
         NEW d2 \in DocsBelow(n), NEW e2 \in DocsBelow(n), Alike(d, d2), Alike(e, e2)
  PROVE  Links(cmd, d2, e2)
<1>1. Alike(Undone(cmd, e2), Undone(cmd, e)) /\ Alike(Redone(cmd, d2), Redone(cmd, d))
  BY CommandAlike, AlikeBack
<1>2. Alike(Undone(cmd, e2), d2)
  BY <1>1, AlikeChain DEF Links
<1>3. Alike(Redone(cmd, d2), e2)
  BY <1>1, AlikeChain DEF Links
<1>. QED
  BY <1>2, <1>3 DEF Links

\* One path after the other.
Chained(m, p, l, q) == [k \in 0 .. m + l |-> IF k <= m THEN p[k] ELSE q[k - m]]

Along(m, D, p) == p \in [0 .. m -> D]
Chains(m, l, D, p, q, r) ==
  /\ r \in [0 .. m + l -> D] /\ r[0] = p[0] /\ r[m + l] = q[l]
  /\ \A k \in 1 .. m : r[k] = p[k] /\ r[k - 1] = p[k - 1]
  /\ \A k \in m + 1 .. m + l : r[k] = q[k - m] /\ r[k - 1] = q[k - m - 1]

LEMMA ChainedSteps ==
  ASSUME NEW m \in Nat, NEW l \in Nat, NEW D, NEW p, NEW q, Along(m, D, p), Along(l, D, q), p[m] = q[0]
  PROVE  Chains(m, l, D, p, q, Chained(m, p, l, q))
<1>. DEFINE r == Chained(m, p, l, q)
<1>0. p \in [0 .. m -> D] /\ q \in [0 .. l -> D]
  BY DEF Along
<1>1. DOMAIN r = 0 .. m + l /\ \A k \in 0 .. m + l : r[k] = IF k <= m THEN p[k] ELSE q[k - m]
  BY DEF Chained
<1>. HIDE DEF r
<1>2. ASSUME NEW k \in 0 .. m + l PROVE r[k] \in D
  <2>1. CASE k <= m
    BY <1>0, <1>1, <2>1
  <2>2. CASE ~(k <= m)
    <3>1. k - m \in 0 .. l
      BY <2>2
    <3>. QED
      BY <1>0, <1>1, <2>2, <3>1
  <2>. QED
    BY <2>1, <2>2
<1>3. r \in [0 .. m + l -> D]
  <2>1. r = [k \in 0 .. m + l |-> r[k]]
    BY <1>1 DEF r, Chained
  <2>. QED
    BY <1>2, <2>1
<1>4. r[0] = p[0]
  BY <1>1
<1>5. \A k \in m .. m + l : r[k] = q[k - m]
  <2>1. TAKE k \in m .. m + l
  <2>2. CASE k = m
    <3>1. k - m = 0 /\ k \in 0 .. m + l
      BY <2>2
    <3>. QED
      BY <1>1, <2>2, <3>1
  <2>3. CASE k # m
    <3>1. ~(k <= m) /\ k \in 0 .. m + l
      BY <2>3
    <3>. QED
      BY <1>1, <3>1
  <2>. QED
    BY <2>2, <2>3
<1>6. r[m + l] = q[l]
  <2>1. m + l \in m .. m + l /\ (m + l) - m = l
    OBVIOUS
  <2>. QED
    BY <1>5, <2>1
<1>7. \A k \in 1 .. m : r[k] = p[k] /\ r[k - 1] = p[k - 1]
  <2>1. TAKE k \in 1 .. m
  <2>2. k \in 0 .. m + l /\ k - 1 \in 0 .. m + l /\ k <= m /\ k - 1 <= m
    OBVIOUS
  <2>. QED
    BY <1>1, <2>2
<1>8. \A k \in m + 1 .. m + l : r[k] = q[k - m] /\ r[k - 1] = q[k - m - 1]
  <2>1. TAKE k \in m + 1 .. m + l
  <2>2. k \in m .. m + l /\ k - 1 \in m .. m + l /\ (k - 1) - m = k - m - 1
    OBVIOUS
  <2>. QED
    BY <1>5, <2>2
<1>. QED
  BY <1>3, <1>4, <1>6, <1>7, <1>8 DEF r, Chains

LEMMA JoinedParts ==
  ASSUME NEW n, NEW c \in CommandsBelow(n), NEW e \in CommandsBelow(n)
  PROVE  /\ Len(c) \in Nat /\ Len(e) \in Nat /\ Len(c \o e) = Len(c) + Len(e)
         /\ \A k \in 1 .. Len(c) : (c \o e)[k] = c[k]
         /\ \A k \in Len(c) + 1 .. Len(c) + Len(e) : (c \o e)[k] = e[k - Len(c)]
BY DEF CommandsBelow

LEMMA JoinedPaths ==
  ASSUME NEW n, NEW c \in CommandsBelow(n), NEW e \in CommandsBelow(n), NEW p, NEW q,
         p[Len(c)] = q[0]
  PROVE  /\ RedoPath(n, c, p) /\ RedoPath(n, e, q)
              => RedoPath(n, c \o e, Chained(Len(c), p, Len(e), q))
         /\ UndoPath(n, c, p) /\ UndoPath(n, e, q)
              => UndoPath(n, c \o e, Chained(Len(c), p, Len(e), q))
<1>. DEFINE m == Len(c)
            l == Len(e)
            r == Chained(m, p, l, q)
            ce == c \o e
<1>1. /\ m \in Nat /\ l \in Nat /\ Len(ce) = m + l
      /\ \A k \in 1 .. m : ce[k] = c[k]
      /\ \A k \in m + 1 .. m + l : ce[k] = e[k - m]
  BY JoinedParts
<1>2. \A k \in 1 .. m + l : k \in 1 .. m \/ k \in m + 1 .. m + l
  BY <1>1
<1>3. \A k \in m + 1 .. m + l : k - m \in 1 .. l
  BY <1>1
<1>. HIDE DEF m, l, ce
<1>4. ASSUME RedoPath(n, c, p), RedoPath(n, e, q) PROVE RedoPath(n, ce, r)
  <2>1. /\ p \in [0 .. m -> DocsBelow(n)] /\ q \in [0 .. l -> DocsBelow(n)] /\ p[m] = q[0]
        /\ \A k \in 1 .. m : p[k] = RedoPart(p[k - 1], c[k])
        /\ \A k \in 1 .. l : q[k] = RedoPart(q[k - 1], e[k])
    BY <1>4 DEF RedoPath, m, l
  <2>2. /\ r \in [0 .. m + l -> DocsBelow(n)]
        /\ \A k \in 1 .. m : r[k] = p[k] /\ r[k - 1] = p[k - 1]
        /\ \A k \in m + 1 .. m + l : r[k] = q[k - m] /\ r[k - 1] = q[k - m - 1]
    <3>1. Along(m, DocsBelow(n), p) /\ Along(l, DocsBelow(n), q)
      BY <2>1 DEF Along
    <3>2. m \in Nat /\ l \in Nat /\ p[m] = q[0]
      BY <1>1, <2>1
    <3>3. Chains(m, l, DocsBelow(n), p, q, Chained(m, p, l, q))
      BY ONLY <3>1, <3>2, ChainedSteps, Zenon
    <3>. QED
      BY <3>3 DEF Chains
  <2>. HIDE DEF r
  <2>3. ASSUME NEW k \in 1 .. m + l PROVE r[k] = RedoPart(r[k - 1], ce[k])
    <3>1. CASE k \in 1 .. m
      BY <1>1, <2>1, <2>2, <3>1
    <3>2. CASE k \in m + 1 .. m + l
      <4>1. q[k - m] = RedoPart(q[k - m - 1], e[k - m])
        BY <1>3, <2>1, <3>2
      <4>. QED
        BY <1>1, <2>2, <3>2, <4>1
    <3>. QED
      BY <1>2, <3>1, <3>2
  <2>. QED
    BY <1>1, <2>2, <2>3 DEF RedoPath
<1>5. ASSUME UndoPath(n, c, p), UndoPath(n, e, q) PROVE UndoPath(n, ce, r)
  <2>1. /\ p \in [0 .. m -> DocsBelow(n)] /\ q \in [0 .. l -> DocsBelow(n)] /\ p[m] = q[0]
        /\ \A k \in 1 .. m : p[k - 1] = UndoPart(c[k], p[k])
        /\ \A k \in 1 .. l : q[k - 1] = UndoPart(e[k], q[k])
    BY <1>5 DEF UndoPath, m, l
  <2>2. /\ r \in [0 .. m + l -> DocsBelow(n)]
        /\ \A k \in 1 .. m : r[k] = p[k] /\ r[k - 1] = p[k - 1]
        /\ \A k \in m + 1 .. m + l : r[k] = q[k - m] /\ r[k - 1] = q[k - m - 1]
    <3>1. Along(m, DocsBelow(n), p) /\ Along(l, DocsBelow(n), q)
      BY <2>1 DEF Along
    <3>2. m \in Nat /\ l \in Nat /\ p[m] = q[0]
      BY <1>1, <2>1
    <3>3. Chains(m, l, DocsBelow(n), p, q, Chained(m, p, l, q))
      BY ONLY <3>1, <3>2, ChainedSteps, Zenon
    <3>. QED
      BY <3>3 DEF Chains
  <2>. HIDE DEF r
  <2>3. ASSUME NEW k \in 1 .. m + l PROVE r[k - 1] = UndoPart(ce[k], r[k])
    <3>1. CASE k \in 1 .. m
      BY <1>1, <2>1, <2>2, <3>1
    <3>2. CASE k \in m + 1 .. m + l
      <4>1. q[k - m - 1] = UndoPart(e[k - m], q[k - m])
        BY <1>3, <2>1, <3>2
      <4>. QED
        BY <1>1, <2>2, <3>2, <4>1
    <3>. QED
      BY <1>2, <3>1, <3>2
  <2>. QED
    BY <1>1, <2>2, <2>3 DEF UndoPath
<1>. QED
  BY <1>4, <1>5 DEF m, l, ce

\* A compound command leads where its two halves lead one after the other.
LEMMA JoinedLinks ==
  ASSUME NoneShort, NEW n, NEW c \in CommandsBelow(n), NEW e \in CommandsBelow(n),
         NEW a \in DocsBelow(n), NEW b \in DocsBelow(n), NEW d \in DocsBelow(n),
         Links(c, a, b), Links(e, b, d)
  PROVE  Links(c \o e, a, d)
<1>. DEFINE m == Len(c)
            l == Len(e)
<1>0. c \o e \in CommandsBelow(n) /\ m \in Nat /\ l \in Nat /\ Len(c \o e) = m + l
  BY JoinedCommand, JoinedParts
<1>1. Alike(Redone(c \o e, a), d)
  <2>. DEFINE x == Redone(c, a)
  <2>1. x \in DocsBelow(n) /\ Alike(x, b)
    BY HistoryDoc DEF Links
  <2>2. PICK p : RedoPath(n, c, p) /\ p[0] = a /\ x = p[m]
    BY CommandPaths
  <2>. HIDE DEF x
  <2>3. PICK q : RedoPath(n, e, q) /\ q[0] = x /\ Redone(e, x) = q[l]
    BY <2>1, CommandPaths
  <2>. DEFINE r == Chained(m, p, l, q)
  <2>4. RedoPath(n, c \o e, r)
    BY <2>2, <2>3, JoinedPaths
  <2>5. r[0] = a /\ r[m + l] = q[l]
    <3>1. Along(m, DocsBelow(n), p) /\ Along(l, DocsBelow(n), q) /\ p[m] = q[0]
      BY <2>2, <2>3 DEF RedoPath, Along
    <3>2. r[0] = p[0] /\ r[m + l] = q[l]
      <4>1. Chains(m, l, DocsBelow(n), p, q, Chained(m, p, l, q))
        BY ONLY <1>0, <3>1, ChainedSteps
      <4>. QED
        BY ONLY <4>1 DEF Chains
    <3>. QED
      BY <2>2, <3>2
  <2>. HIDE DEF r
  <2>6. Alike(Redone(c \o e, r[0]), r[Len(c \o e)])
    BY <1>0, <2>4, RedoneAlong, Zenon
  <2>7. Alike(Redone(c \o e, a), Redone(e, x))
    BY <1>0, <2>3, <2>5, <2>6
  <2>8. Alike(Redone(e, x), Redone(e, b))
    BY <2>1, CommandAlike
  <2>. QED
    BY <2>7, <2>8, AlikeChain DEF Links
<1>2. Alike(Undone(c \o e, d), a)
  <2>. DEFINE x == Undone(e, d)
  <2>1. x \in DocsBelow(n) /\ Alike(x, b)
    BY HistoryDoc DEF Links
  <2>2. PICK q : UndoPath(n, e, q) /\ q[l] = d /\ x = q[0]
    BY CommandPaths
  <2>. HIDE DEF x
  <2>3. PICK p : UndoPath(n, c, p) /\ p[m] = x /\ Undone(c, x) = p[0]
    BY <2>1, CommandPaths
  <2>. DEFINE r == Chained(m, p, l, q)
  <2>4. UndoPath(n, c \o e, r)
    BY <2>2, <2>3, JoinedPaths
  <2>5. r[0] = p[0] /\ r[m + l] = d
    <3>1. Along(m, DocsBelow(n), p) /\ Along(l, DocsBelow(n), q) /\ p[m] = q[0]
      BY <2>2, <2>3 DEF UndoPath, Along
    <3>2. r[0] = p[0] /\ r[m + l] = q[l]
      <4>1. Chains(m, l, DocsBelow(n), p, q, Chained(m, p, l, q))
        BY ONLY <1>0, <3>1, ChainedSteps
      <4>. QED
        BY ONLY <4>1 DEF Chains
    <3>. QED
      BY <2>2, <3>2
  <2>. HIDE DEF r
  <2>6. Alike(Undone(c \o e, r[Len(c \o e)]), r[0])
    BY <1>0, <2>4, UndoneAlong, Zenon
  <2>7. Alike(Undone(c \o e, d), Undone(c, x))
    BY <1>0, <2>3, <2>5, <2>6
  <2>8. Alike(Undone(c, x), Undone(c, b))
    BY <2>1, CommandAlike
  <2>. QED
    BY <2>7, <2>8, AlikeChain DEF Links
<1>. QED
  BY <1>1, <1>2 DEF Links

-----------------------------------------------------------------------------
(* What each command links                                                 *)

LEMMA NoParts ==
  ASSUME NEW n, NEW doc \in DocsBelow(n)
  PROVE  Undone(<< >>, doc) = doc /\ Redone(<< >>, doc) = doc
<1>. DEFINE cmd == << >>
<1>1. cmd \in CommandsBelow(n) /\ Len(cmd) = 0
  BY NotesCommand
<1>. HIDE DEF cmd
<1>2. Undone(cmd, doc) = doc
  <2>1. PICK d : d[Len(cmd)] = doc /\ Undone(cmd, doc) = d[0]
    BY <1>1, CommandPaths
  <2>. QED
    BY <1>1, <2>1
<1>3. Redone(cmd, doc) = doc
  <2>1. PICK d : d[0] = doc /\ Redone(cmd, doc) = d[Len(cmd)]
    BY <1>1, CommandPaths
  <2>. QED
    BY <1>1, <2>1
<1>. QED
  BY <1>2, <1>3 DEF cmd

LEMMA OnePart ==
  ASSUME NEW n, NEW doc \in DocsBelow(n), NEW part \in PartsBelow(n)
  PROVE  Undone(<<part>>, doc) = UndoPart(part, doc) /\ Redone(<<part>>, doc) = RedoPart(doc, part)
<1>. DEFINE cmd == <<part>>
<1>1. cmd \in Seq(PartsBelow(n)) /\ Len(cmd) = 1 /\ cmd[1] = part
  OBVIOUS
<1>2. cmd \in CommandsBelow(n) /\ 1 \in 1 .. Len(cmd) /\ 1 - 1 = 0
  BY <1>1 DEF CommandsBelow
<1>. HIDE DEF cmd
<1>3. Undone(cmd, doc) = UndoPart(part, doc)
  <2>1. PICK d : UndoPath(n, cmd, d) /\ d[Len(cmd)] = doc /\ Undone(cmd, doc) = d[0]
    BY <1>2, CommandPaths
  <2>2. d[1 - 1] = UndoPart(cmd[1], d[1])
    BY <1>2, <2>1 DEF UndoPath
  <2>. QED
    BY <1>1, <1>2, <2>1, <2>2
<1>4. Redone(cmd, doc) = RedoPart(doc, part)
  <2>1. PICK d : RedoPath(n, cmd, d) /\ d[0] = doc /\ Redone(cmd, doc) = d[Len(cmd)]
    BY <1>2, CommandPaths
  <2>2. d[1] = RedoPart(d[1 - 1], cmd[1])
    BY <1>2, <2>1 DEF RedoPath
  <2>. QED
    BY <1>1, <1>2, <2>1, <2>2
<1>. QED
  BY <1>3, <1>4 DEF cmd

\* Two documents with the same notes are the same.
LEMMA SameDoc ==
  ASSUME NEW n, NEW d \in DocsBelow(n), NEW e \in DocsBelow(n),
         DOMAIN d = DOMAIN e, \A i \in DOMAIN d : d[i] = e[i]
  PROVE  d = e
<1>1. d \in [DOMAIN d -> ValidNote] /\ e \in [DOMAIN e -> ValidNote]
  BY DocParts
<1>. QED
  BY <1>1

LEMMA AddedNotes ==
  ASSUME NEW doc, NEW new
  PROVE  /\ DOMAIN Added(doc, new) = DOMAIN doc \cup DOMAIN new
         /\ \A i \in DOMAIN doc : Added(doc, new)[i] = doc[i]
         /\ \A i \in DOMAIN new \ DOMAIN doc : Added(doc, new)[i] = new[i]
BY DEF Added, Over

LEMMA RemovedNotes ==
  ASSUME NEW doc, NEW ids
  PROVE  /\ DOMAIN Removed(doc, ids) = DOMAIN doc \ ids
         /\ \A i \in DOMAIN doc \ ids : Removed(doc, ids)[i] = doc[i]
BY DEF Removed, Restrict

LEMMA RemoveLinks ==
  ASSUME NEW n, NEW doc \in DocsBelow(n), NEW ids \in SUBSET DOMAIN doc
  PROVE  Links(RemoveNotes(Restrict(doc, ids)), doc, Removed(doc, ids))
<1>. DEFINE gone == Restrict(doc, ids)
            part == [do |-> "remove", notes |-> gone]
            left == Removed(doc, ids)
<1>1. DOMAIN gone = ids /\ \A i \in ids : gone[i] = doc[i]
  BY DEF Restrict
<1>2. gone \in DocsBelow(n)
  BY RestrictedDoc
<1>3. left \in DocsBelow(n) /\ DOMAIN left = DOMAIN doc \ ids /\ \A i \in DOMAIN doc \ ids : left[i] = doc[i]
  BY RemovedDoc, RemovedNotes
<1>. HIDE DEF gone, left
<1>4. part \in PartsBelow(n)
  BY <1>2 DEF PartsBelow
<1>5. RemoveNotes(gone) = <<part>>
  BY DEF RemoveNotes
<1>6. UndoPart(part, left) = Added(left, gone) /\ RedoPart(doc, part) = Removed(doc, DOMAIN gone)
  BY DEF UndoPart, RedoPart
<1>7. Added(left, gone) = doc
  <2>. DEFINE back == Added(left, gone)
  <2>1. /\ DOMAIN back = DOMAIN left \cup DOMAIN gone
        /\ \A i \in DOMAIN left : back[i] = left[i]
        /\ \A i \in DOMAIN gone \ DOMAIN left : back[i] = gone[i]
    BY AddedNotes
  <2>2. back \in DocsBelow(n)
    BY <1>2, <1>3, AddedDoc
  <2>. HIDE DEF back
  <2>3. DOMAIN back = DOMAIN doc
    BY <1>1, <1>3, <2>1
  <2>4. \A i \in DOMAIN back : back[i] = doc[i]
    BY <1>1, <1>3, <2>1
  <2>5. back = doc
    BY <2>2, <2>3, <2>4, SameDoc
  <2>. QED
    BY <2>5 DEF back
<1>8. Undone(<<part>>, left) = doc
  <2>. HIDE DEF part
  <2>. QED
    BY <1>3, <1>4, <1>6, <1>7, OnePart
<1>9. Redone(<<part>>, doc) = left
  <2>. HIDE DEF part
  <2>. QED
    BY <1>1, <1>4, <1>6, OnePart DEF left
<1>. QED
  BY <1>5, <1>8, <1>9, AlikeSelf DEF Links, left, gone

LEMMA AddPartLinks ==
  ASSUME NEW n \in Int, NEW doc \in DocsBelow(n), NEW i \in 1 .. n - 1, i \notin DOMAIN doc, NEW note \in ValidNote
  PROVE  /\ RedoPart(doc, AddPart(i, note)) = Added(doc, Only(i, note))
         /\ UndoPart(AddPart(i, note), Added(doc, Only(i, note))) = doc
<1>. DEFINE one == Only(i, note)
            more == Added(doc, one)
            left == Removed(more, DOMAIN one)
<1>1. DOMAIN one = {i} /\ one[i] = note /\ one \in DocsBelow(n)
  BY AddCommand DEF Only
<1>2. RedoPart(doc, AddPart(i, note)) = more /\ UndoPart(AddPart(i, note), more) = left
  BY DEF RedoPart, UndoPart, AddPart
<1>. HIDE DEF one
<1>3. /\ DOMAIN more = DOMAIN doc \cup DOMAIN one
      /\ \A k \in DOMAIN doc : more[k] = doc[k]
  BY AddedNotes
<1>4. more \in DocsBelow(n)
  BY <1>1, AddedDoc
<1>. HIDE DEF more
<1>5. /\ left \in DocsBelow(n) /\ DOMAIN left = DOMAIN more \ DOMAIN one
      /\ \A k \in DOMAIN more \ DOMAIN one : left[k] = more[k]
  BY <1>4, RemovedDoc, RemovedNotes
<1>. HIDE DEF left
<1>6. DOMAIN left = DOMAIN doc
  BY <1>1, <1>3, <1>5
<1>7. \A k \in DOMAIN left : left[k] = doc[k]
  BY <1>3, <1>5, <1>6
<1>8. left = doc
  BY <1>5, <1>6, <1>7, SameDoc
<1>. QED
  BY <1>2, <1>8 DEF more, one

\* A note that is there, and the document without it.
LEMMA AddNoteLinks ==
  ASSUME NEW n \in Int, NEW doc \in DocsBelow(n), NEW i \in DOMAIN doc
  PROVE  Links(AddNote(i, doc[i]), Removed(doc, {i}), doc)
<1>. DEFINE left == Removed(doc, {i})
            note == doc[i]
            more == Added(left, Only(i, note))
<1>1. i \in 1 .. n - 1 /\ note \in ValidNote
  BY NoteFields
<1>2. left \in DocsBelow(n) /\ DOMAIN left = DOMAIN doc \ {i} /\ \A k \in DOMAIN doc \ {i} : left[k] = doc[k]
  BY RemovedDoc, RemovedNotes
<1>. HIDE DEF left
<1>3. RedoPart(left, AddPart(i, note)) = more /\ UndoPart(AddPart(i, note), more) = left
  BY <1>1, <1>2, AddPartLinks
<1>4. more = doc
  <2>1. Only(i, note) \in DocsBelow(n) /\ DOMAIN Only(i, note) = {i} /\ Only(i, note)[i] = note
    BY <1>1, AddCommand DEF Only
  <2>2. /\ DOMAIN more = DOMAIN left \cup DOMAIN Only(i, note)
        /\ \A k \in DOMAIN left : more[k] = left[k]
        /\ \A k \in DOMAIN Only(i, note) \ DOMAIN left : more[k] = Only(i, note)[k]
    BY AddedNotes
  <2>3. more \in DocsBelow(n)
    BY <1>2, <2>1, AddedDoc
  <2>. HIDE DEF more
  <2>4. DOMAIN more = DOMAIN doc
    BY <1>2, <2>1, <2>2
  <2>5. \A k \in DOMAIN more : more[k] = doc[k]
    BY <1>2, <2>1, <2>2
  <2>. QED
    BY <2>3, <2>4, <2>5, SameDoc
<1>5. AddPart(i, note) \in PartsBelow(n)
  BY <1>1, AddCommand
<1>. HIDE DEF note, more
<1>6. Undone(<<AddPart(i, note)>>, doc) = left /\ Redone(<<AddPart(i, note)>>, left) = doc
  BY <1>2, <1>3, <1>4, <1>5, OnePart
<1>. QED
  BY <1>6, AlikeSelf DEF Links, AddNote, left, note

\* Notes that are set, and what they were before.
LEMMA SetLinks ==
  ASSUME NoneShort, NEW n, NEW d \in DocsBelow(n), NEW e \in DocsBelow(n), NEW f \in Fields,
         NEW old \in ValuesBelow(f, n), NEW new \in ValuesBelow(f, n),
         DOMAIN old = DOMAIN new, DOMAIN new \subseteq DOMAIN d,
         Sets(e, d, f, new), Sets(d, e, f, old)
  PROVE  Links(SetNotes(f, old, new), d, e)
<1>1. CASE DOMAIN new = {}
  <2>1. SetNotes(f, old, new) = << >>
    BY <1>1 DEF SetNotes
  <2>2. Alike(d, e) /\ Alike(e, d)
    BY <1>1 DEF Sets, Alike
  <2>. QED
    BY <2>1, <2>2, NoParts DEF Links
<1>2. CASE DOMAIN new # {}
  <2>. DEFINE part == [do |-> "set", field |-> f, old |-> old, new |-> new]
  <2>1. SetNotes(f, old, new) = <<part>>
    BY <1>2 DEF SetNotes
  <2>2. part \in [do : {"set"}, field : {f}, old : ValuesBelow(f, n), new : ValuesBelow(f, n)]
    OBVIOUS
  <2>3. UndoPart(part, e) = Updated(e, f, old) /\ RedoPart(d, part) = Updated(d, f, new)
    BY DEF UndoPart, RedoPart
  <2>. HIDE DEF part
  <2>4. part \in PartsBelow(n)
    BY <2>2, Zenon DEF PartsBelow
  <2>5. Sets(Updated(e, f, old), e, f, old) /\ Sets(Updated(d, f, new), d, f, new)
    BY UpdatedSets
  <2>6. Alike(Updated(e, f, old), d) /\ Alike(Updated(d, f, new), e)
    BY <2>5, SetsAlike, AlikeSelf
  <2>7. Undone(<<part>>, e) = Updated(e, f, old) /\ Redone(<<part>>, d) = Updated(d, f, new)
    BY <2>3, <2>4, OnePart
  <2>. QED
    BY <2>1, <2>6, <2>7 DEF Links
<1>. QED
  BY <1>1, <1>2

LEMMA OneLonger ==
  ASSUME NEW m \in Int, NEW k \in Int, k >= 1
  PROVE  /\ m .. m + k - 1 = (m .. m + (k - 1) - 1) \cup {m + k - 1}
         /\ m + k - 1 \notin m .. m + (k - 1) - 1
OBVIOUS

\* Copies are added one by one, with the ids from m on.
LEMMA CopyLinks ==
  ASSUME NoneShort, NEW m \in Nat \ {0}, NEW l \in Nat, NEW doc \in DocsBelow(m),
         NEW copies \in [m .. m + l - 1 -> ValidNote],
         NEW parts, parts = [k \in 1 .. l |-> AddPart(m + k - 1, copies[m + k - 1])]
  PROVE  /\ doc \in DocsBelow(m + l) /\ parts \in CommandsBelow(m + l)
         /\ Added(doc, copies) \in DocsBelow(m + l)
         /\ Links(parts, doc, Added(doc, copies))
<1>. DEFINE n == m + l
            first(k) == Restrict(copies, m .. m + k - 1)
            p == [k \in 0 .. l |-> Added(doc, first(k))]
<1>1. n \in Int /\ m <= n /\ m \in Int
  OBVIOUS
<1>2. doc \in DocsBelow(n)
  BY <1>1, BelowGrows
<1>3. \A k \in 1 .. l : m + k - 1 \in m .. m + l - 1 /\ m + k - 1 \in 1 .. n - 1
  BY SMTT(20)
<1>4. ASSUME NEW k \in 1 .. l PROVE parts[k] \in PartsBelow(n)
  <2>1. m + k - 1 \in 1 .. n - 1 /\ copies[m + k - 1] \in ValidNote
    BY <1>3
  <2>2. AddPart(m + k - 1, copies[m + k - 1]) \in PartsBelow(n)
    BY <1>1, <2>1, AddCommand
  <2>. QED
    BY <2>2
<1>5. parts \in CommandsBelow(n) /\ Len(parts) = l
  <2>1. parts \in [1 .. l -> PartsBelow(n)]
    BY <1>4
  <2>2. parts \in Seq(PartsBelow(n)) /\ Len(parts) = l
    BY ONLY <2>1, l \in Nat
  <2>. QED
    BY <2>2 DEF CommandsBelow
<1>6. ASSUME NEW k \in 0 .. l
      PROVE  /\ DOMAIN first(k) = m .. m + k - 1 /\ \A i \in m .. m + k - 1 : first(k)[i] = copies[i]
             /\ first(k) \in DocsBelow(n)
  <2>1. m .. m + k - 1 \subseteq m .. m + l - 1 /\ m .. m + k - 1 \subseteq 1 .. n - 1
    <3>1. m \in Nat \ {0} /\ l \in Nat /\ k \in 0 .. l /\ n = m + l
      OBVIOUS
    <3>. HIDE DEF n
    <3>2. \A i \in m .. m + k - 1 : i \in m .. m + l - 1 /\ i \in 1 .. n - 1
      BY ONLY <3>1
    <3>. QED
      BY ONLY <3>2
  <2>2. DOMAIN first(k) = m .. m + k - 1 /\ \A i \in m .. m + k - 1 : first(k)[i] = copies[i]
    BY DEF Restrict
  <2>3. first(k) \in [m .. m + k - 1 -> ValidNote]
    BY <2>1 DEF Restrict
  <2>. HIDE DEF first
  <2>. QED
    BY <2>1, <2>2, <2>3, DocParts
<1>. HIDE DEF first
<1>7. ASSUME NEW k \in 0 .. l
      PROVE  /\ p[k] \in DocsBelow(n) /\ DOMAIN p[k] = DOMAIN doc \cup m .. m + k - 1
             /\ \A i \in DOMAIN doc : p[k][i] = doc[i]
             /\ \A i \in m .. m + k - 1 : p[k][i] = copies[i]
  <2>1. /\ DOMAIN Added(doc, first(k)) = DOMAIN doc \cup DOMAIN first(k)
        /\ \A i \in DOMAIN doc : Added(doc, first(k))[i] = doc[i]
        /\ \A i \in DOMAIN first(k) \ DOMAIN doc : Added(doc, first(k))[i] = first(k)[i]
    BY AddedNotes, ZenonT(30)
  <2>2. DOMAIN doc \subseteq 1 .. m - 1
    BY DocParts
  <2>3. \A i \in m .. m + k - 1 : i \notin DOMAIN doc
    BY <2>2
  <2>4. Added(doc, first(k)) \in DocsBelow(n)
    BY <1>2, <1>6, AddedDoc
  <2>5. p[k] = Added(doc, first(k))
    OBVIOUS
  <2>. HIDE DEF p
  <2>. QED
    BY <1>6, <2>1, <2>3, <2>4, <2>5
<1>8. p \in [0 .. l -> DocsBelow(n)]
  BY <1>7
<1>9. p[0] = doc
  <2>1. 0 \in 0 .. l /\ m .. m + 0 - 1 = {}
    OBVIOUS
  <2>2. DOMAIN p[0] = DOMAIN doc /\ \A i \in DOMAIN p[0] : p[0][i] = doc[i]
    <3>. HIDE DEF p
    <3>. QED
      BY <1>7, <2>1
  <2>3. p[0] \in DocsBelow(n)
    BY <1>7, <2>1
  <2>. HIDE DEF p
  <2>. QED
    BY <1>2, <2>2, <2>3, SameDoc
<1>10. p[l] = Added(doc, copies)
  <2>1. l \in 0 .. l /\ DOMAIN copies = m .. m + l - 1
    OBVIOUS
  <2>2. first(l) = copies
    BY <2>1 DEF first, Restrict
  <2>. QED
    BY <2>1, <2>2
<1>. HIDE DEF p
<1>11. ASSUME NEW k \in 1 .. l
       PROVE  p[k] = RedoPart(p[k - 1], parts[k]) /\ p[k - 1] = UndoPart(parts[k], p[k])
  <2>. DEFINE i == m + k - 1
              note == copies[i]
              more == Added(p[k - 1], Only(i, note))
  <2>1. k - 1 \in 0 .. l /\ k \in 0 .. l /\ i \in 1 .. n - 1 /\ note \in ValidNote /\ i \in m .. m + k - 1
    BY <1>3
  <2>2. m .. m + k - 1 = (m .. m + (k - 1) - 1) \cup {i} /\ i \notin m .. m + (k - 1) - 1
    <3>1. m \in Int /\ k \in Int /\ k >= 1
      OBVIOUS
    <3>. QED
      BY ONLY <3>1, OneLonger
  <2>3. i \notin DOMAIN doc
    <3>1. DOMAIN doc \subseteq 1 .. m - 1
      BY DocParts
    <3>. QED
      BY <3>1
  <2>4. parts[k] = AddPart(i, note)
    OBVIOUS
  <2>. HIDE DEF i, note
  <2>5. i \notin DOMAIN p[k - 1]
    BY <1>7, <2>1, <2>2, <2>3
  <2>6. p[k - 1] \in DocsBelow(n) /\ p[k] \in DocsBelow(n)
    BY <1>7, <2>1
  <2>7. RedoPart(p[k - 1], AddPart(i, note)) = more /\ UndoPart(AddPart(i, note), more) = p[k - 1]
    BY <1>1, <2>1, <2>5, <2>6, AddPartLinks
  <2>8. more = p[k]
    <3>1. DOMAIN Only(i, note) = {i} /\ Only(i, note)[i] = note /\ Only(i, note) \in DocsBelow(n)
      BY <1>1, <2>1, AddCommand DEF Only
    <3>2. /\ DOMAIN more = DOMAIN p[k - 1] \cup DOMAIN Only(i, note)
          /\ \A j \in DOMAIN p[k - 1] : more[j] = p[k - 1][j]
          /\ \A j \in DOMAIN Only(i, note) \ DOMAIN p[k - 1] : more[j] = Only(i, note)[j]
      BY AddedNotes
    <3>3. more \in DocsBelow(n)
      BY <2>6, <3>1, AddedDoc
    <3>. HIDE DEF more
    <3>4. DOMAIN more = DOMAIN p[k]
      BY <1>7, <2>1, <2>2, <3>1, <3>2
    <3>5. p[k][i] = note
      BY <1>7, <2>1 DEF note
    <3>6. \A j \in DOMAIN p[k - 1] : p[k - 1][j] = p[k][j]
      BY <1>7, <2>1, <2>2
    <3>7. \A j \in DOMAIN more : more[j] = p[k][j]
      BY <2>5, <3>1, <3>2, <3>5, <3>6
    <3>. QED
      BY <2>6, <3>3, <3>4, <3>7, SameDoc
  <2>. QED
    BY <2>4, <2>7, <2>8
<1>. HIDE DEF n
<1>12. RedoPath(n, parts, p) /\ UndoPath(n, parts, p)
  BY <1>5, <1>8, <1>11 DEF RedoPath, UndoPath
<1>13. Alike(Redone(parts, p[0]), p[Len(parts)]) /\ Alike(Undone(parts, p[Len(parts)]), p[0])
  BY <1>5, <1>12, RedoneAlong, UndoneAlong, Zenon
<1>14. Added(doc, copies) \in DocsBelow(n)
  <2>1. l \in 0 .. l
    OBVIOUS
  <2>. QED
    BY <1>8, <1>10, <2>1
<1>. QED
  BY <1>2, <1>5, <1>9, <1>10, <1>13, <1>14 DEF Links, n

-----------------------------------------------------------------------------
(* The line of documents                                                   *)

\* Undo leads back through the documents that the commands link.
LEMMA BeforeHeard ==
  ASSUME NoneShort, NEW n, NEW stack \in Seq(CommandsBelow(n)), NEW doc \in DocsBelow(n),
         NEW line \in [1 .. Len(stack) + 1 -> DocsBelow(n)], Alike(doc, line[Len(stack) + 1]),
         \A k \in 1 .. Len(stack) : Links(stack[k], line[k], line[k + 1])
  PROVE  Before(stack, doc) = [k \in 1 .. Len(stack) |-> Heard(line[k])]
<1>. DEFINE D == DocsBelow(n)
            m == Len(stack)
            step == [k \in 1 .. m |-> [x \in D |-> Undone(stack[m - k + 1], x)]]
            Body(f) == [k \in 1 .. m + 1 |-> IF k = m + 1 THEN doc ELSE Undone(stack[k], f[k + 1])]
            at == CHOOSE f : f = Body(f)
<1>1. m \in Nat /\ doc \in D /\ \A k \in 1 .. m : stack[k] \in CommandsBelow(n)
  OBVIOUS
<1>2. step \in [1 .. m -> [D -> D]]
  <2>1. \A k \in 1 .. m : m - k + 1 \in 1 .. m
    BY <1>1
  <2>2. \A k \in 1 .. m : \A x \in D : Undone(stack[m - k + 1], x) \in D
    BY <1>1, <2>1, HistoryDoc
  <2>. QED
    BY <2>2
<1>3. PICK e \in [0 .. m -> D] : e[0] = doc /\ \A k \in 1 .. m : e[k] = step[k][e[k - 1]]
  <2>1. Steps(m, D, step)
    BY <1>2 DEF Steps
  <2>. HIDE DEF D, m, step
  <2>2. PICK p : Path(m, D, step, doc, p)
    BY <1>1, <2>1, StepsLead
  <2>. QED
    BY <2>2 DEF Path
<1>. DEFINE d == [k \in 1 .. m + 1 |-> e[(m - k) + 1]]
<1>4. d = Body(d)
  <2>1. ASSUME NEW k \in 1 .. m + 1
        PROVE  d[k] = IF k = m + 1 THEN doc ELSE Undone(stack[k], d[k + 1])
    <3>1. CASE k = m + 1
      BY <1>1, <1>3, <3>1
    <3>2. CASE k # m + 1
      <4>. DEFINE j == (m - k) + 1
      <4>0. m \in Nat /\ k \in 1 .. m
        BY <1>1, <3>2
      <4>1. j \in 1 .. m /\ j - 1 \in 0 .. m /\ m - j + 1 = k /\ k + 1 \in 1 .. m + 1 /\ (m - (k + 1)) + 1 = j - 1
        BY ONLY <4>0
      <4>2. e[j] = step[j][e[j - 1]] /\ e[j - 1] \in D
        BY <1>3, <4>1
      <4>3. e[j] = Undone(stack[k], e[j - 1])
        BY <4>1, <4>2
      <4>4. d[k] = e[j] /\ d[k + 1] = e[j - 1]
        BY <4>1
      <4>. QED
        BY <3>2, <4>3, <4>4
    <3>. QED
      BY <3>1, <3>2
  <2>. QED
    BY <2>1
<1>5. at = Body(at)
  <2>. HIDE DEF Body, d
  <2>. QED
    BY <1>4
<1>6. Before(stack, doc) = [k \in 1 .. m |-> Heard(at[k])]
  BY DEF Before
<1>. HIDE DEF at
<1>7. at[m + 1] = doc /\ \A k \in 1 .. m : at[k] = Undone(stack[k], at[k + 1])
  <2>1. \A k \in 1 .. m + 1 : at[k] = Body(at)[k]
    BY <1>5
  <2>2. m + 1 \in 1 .. m + 1 /\ \A k \in 1 .. m : k \in 1 .. m + 1 /\ k # m + 1
    BY <1>1
  <2>3. at[m + 1] = doc
    BY <2>1, <2>2
  <2>4. \A k \in 1 .. m : at[k] = Undone(stack[k], at[k + 1])
    BY <2>1, <2>2
  <2>. QED
    BY <2>3, <2>4
<1>. HIDE DEF Body, step, m
<1>. DEFINE Good == {j \in 0 .. m : at[(m - j) + 1] \in D /\ Alike(at[(m - j) + 1], line[(m - j) + 1])}
<1>8. line \in [1 .. m + 1 -> D] /\ Alike(doc, line[m + 1]) /\ \A k \in 1 .. m : Links(stack[k], line[k], line[k + 1])
  BY DEF m
<1>9. Good \in SUBSET Nat /\ 0 \in Good
  <2>1. 0 \in 0 .. m /\ (m - 0) + 1 = m + 1
    BY <1>1
  <2>2. at[m + 1] \in D /\ Alike(at[m + 1], line[m + 1])
    BY <1>1, <1>7, <1>8
  <2>. QED
    BY <2>1, <2>2
<1>10. ASSUME NEW j \in 0 .. m - 1, j \in Good PROVE j + 1 \in Good
  <2>. DEFINE k == m - j
  <2>1. k \in 1 .. m /\ k + 1 = (m - j) + 1 /\ k = (m - (j + 1)) + 1 /\ j + 1 \in 0 .. m /\ k + 1 \in 1 .. m + 1 /\ k \in 1 .. m + 1
    <3>1. m \in Nat /\ j \in 0 .. m - 1
      BY <1>1
    <3>. QED
      BY ONLY <3>1
  <2>2. at[k + 1] \in D /\ Alike(at[k + 1], line[k + 1])
    BY <1>10, <2>1
  <2>. HIDE DEF k
  <2>3. at[k] = Undone(stack[k], at[k + 1]) /\ stack[k] \in CommandsBelow(n) /\ line[k + 1] \in D
    BY <1>1, <1>7, <1>8, <2>1
  <2>4. Alike(Undone(stack[k], at[k + 1]), Undone(stack[k], line[k + 1]))
    BY <2>2, <2>3, CommandAlike
  <2>5. Alike(Undone(stack[k], line[k + 1]), line[k])
    BY <1>8, <2>1 DEF Links
  <2>6. Alike(at[k], line[k])
    BY <2>3, <2>4, <2>5, AlikeChain
  <2>7. at[k] \in D
    BY <2>2, <2>3, HistoryDoc
  <2>. QED
    BY <2>1, <2>6, <2>7
<1>11. ASSUME NEW k \in 1 .. m PROVE Heard(at[k]) = Heard(line[k])
  <2>. DEFINE j == (m - k) + 1
  <2>1. j \in Nat /\ 0 .. j - 1 \subseteq 0 .. m - 1 /\ (m - j) + 1 = k
    <3>1. m \in Nat /\ k \in 1 .. m
      BY <1>1
    <3>. QED
      BY ONLY <3>1
  <2>. HIDE DEF Good, j
  <2>2. \A i \in 0 .. j - 1 : i \in Good => i + 1 \in Good
    BY ONLY <1>10, <2>1
  <2>3. j \in Good
    BY ONLY <1>9, <2>1, <2>2, CountUp
  <2>4. Alike(at[k], line[k])
    BY <2>1, <2>3 DEF Good
  <2>. QED
    BY <2>4, AlikeHeard
<1>. QED
  BY <1>6, <1>11 DEF m

\* And redo forward.
LEMMA AfterHeard ==
  ASSUME NoneShort, NEW n, NEW stack \in Seq(CommandsBelow(n)), NEW doc \in DocsBelow(n),
         NEW line \in [0 .. Len(stack) -> DocsBelow(n)], Alike(doc, line[0]),
         \A k \in 1 .. Len(stack) : Links(stack[Len(stack) - k + 1], line[k - 1], line[k])
  PROVE  After(stack, doc) = [k \in 1 .. Len(stack) |-> Heard(line[k])]
<1>. DEFINE D == DocsBelow(n)
            m == Len(stack)
            cmd(k) == stack[m - k + 1]
            step == [k \in 1 .. m |-> [x \in D |-> Redone(cmd(k), x)]]
            Body(f) == [k \in 0 .. m |-> IF k = 0 THEN doc ELSE Redone(cmd(k), f[k - 1])]
            at == CHOOSE f : f = Body(f)
<1>1. m \in Nat /\ doc \in D /\ \A k \in 1 .. m : cmd(k) \in CommandsBelow(n)
  <2>1. \A k \in 1 .. m : m - k + 1 \in 1 .. m
    OBVIOUS
  <2>. QED
    BY <2>1
<1>6. After(stack, doc) = [k \in 1 .. m |-> Heard(at[k])]
  BY DEF After
<1>. HIDE DEF cmd
<1>2. step \in [1 .. m -> [D -> D]]
  <2>1. \A k \in 1 .. m : \A x \in D : Redone(cmd(k), x) \in D
    BY <1>1, HistoryDoc
  <2>. QED
    BY <2>1
<1>3. PICK d \in [0 .. m -> D] : d[0] = doc /\ \A k \in 1 .. m : d[k] = step[k][d[k - 1]]
  <2>1. Steps(m, D, step)
    BY <1>2 DEF Steps
  <2>. HIDE DEF D, m, step
  <2>2. PICK p : Path(m, D, step, doc, p)
    BY <1>1, <2>1, StepsLead
  <2>. QED
    BY <2>2 DEF Path
<1>4. d = Body(d)
  <2>1. ASSUME NEW k \in 0 .. m
        PROVE  d[k] = IF k = 0 THEN doc ELSE Redone(cmd(k), d[k - 1])
    <3>1. CASE k = 0
      BY <1>3, <3>1
    <3>2. CASE k # 0
      <4>1. k \in 1 .. m /\ k - 1 \in 0 .. m
        BY <1>1, <3>2
      <4>2. d[k] = step[k][d[k - 1]] /\ d[k - 1] \in D
        BY <1>3, <4>1
      <4>. QED
        BY <3>2, <4>1, <4>2
    <3>. QED
      BY <3>1, <3>2
  <2>. QED
    BY <1>3, <2>1
<1>5. at = Body(at)
  <2>. HIDE DEF Body
  <2>. QED
    BY <1>4
<1>. HIDE DEF at
<1>7. at[0] = doc /\ \A k \in 1 .. m : at[k] = Redone(cmd(k), at[k - 1])
  <2>1. \A k \in 0 .. m : at[k] = Body(at)[k]
    BY <1>5
  <2>2. 0 \in 0 .. m /\ \A k \in 1 .. m : k \in 0 .. m /\ k # 0
    BY <1>1
  <2>. QED
    BY <2>1, <2>2
<1>8. line \in [0 .. m -> D] /\ Alike(doc, line[0]) /\ \A k \in 1 .. m : Links(cmd(k), line[k - 1], line[k])
  BY DEF cmd
<1>. HIDE DEF Body, step, m
<1>. DEFINE Good == {j \in 0 .. m : at[j] \in D /\ Alike(at[j], line[j])}
<1>9. Good \in SUBSET Nat /\ 0 \in Good
  <2>1. 0 \in 0 .. m
    BY <1>1
  <2>2. at[0] \in D /\ Alike(at[0], line[0])
    BY <1>1, <1>7, <1>8
  <2>. QED
    BY <2>1, <2>2
<1>10. ASSUME NEW j \in 0 .. m - 1, j \in Good PROVE j + 1 \in Good
  <2>. DEFINE k == j + 1
  <2>1. k \in 1 .. m /\ k - 1 = j /\ k \in 0 .. m /\ j \in 0 .. m
    BY <1>1
  <2>. HIDE DEF k
  <2>2. at[j] \in D /\ Alike(at[j], line[j])
    BY <1>10
  <2>3. at[k] = Redone(cmd(k), at[j]) /\ cmd(k) \in CommandsBelow(n) /\ line[j] \in D
    BY <1>1, <1>7, <1>8, <2>1
  <2>4. Alike(Redone(cmd(k), at[j]), Redone(cmd(k), line[j]))
    BY <2>2, <2>3, CommandAlike
  <2>5. Alike(Redone(cmd(k), line[j]), line[k])
    BY <1>8, <2>1 DEF Links
  <2>6. Alike(at[k], line[k])
    BY <2>3, <2>4, <2>5, AlikeChain
  <2>7. at[k] \in D
    BY <2>2, <2>3, HistoryDoc
  <2>8. k \in Good
    BY <2>1, <2>6, <2>7
  <2>. QED
    BY <2>8 DEF k
<1>11. ASSUME NEW k \in 1 .. m PROVE Heard(at[k]) = Heard(line[k])
  <2>1. k \in Nat /\ 0 .. k - 1 \subseteq 0 .. m - 1
    BY <1>1
  <2>. HIDE DEF Good
  <2>2. \A i \in 0 .. k - 1 : i \in Good => i + 1 \in Good
    BY ONLY <1>10, <2>1
  <2>3. k \in Good
    BY ONLY <1>9, <2>1, <2>2, CountUp
  <2>4. Alike(at[k], line[k])
    BY <2>3 DEF Good
  <2>. QED
    BY <2>4, AlikeHeard
<1>. QED
  BY <1>6, <1>11 DEF m

\* The commands of the two lists link the documents of a line, from the first
\* that undo leads to, past where the document is now, to the last of redo.
Line(n, u, r, now, line) ==
  /\ line \in [1 .. Len(u) + Len(r) + 1 -> DocsBelow(n)]
  /\ Alike(now, line[Len(u) + 1])
  /\ \A k \in 1 .. Len(u) : Links(u[k], line[k], line[k + 1])
  /\ \A k \in 1 .. Len(r) : Links(r[Len(r) - k + 1], line[Len(u) + k], line[Len(u) + k + 1])

\* Docs, of any lists.
Walk(u, r, now) == Before(u, now) \o <<Heard(now)>> \o After(r, now)

LEMMA ListOf ==
  ASSUME NEW T, NEW n \in Nat, NEW f \in [1 .. n -> T]
  PROVE  f \in Seq(T) /\ Len(f) = n
OBVIOUS

LEMMA JoinedLists ==
  ASSUME NEW T, NEW s \in Seq(T), NEW t \in Seq(T)
  PROVE  /\ s \o t \in Seq(T) /\ Len(s) \in Nat /\ Len(t) \in Nat /\ Len(s \o t) = Len(s) + Len(t)
         /\ \A k \in 1 .. Len(s) : (s \o t)[k] = s[k]
         /\ \A k \in 1 .. Len(t) : (s \o t)[Len(s) + k] = t[k]
<1>1. s \o t \in Seq(T) /\ Len(s) \in Nat /\ Len(t) \in Nat /\ Len(s \o t) = Len(s) + Len(t)
  OBVIOUS
<1>2. \A k \in 1 .. Len(s) : (s \o t)[k] = s[k]
  OBVIOUS
<1>3. ASSUME NEW k \in 1 .. Len(t) PROVE (s \o t)[Len(s) + k] = t[k]
  <2>1. Len(s) + k \in Len(s) + 1 .. Len(s) + Len(t) /\ Len(s) + k - Len(s) = k
    BY <1>1
  <2>. QED
    BY <2>1, SMTT(20)
<1>. QED
  BY <1>1, <1>2, <1>3

LEMMA CutInThree ==
  ASSUME NEW a \in Nat, NEW b \in Nat, NEW T, NEW f \in [1 .. a + b + 1 -> T]
  PROVE  [k \in 1 .. a |-> f[k]] \o <<f[a + 1]>> \o [k \in 1 .. b |-> f[a + 1 + k]] = f
<1>. DEFINE x == [k \in 1 .. a |-> f[k]]
            y == <<f[a + 1]>>
            z == [k \in 1 .. b |-> f[a + 1 + k]]
<1>1. x \in [1 .. a -> T] /\ \A k \in 1 .. a : x[k] = f[k]
  BY \A k \in 1 .. a : k \in 1 .. a + b + 1
<1>2. f[a + 1] \in T
  BY a + 1 \in 1 .. a + b + 1
<1>3. z \in [1 .. b -> T] /\ \A k \in 1 .. b : z[k] = f[a + 1 + k]
  BY \A k \in 1 .. b : a + 1 + k \in 1 .. a + b + 1
<1>4. x \in Seq(T) /\ Len(x) = a
  <2>. HIDE DEF x
  <2>. QED
    BY <1>1, ListOf
<1>5. z \in Seq(T) /\ Len(z) = b
  <2>. HIDE DEF z
  <2>. QED
    BY <1>3, ListOf
<1>6. y \in Seq(T) /\ Len(y) = 1 /\ y[1] = f[a + 1]
  BY <1>2
<1>. HIDE DEF x, y, z
<1>7. /\ x \o y \in Seq(T) /\ Len(x \o y) = a + 1
      /\ \A k \in 1 .. a : (x \o y)[k] = x[k]
      /\ (x \o y)[a + 1] = y[1]
  <2>1. /\ x \o y \in Seq(T) /\ Len(x \o y) = Len(x) + Len(y)
        /\ \A k \in 1 .. Len(x) : (x \o y)[k] = x[k]
        /\ \A k \in 1 .. Len(y) : (x \o y)[Len(x) + k] = y[k]
    BY ONLY <1>4, <1>6, JoinedLists, SMTT(20)
  <2>2. 1 \in 1 .. Len(y)
    BY <1>6
  <2>. QED
    BY ONLY <1>4, <1>6, <2>1, <2>2
<1>. DEFINE xy == x \o y
            all == xy \o z
<1>8. xy \in Seq(T) /\ Len(xy) = a + 1 /\ \A k \in 1 .. a + 1 : xy[k] = f[k]
  <2>1. \A k \in 1 .. a + 1 : k \in 1 .. a \/ k = a + 1
    OBVIOUS
  <2>. QED
    BY <1>1, <1>6, <1>7, <2>1
<1>. HIDE DEF xy
<1>9. /\ all \in Seq(T) /\ Len(all) = a + b + 1
      /\ \A k \in 1 .. a + 1 : all[k] = xy[k]
      /\ \A k \in 1 .. b : all[a + 1 + k] = z[k]
  <2>1. /\ all \in Seq(T) /\ Len(all) = Len(xy) + Len(z)
        /\ \A k \in 1 .. Len(xy) : all[k] = xy[k]
        /\ \A k \in 1 .. Len(z) : all[Len(xy) + k] = z[k]
    <3>1. xy \in Seq(T) /\ z \in Seq(T)
      BY <1>5, <1>8
    <3>. QED
      BY ONLY <3>1, JoinedLists
  <2>2. Len(all) = a + b + 1
    <3>1. Len(all) = (a + 1) + b
      BY ONLY <1>5, <1>8, <2>1
    <3>. QED
      BY <3>1
  <2>. QED
    BY ONLY <1>5, <1>8, <2>1, <2>2
<1>. HIDE DEF all
<1>10. ASSUME NEW k \in 1 .. a + b + 1 PROVE all[k] = f[k]
  <2>1. CASE k \in 1 .. a + 1
    BY <1>8, <1>9, <2>1
  <2>2. CASE k \notin 1 .. a + 1
    <3>. DEFINE j == k - (a + 1)
    <3>1. j \in 1 .. b /\ a + 1 + j = k
      BY <2>2
    <3>. HIDE DEF j
    <3>. QED
      BY <1>3, <1>9, <3>1
  <2>. QED
    BY <2>1, <2>2
<1>11. DOMAIN all = 1 .. a + b + 1 /\ all = [k \in DOMAIN all |-> all[k]]
  BY <1>9
<1>12. f = [k \in 1 .. a + b + 1 |-> f[k]]
  OBVIOUS
<1>13. all = f
  BY <1>10, <1>11, <1>12
<1>. QED
  BY <1>13 DEF all, xy, x, y, z

\* What undo and redo lead through is heard as the documents of the line.
LEMMA WalkHeard ==
  ASSUME NoneShort, NEW n, NEW u \in Seq(CommandsBelow(n)), NEW r \in Seq(CommandsBelow(n)),
         NEW now \in DocsBelow(n), NEW line, Line(n, u, r, now, line)
  PROVE  Walk(u, r, now) = [k \in 1 .. Len(u) + Len(r) + 1 |-> Heard(line[k])]
<1>. DEFINE a == Len(u)
            b == Len(r)
            D == DocsBelow(n)
<1>1. /\ line \in [1 .. a + b + 1 -> D] /\ Alike(now, line[a + 1])
      /\ \A k \in 1 .. a : Links(u[k], line[k], line[k + 1])
      /\ \A k \in 1 .. b : Links(r[b - k + 1], line[a + k], line[a + k + 1])
  BY DEF Line
<1>2. a \in Nat /\ b \in Nat
  OBVIOUS
<1>3. Before(u, now) = [k \in 1 .. a |-> Heard(line[k])]
  <2>. DEFINE back == [k \in 1 .. a + 1 |-> line[k]]
  <2>1. \A k \in 1 .. a + 1 : k \in 1 .. a + b + 1
    BY <1>2
  <2>2. back \in [1 .. a + 1 -> D] /\ \A k \in 1 .. a + 1 : back[k] = line[k]
    BY <1>1, <2>1
  <2>3. a + 1 \in 1 .. a + 1 /\ \A k \in 1 .. a : k \in 1 .. a + 1 /\ k + 1 \in 1 .. a + 1
    BY <1>2
  <2>. HIDE DEF back
  <2>4. Alike(now, back[a + 1]) /\ \A k \in 1 .. a : Links(u[k], back[k], back[k + 1])
    BY <1>1, <2>2, <2>3
  <2>5. Before(u, now) = [k \in 1 .. a |-> Heard(back[k])]
    BY ONLY NoneShort, <2>2, <2>4, BeforeHeard, u \in Seq(CommandsBelow(n)), now \in DocsBelow(n), Zenon
  <2>6. \A k \in 1 .. a : Heard(back[k]) = Heard(line[k])
    BY <2>2, <2>3
  <2>. QED
    BY <2>5, <2>6
<1>4. After(r, now) = [k \in 1 .. b |-> Heard(line[a + 1 + k])]
  <2>. DEFINE on == [k \in 0 .. b |-> line[a + 1 + k]]
  <2>1. \A k \in 0 .. b : a + 1 + k \in 1 .. a + b + 1
    BY <1>2
  <2>2. on \in [0 .. b -> D] /\ \A k \in 0 .. b : on[k] = line[a + 1 + k]
    BY <1>1, <2>1
  <2>3. /\ 0 \in 0 .. b /\ a + 1 + 0 = a + 1
        /\ \A k \in 1 .. b : /\ k \in 0 .. b /\ k - 1 \in 0 .. b
                             /\ a + 1 + (k - 1) = a + k /\ a + 1 + k = a + k + 1
    BY <1>2
  <2>. HIDE DEF on
  <2>4. Alike(now, on[0]) /\ \A k \in 1 .. b : Links(r[b - k + 1], on[k - 1], on[k])
    <3>1. Alike(now, on[0])
      BY <1>1, <2>2, <2>3
    <3>2. ASSUME NEW k \in 1 .. b PROVE Links(r[b - k + 1], on[k - 1], on[k])
      <4>1. on[k - 1] = line[a + k] /\ on[k] = line[a + k + 1]
        BY ONLY <2>2, <2>3, k \in 1 .. b
      <4>. QED
        BY <1>1, <4>1
    <3>. QED
      BY <3>1, <3>2
  <2>5. After(r, now) = [k \in 1 .. b |-> Heard(on[k])]
    BY ONLY NoneShort, <2>2, <2>4, AfterHeard, r \in Seq(CommandsBelow(n)), now \in DocsBelow(n), Zenon
  <2>6. \A k \in 1 .. b : Heard(on[k]) = Heard(line[a + 1 + k])
    BY <2>2, <2>3
  <2>. QED
    BY <2>5, <2>6
<1>5. Heard(now) = Heard(line[a + 1])
  BY <1>1, AlikeHeard
<1>. DEFINE f == [k \in 1 .. a + b + 1 |-> Heard(line[k])]
            T == {Heard(line[k]) : k \in 1 .. a + b + 1}
<1>6. f \in [1 .. a + b + 1 -> T] /\ \A k \in 1 .. a + b + 1 : f[k] = Heard(line[k])
  OBVIOUS
<1>7. /\ \A k \in 1 .. a : k \in 1 .. a + b + 1
      /\ a + 1 \in 1 .. a + b + 1
      /\ \A k \in 1 .. b : a + 1 + k \in 1 .. a + b + 1
  BY <1>2
<1>. HIDE DEF f, T, a, b
<1>8. [k \in 1 .. a |-> f[k]] \o <<f[a + 1]>> \o [k \in 1 .. b |-> f[a + 1 + k]] = f
  BY <1>2, <1>6, CutInThree
<1>9. Before(u, now) = [k \in 1 .. a |-> f[k]]
  BY <1>3, <1>6, <1>7
<1>10. After(r, now) = [k \in 1 .. b |-> f[a + 1 + k]]
  BY <1>4, <1>6, <1>7
<1>11. <<Heard(now)>> = <<f[a + 1]>>
  BY <1>5, <1>6, <1>7
<1>12. Walk(u, r, now) = f
  BY <1>8, <1>9, <1>10, <1>11, Zenon DEF Walk
<1>. QED
  BY <1>12 DEF f, a, b

\* An edit that leaves the document alike leaves the line.
LEMMA LineStays ==
  ASSUME NEW n \in Int, NEW m \in Int, n <= m, NEW u, NEW r, NEW now, NEW next, NEW line,
         Line(n, u, r, now, line), Alike(next, now)
  PROVE  Line(m, u, r, next, line)
<1>1. DocsBelow(n) \subseteq DocsBelow(m)
  BY BelowGrows
<1>2. line \in [1 .. Len(u) + Len(r) + 1 -> DocsBelow(m)]
  BY <1>1 DEF Line
<1>3. Alike(next, line[Len(u) + 1])
  BY AlikeChain DEF Line
<1>. QED
  BY <1>2, <1>3 DEF Line

\* A command that is pushed puts the document it leads to at the end, and cuts
\* off what redo would lead to.
LEMMA LineGrows ==
  ASSUME NoneShort, NEW n \in Int, NEW u \in Seq(CommandsBelow(n)), NEW r \in Seq(CommandsBelow(n)),
         NEW now \in DocsBelow(n), NEW line, Line(n, u, r, now, line),
         NEW cmd \in CommandsBelow(n), NEW next \in DocsBelow(n), Links(cmd, now, next)
  PROVE  \E longer : /\ Line(n, Append(u, cmd), << >>, next, longer)
                     /\ \A k \in 1 .. Len(u) + 1 : longer[k] = line[k]
<1>. DEFINE a == Len(u)
            longer == [k \in 1 .. a + 2 |-> IF k = a + 2 THEN next ELSE line[k]]
            more == Append(u, cmd)
<1>1. /\ line \in [1 .. a + Len(r) + 1 -> DocsBelow(n)] /\ Alike(now, line[a + 1])
      /\ \A k \in 1 .. a : Links(u[k], line[k], line[k + 1])
  BY DEF Line
<1>2. a \in Nat /\ Len(r) \in Nat
  OBVIOUS
<1>3. Len(more) = a + 1 /\ more[a + 1] = cmd /\ \A k \in 1 .. a : more[k] = u[k]
  OBVIOUS
<1>4. \A k \in 1 .. a + 1 : line[k] \in DocsBelow(n)
  <2>1. 1 .. a + 1 \subseteq 1 .. a + Len(r) + 1
    BY <1>2
  <2>. QED
    BY <1>1, <2>1
<1>. HIDE DEF a, more
<1>5. \A k \in 1 .. a + 2 : k \in 1 .. a + 1 \/ k = a + 2
  BY <1>2
<1>6. a + 1 \in 1 .. a + 1 /\ a + 2 \in 1 .. a + 2 /\ \A k \in 1 .. a + 1 : k \in 1 .. a + 2 /\ k # a + 2
  BY <1>2
<1>7. longer \in [1 .. a + 2 -> DocsBelow(n)]
  BY <1>4, <1>5
<1>8. longer[a + 2] = next /\ \A k \in 1 .. a + 1 : longer[k] = line[k]
  BY <1>6
<1>. HIDE DEF longer
<1>9. Links(cmd, line[a + 1], next)
  <2>1. line[a + 1] \in DocsBelow(n)
    BY <1>4, <1>6
  <2>. QED
    BY <1>1, <2>1, LinksAlike, AlikeSelf
<1>10. ASSUME NEW k \in 1 .. a + 1 PROVE Links(more[k], longer[k], longer[k + 1])
  <2>1. CASE k = a + 1
    <3>1. (a + 1) + 1 = a + 2
      BY <1>2
    <3>. QED
      BY <1>3, <1>6, <1>8, <1>9, <2>1, <3>1
  <2>2. CASE k # a + 1
    <3>1. k \in 1 .. a /\ k + 1 \in 1 .. a + 1
      BY <1>2, <2>2
    <3>. QED
      BY <1>1, <1>3, <1>8, <3>1
  <2>. QED
    BY <2>1, <2>2
<1>11. Line(n, more, << >>, next, longer)
  <2>1. Len(<< >>) = 0 /\ a + 1 + 0 + 1 = a + 2 /\ (a + 1) + 1 = a + 2
    BY <1>2
  <2>2. longer \in [1 .. Len(more) + Len(<< >>) + 1 -> DocsBelow(n)]
    BY <1>3, <1>7, <2>1
  <2>3. Alike(next, longer[Len(more) + 1])
    BY <1>3, <1>8, <2>1, AlikeSelf
  <2>4. \A k \in 1 .. Len(<< >>) : FALSE
    BY <2>1
  <2>5. \A k \in 1 .. Len(more) : Links(more[k], longer[k], longer[k + 1])
    BY <1>3, <1>10
  <2>. QED
    BY <2>2, <2>3, <2>4, <2>5 DEF Line
<1>. QED
  BY <1>8, <1>11 DEF more, a

\* Undo and redo stay on the line.
LEMMA LineUndone ==
  ASSUME NoneShort, NEW n \in Int, NEW u \in Seq(CommandsBelow(n)), NEW r \in Seq(CommandsBelow(n)),
         NEW now \in DocsBelow(n), NEW line, Line(n, u, r, now, line), u # << >>
  PROVE  Line(n, Front(u), Append(r, Last(u)), Undone(Last(u), now), line)
<1>. DEFINE a == Len(u)
            b == Len(r)
            c == Last(u)
            fewer == Front(u)
            more == Append(r, c)
<1>1. a \in Nat \ {0} /\ b \in Nat
  OBVIOUS
<1>2. /\ line \in [1 .. a + b + 1 -> DocsBelow(n)] /\ Alike(now, line[a + 1])
      /\ \A k \in 1 .. a : Links(u[k], line[k], line[k + 1])
      /\ \A k \in 1 .. b : Links(r[b - k + 1], line[a + k], line[a + k + 1])
  BY DEF Line
<1>3. c = u[a] /\ c \in CommandsBelow(n)
  BY <1>1 DEF Last
<1>4. Len(fewer) = a - 1 /\ \A k \in 1 .. a - 1 : fewer[k] = u[k]
  <2>1. Len(SubSeq(u, 1, Len(u) - 1)) = Len(u) - 1 /\ \A k \in 1 .. Len(u) - 1 : SubSeq(u, 1, Len(u) - 1)[k] = u[k]
    BY <1>1, LastCutOff
  <2>. QED
    BY <2>1 DEF Front
<1>. HIDE DEF c, fewer
<1>5. Len(more) = b + 1 /\ more[b + 1] = c /\ \A k \in 1 .. b : more[k] = r[k]
  BY <1>3
<1>. HIDE DEF a, b, more
<1>6. Alike(Undone(c, now), line[a])
  <2>1. a \in 1 .. a /\ a + 1 \in 1 .. a + b + 1
    BY <1>1
  <2>2. line[a + 1] \in DocsBelow(n) /\ Links(c, line[a], line[a + 1])
    BY <1>2, <1>3, <2>1
  <2>3. Alike(Undone(c, now), Undone(c, line[a + 1]))
    BY <1>2, <1>3, <2>2, CommandAlike
  <2>. QED
    BY <2>2, <2>3, AlikeChain DEF Links
<1>7. ASSUME NEW k \in 1 .. a - 1 PROVE Links(fewer[k], line[k], line[k + 1])
  <2>1. k \in 1 .. a
    BY <1>1
  <2>. QED
    BY <1>2, <1>4, <2>1
<1>8. ASSUME NEW k \in 1 .. b + 1
      PROVE  Links(more[(b + 1) - k + 1], line[(a - 1) + k], line[(a - 1) + k + 1])
  <2>1. CASE k = 1
    <3>1. (b + 1) - k + 1 = b + 1 /\ (a - 1) + k = a /\ (a - 1) + k + 1 = a + 1 /\ a \in 1 .. a
      BY <1>1, <2>1
    <3>. QED
      BY <1>2, <1>3, <1>5, <3>1
  <2>2. CASE k # 1
    <3>. DEFINE j == k - 1
    <3>1. /\ j \in 1 .. b /\ (b + 1) - k + 1 = b - j + 1 /\ b - j + 1 \in 1 .. b
          /\ (a - 1) + k = a + j /\ (a - 1) + k + 1 = a + j + 1
      <4>1. a \in Nat /\ b \in Nat /\ k \in 1 .. b + 1 /\ k # 1
        BY <1>1, <2>2
      <4>. QED
        BY ONLY <4>1
    <3>. HIDE DEF j
    <3>. QED
      BY <1>2, <1>5, <3>1
  <2>. QED
    BY <2>1, <2>2
<1>9. Len(fewer) + Len(more) + 1 = a + b + 1 /\ Len(fewer) + 1 = a
  <2>1. \A i, j, k, l \in Int : k = i - 1 /\ l = j + 1 => k + l + 1 = i + j + 1
    OBVIOUS
  <2>2. \A i, k \in Int : k = i - 1 => k + 1 = i
    OBVIOUS
  <2>3. /\ a \in Int /\ b \in Int /\ Len(fewer) \in Int /\ Len(more) \in Int
        /\ Len(fewer) = a - 1 /\ Len(more) = b + 1
    BY <1>1, <1>4, <1>5
  <2>4. Len(fewer) + Len(more) + 1 = a + b + 1
    BY ONLY <2>1, <2>3
  <2>. QED
    BY ONLY <2>2, <2>3, <2>4, Zenon
<1>10. \A k \in 1 .. Len(fewer) : Links(fewer[k], line[k], line[k + 1])
  BY <1>4, <1>7
<1>11. \A k \in 1 .. Len(more) : Links(more[Len(more) - k + 1], line[Len(fewer) + k], line[Len(fewer) + k + 1])
  BY <1>4, <1>5, <1>8
<1>12. Line(n, fewer, more, Undone(c, now), line)
  BY <1>2, <1>6, <1>9, <1>10, <1>11 DEF Line
<1>. QED
  BY <1>12 DEF fewer, more, c

LEMMA LineRedone ==
  ASSUME NoneShort, NEW n \in Int, NEW u \in Seq(CommandsBelow(n)), NEW r \in Seq(CommandsBelow(n)),
         NEW now \in DocsBelow(n), NEW line, Line(n, u, r, now, line), r # << >>
  PROVE  Line(n, Append(u, Last(r)), Front(r), Redone(Last(r), now), line)
<1>. DEFINE a == Len(u)
            b == Len(r)
            c == Last(r)
            fewer == Front(r)
            more == Append(u, c)
<1>1. a \in Nat /\ b \in Nat \ {0}
  OBVIOUS
<1>2. /\ line \in [1 .. a + b + 1 -> DocsBelow(n)] /\ Alike(now, line[a + 1])
      /\ \A k \in 1 .. a : Links(u[k], line[k], line[k + 1])
      /\ \A k \in 1 .. b : Links(r[b - k + 1], line[a + k], line[a + k + 1])
  BY DEF Line
<1>3. c = r[b] /\ c \in CommandsBelow(n)
  BY <1>1 DEF Last
<1>4. Len(fewer) = b - 1 /\ \A k \in 1 .. b - 1 : fewer[k] = r[k]
  <2>1. Len(SubSeq(r, 1, Len(r) - 1)) = Len(r) - 1 /\ \A k \in 1 .. Len(r) - 1 : SubSeq(r, 1, Len(r) - 1)[k] = r[k]
    BY <1>1, LastCutOff
  <2>. QED
    BY <2>1 DEF Front
<1>. HIDE DEF c, fewer
<1>5. Len(more) = a + 1 /\ more[a + 1] = c /\ \A k \in 1 .. a : more[k] = u[k]
  BY <1>3
<1>. HIDE DEF a, b, more
<1>6. Links(c, line[a + 1], line[a + 2])
  <2>1. 1 \in 1 .. b /\ b - 1 + 1 = b /\ a + 1 + 1 = a + 2
    BY <1>1
  <2>. QED
    BY <1>2, <1>3, <2>1
<1>7. Alike(Redone(c, now), line[a + 2])
  <2>1. a + 1 \in 1 .. a + b + 1
    BY <1>1, SMTT(20)
  <2>2. line[a + 1] \in DocsBelow(n)
    BY <1>2, <2>1
  <2>3. Alike(Redone(c, now), Redone(c, line[a + 1]))
    BY <1>2, <1>3, <2>2, CommandAlike
  <2>. QED
    BY <1>6, <2>3, AlikeChain DEF Links
<1>8. ASSUME NEW k \in 1 .. a + 1 PROVE Links(more[k], line[k], line[k + 1])
  <2>1. CASE k = a + 1
    <3>1. (a + 1) + 1 = a + 2
      BY <1>1
    <3>. QED
      BY <1>5, <1>6, <2>1, <3>1
  <2>2. CASE k # a + 1
    <3>1. k \in 1 .. a
      BY <1>1, <2>2
    <3>. QED
      BY <1>2, <1>5, <3>1
  <2>. QED
    BY <2>1, <2>2
<1>9. ASSUME NEW k \in 1 .. b - 1
      PROVE  Links(fewer[(b - 1) - k + 1], line[(a + 1) + k], line[(a + 1) + k + 1])
  <2>. DEFINE j == k + 1
  <2>1. /\ j \in 1 .. b /\ (b - 1) - k + 1 = b - j + 1 /\ (b - 1) - k + 1 \in 1 .. b - 1
        /\ (a + 1) + k = a + j /\ (a + 1) + k + 1 = a + j + 1
    <3>1. a \in Nat /\ b \in Nat /\ k \in 1 .. b - 1
      BY <1>1
    <3>. QED
      BY ONLY <3>1
  <2>. HIDE DEF j
  <2>. QED
    BY <1>2, <1>4, <2>1
<1>10. Len(more) + Len(fewer) + 1 = a + b + 1 /\ Len(more) + 1 = a + 2
  <2>1. \A i, j \in Nat : (i + 1) + (j - 1) + 1 = i + j + 1 /\ (i + 1) + 1 = i + 2
    OBVIOUS
  <2>2. a \in Nat /\ b \in Nat /\ Len(more) = a + 1 /\ Len(fewer) = b - 1
    BY <1>1, <1>4, <1>5
  <2>. QED
    BY ONLY <2>1, <2>2, Zenon
<1>11. \A k \in 1 .. Len(more) : Links(more[k], line[k], line[k + 1])
  BY <1>5, <1>8
<1>12. \A k \in 1 .. Len(fewer) : Links(fewer[Len(fewer) - k + 1], line[Len(more) + k], line[Len(more) + k + 1])
  BY <1>4, <1>5, <1>9
<1>13. Line(n, more, fewer, Redone(c, now), line)
  BY <1>2, <1>7, <1>10, <1>11, <1>12 DEF Line
<1>. QED
  BY <1>13 DEF fewer, more, c

-----------------------------------------------------------------------------
(* The document without the open gesture                                   *)

\* The notes of ids as they were at the press, but for their velocity.
PutBack(doc, initial, ids) ==
  Written(Written(doc, "pos", Field(initial, "pos", ids)), "dur", Field(initial, "dur", ids))

LEMMA PutBackFields ==
  ASSUME NEW n, NEW doc \in DocsBelow(n), NEW initial \in DocsBelow(n),
         NEW ids \in SUBSET DOMAIN initial
  PROVE  /\ PutBack(doc, initial, ids) \in DocsBelow(n)
         /\ DOMAIN PutBack(doc, initial, ids) = DOMAIN doc
         /\ \A i \in DOMAIN doc, g \in Fields :
              /\ i \in ids /\ g # "vel" => PutBack(doc, initial, ids)[i][g] = initial[i][g]
              /\ i \notin ids \/ g = "vel" => PutBack(doc, initial, ids)[i][g] = doc[i][g]
<1>. DEFINE starts == Field(initial, "pos", ids)
            lengths == Field(initial, "dur", ids)
            mid == Written(doc, "pos", starts)
            back == Written(mid, "dur", lengths)
<1>1. /\ DOMAIN starts = ids /\ \A i \in ids : starts[i] = initial[i]["pos"]
      /\ DOMAIN lengths = ids /\ \A i \in ids : lengths[i] = initial[i]["dur"]
  BY DEF Field
<1>2. starts \in ValuesBelow("pos", n) /\ lengths \in ValuesBelow("dur", n)
  BY FieldBelow, FieldSets
<1>3. /\ \A i \in DOMAIN starts : starts[i] \in Values("pos")
      /\ \A i \in DOMAIN lengths : lengths[i] \in Values("dur")
  BY <1>2, ValueParts
<1>4. "pos" \in Fields /\ "dur" \in Fields /\ Fields \subseteq Fields \cup {"rel"}
  BY DEF Fields
<1>. HIDE DEF starts, lengths
<1>5. mid \in DocsBelow(n) /\ DOMAIN mid = DOMAIN doc
  BY <1>3, <1>4, WrittenDoc
<1>6. Sets(mid, doc, "pos", starts)
  BY <1>4, WrittenSets
<1>. HIDE DEF mid
<1>7. back \in DocsBelow(n) /\ DOMAIN back = DOMAIN doc
  BY <1>3, <1>4, <1>5, WrittenDoc
<1>8. Sets(back, mid, "dur", lengths)
  BY <1>4, <1>5, WrittenSets
<1>. HIDE DEF back
<1>9. ASSUME NEW i \in DOMAIN doc, NEW g \in Fields
      PROVE  /\ i \in ids /\ g # "vel" => back[i][g] = initial[i][g]
             /\ i \notin ids \/ g = "vel" => back[i][g] = doc[i][g]
  <2>1. /\ i \in ids /\ g = "dur" => back[i][g] = lengths[i]
        /\ i \notin ids \/ g # "dur" => back[i][g] = mid[i][g]
    BY <1>1, <1>5, <1>8 DEF Sets
  <2>2. /\ i \in ids /\ g = "pos" => mid[i][g] = starts[i]
        /\ i \notin ids \/ g # "pos" => mid[i][g] = doc[i][g]
    BY <1>1, <1>6 DEF Sets
  <2>3. CASE g = "pos"
    BY <1>1, <2>1, <2>2, <2>3
  <2>4. CASE g = "dur"
    BY <1>1, <2>1, <2>2, <2>4
  <2>5. CASE g = "vel"
    BY <2>1, <2>2, <2>5
  <2>. QED
    BY <2>3, <2>4, <2>5 DEF Fields
<1>10. PutBack(doc, initial, ids) = back
  BY DEF PutBack, back, mid, starts, lengths
<1>. QED
  BY <1>7, <1>9, <1>10

\* Settled, mode by mode.
LEMMA SettledModes ==
  /\ drag.mode = "create" => Settled = Removed(notes, {drag.id})
  /\ drag.mode = "erase" => Settled = Undone(batch, notes)
  /\ drag.mode \in {"move", "start", "end"} => Settled = PutBack(notes, drag.initial, Grabbed)
  /\ drag.mode = "none" => Settled = Written(notes, "vel", gesture.old)
<1>1. ASSUME drag.mode = "create" PROVE Settled = Removed(notes, {drag.id})
  BY <1>1 DEF Settled
<1>2. ASSUME drag.mode = "erase" PROVE Settled = Undone(batch, notes)
  BY <1>2 DEF Settled
<1>3. ASSUME drag.mode \in {"move", "start", "end"} PROVE Settled = PutBack(notes, drag.initial, Grabbed)
  BY <1>3 DEF Settled, PutBack
<1>4. ASSUME drag.mode = "none" PROVE Settled = Written(notes, "vel", gesture.old)
  BY <1>4 DEF Settled
<1>. QED
  BY <1>1, <1>2, <1>3, <1>4

LEMMA SettledVelocity ==
  ASSUME EditInv, drag.mode = "none"
  PROVE  /\ Settled \in DocsBelow(nextId)
         /\ Sets(Settled, notes, "vel", gesture.old)
<1>1. notes \in DocsBelow(nextId) /\ gesture.old \in ValuesBelow("vel", nextId)
  BY DEF EditInv, HistoryInv, VelocityInv
<1>2. \A i \in DOMAIN gesture.old : gesture.old[i] \in Values("vel")
  BY <1>1, ValueParts
<1>3. "vel" \in Fields /\ "vel" \in Fields \cup {"rel"}
  BY DEF Fields
<1>4. Settled = Written(notes, "vel", gesture.old)
  BY SettledModes
<1>5. Written(notes, "vel", gesture.old) \in DocsBelow(nextId)
  BY <1>1, <1>2, <1>3, WrittenDoc
<1>6. Sets(Written(notes, "vel", gesture.old), notes, "vel", gesture.old)
  BY <1>1, <1>3, WrittenSets
<1>. QED
  BY <1>4, <1>5, <1>6

LEMMA SettledNotes ==
  ASSUME EditInv, drag.mode \in {"move", "start", "end"}
  PROVE  /\ Settled \in DocsBelow(nextId) /\ DOMAIN Settled = DOMAIN notes
         /\ \A i \in DOMAIN notes, g \in Fields :
              /\ i \in Grabbed /\ g # "vel" => Settled[i][g] = drag.initial[i][g]
              /\ i \notin Grabbed \/ g = "vel" => Settled[i][g] = notes[i][g]
<1>1. notes \in DocsBelow(nextId) /\ drag.initial \in DocsBelow(nextId)
  BY DEF EditInv, HistoryInv, DragInv
<1>2. Grabbed \in SUBSET DOMAIN drag.initial
  BY DEF Grabbed
<1>3. Settled = PutBack(notes, drag.initial, Grabbed)
  BY SettledModes
<1>. QED
  BY <1>1, <1>2, <1>3, PutBackFields

LEMMA SettledDoc ==
  ASSUME EditInv
  PROVE  Settled \in DocsBelow(nextId)
<1>1. notes \in DocsBelow(nextId) /\ batch \in CommandsBelow(nextId) /\ drag.mode \in Modes
  BY DEF EditInv, HistoryInv, DragInv
<1>2. CASE drag.mode = "create"
  BY <1>1, <1>2, SettledModes, RemovedDoc
<1>3. CASE drag.mode = "erase"
  BY <1>1, <1>3, SettledModes, HistoryDoc
<1>4. CASE drag.mode \in {"move", "start", "end"}
  BY <1>4, SettledNotes
<1>5. CASE drag.mode = "none"
  BY <1>5, SettledVelocity
<1>. QED
  BY <1>1, <1>2, <1>3, <1>4, <1>5 DEF Modes

\* With nothing open, that is the notes.
LEMMA SettledQuiet ==
  ASSUME EditInv, ~Dragging, ~InGesture
  PROVE  Alike(Settled, notes)
<1>1. drag.mode = "none" /\ DOMAIN gesture.old = {}
  BY DEF Dragging, InGesture
<1>2. Sets(Settled, notes, "vel", gesture.old)
  BY <1>1, SettledVelocity
<1>. QED
  BY <1>1, <1>2 DEF Sets, Alike

LEMMA SameStart ==
  ASSUME NEW T, NEW s \in Seq(T), NEW t \in Seq(T), NEW c \in Nat, c <= Len(s), c <= Len(t),
         \A k \in 1 .. c : s[k] = t[k]
  PROVE  SubSeq(s, 1, c) = SubSeq(t, 1, c)
<1>1. SubSeq(s, 1, c) = [k \in 1 .. c |-> s[k]]
  OBVIOUS
<1>2. SubSeq(t, 1, c) = [k \in 1 .. c |-> t[k]]
  OBVIOUS
<1>. QED
  BY <1>1, <1>2

\* What SettledDoc and its neighbours say of the next state, too.
SettledIsKnown ==
  /\ Settled \in DocsBelow(nextId)
  /\ ~Dragging /\ ~InGesture => Alike(Settled, notes)
  /\ drag.mode \in {"move", "start", "end"} =>
       /\ DOMAIN Settled = DOMAIN notes
       /\ \A i \in DOMAIN notes, g \in Fields :
            /\ i \in Grabbed /\ g # "vel" => Settled[i][g] = drag.initial[i][g]
            /\ i \notin Grabbed \/ g = "vel" => Settled[i][g] = notes[i][g]
  /\ drag.mode = "create" => Settled = Removed(notes, {drag.id})
  /\ drag.mode = "erase" => Settled = Undone(batch, notes)
  /\ drag.mode = "none" => Sets(Settled, notes, "vel", gesture.old)

LEMMA SettledKnown == EditInv => SettledIsKnown
<1>. SUFFICES ASSUME EditInv PROVE SettledIsKnown
  OBVIOUS
<1>1. Settled \in DocsBelow(nextId)
  BY SettledDoc
<1>2. ~Dragging /\ ~InGesture => Alike(Settled, notes)
  BY SettledQuiet
<1>3. drag.mode \in {"move", "start", "end"} =>
       /\ DOMAIN Settled = DOMAIN notes
       /\ \A i \in DOMAIN notes, g \in Fields :
            /\ i \in Grabbed /\ g # "vel" => Settled[i][g] = drag.initial[i][g]
            /\ i \notin Grabbed \/ g = "vel" => Settled[i][g] = notes[i][g]
  BY SettledNotes, Zenon
<1>4. drag.mode = "none" => Sets(Settled, notes, "vel", gesture.old)
  BY SettledVelocity
<1>. QED
  BY <1>1, <1>2, <1>3, <1>4, SettledModes, Zenon DEF SettledIsKnown

LEMMA SettledNext == EditInv' => SettledIsKnown'
BY SettledKnown, PTL

\* The documents of the history, and those of the next state.
LEMMA DocsWalk ==
  /\ Docs = Walk(undoStack, redoStack, Settled)
  /\ Docs' = Walk(undoStack', redoStack', Settled')
BY Zenon DEF Docs, Walk

\* Undo and redo have a line of documents to walk along.
Lined == \E line : Line(nextId, undoStack, redoStack, Settled, line)

LEMMA LinedNext ==
  ASSUME NEW line, Line(nextId', undoStack', redoStack', Settled', line)
  PROVE  Lined'
BY Zenon DEF Lined

LEMMA InvDocs ==
  ASSUME EditInv, EditInv'
  PROVE  /\ nextId \in Nat \ {0} /\ nextId' \in Nat \ {0}
         /\ notes \in DocsBelow(nextId) /\ notes' \in DocsBelow(nextId')
         /\ Settled \in DocsBelow(nextId) /\ Settled' \in DocsBelow(nextId')
         /\ undoStack \in Seq(CommandsBelow(nextId)) /\ redoStack \in Seq(CommandsBelow(nextId))
         /\ undoStack' \in Seq(CommandsBelow(nextId')) /\ redoStack' \in Seq(CommandsBelow(nextId'))
<1>1. SettledIsKnown /\ SettledIsKnown'
  BY SettledKnown, SettledNext
<1>2. Settled \in DocsBelow(nextId) /\ Settled' \in DocsBelow(nextId')
  BY <1>1 DEF SettledIsKnown
<1>. QED
  BY <1>2 DEF EditInv, HistoryInv

\* A step that leaves the commands and the document without the open gesture
\* as they are does nothing to that line.
LEMMA Stutters ==
  ASSUME NoneShort, EditInv, EditInv', Lined, nextId <= nextId',
         undoStack' = undoStack, redoStack' = redoStack, Alike(Settled', Settled)
  PROVE  Lined' /\ UNCHANGED <<Docs, Len(undoStack)>>
<1>1. PICK line : Line(nextId, undoStack, redoStack, Settled, line)
  BY DEF Lined
<1>2. nextId \in Int /\ nextId' \in Int
  BY InvDocs
<1>3. Line(nextId', undoStack, redoStack, Settled', line)
  BY <1>1, <1>2, LineStays
<1>4. Walk(undoStack, redoStack, Settled) = [k \in 1 .. Len(undoStack) + Len(redoStack) + 1 |-> Heard(line[k])]
  BY <1>1, InvDocs, WalkHeard
<1>5. Walk(undoStack, redoStack, Settled') = [k \in 1 .. Len(undoStack) + Len(redoStack) + 1 |-> Heard(line[k])]
  <2>1. undoStack \in Seq(CommandsBelow(nextId')) /\ redoStack \in Seq(CommandsBelow(nextId'))
        /\ Settled' \in DocsBelow(nextId')
    BY InvDocs
  <2>. QED
    BY <1>3, <2>1, WalkHeard
<1>6. Docs' = Docs
  BY <1>4, <1>5, DocsWalk
<1>7. Lined'
  BY <1>3, LinedNext
<1>. QED
  BY <1>6, <1>7

\* A command that links the document to the next one, pushed when no batch is
\* open, is an edit.
LEMMA MakesEdit ==
  ASSUME NoneShort, EditInv, EditInv', Lined, nextId <= nextId',
         NEW cmd \in CommandsBelow(nextId'),
         undoStack' = Append(undoStack, cmd), redoStack' = << >>, Links(cmd, Settled, Settled')
  PROVE  Lined' /\ Timeline!Edit
<1>1. PICK line : Line(nextId, undoStack, redoStack, Settled, line)
  BY DEF Lined
<1>2. nextId \in Int /\ nextId' \in Int
  BY InvDocs
<1>3. Line(nextId', undoStack, redoStack, Settled, line)
  BY <1>1, <1>2, LineStays, AlikeSelf
<1>4. /\ undoStack \in Seq(CommandsBelow(nextId')) /\ redoStack \in Seq(CommandsBelow(nextId'))
      /\ Settled \in DocsBelow(nextId') /\ Settled' \in DocsBelow(nextId')
  BY <1>2, InvDocs, BelowGrows
<1>5. PICK longer : /\ Line(nextId', Append(undoStack, cmd), << >>, Settled', longer)
                    /\ \A k \in 1 .. Len(undoStack) + 1 : longer[k] = line[k]
  BY <1>2, <1>3, <1>4, LineGrows
<1>6. Lined'
  BY <1>5, LinedNext
<1>. DEFINE a == Len(undoStack)
            b == Len(redoStack)
            was == [k \in 1 .. a + b + 1 |-> Heard(line[k])]
            now == [k \in 1 .. a + 2 |-> Heard(longer[k])]
<1>7. Docs = was
  BY <1>1, InvDocs, WalkHeard, DocsWalk
<1>8. a \in Nat /\ b \in Nat /\ Len(undoStack') = a + 1
  BY InvDocs
<1>9. Docs' = now
  <2>. DEFINE more == Append(undoStack, cmd)
              none == << >>
  <2>1. Docs' = Walk(more, none, Settled')
    BY DocsWalk
  <2>2. more \in Seq(CommandsBelow(nextId')) /\ none \in Seq(CommandsBelow(nextId'))
    BY <1>4
  <2>3. Len(more) + Len(none) + 1 = a + 2
    BY <1>4
  <2>4. Line(nextId', more, none, Settled', longer)
    BY <1>5
  <2>. HIDE DEF more, none
  <2>5. Walk(more, none, Settled') = [k \in 1 .. Len(more) + Len(none) + 1 |-> Heard(longer[k])]
    BY <1>4, <2>2, <2>4, WalkHeard
  <2>. QED
    BY <2>1, <2>3, <2>5
<1>10. /\ was \in Seq({was[k] : k \in 1 .. a + b + 1} \cup {now[k] : k \in 1 .. a + 2})
       /\ now \in Seq({was[k] : k \in 1 .. a + b + 1} \cup {now[k] : k \in 1 .. a + 2})
       /\ Len(was) = a + b + 1 /\ Len(now) = a + 2
  <2>. DEFINE T == {was[k] : k \in 1 .. a + b + 1} \cup {now[k] : k \in 1 .. a + 2}
              m == a + b + 1
              l == a + 2
  <2>1. was \in [1 .. m -> T] /\ now \in [1 .. l -> T]
    OBVIOUS
  <2>2. m \in Nat /\ l \in Nat
    BY <1>8
  <2>. HIDE DEF was, now, T, m, l
  <2>3. was \in Seq(T) /\ Len(was) = m
    BY <2>1, <2>2, ListOf, Zenon
  <2>4. now \in Seq(T) /\ Len(now) = l
    BY <2>1, <2>2, ListOf, Zenon
  <2>. QED
    BY <2>3, <2>4 DEF T, m, l
<1>11. \A k \in 1 .. a + 1 : now[k] = was[k]
  <2>1. TAKE k \in 1 .. a + 1
  <2>2. k \in 1 .. a + 2 /\ k \in 1 .. a + b + 1
    BY <1>8
  <2>. QED
    BY <1>5, <2>2
<1>. HIDE DEF was, now
<1>12. SubSeq(now, 1, a + 1) = SubSeq(was, 1, a + 1)
  <2>1. a + 1 \in Nat /\ a + 1 <= Len(was) /\ a + 1 <= Len(now)
    BY <1>8, <1>10
  <2>. QED
    BY <1>10, <1>11, <2>1, SameStart
<1>13. Timeline!Edit
  <2>1. (Len(undoStack) + 1)' = Len(undoStack) + 1 + 1 /\ Len(Docs') = Len(undoStack) + 1 + 1
    BY <1>8, <1>9, <1>10
  <2>. QED
    BY <1>7, <1>9, <1>12, <2>1 DEF Timeline!Edit
<1>. QED
  BY <1>6, <1>13

\* Undo and redo, with nothing open, walk along that line.
LEMMA WalksBack ==
  ASSUME NoneShort, EditInv, EditInv', Lined, Undo, ~Dragging, ~InGesture, ~Dragging', ~InGesture'
  PROVE  Lined' /\ Timeline!Undo
<1>. DEFINE c == Last(undoStack)
            fewer == Front(undoStack)
            more == Append(redoStack, c)
<1>1. PICK line : Line(nextId, undoStack, redoStack, Settled, line)
  BY DEF Lined
<1>2. /\ undoStack # << >> /\ notes' = Undone(c, notes) /\ nextId' = nextId
      /\ undoStack' = fewer /\ redoStack' = more
  BY DEF Undo
<1>3. /\ c \in CommandsBelow(nextId) /\ nextId \in Int
      /\ Len(undoStack) \in Nat \ {0} /\ Len(redoStack) \in Nat
  BY <1>2, InvDocs, LastCommand
<1>4. Len(fewer) = Len(undoStack) - 1 /\ Len(more) = Len(redoStack) + 1
  <2>1. Len(fewer) = Len(undoStack) - 1
    BY <1>3, InvDocs, LastCutOff DEF Front
  <2>2. Len(more) = Len(redoStack) + 1
    BY <1>3, InvDocs
  <2>. QED
    BY <2>1, <2>2
<1>5. Line(nextId, fewer, more, Undone(c, Settled), line)
  BY <1>1, <1>2, <1>3, InvDocs, LineUndone
<1>. HIDE DEF c, fewer, more
<1>6. Alike(Settled', Undone(c, Settled))
  <2>1. Alike(Settled, notes) /\ Alike(Settled', notes')
    BY SettledKnown, SettledNext DEF SettledIsKnown
  <2>2. Alike(Undone(c, Settled), Undone(c, notes))
    BY <1>3, <2>1, InvDocs, CommandAlike
  <2>. QED
    BY <1>2, <2>1, <2>2, AlikeChain, AlikeBack
<1>7. Line(nextId, fewer, more, Settled', line)
  BY <1>3, <1>5, <1>6, LineStays
<1>8. Walk(undoStack, redoStack, Settled) = [k \in 1 .. Len(undoStack) + Len(redoStack) + 1 |-> Heard(line[k])]
  BY <1>1, InvDocs, WalkHeard
<1>9. Walk(fewer, more, Settled') = [k \in 1 .. Len(fewer) + Len(more) + 1 |-> Heard(line[k])]
  <2>1. /\ fewer \in Seq(CommandsBelow(nextId)) /\ more \in Seq(CommandsBelow(nextId))
        /\ Settled' \in DocsBelow(nextId)
    BY <1>2, InvDocs
  <2>. QED
    BY <1>7, <2>1, WalkHeard
<1>10. Len(fewer) + Len(more) + 1 = Len(undoStack) + Len(redoStack) + 1
  BY <1>3, <1>4
<1>11. Docs' = Docs
  BY <1>2, <1>8, <1>9, <1>10, DocsWalk
<1>12. Lined'
  BY <1>2, <1>7, LinedNext
<1>13. Len(undoStack) + 1 > 1 /\ (Len(undoStack) + 1)' = Len(undoStack) + 1 - 1
  BY <1>2, <1>3, <1>4
<1>. QED
  BY <1>11, <1>12, <1>13 DEF Timeline!Undo

LEMMA WalksForward ==
  ASSUME NoneShort, EditInv, EditInv', Lined, Redo, ~Dragging, ~InGesture, ~Dragging', ~InGesture'
  PROVE  Lined' /\ Timeline!Redo
<1>. DEFINE c == Last(redoStack)
            fewer == Front(redoStack)
            more == Append(undoStack, c)
<1>1. PICK line : Line(nextId, undoStack, redoStack, Settled, line)
  BY DEF Lined
<1>2. /\ redoStack # << >> /\ notes' = Redone(c, notes) /\ nextId' = nextId
      /\ redoStack' = fewer /\ undoStack' = more
  BY DEF Redo
<1>3. /\ c \in CommandsBelow(nextId) /\ nextId \in Int
      /\ Len(redoStack) \in Nat \ {0} /\ Len(undoStack) \in Nat
  BY <1>2, InvDocs, LastCommand
<1>4. Len(fewer) = Len(redoStack) - 1 /\ Len(more) = Len(undoStack) + 1
  <2>1. Len(fewer) = Len(redoStack) - 1
    BY <1>3, InvDocs, LastCutOff DEF Front
  <2>2. Len(more) = Len(undoStack) + 1
    BY <1>3, InvDocs
  <2>. QED
    BY <2>1, <2>2
<1>5. Line(nextId, more, fewer, Redone(c, Settled), line)
  BY <1>1, <1>2, <1>3, InvDocs, LineRedone
<1>. HIDE DEF c, fewer, more
<1>6. Alike(Settled', Redone(c, Settled))
  <2>1. Alike(Settled, notes) /\ Alike(Settled', notes')
    BY SettledKnown, SettledNext DEF SettledIsKnown
  <2>2. Alike(Redone(c, Settled), Redone(c, notes))
    BY <1>3, <2>1, InvDocs, CommandAlike
  <2>. QED
    BY <1>2, <2>1, <2>2, AlikeChain, AlikeBack
<1>7. Line(nextId, more, fewer, Settled', line)
  BY <1>3, <1>5, <1>6, LineStays
<1>8. Walk(undoStack, redoStack, Settled) = [k \in 1 .. Len(undoStack) + Len(redoStack) + 1 |-> Heard(line[k])]
  BY <1>1, InvDocs, WalkHeard
<1>9. Walk(more, fewer, Settled') = [k \in 1 .. Len(more) + Len(fewer) + 1 |-> Heard(line[k])]
  <2>1. /\ fewer \in Seq(CommandsBelow(nextId)) /\ more \in Seq(CommandsBelow(nextId))
        /\ Settled' \in DocsBelow(nextId)
    BY <1>2, InvDocs
  <2>. QED
    BY <1>7, <2>1, WalkHeard
<1>10. Len(more) + Len(fewer) + 1 = Len(undoStack) + Len(redoStack) + 1
  BY <1>3, <1>4
<1>11. Docs' = Docs
  BY <1>2, <1>8, <1>9, <1>10, DocsWalk
<1>12. Lined'
  BY <1>2, <1>7, LinedNext
<1>13. Len(undoStack) + 1 < Len(Docs) /\ (Len(undoStack) + 1)' = Len(undoStack) + 1 + 1
  <2>1. Len(Docs) = Len(undoStack) + Len(redoStack) + 1
    <3>. DEFINE m == Len(undoStack) + Len(redoStack) + 1
                seen == [k \in 1 .. m |-> Heard(line[k])]
                T == {seen[k] : k \in 1 .. m}
    <3>1. m \in Nat /\ seen \in [1 .. m -> T] /\ Docs = seen
      BY <1>3, <1>8, DocsWalk
    <3>. HIDE DEF m, seen, T
    <3>2. Len(seen) = m
      BY <3>1, ListOf, Zenon
    <3>. QED
      BY <3>1, <3>2 DEF m
  <2>. QED
    BY <1>2, <1>3, <1>4, <2>1
<1>. QED
  BY <1>11, <1>12, <1>13 DEF Timeline!Redo

\* How the batch and the gestures go together.
ShapeInv ==
  /\ inBatch <=> drag.mode = "erase"
  /\ ~inBatch => batch = << >>
  /\ Dragging => ~InGesture

\* What an open gesture that nothing interrupted knows of the notes.
GestureInv ==
  /\ drag.mode = "create" => drag.id \in DOMAIN notes
  /\ drag.mode = "erase" => Links(batch, Settled, notes)
  /\ drag.mode \in {"move", "start", "end"} => DOMAIN drag.initial \subseteq DOMAIN notes
  /\ InGesture => /\ DOMAIN gesture.old \subseteq DOMAIN notes
                  /\ gesture.new = Field(notes, "vel", DOMAIN gesture.old)

Timelined == ShapeInv /\ (~interrupted => GestureInv /\ Lined)

TimelineStep == interrupted' \/ Timeline!Next \/ UNCHANGED <<Docs, Len(undoStack)>>

\* What is to be shown of a step.
LEMMA StepShown ==
  ASSUME ShapeInv', 
         ~interrupted' => GestureInv' /\ Lined' /\ (Timeline!Next \/ UNCHANGED <<Docs, Len(undoStack)>>)
  PROVE  Timelined' /\ TimelineStep
BY Zenon DEF Timelined, TimelineStep

\* With nothing open there is nothing to know.
LEMMA NothingOpen ==
  ASSUME ~Dragging', ~InGesture'
  PROVE  GestureInv'
<1>1. drag'.mode = "none"
  BY DEF Dragging
<1>. QED
  BY <1>1 DEF GestureInv

\* A key or a right click that pushes its command.
LEMMA PushSteps ==
  ASSUME NoneShort, EditInv, EditInv', Timelined, nextId <= nextId',
         NEW cmd \in CommandsBelow(nextId'), Push(cmd), Links(cmd, notes, notes'),
         UNCHANGED <<drag, gesture>>, EditInterrupts
  PROVE  Timelined' /\ TimelineStep
<1>1. ShapeInv'
  BY DEF Push, Timelined, ShapeInv, Dragging, InGesture
<1>2. ASSUME ~interrupted'
      PROVE  GestureInv' /\ Lined' /\ (Timeline!Next \/ UNCHANGED <<Docs, Len(undoStack)>>)
  <2>1. ~interrupted /\ ~InGesture /\ drag.mode \in {"none", "erase"}
    BY <1>2 DEF EditInterrupts, Dragging
  <2>2. ShapeInv /\ GestureInv /\ Lined
    BY <2>1 DEF Timelined
  <2>3. ~InGesture'
    BY <2>1 DEF InGesture
  <2>4. /\ nextId \in Int /\ nextId' \in Int
        /\ notes \in DocsBelow(nextId') /\ notes' \in DocsBelow(nextId')
        /\ Settled \in DocsBelow(nextId') /\ Settled' \in DocsBelow(nextId')
    BY InvDocs, BelowGrows
  <2>5. SettledIsKnown /\ SettledIsKnown'
    BY SettledKnown, SettledNext
  <2>6. CASE drag.mode = "erase"
    <3>1. inBatch /\ batch' = batch \o cmd /\ undoStack' = undoStack /\ redoStack' = redoStack
      BY <2>2, <2>6 DEF ShapeInv, Push
    <3>2. batch \in CommandsBelow(nextId') /\ batch' \in CommandsBelow(nextId')
      BY <2>4, BelowGrows DEF EditInv, HistoryInv
    <3>3. Links(batch, Settled, notes)
      BY <2>2, <2>6 DEF GestureInv
    <3>4. Links(batch', Settled, notes')
      BY <2>4, <3>1, <3>2, <3>3, JoinedLinks
    <3>5. Settled' = Undone(batch', notes')
      BY <2>5, <2>6 DEF SettledIsKnown
    <3>6. Alike(Settled', Settled)
      BY <3>4, <3>5 DEF Links
    <3>7. Links(batch', Settled', notes')
      BY <2>4, <3>2, <3>4, <3>6, LinksAlike, AlikeBack, AlikeSelf
    <3>8. GestureInv'
      BY <2>3, <2>6, <3>7 DEF GestureInv
    <3>. QED
      BY <2>2, <3>1, <3>6, <3>8, Stutters
  <2>7. CASE drag.mode = "none"
    <3>1. /\ ~inBatch /\ undoStack' = Append(undoStack, cmd) /\ redoStack' = << >>
          /\ ~Dragging /\ ~Dragging'
      BY <2>2, <2>7 DEF ShapeInv, Push, Dragging
    <3>2. Alike(Settled, notes) /\ Alike(Settled', notes')
      BY <2>1, <2>3, <2>5, <3>1 DEF SettledIsKnown
    <3>3. Links(cmd, Settled, Settled')
      BY <2>4, <3>2, LinksAlike, AlikeBack
    <3>4. Lined' /\ Timeline!Edit
      BY <2>2, <3>1, <3>3, MakesEdit
    <3>5. GestureInv'
      BY <2>3, <3>1, NothingOpen
    <3>. QED
      BY <3>4, <3>5 DEF Timeline!Next
  <2>. QED
    BY <2>1, <2>6, <2>7
<1>. QED
  BY <1>1, <1>2, StepShown

\* The end of a gesture: with its command, or the batch, or nothing to tell.
LEMMA EndSteps ==
  ASSUME NoneShort, EditInv, EditInv', ~interrupted => Lined, nextId' = nextId, interrupted' = interrupted,
         ShapeInv', ~Dragging', ~InGesture',
         NEW cmd \in CommandsBelow(nextId), ~interrupted => Links(cmd, Settled, notes'),
         \/ cmd = << >> /\ undoStack' = undoStack /\ redoStack' = redoStack
         \/ undoStack' = Append(undoStack, cmd) /\ redoStack' = << >>
  PROVE  Timelined' /\ TimelineStep
<1>1. ASSUME ~interrupted
      PROVE  Lined' /\ (Timeline!Next \/ UNCHANGED <<Docs, Len(undoStack)>>)
  <2>1. /\ nextId \in Int /\ nextId <= nextId'
        /\ Settled \in DocsBelow(nextId) /\ Settled' \in DocsBelow(nextId) /\ notes' \in DocsBelow(nextId)
    BY InvDocs
  <2>2. Alike(Settled', notes')
    BY SettledNext DEF SettledIsKnown
  <2>3. Links(cmd, Settled, Settled')
    BY <1>1, <2>1, <2>2, LinksAlike, AlikeBack, AlikeSelf
  <2>4. CASE cmd = << >> /\ undoStack' = undoStack /\ redoStack' = redoStack
    <3>1. Redone(cmd, Settled) = Settled
      BY <2>1, <2>4, NoParts
    <3>2. Alike(Settled', Settled)
      BY <2>3, <3>1, AlikeBack DEF Links
    <3>. QED
      BY <1>1, <2>1, <2>4, <3>2, Stutters
  <2>5. CASE undoStack' = Append(undoStack, cmd) /\ redoStack' = << >>
    <3>1. Lined' /\ Timeline!Edit
      BY <1>1, <2>1, <2>3, <2>5, MakesEdit
    <3>. QED
      BY <3>1 DEF Timeline!Next
  <2>. QED
    BY <2>4, <2>5
<1>2. GestureInv'
  BY NothingOpen
<1>. QED
  BY <1>1, <1>2, StepShown

-----------------------------------------------------------------------------
(* Keys and right clicks                                                   *)

LEMMA WriteSteps ==
  ASSUME NoneShort, EditInv, EditInv', Timelined, NEW f \in Fields, NEW ids \in SUBSET DOMAIN notes,
         NEW value \in [ids -> Values(f)], Write(ids, f, value)
  PROVE  Timelined' /\ TimelineStep
<1>1. /\ nextId' = nextId /\ UNCHANGED <<drag, gesture>> /\ EditInterrupts
      /\ notes' = Written(notes, f, value) /\ Push(SetNotes(f, Field(notes, f, ids), value))
  BY DEF Write
<1>2. nextId \in Int /\ notes \in DocsBelow(nextId) /\ notes' \in DocsBelow(nextId)
  BY <1>1, InvDocs
<1>3. DOMAIN value = ids /\ \A i \in DOMAIN value : value[i] \in Values(f)
  OBVIOUS
<1>4. DOMAIN notes \subseteq 1 .. nextId - 1
  BY <1>2, DocParts
<1>5. value \in ValuesBelow(f, nextId) /\ Field(notes, f, ids) \in ValuesBelow(f, nextId)
  BY <1>2, <1>3, <1>4, ValueParts, FieldBelow
<1>. DEFINE old == Field(notes, f, ids)
<1>6. DOMAIN old = ids /\ \A i \in ids : old[i] = notes[i][f]
  BY DEF Field
<1>. HIDE DEF old
<1>7. Sets(notes', notes, f, value)
  BY <1>1, <1>2, WrittenSets
<1>8. Sets(notes, notes', f, old)
  BY <1>3, <1>6, <1>7 DEF Sets
<1>9. Links(SetNotes(f, old, value), notes, notes')
  <2>1. old \in ValuesBelow(f, nextId) /\ DOMAIN old = DOMAIN value /\ DOMAIN value \subseteq DOMAIN notes
    BY <1>3, <1>5, <1>6 DEF old
  <2>. QED
    BY <1>2, <1>5, <1>7, <1>8, <2>1, SetLinks
<1>10. SetNotes(f, old, value) \in CommandsBelow(nextId)
  BY <1>5, SetCommand DEF old
<1>11. Push(SetNotes(f, old, value))
  BY <1>1 DEF old
<1>. QED
  BY <1>1, <1>2, <1>9, <1>10, <1>11, PushSteps

LEMMA EditSelectedSteps ==
  ASSUME NoneShort, EditInv, EditInv', Timelined,
         NEW ids \in SUBSET DOMAIN notes, NEW d \in Int, NEW v \in Velocities,
         MoveSelected(ids, d) \/ ResizeSelected(ids, d) \/ SetSelectedVelocity(ids, v)
  PROVE  Timelined' /\ TimelineStep
<1>1. \A i \in ids : notes[i].pos \in Int /\ notes[i].dur \in Int
  BY NoteFields DEF EditInv, HistoryInv
<1>2. CASE MoveSelected(ids, d)
  <2>. DEFINE value == [i \in ids |-> Max({0, notes[i].pos + d})]
  <2>1. ASSUME NEW i \in ids PROVE Max({0, notes[i].pos + d}) \in Starts
    <3>1. notes[i].pos + d \in Int
      BY <1>1
    <3>. QED
      BY <3>1, Clamped
  <2>2. value \in [ids -> Values("pos")]
    BY <2>1, FieldSets
  <2>3. Write(ids, "pos", value)
    BY <1>2 DEF MoveSelected
  <2>. HIDE DEF value
  <2>. QED
    BY <2>2, <2>3, WriteSteps, FieldSets
<1>3. CASE ResizeSelected(ids, d)
  <2>. DEFINE value == [i \in ids |-> Max({MinDuration, notes[i].dur + d})]
  <2>1. ASSUME NEW i \in ids PROVE Max({MinDuration, notes[i].dur + d}) \in Lengths
    <3>1. notes[i].dur + d \in Int
      BY <1>1
    <3>. QED
      BY <3>1, Clamped
  <2>2. value \in [ids -> Values("dur")]
    BY <2>1, FieldSets
  <2>3. Write(ids, "dur", value)
    BY <1>3 DEF ResizeSelected
  <2>. HIDE DEF value
  <2>. QED
    BY <2>2, <2>3, WriteSteps, FieldSets
<1>4. CASE SetSelectedVelocity(ids, v)
  <2>. DEFINE value == [i \in ids |-> v]
  <2>1. value \in [ids -> Values("vel")]
    BY FieldSets
  <2>2. Write(ids, "vel", value)
    BY <1>4 DEF SetSelectedVelocity
  <2>. HIDE DEF value
  <2>. QED
    BY <2>1, <2>2, WriteSteps, FieldSets
<1>. QED
  BY <1>2, <1>3, <1>4

LEMMA DeleteNotesSteps ==
  ASSUME NoneShort, EditInv, EditInv', Timelined, NEW ids \in SUBSET DOMAIN notes, DeleteNotes(ids)
  PROVE  Timelined' /\ TimelineStep
<1>1. /\ nextId' = nextId /\ UNCHANGED <<drag, gesture>> /\ EditInterrupts
      /\ notes' = Removed(notes, ids) /\ Push(RemoveNotes(Restrict(notes, ids)))
  BY DEF DeleteNotes
<1>2. nextId \in Int /\ notes \in DocsBelow(nextId)
  BY InvDocs
<1>3. RemoveNotes(Restrict(notes, ids)) \in CommandsBelow(nextId)
  BY <1>2, RestrictedDoc, NotesCommand
<1>4. Links(RemoveNotes(Restrict(notes, ids)), notes, notes')
  BY <1>1, <1>2, RemoveLinks
<1>. QED
  BY <1>1, <1>2, <1>3, <1>4, PushSteps

LEMMA DuplicateSteps ==
  ASSUME NoneShort, EditInv, EditInv', Timelined, NEW ids \in SUBSET DOMAIN notes, ids # {}, Duplicate(ids)
  PROVE  Timelined' /\ TimelineStep
<1>. DEFINE start  == Min({notes[i].pos : i \in ids})
            span   == Max({notes[i].pos + notes[i].dur : i \in ids}) - start
            order  == SetToSeq(ids)
            copies == [k \in nextId..(nextId + Len(order) - 1) |->
                         LET n == notes[order[k - nextId + 1]]
                         IN  [n EXCEPT !.pos = @ + span, !.rel = 0]]
            parts == [k \in 1..Len(order) |->
                           AddPart(nextId + k - 1, copies[nextId + k - 1])]
<1>1. /\ nextId' = nextId + Len(order) /\ notes' = Added(notes, copies)
      /\ Push(parts) /\ UNCHANGED <<drag, gesture>> /\ EditInterrupts
  BY DEF Duplicate
<1>2. nextId \in Nat \ {0} /\ notes \in DocsBelow(nextId)
  BY InvDocs
<1>3. IsFiniteSet(ids)
  <2>1. ids \in SUBSET (1 .. nextId - 1)
    BY <1>2, DocParts
  <2>2. IsFiniteSet(1 .. nextId - 1)
    <3>1. 1 \in Int /\ nextId - 1 \in Int
      BY <1>2
    <3>. QED
      BY <3>1, FS_Interval, Zenon
  <2>. QED
    BY <2>1, <2>2, FS_Subset
<1>4. Len(order) \in Nat /\ order \in [1 .. Len(order) -> ids]
  <2>1. order \in [1 .. Cardinality(ids) -> ids] /\ Cardinality(ids) \in Nat
    BY <1>3, ListOfIds
  <2>2. Len(order) = Cardinality(ids)
    <3>. HIDE DEF order
    <3>. QED
      BY <2>1
  <2>. QED
    BY <2>1, <2>2
<1>5. span \in Int /\ (NoneShort => span >= 0)
  BY <1>2, SpanOfNotes
<1>. HIDE DEF order, span
<1>6. \A k \in nextId..(nextId + Len(order) - 1) : copies[k] \in ValidNote
  <2>1. TAKE k \in nextId..(nextId + Len(order) - 1)
  <2>2. k - nextId + 1 \in 1 .. Len(order)
    BY <1>2, <1>4
  <2>3. notes[order[k - nextId + 1]] \in ValidNote
    BY <1>2, <1>4, <2>2, NoteFields
  <2>. QED
    BY <1>5, <2>3, CopiedNote
<1>7. copies \in [nextId..(nextId + Len(order) - 1) -> ValidNote]
  BY <1>6
<1>. HIDE DEF copies
<1>. DEFINE l == Len(order)
<1>8. parts = [k \in 1..l |-> AddPart(nextId + k - 1, copies[nextId + k - 1])]
      /\ copies \in [nextId .. nextId + l - 1 -> ValidNote] /\ l \in Nat /\ nextId' = nextId + l
  BY <1>1, <1>4, <1>7
<1>. HIDE DEF parts, l
<1>9. parts \in CommandsBelow(nextId') /\ Links(parts, notes, notes')
  BY <1>1, <1>2, <1>8, CopyLinks
<1>10. nextId <= nextId'
  BY <1>2, <1>8
<1>. QED
  BY <1>1, <1>9, <1>10, PushSteps

LEMMA UndoSteps ==
  ASSUME NoneShort, EditInv, EditInv', Timelined, Undo \/ Redo
  PROVE  Timelined' /\ TimelineStep
<1>1. UNCHANGED <<inBatch, batch, drag, gesture>> /\ UndoInterrupts
  BY DEF Undo, Redo
<1>2. ShapeInv'
  BY <1>1 DEF Timelined, ShapeInv, Dragging, InGesture
<1>3. ASSUME ~interrupted'
      PROVE  GestureInv' /\ Lined' /\ (Timeline!Next \/ UNCHANGED <<Docs, Len(undoStack)>>)
  <2>1. ~interrupted /\ ~InGesture /\ ~Dragging
    BY <1>1, <1>3 DEF UndoInterrupts
  <2>2. ~InGesture' /\ ~Dragging'
    BY <1>1, <2>1 DEF InGesture, Dragging
  <2>3. Lined
    BY <2>1 DEF Timelined
  <2>4. CASE Undo
    <3>1. Lined' /\ Timeline!Undo
      BY <2>1, <2>2, <2>3, <2>4, WalksBack
    <3>. QED
      BY <2>2, <3>1, NothingOpen DEF Timeline!Next
  <2>5. CASE Redo
    <3>1. Lined' /\ Timeline!Redo
      BY <2>1, <2>2, <2>3, <2>5, WalksForward
    <3>. QED
      BY <2>2, <3>1, NothingOpen DEF Timeline!Next
  <2>. QED
    BY <2>4, <2>5
<1>. QED
  BY <1>2, <1>3, StepShown

-----------------------------------------------------------------------------
(* A new line                                                              *)

LEMMA FreshLine ==
  ASSUME NoneShort, NEW n, NEW now \in DocsBelow(n)
  PROVE  (\E line : Line(n, << >>, << >>, now, line)) /\ Len(Walk(<< >>, << >>, now)) = 1
<1>. DEFINE none == << >>
            line == [k \in 1 .. 1 |-> now]
<1>1. none \in Seq(CommandsBelow(n)) /\ Len(none) = 0 /\ 0 + 0 + 1 = 1 /\ 0 + 1 = 1
  OBVIOUS
<1>2. line \in [1 .. 1 -> DocsBelow(n)] /\ line[1] = now
  OBVIOUS
<1>. HIDE DEF none, line
<1>3. \A k : k \notin 1 .. 0
  OBVIOUS
<1>4. Line(n, none, none, now, line)
  BY <1>1, <1>2, <1>3, AlikeSelf, Zenon DEF Line
<1>5. Walk(none, none, now) = [k \in 1 .. Len(none) + Len(none) + 1 |-> Heard(line[k])]
  <2>. SUFFICES ASSUME NEW u, u = none, NEW r, r = none
                PROVE  Walk(u, r, now) = [k \in 1 .. Len(u) + Len(r) + 1 |-> Heard(line[k])]
    OBVIOUS
  <2>1. u \in Seq(CommandsBelow(n)) /\ r \in Seq(CommandsBelow(n)) /\ Line(n, u, r, now, line)
    BY <1>1, <1>4
  <2>. QED
    BY <2>1, WalkHeard
<1>6. Walk(none, none, now) = [k \in 1 .. 1 |-> Heard(line[k])]
  BY <1>1, <1>5
<1>7. Len(Walk(none, none, now)) = 1
  <2>. DEFINE seen == [k \in 1 .. 1 |-> Heard(line[k])]
              T == {seen[1]}
  <2>1. seen \in [1 .. 1 -> T] /\ 1 \in Nat
    OBVIOUS
  <2>. HIDE DEF T, seen
  <2>2. Len(seen) = 1
    BY <2>1, ListOf, Zenon
  <2>. QED
    BY <1>6, <2>2 DEF seen
<1>. QED
  BY <1>4, <1>7 DEF none

LEMMA OpenClipSteps ==
  ASSUME NoneShort, EditInv, EditInv', Timelined, OpenClip
  PROVE  Timelined' /\ TimelineStep
<1>1. /\ ~Dragging /\ ~InGesture /\ drag' = drag /\ gesture' = gesture
      /\ undoStack' = << >> /\ redoStack' = << >> /\ ~inBatch' /\ batch' = << >>
  BY DEF OpenClip, ClearHistory
<1>2. ~Dragging' /\ ~InGesture'
  BY <1>1 DEF Dragging, InGesture
<1>3. ShapeInv'
  BY <1>1, <1>2 DEF ShapeInv, Dragging
<1>4. Settled' \in DocsBelow(nextId')
  BY InvDocs
<1>5. PICK line : Line(nextId', << >>, << >>, Settled', line)
  BY <1>4, FreshLine
<1>6. Lined'
  BY <1>1, <1>5, LinedNext
<1>7. Timeline!Open
  <2>1. Len(Walk(<< >>, << >>, Settled')) = 1
    BY <1>4, FreshLine
  <2>2. Len(Docs') = 1 /\ (Len(undoStack) + 1)' = 1
    BY <1>1, <2>1, DocsWalk
  <2>. QED
    BY <2>2 DEF Timeline!Open
<1>. QED
  BY <1>2, <1>3, <1>6, <1>7, NothingOpen, StepShown DEF Timeline!Next

-----------------------------------------------------------------------------
(* Presses                                                                 *)

\* A step of a gesture that the document without it does not show.
LEMMA QuietSteps ==
  ASSUME NoneShort, EditInv, EditInv', Timelined, nextId <= nextId',
         undoStack' = undoStack, redoStack' = redoStack, interrupted' = interrupted, ShapeInv',
         ~interrupted => Alike(Settled', Settled) /\ GestureInv'
  PROVE  Timelined' /\ TimelineStep
<1>1. ASSUME ~interrupted'
      PROVE  GestureInv' /\ Lined' /\ (Timeline!Next \/ UNCHANGED <<Docs, Len(undoStack)>>)
  <2>1. Lined /\ Alike(Settled', Settled) /\ GestureInv'
    BY <1>1 DEF Timelined
  <2>. QED
    BY <2>1, Stutters
<1>. QED
  BY <1>1, StepShown

\* Before the gesture, the document is the notes.
LEMMA NotesAre ==
  ASSUME EditInv, ~Dragging, ~InGesture
  PROVE  DOMAIN Settled = DOMAIN notes /\ \A i \in DOMAIN notes, g \in Fields : Settled[i][g] = notes[i][g]
<1>1. Alike(Settled, notes)
  BY SettledKnown DEF SettledIsKnown
<1>. QED
  BY <1>1 DEF Alike

LEMMA PressEraseSteps ==
  ASSUME NoneShort, EditInv, EditInv', Timelined, NEW ids \in SUBSET DOMAIN notes, PressErase(ids)
  PROVE  Timelined' /\ TimelineStep
<1>. DEFINE cmd == IF ids = {} THEN << >> ELSE RemoveNotes(Restrict(notes, ids))
<1>1. /\ ~Dragging /\ ~InGesture /\ drag'.mode = "erase" /\ notes' = Removed(notes, ids)
      /\ nextId' = nextId /\ gesture' = gesture /\ interrupted' = interrupted /\ BeginBatch(cmd)
  BY DEF PressErase, NoDrag
<1>2. nextId \in Int /\ nextId <= nextId' /\ notes \in DocsBelow(nextId) /\ notes' \in DocsBelow(nextId)
      /\ Settled \in DocsBelow(nextId) /\ Settled' \in DocsBelow(nextId)
  BY <1>1, InvDocs
<1>3. cmd \in CommandsBelow(nextId) /\ Links(cmd, notes, notes')
  <2>1. CASE ids = {}
    <3>1. notes' = notes
      <4>1. DOMAIN Removed(notes, ids) = DOMAIN notes /\ \A i \in DOMAIN notes : Removed(notes, ids)[i] = notes[i]
        BY <2>1 DEF Removed, Restrict
      <4>. QED
        BY <1>1, <1>2, <4>1, SameDoc
    <3>2. cmd = << >>
      BY <2>1
    <3>. QED
      BY <1>2, <3>1, <3>2, NoParts, NotesCommand, AlikeSelf DEF Links
  <2>2. CASE ids # {}
    <3>1. cmd = RemoveNotes(Restrict(notes, ids))
      BY <2>2
    <3>2. cmd \in CommandsBelow(nextId)
      BY <1>2, <3>1, RestrictedDoc, NotesCommand
    <3>3. Links(cmd, notes, notes')
      BY <1>1, <1>2, <3>1, RemoveLinks
    <3>. QED
      BY <3>2, <3>3
  <2>. QED
    BY <2>1, <2>2
<1>. HIDE DEF cmd
<1>4. /\ inBatch' /\ undoStack' = undoStack /\ redoStack' = redoStack /\ batch' = cmd
  <2>1. ~inBatch
    BY <1>1 DEF Timelined, ShapeInv, Dragging
  <2>2. << >> \o cmd = cmd
    BY <1>3 DEF CommandsBelow
  <2>. QED
    BY <1>1, <2>1, <2>2 DEF BeginBatch
<1>5. ShapeInv'
  BY <1>1, <1>4 DEF ShapeInv, InGesture
<1>6. Alike(Settled', notes) /\ Alike(Settled, notes)
  <2>1. Settled' = Undone(cmd, notes')
    BY <1>1, <1>4, SettledNext DEF SettledIsKnown
  <2>. QED
    BY <1>1, <1>3, <2>1, SettledKnown DEF Links, SettledIsKnown
<1>7. Alike(Settled', Settled)
  BY <1>6, AlikeBack, AlikeChain
<1>8. Links(batch', Settled', notes')
  BY <1>2, <1>3, <1>4, <1>6, LinksAlike, AlikeBack, AlikeSelf
<1>9. GestureInv'
  BY <1>1, <1>8 DEF GestureInv, InGesture
<1>. QED
  BY <1>1, <1>2, <1>4, <1>5, <1>7, <1>9, QuietSteps

LEMMA PressNoteSteps ==
  ASSUME NoneShort, EditInv, EditInv', Timelined, NEW mode \in {"move", "start", "end"},
         NEW ids \in SUBSET DOMAIN notes, PressNote(mode, ids)
  PROVE  Timelined' /\ TimelineStep
<1>1. /\ ~Dragging /\ ~InGesture /\ notes' = notes /\ nextId' = nextId /\ gesture' = gesture
      /\ UNCHANGED stacks /\ interrupted' = interrupted
      /\ drag' = [mode |-> mode, id |-> 0, initial |-> Restrict(notes, ids)]
  BY DEF PressNote
<1>2. drag'.mode = mode /\ drag'.initial = Restrict(notes, ids)
  BY <1>1
<1>3. nextId \in Int /\ nextId <= nextId'
  BY <1>1, InvDocs
<1>4. ShapeInv'
  BY <1>1, <1>2 DEF Timelined, ShapeInv, Dragging, InGesture, stacks
<1>5. DOMAIN Restrict(notes, ids) = ids /\ \A i \in ids : Restrict(notes, ids)[i] = notes[i]
  BY DEF Restrict
<1>6. Grabbed' = ids
  BY <1>1, <1>2, <1>5 DEF Grabbed
<1>7. GestureInv'
  BY <1>1, <1>2, <1>5 DEF GestureInv, InGesture
<1>8. Alike(Settled', Settled)
  <2>1. DOMAIN Settled = DOMAIN notes /\ \A i \in DOMAIN notes, g \in Fields : Settled[i][g] = notes[i][g]
    BY <1>1, NotesAre
  <2>2. /\ DOMAIN Settled' = DOMAIN notes
        /\ \A i \in DOMAIN notes, g \in Fields :
             /\ i \in ids /\ g # "vel" => Settled'[i][g] = Restrict(notes, ids)[i][g]
             /\ i \notin ids \/ g = "vel" => Settled'[i][g] = notes[i][g]
    BY <1>1, <1>2, <1>6, SettledNext DEF SettledIsKnown
  <2>3. ASSUME NEW i \in DOMAIN notes, NEW g \in Fields PROVE Settled'[i][g] = Settled[i][g]
    BY <1>5, <2>1, <2>2
  <2>. QED
    BY <2>1, <2>2, <2>3 DEF Alike
<1>. QED
  BY <1>1, <1>3, <1>4, <1>7, <1>8, QuietSteps DEF stacks

LEMMA PressEmptySteps ==
  ASSUME NoneShort, EditInv, EditInv', Timelined, NEW pos \in Positions, PressEmpty(pos)
  PROVE  Timelined' /\ TimelineStep
<1>. DEFINE note == [pos |-> pos, dur |-> SnapDuration, vel |-> DefaultVelocity, rel |-> 0]
            one == Only(nextId, note)
<1>1. /\ ~Dragging /\ ~InGesture /\ notes' = Added(notes, one) /\ nextId' = nextId + 1
      /\ gesture' = gesture /\ UNCHANGED stacks /\ interrupted' = interrupted
      /\ drag'.mode = "create" /\ drag'.id = nextId
  BY DEF PressEmpty, NoDrag
<1>2. DOMAIN one = {nextId}
  BY DEF Only
<1>. HIDE DEF one
<1>3. nextId \in Int /\ nextId <= nextId' /\ nextId \notin DOMAIN notes
  <2>1. nextId \in Nat \ {0} /\ DOMAIN notes \subseteq 1 .. nextId - 1
    BY InvDocs, DocParts
  <2>2. nextId <= nextId'
    BY <1>1, <2>1
  <2>. QED
    BY <2>1, <2>2
<1>4. ShapeInv'
  BY <1>1 DEF Timelined, ShapeInv, Dragging, InGesture, stacks
<1>5. /\ DOMAIN notes' = DOMAIN notes \cup {nextId}
      /\ \A i \in DOMAIN notes : notes'[i] = notes[i]
  <2>1. /\ DOMAIN Added(notes, one) = DOMAIN notes \cup {nextId}
        /\ \A i \in DOMAIN notes : Added(notes, one)[i] = notes[i]
    BY <1>2 DEF Added, Over
  <2>. QED
    BY <1>1, <2>1
<1>6. GestureInv'
  BY <1>1, <1>5 DEF GestureInv, InGesture
<1>7. Settled' = Removed(notes', {nextId})
  BY <1>1, SettledNext DEF SettledIsKnown
<1>8. /\ DOMAIN Settled' = DOMAIN notes' \ {nextId}
      /\ \A i \in DOMAIN notes' \ {nextId} : Settled'[i] = notes'[i]
  BY <1>7, RemovedNotes
<1>9. DOMAIN Settled = DOMAIN notes /\ \A i \in DOMAIN notes, g \in Fields : Settled[i][g] = notes[i][g]
  BY <1>1, NotesAre
<1>10. Alike(Settled', Settled)
  <2>1. DOMAIN Settled' = DOMAIN notes
    BY <1>3, <1>5, <1>8
  <2>2. \A i \in DOMAIN notes : Settled'[i] = notes[i]
    BY <1>3, <1>5, <1>8
  <2>. QED
    BY <1>9, <2>1, <2>2 DEF Alike
<1>. QED
  BY <1>1, <1>3, <1>4, <1>6, <1>10, QuietSteps DEF stacks

-----------------------------------------------------------------------------
(* Drags                                                                   *)

\* What a step of a drag leaves alone.
DragStays == UNCHANGED <<nextId, stacks, drag, gesture, interrupted>>

LEMMA DragShape ==
  ASSUME EditInv, EditInv', Timelined, DragStays
  PROVE  /\ nextId <= nextId' /\ undoStack' = undoStack /\ redoStack' = redoStack
         /\ interrupted' = interrupted /\ drag' = drag /\ gesture' = gesture
         /\ ShapeInv'
<1>1. nextId \in Int /\ nextId' = nextId
  BY InvDocs DEF DragStays
<1>. QED
  BY <1>1 DEF DragStays, stacks, Timelined, ShapeInv, Dragging, InGesture

LEMMA DragCreateSteps ==
  ASSUME NoneShort, EditInv, EditInv', Timelined, NEW dur \in Int, DragCreate(dur)
  PROVE  Timelined' /\ TimelineStep
<1>. DEFINE value == Only(drag.id, Max({MinDuration, dur}))
<1>1. drag.mode = "create" /\ DragStays
  BY DEF DragCreate, DragStays
<1>2. ASSUME ~interrupted PROVE Alike(Settled', Settled) /\ GestureInv'
  <2>1. drag.id \in DOMAIN notes
    BY <1>1, <1>2 DEF Timelined, GestureInv
  <2>2. notes' = Written(notes, "dur", value)
    BY <2>1 DEF DragCreate
  <2>3. DOMAIN value = {drag.id}
    BY DEF Only
  <2>. HIDE DEF value
  <2>4. Sets(notes', notes, "dur", value)
    BY <2>2, InvDocs, WrittenSets, FieldSets
  <2>5. ~InGesture /\ drag' = drag /\ gesture' = gesture
    BY <1>1, DragShape DEF Timelined, ShapeInv, Dragging
  <2>6. GestureInv'
    BY <1>1, <2>1, <2>4, <2>5 DEF GestureInv, InGesture, Sets
  <2>7. Settled = Removed(notes, {drag.id}) /\ Settled' = Removed(notes', {drag.id})
    BY <1>1, <2>5, SettledKnown, SettledNext DEF SettledIsKnown
  <2>8. /\ DOMAIN Settled = DOMAIN notes \ {drag.id}
        /\ DOMAIN Settled' = DOMAIN notes' \ {drag.id}
        /\ \A i \in DOMAIN notes \ {drag.id} : Settled[i] = notes[i]
        /\ \A i \in DOMAIN notes' \ {drag.id} : Settled'[i] = notes'[i]
    BY <2>7 DEF Removed, Restrict
  <2>9. DOMAIN notes' = DOMAIN notes /\ \A i \in DOMAIN notes \ {drag.id}, g \in Fields : notes'[i][g] = notes[i][g]
    BY <2>3, <2>4 DEF Sets
  <2>10. DOMAIN Settled' = DOMAIN Settled
    BY <2>8, <2>9
  <2>11. ASSUME NEW i \in DOMAIN Settled, NEW g \in Fields PROVE Settled'[i][g] = Settled[i][g]
    <3>1. i \in DOMAIN notes \ {drag.id} /\ i \in DOMAIN notes' \ {drag.id}
      BY <2>8, <2>9
    <3>2. Settled'[i] = notes'[i] /\ Settled[i] = notes[i]
      BY <2>8, <3>1
    <3>. QED
      BY <2>9, <3>1, <3>2
  <2>. QED
    BY <2>6, <2>10, <2>11 DEF Alike
<1>. QED
  BY <1>1, <1>2, DragShape, QuietSteps

\* The other drags write start and length of the notes they hold.
LEMMA DragSteps ==
  ASSUME NoneShort, EditInv, EditInv', Timelined, DragStays, drag.mode \in {"move", "start", "end"},
         DOMAIN notes' = DOMAIN notes,
         \A i \in DOMAIN notes, g \in Fields :
           i \notin Grabbed \/ g = "vel" => notes'[i][g] = notes[i][g]
  PROVE  Timelined' /\ TimelineStep
<1>1. drag' = drag /\ gesture' = gesture /\ ~InGesture
  BY DragShape DEF Timelined, ShapeInv, Dragging
<1>2. Grabbed' = Grabbed
  BY <1>1 DEF Grabbed
<1>3. /\ DOMAIN Settled = DOMAIN notes
      /\ \A i \in DOMAIN notes, g \in Fields :
            /\ i \in Grabbed /\ g # "vel" => Settled[i][g] = drag.initial[i][g]
            /\ i \notin Grabbed \/ g = "vel" => Settled[i][g] = notes[i][g]
  BY SettledKnown DEF SettledIsKnown
<1>4. /\ DOMAIN Settled' = DOMAIN notes
      /\ \A i \in DOMAIN notes, g \in Fields :
            /\ i \in Grabbed /\ g # "vel" => Settled'[i][g] = drag.initial[i][g]
            /\ i \notin Grabbed \/ g = "vel" => Settled'[i][g] = notes'[i][g]
  BY <1>1, <1>2, SettledNext DEF SettledIsKnown
<1>5. ASSUME NEW i \in DOMAIN notes, NEW g \in Fields PROVE Settled'[i][g] = Settled[i][g]
  BY <1>3, <1>4
<1>6. Alike(Settled', Settled)
  BY <1>3, <1>4, <1>5 DEF Alike
<1>7. ASSUME ~interrupted PROVE GestureInv'
  <2>1. DOMAIN drag.initial \subseteq DOMAIN notes'
    BY <1>7 DEF Timelined, GestureInv
  <2>. QED
    BY <1>1, <2>1 DEF GestureInv, InGesture
<1>. QED
  BY <1>6, <1>7, DragShape, QuietSteps

LEMMA DragMoveSteps ==
  ASSUME NoneShort, EditInv, EditInv', Timelined, NEW d \in Int, DragMove(d) \/ DragEnd(d)
  PROVE  Timelined' /\ TimelineStep
<1>1. drag.mode \in {"move", "start", "end"} /\ DragStays
  BY DEF DragMove, DragEnd, DragStays
<1>2. PICK f, value : /\ f \in {"pos", "dur"} /\ DOMAIN value = Grabbed
                      /\ notes' = Written(notes, f, value)
  <2>1. CASE DragMove(d)
    <3>. DEFINE value == [i \in Grabbed |-> Max({0, drag.initial[i].pos + d})]
    <3>1. DOMAIN value = Grabbed /\ notes' = Written(notes, "pos", value)
      BY <2>1 DEF DragMove
    <3>. HIDE DEF value
    <3>. QED
      BY <3>1
  <2>2. CASE DragEnd(d)
    <3>. DEFINE value == [i \in Grabbed |-> Max({MinDuration, drag.initial[i].dur + d})]
    <3>1. DOMAIN value = Grabbed /\ notes' = Written(notes, "dur", value)
      BY <2>2 DEF DragEnd
    <3>. HIDE DEF value
    <3>. QED
      BY <3>1
  <2>. QED
    BY <2>1, <2>2
<1>3. Sets(notes', notes, f, value)
  BY <1>2, InvDocs, WrittenSets, FieldSets
<1>4. f # "vel"
  BY <1>2
<1>5. /\ DOMAIN notes' = DOMAIN notes
      /\ \A i \in DOMAIN notes, g \in Fields :
           i \notin Grabbed \/ g = "vel" => notes'[i][g] = notes[i][g]
  BY <1>2, <1>3, <1>4 DEF Sets
<1>. QED
  BY <1>1, <1>5, DragSteps

LEMMA DragStartSteps ==
  ASSUME NoneShort, EditInv, EditInv', Timelined, NEW d \in Int, DragStart(d)
  PROVE  Timelined' /\ TimelineStep
<1>. DEFINE end(i) == drag.initial[i].pos + drag.initial[i].dur
<1>1. drag.mode \in {"move", "start", "end"} /\ DragStays
  BY DEF DragStart, DragStays
<1>2. PICK pos \in [Grabbed -> (-MinDuration)..MaxPos] :
        /\ \A i \in Grabbed : pos[i] \in Clamp(drag.initial[i].pos + d, end(i) - MinDuration)
        /\ notes' = Written(Written(notes, "pos", pos), "dur", [i \in Grabbed |-> end(i) - pos[i]])
  BY DEF DragStart
<1>. DEFINE lengths == [i \in Grabbed |-> end(i) - pos[i]]
            mid == Written(notes, "pos", pos)
<1>3. DOMAIN pos = Grabbed /\ DOMAIN lengths = Grabbed /\ notes' = Written(mid, "dur", lengths)
  BY <1>2
<1>4. mid \in DocsBelow(nextId)
  <2>1. ASSUME NEW i \in Grabbed PROVE pos[i] \in Values("pos")
    <3>1. pos[i] \in (-MinDuration)..MaxPos
      BY <1>2
    <3>2. pos[i] \in Int
      BY <3>1
    <3>3. /\ drag.initial[i].pos \in Starts /\ drag.initial[i].pos \in Int
          /\ drag.initial[i].dur \in Lengths /\ drag.initial[i].dur \in Int
      BY GrabbedNotes
    <3>4. drag.initial[i].pos + d \in Int
      BY <3>3
    <3>5. pos[i] \in Clamp(drag.initial[i].pos + d, drag.initial[i].pos + drag.initial[i].dur - MinDuration)
      BY <1>2, <3>3
    <3>. QED
      BY <3>2, <3>3, <3>4, <3>5, ClampedStart, FieldSets
  <2>2. \A i \in DOMAIN pos : pos[i] \in Values("pos")
    BY <1>3, <2>1
  <2>. QED
    BY <2>2, InvDocs, WrittenDoc, FieldSets
<1>5. Sets(mid, notes, "pos", pos)
  BY InvDocs, WrittenSets, FieldSets
<1>. HIDE DEF mid, lengths
<1>6. Sets(notes', mid, "dur", lengths)
  BY <1>3, <1>4, WrittenSets, FieldSets
<1>7. DOMAIN notes' = DOMAIN notes /\ DOMAIN mid = DOMAIN notes
  BY <1>5, <1>6 DEF Sets
<1>8. ASSUME NEW i \in DOMAIN notes, NEW g \in Fields, i \notin Grabbed \/ g = "vel"
      PROVE  notes'[i][g] = notes[i][g]
  <2>1. notes'[i][g] = mid[i][g]
    BY <1>3, <1>6, <1>7, <1>8 DEF Sets
  <2>2. mid[i][g] = notes[i][g]
    BY <1>3, <1>5, <1>8 DEF Sets
  <2>. QED
    BY <2>1, <2>2
<1>. QED
  BY <1>1, <1>7, <1>8, DragSteps

-----------------------------------------------------------------------------
(* Releases                                                                *)

\* A release ends the drag, and leaves the notes where they are.
LEMMA Released ==
  ASSUME EditInv, EditInv', Timelined, Dragging, drag' = NoDrag,
         UNCHANGED <<notes, nextId, gesture, interrupted>>
  PROVE  /\ ~Dragging' /\ ~InGesture' /\ ~InGesture
         /\ notes' = notes /\ nextId' = nextId /\ interrupted' = interrupted
         /\ (~inBatch' /\ batch' = << >> => ShapeInv')
         /\ (~interrupted => GestureInv /\ Lined)
<1>1. ~InGesture /\ gesture' = gesture /\ drag'.mode = "none"
  BY DEF Timelined, ShapeInv, NoDrag
<1>2. ~Dragging' /\ ~InGesture'
  BY <1>1 DEF Dragging, InGesture
<1>. QED
  BY <1>1, <1>2 DEF Timelined, ShapeInv

LEMMA ReleaseEraseSteps ==
  ASSUME NoneShort, EditInv, EditInv', Timelined, ReleaseErase
  PROVE  Timelined' /\ TimelineStep
<1>1. /\ Dragging /\ drag.mode = "erase" /\ drag' = NoDrag /\ CommitBatch
      /\ UNCHANGED <<notes, nextId, gesture, interrupted>>
  BY DEF ReleaseErase, Dragging
<1>2. inBatch /\ ~inBatch' /\ batch' = << >>
  BY <1>1 DEF CommitBatch, Timelined, ShapeInv
<1>3. batch \in CommandsBelow(nextId)
  BY DEF EditInv, HistoryInv
<1>4. ~interrupted => Lined /\ Links(batch, Settled, notes')
  BY <1>1, Released DEF GestureInv
<1>5. \/ batch = << >> /\ undoStack' = undoStack /\ redoStack' = redoStack
      \/ undoStack' = Append(undoStack, batch) /\ redoStack' = << >>
  BY <1>1, <1>2 DEF CommitBatch
<1>6. /\ ~Dragging' /\ ~InGesture' /\ nextId' = nextId /\ interrupted' = interrupted /\ ShapeInv'
  BY <1>1, <1>2, Released
<1>. QED
  BY <1>3, <1>4, <1>5, <1>6, EndSteps

\* A gesture that no batch is open for pushes its command, if there is one.
LEMMA EndPushed ==
  ASSUME Timelined, drag.mode # "erase", NEW cmd, PushUnlessEmpty(cmd)
  PROVE  /\ ~inBatch' /\ batch' = << >>
         /\ \/ cmd = << >> /\ undoStack' = undoStack /\ redoStack' = redoStack
            \/ undoStack' = Append(undoStack, cmd) /\ redoStack' = << >>
BY DEF Timelined, ShapeInv, PushUnlessEmpty, Push, stacks

LEMMA ReleaseCreateSteps ==
  ASSUME NoneShort, EditInv, EditInv', Timelined, ReleaseCreate
  PROVE  Timelined' /\ TimelineStep
<1>. DEFINE cmd == IF drag.id \in DOMAIN notes THEN AddNote(drag.id, notes[drag.id]) ELSE << >>
<1>1. /\ Dragging /\ drag.mode = "create" /\ drag' = NoDrag /\ PushUnlessEmpty(cmd)
      /\ UNCHANGED <<notes, nextId, gesture, interrupted>>
  BY DEF ReleaseCreate, Dragging
<1>2. nextId \in Nat \ {0} /\ notes \in DocsBelow(nextId)
  BY InvDocs
<1>3. cmd \in CommandsBelow(nextId)
  <2>1. CASE drag.id \in DOMAIN notes
    <3>1. drag.id \in 1 .. nextId - 1 /\ notes[drag.id] \in ValidNote
      BY <1>2, <2>1, NoteFields
    <3>2. AddNote(drag.id, notes[drag.id]) \in CommandsBelow(nextId)
      BY <1>2, <3>1, AddCommand
    <3>. QED
      BY <2>1, <3>2
  <2>2. CASE drag.id \notin DOMAIN notes
    BY <1>2, <2>2, NotesCommand
  <2>. QED
    BY <2>1, <2>2
<1>4. ASSUME ~interrupted PROVE Lined /\ Links(cmd, Settled, notes')
  <2>1. Lined /\ GestureInv /\ notes' = notes
    BY <1>1, <1>4, Released
  <2>2. drag.id \in DOMAIN notes
    BY <1>1, <2>1 DEF GestureInv
  <2>3. cmd = AddNote(drag.id, notes[drag.id])
    BY <2>2
  <2>4. Settled = Removed(notes, {drag.id})
    BY <1>1, SettledKnown DEF SettledIsKnown
  <2>5. Links(AddNote(drag.id, notes[drag.id]), Removed(notes, {drag.id}), notes)
    BY <1>2, <2>2, AddNoteLinks
  <2>. QED
    BY <2>1, <2>3, <2>4, <2>5
<1>. HIDE DEF cmd
<1>5. /\ ~inBatch' /\ batch' = << >>
      /\ \/ cmd = << >> /\ undoStack' = undoStack /\ redoStack' = redoStack
         \/ undoStack' = Append(undoStack, cmd) /\ redoStack' = << >>
  BY <1>1, EndPushed
<1>6. /\ ~Dragging' /\ ~InGesture' /\ nextId' = nextId /\ interrupted' = interrupted /\ ShapeInv'
  BY <1>1, <1>5, Released
<1>. QED
  BY <1>3, <1>4, <1>5, <1>6, EndSteps

\* The two commands of a release lead from the notes at the press to where
\* they are now, by way of notes that have only been moved.
LEMMA ChangesLink ==
  ASSUME NoneShort, EditInv, drag.mode \in {"move", "start", "end"}
  PROVE  /\ Changes("pos") \o Changes("dur") \in CommandsBelow(nextId)
         /\ Links(Changes("pos") \o Changes("dur"), Settled, notes)
<1>. DEFINE initial == drag.initial
            moved == {i \in Grabbed : notes[i]["pos"] # initial[i]["pos"]}
            resized == {i \in Grabbed : notes[i]["dur"] # initial[i]["dur"]}
            lengths == Field(initial, "dur", Grabbed)
            mid == Written(notes, "dur", lengths)
            oldPos == Field(initial, "pos", moved)
            newPos == Field(notes, "pos", moved)
            oldDur == Field(initial, "dur", resized)
            newDur == Field(notes, "dur", resized)
<1>1. nextId \in Nat \ {0} /\ notes \in DocsBelow(nextId)
  BY DEF EditInv, HistoryInv
<1>2. initial \in DocsBelow(nextId) /\ Grabbed \subseteq DOMAIN initial /\ Grabbed \subseteq DOMAIN notes
  BY GrabbedNotes
<1>3. /\ DOMAIN lengths = Grabbed /\ DOMAIN oldPos = moved /\ DOMAIN newPos = moved
      /\ DOMAIN oldDur = resized /\ DOMAIN newDur = resized
      /\ \A i \in Grabbed : lengths[i] = initial[i]["dur"]
      /\ \A i \in moved : oldPos[i] = initial[i]["pos"] /\ newPos[i] = notes[i]["pos"]
      /\ \A i \in resized : oldDur[i] = initial[i]["dur"] /\ newDur[i] = notes[i]["dur"]
  BY DEF Field
<1>4. /\ Changes("pos") = SetNotes("pos", oldPos, newPos)
      /\ Changes("dur") = SetNotes("dur", oldDur, newDur)
  BY DEF Changes
<1>5. /\ moved \subseteq Grabbed /\ resized \subseteq Grabbed
      /\ \A i \in Grabbed \ moved : notes[i]["pos"] = initial[i]["pos"]
      /\ \A i \in Grabbed \ resized : notes[i]["dur"] = initial[i]["dur"]
  OBVIOUS
<1>. HIDE DEF moved, resized
<1>6. /\ oldPos \in ValuesBelow("pos", nextId) /\ newPos \in ValuesBelow("pos", nextId)
      /\ oldDur \in ValuesBelow("dur", nextId) /\ newDur \in ValuesBelow("dur", nextId)
      /\ lengths \in ValuesBelow("dur", nextId)
  <2>1. moved \in SUBSET DOMAIN initial /\ moved \in SUBSET DOMAIN notes
        /\ resized \in SUBSET DOMAIN initial /\ resized \in SUBSET DOMAIN notes
        /\ Grabbed \in SUBSET DOMAIN initial
    BY <1>2, <1>5
  <2>2. "pos" \in Fields /\ "dur" \in Fields
    BY FieldSets
  <2>. HIDE DEF initial
  <2>. QED
    BY <1>1, <1>2, <2>1, <2>2, FieldBelow
<1>. HIDE DEF lengths, oldPos, newPos, oldDur, newDur
<1>7. mid \in DocsBelow(nextId)
  <2>1. \A i \in DOMAIN lengths : lengths[i] \in Values("dur")
    BY <1>6, ValueParts
  <2>. QED
    BY <1>1, <2>1, WrittenDoc, FieldSets
<1>8. Sets(mid, notes, "dur", lengths)
  BY <1>1, WrittenSets, FieldSets
<1>. HIDE DEF mid, initial
<1>9. /\ DOMAIN Settled = DOMAIN notes
      /\ \A i \in DOMAIN notes, g \in Fields :
            /\ i \in Grabbed /\ g # "vel" => Settled[i][g] = initial[i][g]
            /\ i \notin Grabbed \/ g = "vel" => Settled[i][g] = notes[i][g]
  BY SettledKnown DEF SettledIsKnown, initial
<1>10. /\ DOMAIN mid = DOMAIN notes
       /\ \A i \in DOMAIN notes, g \in Fields :
            /\ i \in Grabbed /\ g = "dur" => mid[i][g] = initial[i][g]
            /\ i \notin Grabbed \/ g # "dur" => mid[i][g] = notes[i][g]
  BY <1>3, <1>8 DEF Sets
<1>11. \A i \in DOMAIN notes, g \in Fields :
         /\ i \in moved /\ g = "pos" => mid[i][g] = newPos[i] /\ Settled[i][g] = oldPos[i]
         /\ i \notin moved \/ g # "pos" => mid[i][g] = Settled[i][g]
  <2>1. TAKE i \in DOMAIN notes, g \in Fields
  <2>2. CASE g = "pos" /\ i \in moved
    BY <1>3, <1>5, <1>9, <1>10, <2>2
  <2>3. CASE g = "pos" /\ i \notin moved
    BY <1>5, <1>9, <1>10, <2>3
  <2>4. CASE g = "dur"
    BY <1>9, <1>10, <2>4
  <2>5. CASE g = "vel"
    BY <1>9, <1>10, <2>5
  <2>. QED
    BY <2>2, <2>3, <2>4, <2>5 DEF Fields
<1>12. \A i \in DOMAIN notes, g \in Fields :
         /\ i \in resized /\ g = "dur" => notes[i][g] = newDur[i] /\ mid[i][g] = oldDur[i]
         /\ i \notin resized \/ g # "dur" => notes[i][g] = mid[i][g]
  <2>1. TAKE i \in DOMAIN notes, g \in Fields
  <2>2. CASE g = "dur" /\ i \in resized
    BY <1>3, <1>5, <1>10, <2>2
  <2>3. CASE g = "dur" /\ i \notin resized
    BY <1>5, <1>10, <2>3
  <2>4. CASE g # "dur"
    BY <1>10, <2>4
  <2>. QED
    BY <2>2, <2>3, <2>4
<1>13. Settled \in DocsBelow(nextId) /\ "pos" \in Fields /\ "dur" \in Fields
       /\ moved \subseteq DOMAIN Settled /\ resized \subseteq DOMAIN mid
  BY <1>2, <1>5, <1>9, <1>10, SettledDoc, FieldSets
<1>14. Links(SetNotes("pos", oldPos, newPos), Settled, mid)
  <2>1. Sets(mid, Settled, "pos", newPos) /\ Sets(Settled, mid, "pos", oldPos)
    BY <1>3, <1>9, <1>10, <1>11 DEF Sets
  <2>. QED
    BY <1>3, <1>6, <1>7, <1>13, <2>1, SetLinks
<1>15. Links(SetNotes("dur", oldDur, newDur), mid, notes)
  <2>1. Sets(notes, mid, "dur", newDur) /\ Sets(mid, notes, "dur", oldDur)
    BY <1>3, <1>10, <1>12 DEF Sets
  <2>. QED
    BY <1>1, <1>3, <1>6, <1>7, <1>13, <2>1, SetLinks
<1>16. /\ SetNotes("pos", oldPos, newPos) \in CommandsBelow(nextId)
       /\ SetNotes("dur", oldDur, newDur) \in CommandsBelow(nextId)
  BY <1>6, <1>13, SetCommand
<1>17. /\ SetNotes("pos", oldPos, newPos) \o SetNotes("dur", oldDur, newDur) \in CommandsBelow(nextId)
       /\ Links(SetNotes("pos", oldPos, newPos) \o SetNotes("dur", oldDur, newDur), Settled, notes)
  BY <1>1, <1>7, <1>13, <1>14, <1>15, <1>16, JoinedCommand, JoinedLinks
<1>. QED
  BY <1>4, <1>17

LEMMA ReleaseNoteSteps ==
  ASSUME NoneShort, EditInv, EditInv', Timelined, ReleaseNote
  PROVE  Timelined' /\ TimelineStep
<1>. DEFINE cmd == Changes("pos") \o Changes("dur")
<1>1. /\ Dragging /\ drag.mode \in {"move", "start", "end"} /\ drag' = NoDrag /\ PushUnlessEmpty(cmd)
      /\ UNCHANGED <<notes, nextId, gesture, interrupted>>
  BY DEF ReleaseNote, Dragging
<1>2. cmd \in CommandsBelow(nextId) /\ Links(cmd, Settled, notes')
  BY <1>1, ChangesLink
<1>. HIDE DEF cmd
<1>3. /\ ~inBatch' /\ batch' = << >>
      /\ \/ cmd = << >> /\ undoStack' = undoStack /\ redoStack' = redoStack
         \/ undoStack' = Append(undoStack, cmd) /\ redoStack' = << >>
  BY <1>1, EndPushed
<1>4. /\ ~Dragging' /\ ~InGesture' /\ nextId' = nextId /\ interrupted' = interrupted /\ ShapeInv'
      /\ (~interrupted => Lined)
  BY <1>1, <1>3, Released
<1>. QED
  BY <1>2, <1>3, <1>4, EndSteps

-----------------------------------------------------------------------------
(* The velocity lane                                                       *)

LEMMA PreviewSteps ==
  ASSUME NoneShort, EditInv, EditInv', Timelined, ~Dragging,
         NEW old \in ValuesBelow("vel", nextId), NEW new \in ValuesBelow("vel", nextId),
         ~interrupted => /\ DOMAIN new = DOMAIN old /\ DOMAIN old \subseteq DOMAIN notes
                         /\ Sets(Settled, notes, "vel", old),
         NEW v \in Velocities, Preview(old, new, v)
  PROVE  Timelined' /\ TimelineStep
<1>. DEFINE here == DOMAIN old \cap DOMAIN notes
            value == [i \in here |-> v]
<1>1. /\ nextId' = nextId /\ drag' = drag /\ UNCHANGED stacks /\ interrupted' = interrupted
      /\ notes' = Written(notes, "vel", value)
      /\ gesture' = [old |-> old, new |-> Over(value, new)]
  BY DEF Preview
<1>2. DOMAIN value = here /\ \A i \in here : value[i] = v
  OBVIOUS
<1>. HIDE DEF value
<1>3. gesture'.old = old /\ gesture'.new = Over(value, new)
  BY <1>1
<1>4. drag.mode = "none" /\ drag'.mode = "none" /\ ~Dragging'
  BY <1>1 DEF Dragging
<1>5. ShapeInv'
  BY <1>1, <1>4 DEF Timelined, ShapeInv, stacks
<1>6. nextId \in Int /\ nextId <= nextId' /\ notes \in DocsBelow(nextId)
  BY <1>1, InvDocs
<1>7. Sets(notes', notes, "vel", value)
  BY <1>1, <1>6, WrittenSets, FieldSets
<1>8. ASSUME ~interrupted PROVE Alike(Settled', Settled) /\ GestureInv'
  <2>1. here = DOMAIN old /\ DOMAIN new = DOMAIN old /\ DOMAIN old \subseteq DOMAIN notes
        /\ Sets(Settled, notes, "vel", old)
    BY <1>8
  <2>. HIDE DEF here
  <2>2. Sets(Settled', notes', "vel", old)
    BY <1>3, <1>4, SettledNext DEF SettledIsKnown
  <2>3. DOMAIN Settled' = DOMAIN notes /\ DOMAIN Settled = DOMAIN notes /\ DOMAIN notes' = DOMAIN notes
    BY <1>7, <2>1, <2>2 DEF Sets
  <2>4. ASSUME NEW i \in DOMAIN notes, NEW g \in Fields PROVE Settled'[i][g] = Settled[i][g]
    <3>1. CASE i \in DOMAIN old /\ g = "vel"
      BY <2>1, <2>2, <2>3, <3>1 DEF Sets
    <3>2. CASE i \notin DOMAIN old \/ g # "vel"
      <4>1. Settled'[i][g] = notes'[i][g]
        BY <2>2, <2>3, <3>2 DEF Sets
      <4>2. notes'[i][g] = notes[i][g]
        BY <1>2, <1>7, <2>1, <3>2 DEF Sets
      <4>3. Settled[i][g] = notes[i][g]
        BY <2>1, <3>2 DEF Sets
      <4>. QED
        BY <4>1, <4>2, <4>3
    <3>. QED
      BY <3>1, <3>2
  <2>5. Alike(Settled', Settled)
    BY <2>3, <2>4 DEF Alike
  <2>6. Over(value, new) = [i \in DOMAIN old |-> v]
    BY <1>2, <2>1 DEF Over
  <2>7. \A i \in DOMAIN old : notes'[i]["vel"] = v
    BY <1>2, <1>7, <2>1, FieldSets DEF Sets
  <2>8. Field(notes', "vel", DOMAIN old) = [i \in DOMAIN old |-> v]
    BY <2>7 DEF Field
  <2>9. DOMAIN gesture'.old \subseteq DOMAIN notes' /\ gesture'.new = Field(notes', "vel", DOMAIN gesture'.old)
    BY <1>3, <2>1, <2>3, <2>6, <2>8
  <2>10. GestureInv'
    BY <1>4, <2>9 DEF GestureInv
  <2>. QED
    BY <2>5, <2>10
<1>. QED
  BY <1>1, <1>5, <1>6, <1>8, QuietSteps DEF stacks

LEMMA BeginVelocityGestureSteps ==
  ASSUME NoneShort, EditInv, EditInv', Timelined, NEW ids \in SUBSET DOMAIN notes, NEW v \in Velocities,
         BeginVelocityGesture(ids, v)
  PROVE  Timelined' /\ TimelineStep
<1>. DEFINE old == Field(notes, "vel", ids)
<1>1. ~Dragging /\ ~InGesture /\ Preview(old, old, v)
  BY DEF BeginVelocityGesture
<1>2. old \in ValuesBelow("vel", nextId)
  BY InvDocs, FieldBelow, FieldSets
<1>3. DOMAIN old = ids /\ \A i \in ids : old[i] = notes[i]["vel"]
  BY DEF Field
<1>. HIDE DEF old
<1>4. DOMAIN Settled = DOMAIN notes /\ \A i \in DOMAIN notes, g \in Fields : Settled[i][g] = notes[i][g]
  BY <1>1, NotesAre
<1>5. Sets(Settled, notes, "vel", old)
  BY <1>3, <1>4 DEF Sets
<1>. QED
  BY <1>1, <1>2, <1>3, <1>5, PreviewSteps

LEMMA PreviewVelocityGestureSteps ==
  ASSUME NoneShort, EditInv, EditInv', Timelined, NEW v \in Velocities, PreviewVelocityGesture(v)
  PROVE  Timelined' /\ TimelineStep
<1>1. InGesture /\ Preview(gesture.old, gesture.new, v)
  BY DEF PreviewVelocityGesture
<1>2. ~Dragging /\ drag.mode = "none"
  BY <1>1 DEF Timelined, ShapeInv, Dragging
<1>3. gesture.old \in ValuesBelow("vel", nextId) /\ gesture.new \in ValuesBelow("vel", nextId)
  BY DEF EditInv, VelocityInv
<1>4. Sets(Settled, notes, "vel", gesture.old)
  BY <1>2, SettledKnown DEF SettledIsKnown
<1>5. ASSUME ~interrupted
      PROVE  DOMAIN gesture.new = DOMAIN gesture.old /\ DOMAIN gesture.old \subseteq DOMAIN notes
  BY <1>1, <1>5 DEF Timelined, GestureInv, Field
<1>. QED
  BY <1>1, <1>2, <1>3, <1>4, <1>5, PreviewSteps

LEMMA CommitVelocityGestureSteps ==
  ASSUME NoneShort, EditInv, EditInv', Timelined, CommitVelocityGesture
  PROVE  Timelined' /\ TimelineStep
<1>. DEFINE old == gesture.old
            new == gesture.new
            cmd == IF new = old THEN << >> ELSE SetNotes("vel", old, new)
<1>1. /\ InGesture /\ PushUnlessEmpty(cmd) /\ gesture' = NoGesture /\ drag' = drag
      /\ notes' = notes /\ nextId' = nextId /\ interrupted' = interrupted
  BY DEF CommitVelocityGesture
<1>2. drag.mode = "none" /\ drag'.mode = "none" /\ ~Dragging'
  BY <1>1 DEF Timelined, ShapeInv, Dragging
<1>3. ~InGesture'
  BY <1>1 DEF InGesture, NoGesture, Empty
<1>4. old \in ValuesBelow("vel", nextId) /\ new \in ValuesBelow("vel", nextId)
  BY DEF EditInv, VelocityInv
<1>5. notes \in DocsBelow(nextId) /\ Settled \in DocsBelow(nextId) /\ Sets(Settled, notes, "vel", old)
  BY <1>2, InvDocs, SettledKnown DEF SettledIsKnown
<1>6. ASSUME ~interrupted
      PROVE  /\ DOMAIN new = DOMAIN old /\ DOMAIN old \subseteq DOMAIN notes
             /\ \A i \in DOMAIN old : new[i] = notes[i]["vel"]
  <2>1. DOMAIN old \subseteq DOMAIN notes /\ new = Field(notes, "vel", DOMAIN old)
    BY <1>1, <1>6 DEF Timelined, GestureInv
  <2>. QED
    BY <2>1 DEF Field
<1>. HIDE DEF old, new
<1>7. cmd \in CommandsBelow(nextId)
  <2>1. SetNotes("vel", old, new) \in CommandsBelow(nextId) /\ << >> \in CommandsBelow(nextId)
    BY <1>4, <1>5, SetCommand, NotesCommand, FieldSets
  <2>. QED
    BY <2>1
<1>8. ASSUME ~interrupted PROVE Links(cmd, Settled, notes')
  <2>1. CASE new = old
    <3>1. cmd = << >>
      BY <2>1
    <3>2. DOMAIN Settled = DOMAIN notes /\ \A i \in DOMAIN notes, g \in Fields : Settled[i][g] = notes[i][g]
      BY <1>5, <1>6, <1>8, <2>1 DEF Sets
    <3>3. Alike(Settled, notes) /\ Alike(notes, Settled)
      BY <3>2 DEF Alike
    <3>. QED
      BY <1>1, <1>5, <3>1, <3>3, NoParts DEF Links
  <2>2. CASE new # old
    <3>1. cmd = SetNotes("vel", old, new)
      BY <2>2
    <3>2. DOMAIN Settled = DOMAIN notes
      BY <1>5 DEF Sets
    <3>3. Sets(notes, Settled, "vel", new)
      BY <1>5, <1>6, <1>8 DEF Sets
    <3>. QED
      BY <1>1, <1>4, <1>5, <1>6, <1>8, <3>1, <3>2, <3>3, SetLinks, FieldSets
  <2>. QED
    BY <2>1, <2>2
<1>. HIDE DEF cmd
<1>9. /\ ~inBatch' /\ batch' = << >>
      /\ \/ cmd = << >> /\ undoStack' = undoStack /\ redoStack' = redoStack
         \/ undoStack' = Append(undoStack, cmd) /\ redoStack' = << >>
  BY <1>1, <1>2, EndPushed
<1>10. ShapeInv'
  BY <1>2, <1>9 DEF ShapeInv
<1>11. ~interrupted => Lined
  BY DEF Timelined
<1>. QED
  BY <1>1, <1>2, <1>3, <1>7, <1>8, <1>9, <1>10, <1>11, EndSteps

-----------------------------------------------------------------------------
(* The timeline                                                            *)

LEMMA TimelineKey == ASSUME NoneShort, EditInv, EditInv', Timelined, Key PROVE Timelined' /\ TimelineStep
<1>1. CASE Undo \/ Redo
  BY <1>1, UndoSteps
<1>2. CASE \E ids \in Some :
             \/ \E d \in {-1, 1} : MoveSelected(ids, d) \/ ResizeSelected(ids, d)
             \/ \E v \in Velocities : SetSelectedVelocity(ids, v)
             \/ DeleteNotes(ids)
             \/ Duplicate(ids)
  <2>1. PICK ids \in Some :
             \/ \E d \in {-1, 1} : MoveSelected(ids, d) \/ ResizeSelected(ids, d)
             \/ \E v \in Velocities : SetSelectedVelocity(ids, v)
             \/ DeleteNotes(ids)
             \/ Duplicate(ids)
    BY <1>2
  <2>2. ids \in SUBSET DOMAIN notes /\ ids # {}
    BY DEF Some
  <2>3. ASSUME NEW d \in {-1, 1}, MoveSelected(ids, d) \/ ResizeSelected(ids, d)
        PROVE  Timelined' /\ TimelineStep
    <3>1. d \in Int
      OBVIOUS
    <3>. QED
      BY <2>2, <2>3, <3>1, EditSelectedSteps
  <2>4. ASSUME NEW v \in Velocities, SetSelectedVelocity(ids, v) PROVE Timelined' /\ TimelineStep
    <3>1. 0 \in Int
      OBVIOUS
    <3>. QED
      BY <2>2, <2>4, <3>1, EditSelectedSteps
  <2>. QED
    BY <2>1, <2>2, <2>3, <2>4, DeleteNotesSteps, DuplicateSteps
<1>. QED
  BY <1>1, <1>2 DEF Key

LEMMA TimelinePress == ASSUME NoneShort, EditInv, EditInv', Timelined, Press PROVE Timelined' /\ TimelineStep
<1>1. ASSUME NEW ids \in {{}} \cup {{i} : i \in DOMAIN notes}, PressErase(ids)
      PROVE  Timelined' /\ TimelineStep
  <2>1. ids \in SUBSET DOMAIN notes
    OBVIOUS
  <2>. QED
    BY <1>1, <2>1, PressEraseSteps
<1>2. ASSUME NEW pos \in Positions, PressEmpty(pos) PROVE Timelined' /\ TimelineStep
  BY <1>2, PressEmptySteps
<1>3. ASSUME NEW ids \in Some, NEW mode \in {"move", "start", "end"}, PressNote(mode, ids)
      PROVE  Timelined' /\ TimelineStep
  BY <1>3, PressNoteSteps DEF Some
<1>4. ASSUME NEW ids \in Some, NEW v \in Velocities, BeginVelocityGesture(ids, v)
      PROVE  Timelined' /\ TimelineStep
  BY <1>4, BeginVelocityGestureSteps DEF Some
<1>. QED
  BY <1>1, <1>2, <1>3, <1>4 DEF Press

LEMMA TimelineMouse == ASSUME NoneShort, EditInv, EditInv', Timelined, Mouse PROVE Timelined' /\ TimelineStep
<1>1. ASSUME NEW dur \in Durations, DragCreate(dur) PROVE Timelined' /\ TimelineStep
  <2>1. dur \in Int
    BY DEF Durations
  <2>. QED
    BY <1>1, <2>1, DragCreateSteps
<1>2. ASSUME NEW d \in {-1, 0, 1}, DragMove(d) \/ DragEnd(d) \/ DragStart(d) PROVE Timelined' /\ TimelineStep
  <2>1. d \in Int
    OBVIOUS
  <2>. QED
    BY <1>2, <2>1, DragMoveSteps, DragStartSteps
<1>. QED
  BY <1>1, <1>2, PreviewVelocityGestureSteps, ReleaseEraseSteps, ReleaseCreateSteps, ReleaseNoteSteps,
     CommitVelocityGestureSteps DEF Mouse

LEMMA TimelineStays ==
  ASSUME NoneShort, EditInv, EditInv', Timelined, UNCHANGED editVars
  PROVE  Timelined' /\ UNCHANGED <<Docs, Len(undoStack)>>
<1>1. (Timelined' <=> Timelined) /\ Docs' = Docs /\ undoStack' = undoStack
  BY DEF editVars, Timelined, ShapeInv, GestureInv, Lined, Docs, Settled, Grabbed, Dragging, InGesture
<1>. QED
  BY <1>1

LEMMA TimelineInit == ASSUME NoneShort, EditInit PROVE Timelined /\ Timeline!Init
<1>1. /\ undoStack = << >> /\ redoStack = << >> /\ ~inBatch /\ batch = << >>
      /\ drag.mode = "none" /\ DOMAIN gesture.old = {} /\ EditInv
  BY InitEditInv DEF EditInit, NoDrag, NoGesture, Empty
<1>2. ShapeInv /\ GestureInv
  BY <1>1 DEF ShapeInv, GestureInv, Dragging, InGesture
<1>3. Settled \in DocsBelow(nextId)
  BY <1>1, SettledDoc
<1>4. Lined
  BY <1>1, <1>3, FreshLine DEF Lined
<1>5. Len(Walk(<< >>, << >>, Settled)) = 1
  BY <1>3, FreshLine
<1>6. Len(Docs) = 1 /\ Len(undoStack) + 1 = 1
  BY <1>1, <1>5, DocsWalk
<1>. QED
  BY <1>2, <1>4, <1>6 DEF Timelined, Timeline!Init

\* Every gesture, key and right click is one step along the line of documents
\* that undo and redo walk, or none, as long as no edit and no undo comes in
\* while a gesture is open.
THEOREM EditsMakeATimeline == ASSUME NoneShort PROVE EditSpec => ImplementsTimeline
<1>1. EditInit => Timelined /\ Timeline!Init
  BY TimelineInit
<1>2. ASSUME EditInv, EditInv', Timelined, [EditNext]_editVars
      PROVE  Timelined' /\ [interrupted' \/ Timeline!Next]_<<Docs, Len(undoStack)>>
  <2>1. CASE EditNext
    <3>1. Timelined' /\ TimelineStep
      BY <1>2, <2>1, OpenClipSteps, TimelineKey, TimelinePress, TimelineMouse DEF EditNext
    <3>. QED
      BY <3>1 DEF TimelineStep
  <2>2. CASE UNCHANGED editVars
    BY <1>2, <2>2, TimelineStays
  <2>. QED
    BY <1>2, <2>1, <2>2
<1>. QED
  BY <1>1, <1>2, EditInvariance, PTL DEF EditSpec, ImplementsTimeline

-----------------------------------------------------------------------------
(* Arrangement                                                             *)

\* The items of a project.
TrackNames == Names \cup {"Instrument 1", "MIDI"}
TrackType == [id : Nat, name : TrackNames]
PatternType == [id : Nat, length : Nat]
PlacedClip == [id : Nat, track : Nat, pattern : Nat, start : Nat, duration : Nat \ {0}]
ArrangedType ==
  [tracks : Seq(TrackType), patterns : Seq(PatternType), clips : Seq(PlacedClip),
   nextTrack : Nat, nextPattern : Nat, nextClip : Nat]

\* No id is given twice, each is below the next one, and every clip has its
\* track and its pattern.
Apart(items) == \A i, j \in DOMAIN items : items[i].id = items[j].id => i = j
Under(items, n) == \A i \in DOMAIN items : items[i].id < n
InPlace(p) ==
  \A i \in DOMAIN p.clips : Has(p.tracks, p.clips[i].track) /\ Has(p.patterns, p.clips[i].pattern)
Sound(p) ==
  /\ p \in ArrangedType
  /\ Apart(p.tracks) /\ Apart(p.patterns) /\ Apart(p.clips)
  /\ Under(p.tracks, p.nextTrack) /\ Under(p.patterns, p.nextPattern) /\ Under(p.clips, p.nextClip)
  /\ InPlace(p)
Peopled(p) == p.tracks # << >> /\ p.patterns # << >>

\* The same of a document, its items being sets.
DocType == [tracks : SUBSET TrackType, patterns : SUBSET PatternType, clips : SUBSET PlacedClip]
Distinct(S) == \A x, y \in S : x.id = y.id => x = y
SoundDoc(d) ==
  /\ d \in DocType
  /\ Distinct(d.tracks) /\ Distinct(d.patterns) /\ Distinct(d.clips)
  /\ \A c \in d.clips : /\ \E t \in d.tracks : t.id = c.track
                        /\ \E q \in d.patterns : q.id = c.pattern
  /\ d.tracks # {} /\ d.patterns # {}
DocUnder(d, p) ==
  /\ \A t \in d.tracks : t.id < p.nextTrack
  /\ \A q \in d.patterns : q.id < p.nextPattern
  /\ \A c \in d.clips : c.id < p.nextClip

Edits ==
  [do : {"addTrack"}, track : TrackType]
    \cup [do : {"deleteTrack"}, track : TrackType, clips : Seq(PlacedClip)]
    \cup [do : {"renameTrack"}, old : TrackType, new : TrackType]
    \cup [do : {"createPattern"}, pattern : PatternType, clip : PlacedClip]
    \cup [do : {"changeClip"}, old : PlacedClip, new : PlacedClip]
    \cup [do : {"duplicateClip", "deleteClip"}, clip : PlacedClip]

\* What an edit changes: a is the document before it and b the one after.
AddsTrack(e, a, b) ==
  /\ e.do = "addTrack" /\ e.track \in TrackType
  /\ e.track \notin a.tracks /\ b.tracks = a.tracks \cup {e.track}
  /\ b.patterns = a.patterns /\ b.clips = a.clips
DeletesTrack(e, a, b) ==
  /\ e.do = "deleteTrack" /\ e.track \in TrackType /\ e.clips \in Seq(PlacedClip) /\ Apart(e.clips)
  /\ e.track \notin b.tracks /\ a.tracks = b.tracks \cup {e.track}
  /\ a.patterns = b.patterns
  /\ \A c \in ToSet(e.clips) : c.track = e.track.id /\ c \notin b.clips
  /\ a.clips = b.clips \cup ToSet(e.clips)
RenamesTrack(e, a, b) ==
  /\ e.do = "renameTrack" /\ e.old \in a.tracks /\ e.new \in b.tracks /\ e.old.id = e.new.id
  /\ b.tracks = (a.tracks \ {e.old}) \cup {e.new} /\ a.tracks = (b.tracks \ {e.new}) \cup {e.old}
  /\ b.patterns = a.patterns /\ b.clips = a.clips
CreatesPattern(e, a, b) ==
  /\ e.do = "createPattern" /\ e.pattern \in PatternType /\ e.clip \in PlacedClip
  /\ e.clip.pattern = e.pattern.id
  /\ e.pattern \notin a.patterns /\ b.patterns = a.patterns \cup {e.pattern}
  /\ e.clip \notin a.clips /\ b.clips = a.clips \cup {e.clip}
  /\ b.tracks = a.tracks
ChangesClip(e, a, b) ==
  /\ e.do = "changeClip" /\ e.old \in a.clips /\ e.new \in b.clips /\ e.old.id = e.new.id
  /\ b.clips = (a.clips \ {e.old}) \cup {e.new} /\ a.clips = (b.clips \ {e.new}) \cup {e.old}
  /\ b.tracks = a.tracks /\ b.patterns = a.patterns
AddsClip(e, a, b) ==
  /\ e.do = "duplicateClip" /\ e.clip \in PlacedClip
  /\ e.clip \notin a.clips /\ b.clips = a.clips \cup {e.clip}
  /\ b.tracks = a.tracks /\ b.patterns = a.patterns
DeletesClip(e, a, b) ==
  /\ e.do = "deleteClip" /\ e.clip \in PlacedClip
  /\ e.clip \notin b.clips /\ a.clips = b.clips \cup {e.clip}
  /\ b.tracks = a.tracks /\ b.patterns = a.patterns
Leads(e, a, b) ==
  \/ AddsTrack(e, a, b) \/ DeletesTrack(e, a, b) \/ RenamesTrack(e, a, b)
  \/ CreatesPattern(e, a, b) \/ ChangesClip(e, a, b) \/ AddsClip(e, a, b) \/ DeletesClip(e, a, b)

\* Every edit to undo or to redo leads from one document to the next.
DocsInv ==
  /\ undo \in Seq(Edits) /\ redo \in Seq(Edits)
  /\ docs \in Seq(DocType) /\ Len(docs) = Len(undo) + Len(redo) + 1
  /\ \A k \in DOMAIN docs : SoundDoc(docs[k]) /\ DocUnder(docs[k], project)
  /\ \A k \in DOMAIN undo : Leads(undo[k], docs[k], docs[k + 1])
  /\ \A k \in DOMAIN redo : Leads(redo[k], docs[Len(docs) - k], docs[Len(docs) - k + 1])
  /\ docs[Len(undo) + 1] = Arranged(project)

ArrangementInv == Sound(project) /\ Peopled(project) /\ DocsInv

-----------------------------------------------------------------------------
(* Lists of items                                                          *)

LEMMA HasSet == ASSUME NEW S, NEW items \in Seq(S), NEW id
                PROVE  Has(items, id) <=> \E x \in ToSet(items) : x.id = id
BY DEF Has, ToSet

LEMMA ApartSet == ASSUME NEW S, NEW items \in Seq(S), Apart(items)
                  PROVE  Distinct(ToSet(items))
BY DEF Apart, Distinct, ToSet

LEMMA Appended == 
  ASSUME NEW S, NEW items \in Seq(S), NEW x \in S
  PROVE  /\ Append(items, x) \in Seq(S)
         /\ ToSet(Append(items, x)) = ToSet(items) \cup {x}
         /\ Append(items, x) # << >>
<1>. DEFINE more == Append(items, x)
            n == Len(items)
<1>1. more \in Seq(S) /\ n \in Nat /\ DOMAIN more = 1 .. n + 1 /\ DOMAIN items = 1 .. n
      /\ more[n + 1] = x /\ \A i \in 1 .. n : more[i] = items[i]
  OBVIOUS
<1>. HIDE DEF more, n
<1>2. \A i \in 1 .. n + 1 : i \in 1 .. n \/ i = n + 1
  BY <1>1
<1>3. 1 .. n \subseteq 1 .. n + 1 /\ n + 1 \in 1 .. n + 1
  BY <1>1
<1>4. ToSet(more) = ToSet(items) \cup {x}
  BY <1>1, <1>2, <1>3 DEF ToSet
<1>5. more # << >>
  BY <1>1, <1>3
<1>. QED
  BY <1>1, <1>4, <1>5 DEF more

LEMMA AppendedApart == 
  ASSUME NEW S, NEW items \in Seq(S), NEW x \in S, Apart(items),
         \A i \in DOMAIN items : items[i].id # x.id
  PROVE  Apart(Append(items, x))
<1>. DEFINE more == Append(items, x)
            n == Len(items)
<1>1. n \in Nat /\ DOMAIN more = 1 .. n + 1 /\ DOMAIN items = 1 .. n
      /\ more[n + 1] = x /\ \A i \in 1 .. n : more[i] = items[i]
  OBVIOUS
<1>. HIDE DEF more, n
<1>2. \A i \in 1 .. n + 1 : i \in 1 .. n \/ i = n + 1
  BY <1>1
<1>3. ASSUME NEW i \in 1 .. n + 1, NEW j \in 1 .. n + 1, more[i].id = more[j].id PROVE i = j
  BY <1>1, <1>2, <1>3 DEF Apart
<1>. QED
  BY <1>1, <1>3 DEF Apart, more

LEMMA AppendedUnder ==
  ASSUME NEW S, NEW items \in Seq(S), NEW x \in S, NEW n \in Nat, NEW m \in Nat, n <= m,
         \A y \in S : y.id \in Nat, Under(items, n), x.id < m
  PROVE  Under(Append(items, x), m)
<1>. DEFINE more == Append(items, x)
            l == Len(items)
<1>1. l \in Nat /\ DOMAIN more = 1 .. l + 1 /\ DOMAIN items = 1 .. l
      /\ more[l + 1] = x /\ \A i \in 1 .. l : more[i] = items[i] /\ items[i] \in S
  OBVIOUS
<1>. HIDE DEF more, l
<1>2. \A i \in 1 .. l + 1 : i \in 1 .. l \/ i = l + 1
  BY <1>1
<1>3. ASSUME NEW i \in 1 .. l + 1 PROVE more[i].id < m
  <2>1. CASE i = l + 1
    BY <1>1, <2>1
  <2>2. CASE i \in 1 .. l
    <3>1. items[i].id < n /\ items[i].id \in Nat
      BY <1>1, <2>2 DEF Under
    <3>. QED
      BY <1>1, <2>2, <3>1
  <2>. QED
    BY <1>2, <2>1, <2>2
<1>. QED
  BY <1>1, <1>3 DEF Under, more

\* The items that Chosen keeps, in their order.
\* kept[k] is what Chosen keeps of the first k items.
KeepsOneByOne(items, f, values, S, kept) ==
  /\ kept \in [0 .. Len(items) -> Seq(S)]
  /\ kept[0] = << >> /\ Chosen(items, f, values) = kept[Len(items)]
  /\ \A k \in 1 .. Len(items) :
       kept[k] = IF items[k][f] \in values THEN Append(kept[k - 1], items[k]) ELSE kept[k - 1]

LEMMA ChosenKept ==
  ASSUME NEW S, NEW items \in Seq(S), NEW f, NEW values
  PROVE  \E kept : KeepsOneByOne(items, f, values, S, kept)
<1>. DEFINE n == Len(items)
            Keeps(k) == items[k][f] \in values
            step == [k \in 1 .. n |-> [x \in Seq(S) |-> IF Keeps(k) THEN Append(x, items[k]) ELSE x]]
            Body(g) == [k \in 0 .. n |-> IF k = 0 THEN << >>
                                         ELSE IF Keeps(k) THEN Append(g[k - 1], items[k]) ELSE g[k - 1]]
            kept == CHOOSE g : g = Body(g)
<1>0. Chosen(items, f, values) = kept[n]
  BY DEF Chosen
<1>. HIDE DEF Keeps
<1>1. n \in Nat /\ \A k \in 1 .. n : items[k] \in S
  OBVIOUS
<1>2. step \in [1 .. n -> [Seq(S) -> Seq(S)]]
  <2>1. \A x \in Seq(S), y \in S : Append(x, y) \in Seq(S)
    OBVIOUS
  <2>. QED
    BY <1>1, <2>1
<1>3. PICK d \in [0 .. n -> Seq(S)] : d[0] = << >> /\ \A k \in 1 .. n : d[k] = step[k][d[k - 1]]
  <2>1. Steps(n, Seq(S), step)
    BY <1>2 DEF Steps
  <2>2. << >> \in Seq(S)
    OBVIOUS
  <2>. HIDE DEF n, step
  <2>3. PICK p : Path(n, Seq(S), step, << >>, p)
    BY <1>1, <2>1, <2>2, StepsLead
  <2>. QED
    BY <2>3 DEF Path
<1>4. d = Body(d)
  <2>1. ASSUME NEW k \in 0 .. n PROVE d[k] = Body(d)[k]
    <3>1. CASE k = 0
      BY <1>3, <3>1
    <3>2. CASE k # 0
      <4>1. k \in 1 .. n /\ k - 1 \in 0 .. n
        BY <1>1, <3>2
      <4>2. d[k] = step[k][d[k - 1]] /\ d[k - 1] \in Seq(S)
        BY <1>3, <4>1
      <4>. QED
        BY <3>2, <4>1, <4>2
    <3>. QED
      BY <3>1, <3>2
  <2>. QED
    BY <1>3, <2>1
<1>5. kept = Body(kept)
  <2>. HIDE DEF Body
  <2>. QED
    BY <1>4
<1>. HIDE DEF kept
<1>6. kept[0] = << >>
      /\ \A k \in 1 .. n : kept[k] = IF Keeps(k) THEN Append(kept[k - 1], items[k]) ELSE kept[k - 1]
  <2>1. kept[0] = Body(kept)[0] /\ \A k \in 1 .. n : kept[k] = Body(kept)[k]
    <3>. HIDE DEF Body
    <3>. QED
      BY <1>5
  <2>2. 0 \in 0 .. n /\ \A k \in 1 .. n : k \in 0 .. n /\ k # 0
    BY <1>1
  <2>. QED
    BY <2>1, <2>2
<1>. DEFINE Good == {k \in 0 .. n : kept[k] \in Seq(S)}
<1>7. ASSUME NEW k \in 0 .. n PROVE kept[k] \in Seq(S)
  <2>1. Good \in SUBSET Nat /\ 0 \in Good
    <3>1. kept[0] \in Seq(S) /\ 0 \in 0 .. n
      <4>1. << >> \in Seq(S)
        OBVIOUS
      <4>. QED
        BY <1>1, <1>6, <4>1
    <3>. QED
      BY <3>1
  <2>2. \A j \in 0 .. n - 1 : j \in Good => j + 1 \in Good
    <3>1. ASSUME NEW j \in 0 .. n - 1, j \in Good PROVE j + 1 \in Good
      <4>1. j + 1 \in 1 .. n /\ (j + 1) - 1 = j /\ j + 1 \in 0 .. n
        BY <1>1
      <4>2. kept[j + 1] = IF Keeps(j + 1) THEN Append(kept[j], items[j + 1]) ELSE kept[j]
        BY <1>6, <4>1
      <4>3. Append(kept[j], items[j + 1]) \in Seq(S) /\ kept[j] \in Seq(S)
        BY <1>1, <3>1, <4>1
      <4>. QED
        BY <4>1, <4>2, <4>3
    <3>. QED
      BY <3>1
  <2>3. k \in Nat /\ 0 .. k - 1 \subseteq 0 .. n - 1
    BY <1>1
  <2>. HIDE DEF Good
  <2>4. \A j \in 0 .. k - 1 : j \in Good => j + 1 \in Good
    BY ONLY <2>2, <2>3, Zenon
  <2>5. k \in Good
    BY <2>1, <2>3, <2>4, CountUp, Zenon
  <2>. QED
    BY ONLY <2>5 DEF Good
<1>8. kept \in [0 .. n -> Seq(S)]
  <2>1. kept = [k \in 0 .. n |-> kept[k]]
    BY <1>5
  <2>. QED
    BY <1>7, <2>1
<1>. QED
  BY <1>0, <1>6, <1>8 DEF Keeps, KeepsOneByOne

LEMMA ChosenItems ==
  ASSUME NEW S, NEW items \in Seq(S), NEW f, NEW values
  PROVE  /\ Chosen(items, f, values) \in Seq(S)
         /\ ToSet(Chosen(items, f, values)) = {x \in ToSet(items) : x[f] \in values}
         /\ Apart(items) => Apart(Chosen(items, f, values))
<1>0. PICK kept : KeepsOneByOne(items, f, values, S, kept)
  BY ChosenKept, Zenon
<1>. DEFINE n == Len(items)
            Keeps(x) == x[f] \in values
            KeptTo(k) == {x \in S : \E j \in 1 .. k : x = items[j] /\ Keeps(x)}
<1>1. /\ kept \in [0 .. n -> Seq(S)]
      /\ kept[0] = << >> /\ Chosen(items, f, values) = kept[n]
      /\ \A k \in 1 .. n : kept[k] = IF Keeps(items[k]) THEN Append(kept[k - 1], items[k]) ELSE kept[k - 1]
  BY <1>0 DEF KeepsOneByOne
<1>. HIDE DEF Keeps
<1>2. n \in Nat /\ DOMAIN items = 1 .. n /\ \A k \in 1 .. n : items[k] \in S
  OBVIOUS
<1>. DEFINE Good == {k \in 0 .. n : ToSet(kept[k]) = KeptTo(k) /\ (Apart(items) => Apart(kept[k]))}
<1>3. Good \in SUBSET Nat
  OBVIOUS
<1>4. 0 \in Good
  <2>1. ToSet(kept[0]) = {} /\ Apart(kept[0])
    BY <1>1 DEF ToSet, Apart
  <2>2. KeptTo(0) = {}
    OBVIOUS
  <2>. QED
    BY <1>2, <2>1, <2>2
<1>5. ASSUME NEW k \in 0 .. n - 1, k \in Good PROVE k + 1 \in Good
  <2>1. k + 1 \in 1 .. n /\ (k + 1) - 1 = k /\ k \in 0 .. n /\ k + 1 \in 0 .. n
    BY <1>2
  <2>2. items[k + 1] \in S /\ kept[k] \in Seq(S)
    BY <1>1, <1>2, <2>1
  <2>3. kept[k + 1] = IF Keeps(items[k + 1]) THEN Append(kept[k], items[k + 1]) ELSE kept[k]
    BY <1>1, <2>1
  <2>4. ToSet(kept[k]) = KeptTo(k) /\ (Apart(items) => Apart(kept[k]))
    BY <1>5
  <2>5. \A j \in 1 .. k + 1 : j \in 1 .. k \/ j = k + 1
    BY <2>1
  <2>6. 1 .. k \subseteq 1 .. k + 1 /\ k + 1 \in 1 .. k + 1
    BY <2>1
  <2>7. CASE Keeps(items[k + 1])
    <3>1. kept[k + 1] = Append(kept[k], items[k + 1])
      BY <2>3, <2>7
    <3>2. ToSet(kept[k + 1]) = KeptTo(k) \cup {items[k + 1]}
      <4>. DEFINE before == kept[k]
                  item == items[k + 1]
      <4>1. before \in Seq(S) /\ item \in S
        BY <2>2
      <4>. HIDE DEF before, item
      <4>2. ToSet(Append(before, item)) = ToSet(before) \cup {item}
        BY ONLY <4>1, Appended
      <4>3. ToSet(Append(kept[k], items[k + 1])) = ToSet(kept[k]) \cup {items[k + 1]}
        BY ONLY <4>2 DEF before, item
      <4>. QED
        BY ONLY <2>4, <3>1, <4>3, Zenon
    <3>3. KeptTo(k + 1) = KeptTo(k) \cup {items[k + 1]}
      BY <2>2, <2>5, <2>6, <2>7
    <3>4. ASSUME Apart(items) PROVE Apart(kept[k + 1])
      <4>1. \A i \in DOMAIN kept[k] : kept[k][i].id # items[k + 1].id
        <5>1. TAKE i \in DOMAIN kept[k]
        <5>2. kept[k][i] \in KeptTo(k)
          BY <2>4 DEF ToSet
        <5>3. PICK j \in 1 .. k : kept[k][i] = items[j]
          BY <5>2
        <5>4. j \in 1 .. n /\ j # k + 1
          BY <2>1
        <5>. QED
          BY <1>2, <2>1, <3>4, <5>3, <5>4 DEF Apart
      <4>2. Apart(kept[k])
        BY <2>4, <3>4
      <4>3. Apart(Append(kept[k], items[k + 1]))
        BY <2>2, <4>1, <4>2, AppendedApart, Zenon
      <4>. QED
        BY <3>1, <4>3
    <3>. QED
      BY <2>1, <3>2, <3>3, <3>4
  <2>8. CASE ~Keeps(items[k + 1])
    <3>1. kept[k + 1] = kept[k]
      BY <2>3, <2>8
    <3>2. KeptTo(k + 1) = KeptTo(k)
      BY <2>5, <2>6, <2>8
    <3>. QED
      BY <2>1, <2>4, <3>1, <3>2
  <2>. QED
    BY <2>7, <2>8
<1>6. n \in Good
  <2>. HIDE DEF Good
  <2>. QED
    BY <1>2, <1>3, <1>4, <1>5, CountUp
<1>7. KeptTo(n) = {x \in ToSet(items) : Keeps(x)}
  BY <1>2 DEF ToSet
<1>8. n \in 0 .. n
  BY <1>2
<1>9. kept[n] \in Seq(S)
  BY <1>1, <1>8
<1>10. ToSet(kept[n]) = {x \in ToSet(items) : Keeps(x)} /\ (Apart(items) => Apart(kept[n]))
  BY ONLY <1>6, <1>7
<1>. QED
  BY ONLY <1>1, <1>9, <1>10 DEF Keeps

-----------------------------------------------------------------------------
(* Adding                                                                  *)

\* The ids given out only grow.
Later(p, q) ==
  p.nextTrack <= q.nextTrack /\ p.nextPattern <= q.nextPattern /\ p.nextClip <= q.nextClip

LEMMA StillLater ==
  ASSUME NEW p \in ArrangedType, NEW q \in ArrangedType, NEW r \in ArrangedType, Later(p, q), Later(q, r)
  PROVE  Later(p, r)
<1>1. \A x \in ArrangedType : x.nextTrack \in Int /\ x.nextPattern \in Int /\ x.nextClip \in Int
  BY DEF ArrangedType
<1>2. \A i, j, k \in Int : i <= j /\ j <= k => i <= k
  OBVIOUS
<1>3. p.nextTrack <= r.nextTrack
  BY <1>1, <1>2, Zenon DEF Later
<1>4. p.nextPattern <= r.nextPattern
  BY <1>1, <1>2, Zenon DEF Later
<1>5. p.nextClip <= r.nextClip
  BY <1>1, <1>2, Zenon DEF Later
<1>. QED
  BY <1>3, <1>4, <1>5 DEF Later

\* As late, where no id was given out.
LEMMA AsLate ==
  ASSUME NEW p \in ArrangedType, NEW q, q.nextTrack = p.nextTrack, q.nextPattern = p.nextPattern,
         q.nextClip = p.nextClip
  PROVE  Later(p, q)
BY DEF Later, ArrangedType

LEMMA AtLeastBoth ==
  ASSUME NEW n \in Nat, NEW id \in Nat
  PROVE  AtLeast(n, id) \in Nat /\ n <= AtLeast(n, id) /\ id < AtLeast(n, id)
BY DEF AtLeast

\* Where there are more tracks and patterns, clips keep theirs.
LEMMA StaysInPlace ==
  ASSUME NEW p \in ArrangedType, NEW q \in ArrangedType, InPlace(p), q.clips = p.clips,
         ToSet(p.tracks) \subseteq ToSet(q.tracks), ToSet(p.patterns) \subseteq ToSet(q.patterns)
  PROVE  InPlace(q)
<1>1. /\ p.tracks \in Seq(TrackType) /\ q.tracks \in Seq(TrackType)
      /\ p.patterns \in Seq(PatternType) /\ q.patterns \in Seq(PatternType)
  BY DEF ArrangedType
<1>2. \A id : Has(p.tracks, id) => Has(q.tracks, id)
  BY <1>1, HasSet
<1>3. \A id : Has(p.patterns, id) => Has(q.patterns, id)
  BY <1>1, HasSet
<1>. QED
  BY <1>2, <1>3 DEF InPlace

LEMMA TrackAdded ==
  ASSUME NEW p, Sound(p), NEW t \in TrackType, ~Has(p.tracks, t.id)
  PROVE  /\ Sound(AddTrack(p, t)) /\ Later(p, AddTrack(p, t))
         /\ AddTrack(p, t).tracks = Append(p.tracks, t)
         /\ AddTrack(p, t).patterns = p.patterns /\ AddTrack(p, t).clips = p.clips
<1>. DEFINE q == AddTrack(p, t)
            n == AtLeast(p.nextTrack, t.id)
<1>1. p \in ArrangedType
  BY DEF Sound
<1>2. t.id \in Nat /\ p.nextTrack \in Nat /\ p.tracks \in Seq(TrackType)
  BY <1>1 DEF TrackType, ArrangedType
<1>3. n \in Nat /\ p.nextTrack <= n /\ t.id < n
  BY <1>2, AtLeastBoth
<1>4. q = [p EXCEPT !.tracks = Append(@, t), !.nextTrack = n]
  BY DEF AddTrack
<1>. HIDE DEF q, n
<1>5. Append(p.tracks, t) \in Seq(TrackType) /\ ToSet(Append(p.tracks, t)) = ToSet(p.tracks) \cup {t}
  BY <1>2, Appended
<1>6. /\ q \in ArrangedType /\ q.tracks = Append(p.tracks, t) /\ q.patterns = p.patterns
      /\ q.clips = p.clips /\ q.nextTrack = n /\ q.nextPattern = p.nextPattern /\ q.nextClip = p.nextClip
  BY <1>1, <1>3, <1>4, <1>5 DEF ArrangedType
<1>7. Apart(q.tracks)
  <2>1. \A i \in DOMAIN p.tracks : p.tracks[i].id # t.id
    BY DEF Has
  <2>. QED
    BY <1>2, <1>6, <2>1, AppendedApart DEF Sound
<1>8. Under(q.tracks, q.nextTrack)
  <2>1. \A y \in TrackType : y.id \in Nat
    BY DEF TrackType
  <2>. QED
    BY <1>2, <1>3, <1>6, <2>1, AppendedUnder DEF Sound
<1>9. InPlace(q)
  BY <1>1, <1>5, <1>6, StaysInPlace DEF Sound
<1>10. Later(p, q)
  BY <1>1, <1>3, <1>6 DEF Later, ArrangedType
<1>. QED
  BY <1>6, <1>7, <1>8, <1>9, <1>10 DEF Sound, q

LEMMA PatternAdded ==
  ASSUME NEW p, Sound(p), NEW t \in PatternType, ~Has(p.patterns, t.id)
  PROVE  /\ Sound(AddPattern(p, t)) /\ Later(p, AddPattern(p, t))
         /\ AddPattern(p, t).patterns = Append(p.patterns, t)
         /\ AddPattern(p, t).tracks = p.tracks /\ AddPattern(p, t).clips = p.clips
<1>. DEFINE q == AddPattern(p, t)
            n == AtLeast(p.nextPattern, t.id)
<1>1. p \in ArrangedType
  BY DEF Sound
<1>2. t.id \in Nat /\ p.nextPattern \in Nat /\ p.patterns \in Seq(PatternType)
  BY <1>1 DEF PatternType, ArrangedType
<1>3. n \in Nat /\ p.nextPattern <= n /\ t.id < n
  BY <1>2, AtLeastBoth
<1>4. q = [p EXCEPT !.patterns = Append(@, t), !.nextPattern = n]
  BY DEF AddPattern
<1>. HIDE DEF q, n
<1>5. Append(p.patterns, t) \in Seq(PatternType) /\ ToSet(Append(p.patterns, t)) = ToSet(p.patterns) \cup {t}
  BY <1>2, Appended
<1>6. /\ q \in ArrangedType /\ q.patterns = Append(p.patterns, t) /\ q.tracks = p.tracks
      /\ q.clips = p.clips /\ q.nextPattern = n /\ q.nextTrack = p.nextTrack /\ q.nextClip = p.nextClip
  BY <1>1, <1>3, <1>4, <1>5 DEF ArrangedType
<1>7. Apart(q.patterns)
  <2>1. \A i \in DOMAIN p.patterns : p.patterns[i].id # t.id
    BY DEF Has
  <2>. QED
    BY <1>2, <1>6, <2>1, AppendedApart DEF Sound
<1>8. Under(q.patterns, q.nextPattern)
  <2>1. \A y \in PatternType : y.id \in Nat
    BY DEF PatternType
  <2>. QED
    BY <1>2, <1>3, <1>6, <2>1, AppendedUnder DEF Sound
<1>9. InPlace(q)
  BY <1>1, <1>5, <1>6, StaysInPlace DEF Sound
<1>10. Later(p, q)
  BY <1>1, <1>3, <1>6 DEF Later, ArrangedType
<1>. QED
  BY <1>6, <1>7, <1>8, <1>9, <1>10 DEF Sound, q

LEMMA ClipAdded ==
  ASSUME NEW p, Sound(p), NEW c \in PlacedClip, ~Has(p.clips, c.id),
         Has(p.tracks, c.track), Has(p.patterns, c.pattern)
  PROVE  /\ Sound(AddClip(p, c)) /\ Later(p, AddClip(p, c))
         /\ AddClip(p, c).clips = Append(p.clips, c)
         /\ AddClip(p, c).tracks = p.tracks /\ AddClip(p, c).patterns = p.patterns
<1>. DEFINE q == AddClip(p, c)
            n == AtLeast(p.nextClip, c.id)
<1>1. p \in ArrangedType
  BY DEF Sound
<1>2. c.id \in Nat /\ p.nextClip \in Nat /\ p.clips \in Seq(PlacedClip)
  BY <1>1 DEF PlacedClip, ArrangedType
<1>3. n \in Nat /\ p.nextClip <= n /\ c.id < n
  BY <1>2, AtLeastBoth
<1>4. q = [p EXCEPT !.clips = Append(@, c), !.nextClip = n]
  <2>1. c.start >= 0 /\ c.duration > 0
    BY DEF PlacedClip
  <2>. QED
    BY <2>1 DEF AddClip, Fits
<1>. HIDE DEF q, n
<1>5. Append(p.clips, c) \in Seq(PlacedClip) /\ ToSet(Append(p.clips, c)) = ToSet(p.clips) \cup {c}
  BY <1>2, Appended
<1>6. /\ q \in ArrangedType /\ q.clips = Append(p.clips, c) /\ q.tracks = p.tracks
      /\ q.patterns = p.patterns /\ q.nextClip = n /\ q.nextTrack = p.nextTrack
      /\ q.nextPattern = p.nextPattern
  BY <1>1, <1>3, <1>4, <1>5 DEF ArrangedType
<1>7. Apart(q.clips)
  <2>1. \A i \in DOMAIN p.clips : p.clips[i].id # c.id
    BY DEF Has
  <2>. QED
    BY <1>2, <1>6, <2>1, AppendedApart DEF Sound
<1>8. Under(q.clips, q.nextClip)
  <2>1. \A y \in PlacedClip : y.id \in Nat
    BY DEF PlacedClip
  <2>. QED
    BY <1>2, <1>3, <1>6, <2>1, AppendedUnder DEF Sound
<1>9. InPlace(q)
  <2>1. \A i \in DOMAIN q.clips : q.clips[i] \in ToSet(p.clips) \cup {c}
    BY <1>5, <1>6 DEF ToSet
  <2>2. \A x \in ToSet(p.clips) : Has(p.tracks, x.track) /\ Has(p.patterns, x.pattern)
    BY DEF Sound, InPlace, ToSet
  <2>. QED
    BY <1>6, <2>1, <2>2 DEF InPlace
<1>10. Later(p, q)
  BY <1>1, <1>3, <1>6, SMTT(20) DEF Later, ArrangedType
<1>. QED
  BY <1>6, <1>7, <1>8, <1>9, <1>10 DEF Sound, q

LEMMA AddTyped ==
  ASSUME NEW x \in ArrangedType
  PROVE  /\ \A y \in TrackType : Add(x, "tracks", y) \in ArrangedType
         /\ \A y \in PatternType : Add(x, "patterns", y) \in ArrangedType
         /\ \A y \in PlacedClip : Add(x, "clips", y) \in ArrangedType
<1>1. ASSUME NEW y \in TrackType PROVE AddTrack(x, y) \in ArrangedType
  <2>1. Append(x.tracks, y) \in Seq(TrackType) /\ AtLeast(x.nextTrack, y.id) \in Nat
    BY AtLeastBoth DEF ArrangedType, TrackType
  <2>2. [x EXCEPT !.tracks = Append(@, y), !.nextTrack = AtLeast(@, y.id)] \in ArrangedType
    BY <2>1 DEF ArrangedType
  <2>. QED
    BY <2>2 DEF AddTrack
<1>2. ASSUME NEW y \in PatternType PROVE AddPattern(x, y) \in ArrangedType
  <2>1. Append(x.patterns, y) \in Seq(PatternType) /\ AtLeast(x.nextPattern, y.id) \in Nat
    BY AtLeastBoth DEF ArrangedType, PatternType
  <2>2. [x EXCEPT !.patterns = Append(@, y), !.nextPattern = AtLeast(@, y.id)] \in ArrangedType
    BY <2>1 DEF ArrangedType
  <2>. QED
    BY <2>2 DEF AddPattern
<1>3. ASSUME NEW y \in PlacedClip PROVE AddClip(x, y) \in ArrangedType
  <2>1. Append(x.clips, y) \in Seq(PlacedClip) /\ AtLeast(x.nextClip, y.id) \in Nat
    BY AtLeastBoth, SMTT(20) DEF ArrangedType, PlacedClip
  <2>2. [x EXCEPT !.clips = Append(@, y), !.nextClip = AtLeast(@, y.id)] \in ArrangedType
    BY <2>1 DEF ArrangedType
  <2>. QED
    BY <2>2 DEF AddClip
<1>. QED
  BY <1>1, <1>2, <1>3 DEF Add

\* AddAll adds one item after another.
OneByOne(p, part, items, added) ==
  /\ added \in [0 .. Len(items) -> ArrangedType]
  /\ added[0] = p /\ AddAll(p, part, items) = added[Len(items)]
  /\ \A k \in 1 .. Len(items) : added[k] = Add(added[k - 1], part, items[k])

LEMMA AddAllSteps ==
  ASSUME NEW p \in ArrangedType, NEW part, NEW T, NEW items \in Seq(T),
         \A x \in ArrangedType : \A y \in T : Add(x, part, y) \in ArrangedType
  PROVE  \E added : OneByOne(p, part, items, added)
<1>. DEFINE n == Len(items)
            S == ArrangedType
            step == [k \in 1 .. n |-> [x \in S |-> Add(x, part, items[k])]]
            Body(g) == [k \in 0 .. n |-> IF k = 0 THEN p ELSE Add(g[k - 1], part, items[k])]
            added == CHOOSE g : g = Body(g)
<1>0. AddAll(p, part, items) = added[n]
  BY DEF AddAll
<1>1. n \in Nat /\ \A k \in 1 .. n : items[k] \in T
  OBVIOUS
<1>2. step \in [1 .. n -> [S -> S]]
  BY <1>1
<1>3. PICK d \in [0 .. n -> S] : d[0] = p /\ \A k \in 1 .. n : d[k] = step[k][d[k - 1]]
  <2>1. Steps(n, S, step)
    BY <1>2 DEF Steps
  <2>2. p \in S
    OBVIOUS
  <2>. HIDE DEF n, S, step
  <2>3. PICK path : Path(n, S, step, p, path)
    BY <1>1, <2>1, <2>2, StepsLead
  <2>. QED
    BY <2>3 DEF Path
<1>. HIDE DEF S
<1>4. d = Body(d)
  <2>1. ASSUME NEW k \in 0 .. n PROVE d[k] = Body(d)[k]
    <3>1. CASE k = 0
      BY <1>3, <3>1
    <3>2. CASE k # 0
      <4>1. k \in 1 .. n /\ k - 1 \in 0 .. n
        BY <1>1, <3>2
      <4>2. d[k] = step[k][d[k - 1]] /\ d[k - 1] \in S
        BY <1>3, <4>1
      <4>. QED
        BY <3>2, <4>1, <4>2
    <3>. QED
      BY <3>1, <3>2
  <2>. QED
    BY <1>3, <2>1
<1>5. added = Body(added)
  <2>. HIDE DEF Body
  <2>. QED
    BY <1>4
<1>. HIDE DEF added
<1>6. added[0] = p /\ \A k \in 1 .. n : added[k] = Add(added[k - 1], part, items[k])
  <2>1. added[0] = Body(added)[0] /\ \A k \in 1 .. n : added[k] = Body(added)[k]
    <3>. HIDE DEF Body
    <3>. QED
      BY <1>5
  <2>2. 0 \in 0 .. n /\ \A k \in 1 .. n : k \in 0 .. n /\ k # 0
    BY <1>1
  <2>. QED
    BY <2>1, <2>2
<1>. DEFINE Good == {k \in 0 .. n : added[k] \in S}
<1>7. ASSUME NEW k \in 0 .. n PROVE added[k] \in S
  <2>1. Good \in SUBSET Nat /\ 0 \in Good
    BY <1>1, <1>6 DEF S
  <2>2. \A j \in 0 .. n - 1 : j \in Good => j + 1 \in Good
    <3>1. ASSUME NEW j \in 0 .. n - 1, j \in Good PROVE j + 1 \in Good
      <4>1. j + 1 \in 1 .. n /\ (j + 1) - 1 = j /\ j + 1 \in 0 .. n
        BY <1>1
      <4>2. added[j + 1] = Add(added[j], part, items[j + 1])
        BY <1>6, <4>1
      <4>. QED
        BY <1>1, <3>1, <4>1, <4>2 DEF S
    <3>. QED
      BY <3>1
  <2>3. k \in Nat /\ 0 .. k - 1 \subseteq 0 .. n - 1
    BY <1>1
  <2>. HIDE DEF Good
  <2>4. \A j \in 0 .. k - 1 : j \in Good => j + 1 \in Good
    BY ONLY <2>2, <2>3, Zenon
  <2>5. k \in Good
    BY <2>1, <2>3, <2>4, CountUp, Zenon
  <2>. QED
    BY ONLY <2>5 DEF Good
<1>8. added \in [0 .. n -> S]
  <2>1. added = [k \in 0 .. n |-> added[k]]
    BY <1>5
  <2>. QED
    BY <1>7, <2>1
<1>. QED
  BY <1>0, <1>6, <1>8 DEF S, OneByOne

\* s is a, and behind it the first k items of b.
Joined(s, a, b, k) ==
  /\ Len(s) = Len(a) + k
  /\ \A i \in 1 .. Len(a) : s[i] = a[i]
  /\ \A j \in 1 .. k : s[Len(a) + j] = b[j]

LEMMA JoinedMore ==
  ASSUME NEW T, NEW s \in Seq(T), NEW a \in Seq(T), NEW b \in Seq(T), NEW k \in Nat, k < Len(b),
         Joined(s, a, b, k)
  PROVE  Joined(Append(s, b[k + 1]), a, b, k + 1)
<1>. DEFINE m == Len(a)
            l == Len(s)
            more == Append(s, b[k + 1])
<1>1. m \in Nat /\ l \in Nat /\ l = m + k
  BY DEF Joined
<1>2. Len(more) = l + 1 /\ more[l + 1] = b[k + 1] /\ \A i \in 1 .. l : more[i] = s[i]
  OBVIOUS
<1>3. (\A i \in 1 .. m : s[i] = a[i]) /\ (\A j \in 1 .. k : s[m + j] = b[j])
  BY DEF Joined
<1>. HIDE DEF m, l, more
<1>4. \A i \in 1 .. m : more[i] = a[i]
  <2>1. \A i \in 1 .. m : i \in 1 .. l
    BY <1>1
  <2>. QED
    BY <1>2, <1>3, <2>1
<1>5. ASSUME NEW j \in 1 .. k + 1 PROVE more[m + j] = b[j]
  <2>1. CASE j = k + 1
    <3>1. m + j = l + 1
      BY <1>1, <2>1
    <3>. QED
      BY <1>2, <2>1, <3>1
  <2>2. CASE j \in 1 .. k
    <3>1. m + j \in 1 .. l
      BY <1>1, <2>2
    <3>. QED
      BY <1>2, <1>3, <2>2, <3>1
  <2>. QED
    BY <2>1, <2>2
<1>6. Len(more) = m + (k + 1)
  BY <1>1, <1>2
<1>. QED
  BY <1>4, <1>5, <1>6 DEF Joined, m, more

LEMMA JoinedAll ==
  ASSUME NEW T, NEW s \in Seq(T), NEW a \in Seq(T), NEW b \in Seq(T), Joined(s, a, b, Len(b))
  PROVE  /\ ToSet(s) = ToSet(a) \cup ToSet(b)
         /\ a = << >> => s = b
<1>. DEFINE m == Len(a)
            n == Len(b)
<1>1. /\ m \in Nat /\ n \in Nat /\ DOMAIN s = 1 .. Len(s) /\ Len(s) = m + n
      /\ DOMAIN a = 1 .. m /\ DOMAIN b = 1 .. n
  BY DEF Joined
<1>2. (\A i \in 1 .. m : s[i] = a[i]) /\ (\A j \in 1 .. n : s[m + j] = b[j])
  BY DEF Joined
<1>. HIDE DEF m, n
<1>3. \A i \in 1 .. m : i \in DOMAIN s
  BY <1>1
<1>4. \A j \in 1 .. n : m + j \in DOMAIN s
  BY <1>1
<1>5. \A i \in DOMAIN s : i \in 1 .. m \/ \E j \in 1 .. n : i = m + j
  <2>1. TAKE i \in DOMAIN s
  <2>2. i \in 1 .. m \/ (i - m \in 1 .. n /\ i = m + (i - m))
    BY <1>1
  <2>. QED
    BY <2>2
<1>6. ToSet(s) \subseteq ToSet(a) \cup ToSet(b)
  <2>1. SUFFICES ASSUME NEW i \in DOMAIN s PROVE s[i] \in ToSet(a) \cup ToSet(b)
    BY DEF ToSet
  <2>2. CASE i \in 1 .. m
    BY <1>1, <1>2, <2>2 DEF ToSet
  <2>3. CASE \E j \in 1 .. n : i = m + j
    BY <1>1, <1>2, <2>3 DEF ToSet
  <2>. QED
    BY <1>5, <2>2, <2>3
<1>7. ToSet(a) \cup ToSet(b) \subseteq ToSet(s)
  BY <1>1, <1>2, <1>3, <1>4 DEF ToSet
<1>8. ASSUME a = << >> PROVE s = b
  <2>1. m = 0
    BY <1>8 DEF m
  <2>2. Len(s) = Len(b) /\ \A j \in 1 .. Len(b) : s[j] = b[j]
    BY <1>1, <1>2, <2>1 DEF n
  <2>. QED
    BY <2>2
<1>. QED
  BY <1>6, <1>7, <1>8

\* Where each item is added to what Q allows, all of them are.
LEMMA AddAllJoins ==
  ASSUME NEW Q \in SUBSET ArrangedType, NEW p \in Q, NEW part, NEW T, NEW items \in Seq(T),
         Apart(items), \A k \in DOMAIN items : ~Has(p[part], items[k].id),
         \A x \in ArrangedType : \A y \in T : Add(x, part, y) \in ArrangedType,
         \A x \in Q : x[part] \in Seq(T),
         \A x \in Q : \A y \in ToSet(items) :
           ~Has(x[part], y.id) => Add(x, part, y) \in Q /\ Add(x, part, y)[part] = Append(x[part], y)
  PROVE  AddAll(p, part, items) \in Q /\ Joined(AddAll(p, part, items)[part], p[part], items, Len(items))
<1>1. PICK added \in [0 .. Len(items) -> ArrangedType] :
        /\ added[0] = p /\ AddAll(p, part, items) = added[Len(items)]
        /\ \A k \in 1 .. Len(items) : added[k] = Add(added[k - 1], part, items[k])
  <2>1. p \in ArrangedType
    OBVIOUS
  <2>2. PICK made : OneByOne(p, part, items, made)
    BY <2>1, AddAllSteps, Zenon
  <2>. QED
    BY <2>2 DEF OneByOne
<1>. DEFINE n == Len(items)
            a == p[part]
            Good == {k \in 0 .. n : added[k] \in Q /\ Joined(added[k][part], a, items, k)}
<1>2. n \in Nat /\ DOMAIN items = 1 .. n /\ a \in Seq(T)
  OBVIOUS
<1>. HIDE DEF n, a
<1>3. 0 \in Good
  <2>1. Joined(added[0][part], a, items, 0)
    <3>1. Len(added[0][part]) = Len(a) /\ \A i \in 1 .. Len(a) : added[0][part][i] = a[i]
      BY <1>1 DEF a
    <3>2. Len(a) = Len(a) + 0 /\ 1 .. 0 = {}
      BY <1>2
    <3>. QED
      BY <3>1, <3>2 DEF Joined
  <2>. QED
    BY <1>1, <1>2, <2>1
<1>4. ASSUME NEW k \in 0 .. n - 1, k \in Good PROVE k + 1 \in Good
  <2>. DEFINE x == added[k]
              y == items[k + 1]
              s == x[part]
  <2>1. k + 1 \in 1 .. n /\ (k + 1) - 1 = k /\ k + 1 \in 0 .. n /\ k \in Nat /\ k < n
    BY <1>2
  <2>2. x \in Q /\ Joined(s, a, items, k)
    BY <1>4
  <2>3. y \in T /\ y \in ToSet(items) /\ s \in Seq(T)
    <3>1. k + 1 \in DOMAIN items
      BY <1>2, <2>1
    <3>3. y \in ToSet(items)
      BY <3>1 DEF ToSet
    <3>4. y \in T
      BY <3>1
    <3>2. s \in Seq(T)
      <4>. HIDE DEF x
      <4>. QED
        BY <2>2
    <3>. QED
      BY <3>2, <3>3, <3>4
  <2>. HIDE DEF x, s
  <2>4. ~Has(s, y.id)
    <3>1. SUFFICES ASSUME NEW i \in DOMAIN s, s[i].id = y.id PROVE FALSE
      BY DEF Has
    <3>2. DOMAIN s = 1 .. Len(a) + k /\ Len(a) \in Nat
      BY <1>2, <2>2, <2>3 DEF Joined
    <3>3. CASE i \in 1 .. Len(a)
      <4>1. s[i] = a[i] /\ i \in DOMAIN a
        BY <1>2, <2>2, <3>3 DEF Joined
      <4>2. ~Has(a, y.id)
        BY <1>2, <2>1 DEF a
      <4>. QED
        BY <3>1, <4>1, <4>2 DEF Has
    <3>4. CASE i \notin 1 .. Len(a)
      <4>1. i - Len(a) \in 1 .. k /\ i = Len(a) + (i - Len(a))
        BY <2>1, <3>2, <3>4, SMTT(20)
      <4>2. s[i] = items[i - Len(a)]
        BY <2>2, <4>1 DEF Joined
      <4>3. i - Len(a) \in DOMAIN items /\ k + 1 \in DOMAIN items /\ i - Len(a) # k + 1
        <5>1. \A j \in 1 .. k : j \in 1 .. n /\ j # k + 1
          BY <1>2, <2>1
        <5>. QED
          BY <1>2, <2>1, <4>1, <5>1
      <4>. QED
        BY <3>1, <4>2, <4>3 DEF Apart
    <3>. QED
      BY <3>3, <3>4
  <2>5. added[k + 1] = Add(x, part, y)
    BY <1>1, <2>1 DEF n, x
  <2>6. added[k + 1] \in Q /\ added[k + 1][part] = Append(s, y)
    BY <2>2, <2>3, <2>4, <2>5 DEF s
  <2>7. Joined(Append(s, y), a, items, k + 1)
    BY <1>2, <2>1, <2>2, <2>3, JoinedMore DEF n
  <2>. QED
    BY <2>1, <2>6, <2>7
<1>5. n \in Good
  <2>1. Good \in SUBSET Nat
    OBVIOUS
  <2>. HIDE DEF Good
  <2>. QED
    BY <1>2, <1>3, <1>4, <2>1, CountUp
<1>. QED
  BY <1>1, <1>5 DEF n, a

LEMMA TracksAllAdded ==
  ASSUME NEW p, Sound(p), NEW items \in Seq(TrackType), Apart(items),
         \A k \in DOMAIN items : ~Has(p.tracks, items[k].id)
  PROVE  /\ Sound(AddAll(p, "tracks", items)) /\ Later(p, AddAll(p, "tracks", items))
         /\ AddAll(p, "tracks", items).patterns = p.patterns /\ AddAll(p, "tracks", items).clips = p.clips
         /\ Joined(AddAll(p, "tracks", items).tracks, p.tracks, items, Len(items))
<1>. DEFINE Q == {x \in ArrangedType : Sound(x) /\ Later(p, x) /\ x.patterns = p.patterns /\ x.clips = p.clips}
<1>1. Q \in SUBSET ArrangedType
  OBVIOUS
<1>2. p \in Q
  BY DEF Sound, Later, ArrangedType
<1>3. \A x \in ArrangedType : \A y \in TrackType : Add(x, "tracks", y) \in ArrangedType
  BY AddTyped
<1>4. \A x \in Q : x["tracks"] \in Seq(TrackType)
  BY DEF ArrangedType
<1>5. ASSUME NEW x \in Q, NEW y \in ToSet(items), ~Has(x["tracks"], y.id)
      PROVE  Add(x, "tracks", y) \in Q /\ Add(x, "tracks", y)["tracks"] = Append(x["tracks"], y)
  <2>1. y \in TrackType
    BY DEF ToSet
  <2>2. Add(x, "tracks", y) = AddTrack(x, y)
    BY DEF Add
  <2>3. Sound(x) /\ x.patterns = p.patterns /\ x.clips = p.clips /\ ~Has(x.tracks, y.id)
    BY <1>5
  <2>5. /\ Sound(AddTrack(x, y)) /\ Later(x, AddTrack(x, y)) /\ AddTrack(x, y).tracks = Append(x.tracks, y)
        /\ AddTrack(x, y).patterns = x.patterns /\ AddTrack(x, y).clips = x.clips
    BY <2>1, <2>3, TrackAdded
  <2>6. AddTrack(x, y) \in ArrangedType
    BY <2>5 DEF Sound
  <2>7. Later(p, AddTrack(x, y))
    <3>1. x \in ArrangedType /\ Later(p, x) /\ p \in ArrangedType
      BY <1>2
    <3>. QED
      BY <2>5, <2>6, <3>1, StillLater
  <2>. QED
    BY <2>2, <2>3, <2>5, <2>6, <2>7
<1>6. \A k \in DOMAIN items : ~Has(p["tracks"], items[k].id)
  OBVIOUS
<1>. HIDE DEF Q
<1>7. /\ AddAll(p, "tracks", items) \in Q
      /\ Joined(AddAll(p, "tracks", items)["tracks"], p["tracks"], items, Len(items))
  BY <1>1, <1>2, <1>3, <1>4, <1>5, <1>6, AddAllJoins, Zenon
<1>. QED
  BY <1>7 DEF Q

LEMMA PatternsAllAdded ==
  ASSUME NEW p, Sound(p), NEW items \in Seq(PatternType), Apart(items),
         \A k \in DOMAIN items : ~Has(p.patterns, items[k].id)
  PROVE  /\ Sound(AddAll(p, "patterns", items)) /\ Later(p, AddAll(p, "patterns", items))
         /\ AddAll(p, "patterns", items).tracks = p.tracks /\ AddAll(p, "patterns", items).clips = p.clips
         /\ Joined(AddAll(p, "patterns", items).patterns, p.patterns, items, Len(items))
<1>. DEFINE Q == {x \in ArrangedType : Sound(x) /\ Later(p, x) /\ x.tracks = p.tracks /\ x.clips = p.clips}
<1>1. Q \in SUBSET ArrangedType
  OBVIOUS
<1>2. p \in Q
  BY DEF Sound, Later, ArrangedType
<1>3. \A x \in ArrangedType : \A y \in PatternType : Add(x, "patterns", y) \in ArrangedType
  BY AddTyped
<1>4. \A x \in Q : x["patterns"] \in Seq(PatternType)
  BY DEF ArrangedType
<1>5. ASSUME NEW x \in Q, NEW y \in ToSet(items), ~Has(x["patterns"], y.id)
      PROVE  Add(x, "patterns", y) \in Q /\ Add(x, "patterns", y)["patterns"] = Append(x["patterns"], y)
  <2>1. y \in PatternType
    BY DEF ToSet
  <2>2. Add(x, "patterns", y) = AddPattern(x, y)
    BY DEF Add
  <2>3. Sound(x) /\ x.tracks = p.tracks /\ x.clips = p.clips /\ ~Has(x.patterns, y.id)
    BY <1>5
  <2>5. /\ Sound(AddPattern(x, y)) /\ Later(x, AddPattern(x, y)) /\ AddPattern(x, y).patterns = Append(x.patterns, y)
        /\ AddPattern(x, y).tracks = x.tracks /\ AddPattern(x, y).clips = x.clips
    BY <2>1, <2>3, PatternAdded
  <2>6. AddPattern(x, y) \in ArrangedType
    BY <2>5 DEF Sound
  <2>7. Later(p, AddPattern(x, y))
    <3>1. x \in ArrangedType /\ Later(p, x) /\ p \in ArrangedType
      BY <1>2
    <3>. QED
      BY <2>5, <2>6, <3>1, StillLater
  <2>. QED
    BY <2>2, <2>3, <2>5, <2>6, <2>7
<1>6. \A k \in DOMAIN items : ~Has(p["patterns"], items[k].id)
  OBVIOUS
<1>. HIDE DEF Q
<1>7. /\ AddAll(p, "patterns", items) \in Q
      /\ Joined(AddAll(p, "patterns", items)["patterns"], p["patterns"], items, Len(items))
  BY <1>1, <1>2, <1>3, <1>4, <1>5, <1>6, AddAllJoins, Zenon
<1>. QED
  BY <1>7 DEF Q

LEMMA ClipsAllAdded ==
  ASSUME NEW p, Sound(p), NEW items \in Seq(PlacedClip), Apart(items),
         \A k \in DOMAIN items : 
           /\ ~Has(p.clips, items[k].id)
           /\ Has(p.tracks, items[k].track) /\ Has(p.patterns, items[k].pattern)
  PROVE  /\ Sound(AddAll(p, "clips", items)) /\ Later(p, AddAll(p, "clips", items))
         /\ AddAll(p, "clips", items).tracks = p.tracks /\ AddAll(p, "clips", items).patterns = p.patterns
         /\ Joined(AddAll(p, "clips", items).clips, p.clips, items, Len(items))
<1>. DEFINE Q == {x \in ArrangedType : Sound(x) /\ Later(p, x) /\ x.tracks = p.tracks /\ x.patterns = p.patterns}
<1>1. Q \in SUBSET ArrangedType
  OBVIOUS
<1>2. p \in Q
  BY DEF Sound, Later, ArrangedType
<1>3. \A x \in ArrangedType : \A y \in PlacedClip : Add(x, "clips", y) \in ArrangedType
  BY AddTyped
<1>4. \A x \in Q : x["clips"] \in Seq(PlacedClip)
  BY DEF ArrangedType
<1>5. ASSUME NEW x \in Q, NEW y \in ToSet(items), ~Has(x["clips"], y.id)
      PROVE  Add(x, "clips", y) \in Q /\ Add(x, "clips", y)["clips"] = Append(x["clips"], y)
  <2>1. y \in PlacedClip
    BY DEF ToSet
  <2>2. Add(x, "clips", y) = AddClip(x, y)
    BY DEF Add
  <2>3. Sound(x) /\ x.tracks = p.tracks /\ x.patterns = p.patterns /\ ~Has(x.clips, y.id)
    BY <1>5
  <2>4. Has(x.tracks, y.track) /\ Has(x.patterns, y.pattern)
    BY <2>3 DEF ToSet
  <2>5. /\ Sound(AddClip(x, y)) /\ Later(x, AddClip(x, y)) /\ AddClip(x, y).clips = Append(x.clips, y)
        /\ AddClip(x, y).tracks = x.tracks /\ AddClip(x, y).patterns = x.patterns
    BY <2>1, <2>3, <2>4, ClipAdded
  <2>6. AddClip(x, y) \in ArrangedType
    BY <2>5 DEF Sound
  <2>7. Later(p, AddClip(x, y))
    <3>1. x \in ArrangedType /\ Later(p, x) /\ p \in ArrangedType
      BY <1>2
    <3>. QED
      BY <2>5, <2>6, <3>1, StillLater
  <2>. QED
    BY <2>2, <2>3, <2>5, <2>6, <2>7
<1>6. \A k \in DOMAIN items : ~Has(p["clips"], items[k].id)
  OBVIOUS
<1>. HIDE DEF Q
<1>7. /\ AddAll(p, "clips", items) \in Q
      /\ Joined(AddAll(p, "clips", items)["clips"], p["clips"], items, Len(items))
  BY <1>1, <1>2, <1>3, <1>4, <1>5, <1>6, AddAllJoins, Zenon
<1>. QED
  BY <1>7 DEF Q

LEMMA JoinedNone ==
  ASSUME NEW T, NEW s \in Seq(T), NEW b \in Seq(T), Joined(s, << >>, b, Len(b))
  PROVE  s = b
<1>1. << >> \in Seq(T)
  OBVIOUS
<1>2. << >> = << >> => s = b
  BY <1>1, JoinedAll, Zenon
<1>. QED
  BY <1>2

-----------------------------------------------------------------------------
(* Saving and opening                                                      *)

LEMMA ClearedSound == Sound(Cleared)
<1>1. Cleared \in ArrangedType
  BY DEF Cleared, ArrangedType
<1>2. Cleared.tracks = << >> /\ Cleared.patterns = << >> /\ Cleared.clips = << >>
  BY DEF Cleared
<1>. QED
  BY <1>1, <1>2 DEF Sound, Apart, Under, InPlace

LEMMA LoadsTheSame ==
  ASSUME NEW p, Sound(p)
  PROVE  /\ Sound(Loaded(p)) /\ Loaded(p).tracks = p.tracks
         /\ Loaded(p).patterns = p.patterns /\ Loaded(p).clips = p.clips
<1>. DEFINE a == AddAll(Cleared, "tracks", p.tracks)
            b == AddAll(a, "patterns", p.patterns)
            c == AddAll(b, "clips", p.clips)
<1>1. /\ p.tracks \in Seq(TrackType) /\ p.patterns \in Seq(PatternType) /\ p.clips \in Seq(PlacedClip)
      /\ Apart(p.tracks) /\ Apart(p.patterns) /\ Apart(p.clips) /\ InPlace(p)
  BY DEF Sound, ArrangedType
<1>2. /\ Cleared.tracks = << >> /\ Cleared.patterns = << >> /\ Cleared.clips = << >>
      /\ \A id : ~Has(<< >>, id)
  BY DEF Cleared, Has
<1>3. Sound(a) /\ a.patterns = << >> /\ a.clips = << >> /\ Joined(a.tracks, << >>, p.tracks, Len(p.tracks))
  BY <1>1, <1>2, ClearedSound, TracksAllAdded
<1>4. a.tracks = p.tracks
  <2>1. a.tracks \in Seq(TrackType) /\ << >> \in Seq(TrackType) /\ p.tracks \in Seq(TrackType)
    BY <1>1, <1>3 DEF Sound, ArrangedType
  <2>2. Joined(a.tracks, << >>, p.tracks, Len(p.tracks))
    BY <1>1, <1>3
  <2>. QED
    BY <2>1, <2>2, JoinedNone, Zenon
<1>. HIDE DEF a
<1>5. Sound(b) /\ b.tracks = p.tracks /\ b.clips = << >>
      /\ Joined(b.patterns, << >>, p.patterns, Len(p.patterns))
  BY <1>1, <1>2, <1>3, <1>4, PatternsAllAdded
<1>6. b.patterns = p.patterns
  <2>1. b.patterns \in Seq(PatternType) /\ << >> \in Seq(PatternType) /\ p.patterns \in Seq(PatternType)
    BY <1>1, <1>5 DEF Sound, ArrangedType
  <2>2. Joined(b.patterns, << >>, p.patterns, Len(p.patterns))
    BY <1>1, <1>5
  <2>. QED
    BY <2>1, <2>2, JoinedNone, Zenon
<1>. HIDE DEF b
<1>7. \A k \in DOMAIN p.clips :
        /\ ~Has(b.clips, p.clips[k].id)
        /\ Has(b.tracks, p.clips[k].track) /\ Has(b.patterns, p.clips[k].pattern)
  BY <1>1, <1>2, <1>5, <1>6 DEF InPlace
<1>8. /\ Sound(c) /\ c.tracks = p.tracks /\ c.patterns = p.patterns
      /\ Joined(c.clips, << >>, p.clips, Len(p.clips))
  BY <1>1, <1>5, <1>6, <1>7, ClipsAllAdded
<1>9. c.clips = p.clips
  <2>1. c.clips \in Seq(PlacedClip) /\ << >> \in Seq(PlacedClip) /\ p.clips \in Seq(PlacedClip)
    BY <1>1, <1>8 DEF Sound, ArrangedType
  <2>2. Joined(c.clips, << >>, p.clips, Len(p.clips))
    BY <1>1, <1>8
  <2>. QED
    BY <2>1, <2>2, JoinedNone, Zenon
<1>. QED
  BY <1>8, <1>9 DEF Loaded, a, b

LEMMA SoundLoads ==
  ASSUME NEW p, Sound(p), Peopled(p)
  PROVE  Loadable(p)
<1>1. \A items \in {p.tracks, p.patterns, p.clips} :
        \A i, j \in DOMAIN items : items[i].id = items[j].id => i = j
  BY DEF Sound, Apart
<1>2. ASSUME NEW i \in DOMAIN p.clips PROVE Fits([p EXCEPT !.clips = << >>], p.clips[i])
  <2>. DEFINE q == [p EXCEPT !.clips = << >>]
  <2>1. q.clips = << >> /\ q.tracks = p.tracks /\ q.patterns = p.patterns
    BY DEF Sound, ArrangedType
  <2>2. p.clips[i] \in PlacedClip
    BY DEF Sound, ArrangedType
  <2>3. p.clips[i].start >= 0 /\ p.clips[i].duration > 0
    BY <2>2 DEF PlacedClip
  <2>4. Has(p.tracks, p.clips[i].track) /\ Has(p.patterns, p.clips[i].pattern)
    BY DEF Sound, InPlace
  <2>5. ~Has(q.clips, p.clips[i].id)
    BY <2>1 DEF Has
  <2>. HIDE DEF q
  <2>6. Fits(q, p.clips[i])
    BY <2>1, <2>3, <2>4, <2>5 DEF Fits
  <2>. QED
    BY <2>6 DEF q
<1>. QED
  BY <1>1, <1>2 DEF Loadable, Peopled

LEMMA FreshSound == Sound(Fresh) /\ Peopled(Fresh)
<1>. DEFINE t == Track(1, "Instrument 1")
            q == Pattern(1, NewLength)
            c == Clip(1, 1, 1, 0, NewLength)
            p1 == AddTrack(Cleared, t)
            p2 == AddPattern(p1, q)
            p3 == AddClip(p2, c)
<1>1. t \in TrackType /\ q \in PatternType /\ c \in PlacedClip
  BY ArrangementAssumption DEF Track, Pattern, Clip, TrackType, PatternType, PlacedClip, TrackNames
<1>2. t.id = 1 /\ q.id = 1 /\ c.id = 1 /\ c.track = 1 /\ c.pattern = 1
  BY DEF Track, Pattern, Clip
<1>. HIDE DEF t, q, c
<1>3. /\ Cleared.tracks = << >> /\ Cleared.patterns = << >> /\ Cleared.clips = << >>
      /\ \A id : ~Has(<< >>, id)
  BY DEF Cleared, Has
<1>4. Sound(p1) /\ p1.tracks = Append(<< >>, t) /\ p1.patterns = << >> /\ p1.clips = << >>
  BY <1>1, <1>3, ClearedSound, TrackAdded
<1>. HIDE DEF p1
<1>5. Sound(p2) /\ p2.tracks = p1.tracks /\ p2.patterns = Append(<< >>, q) /\ p2.clips = << >>
  BY <1>1, <1>3, <1>4, PatternAdded
<1>. HIDE DEF p2
<1>6. Append(<< >>, t)[1] = t /\ 1 \in DOMAIN Append(<< >>, t)
      /\ Append(<< >>, q)[1] = q /\ 1 \in DOMAIN Append(<< >>, q)
  OBVIOUS
<1>7. Has(p2.tracks, 1) /\ Has(p2.patterns, 1)
  BY <1>2, <1>4, <1>5, <1>6 DEF Has
<1>8. Sound(p3) /\ p3.tracks = p2.tracks /\ p3.patterns = p2.patterns
  BY <1>1, <1>2, <1>3, <1>5, <1>7, ClipAdded
<1>9. Append(<< >>, t) # << >> /\ Append(<< >>, q) # << >>
  OBVIOUS
<1>. QED
  BY <1>4, <1>5, <1>8, <1>9 DEF Peopled, Fresh, p1, p2, t, q, c

-----------------------------------------------------------------------------
(* Removing and changing                                                   *)

LEMMA WithoutItems ==
  ASSUME NEW S, NEW items \in Seq(S), NEW f, NEW id
  PROVE  /\ Without(items, f, id) \in Seq(S)
         /\ \A x : x \in ToSet(Without(items, f, id)) <=> x \in ToSet(items) /\ x[f] # id
         /\ Apart(items) => Apart(Without(items, f, id))
<1>. DEFINE values == {items[i][f] : i \in DOMAIN items} \ {id}
<1>1. \A x \in ToSet(items) : x[f] \in values <=> x[f] # id
  BY DEF ToSet
<1>. HIDE DEF values
<1>2. /\ Chosen(items, f, values) \in Seq(S)
      /\ ToSet(Chosen(items, f, values)) = {x \in ToSet(items) : x[f] \in values}
      /\ Apart(items) => Apart(Chosen(items, f, values))
  BY ChosenItems, Zenon
<1>3. {x \in ToSet(items) : x[f] \in values} = {x \in ToSet(items) : x[f] # id}
  BY <1>1
<1>4. Without(items, f, id) = Chosen(items, f, values)
  BY DEF Without, values
<1>. QED
  BY <1>2, <1>3, <1>4

LEMMA WithItems ==
  ASSUME NEW S, NEW items \in Seq(S), NEW f, NEW id
  PROVE  /\ With(items, f, id) \in Seq(S)
         /\ \A x : x \in ToSet(With(items, f, id)) <=> x \in ToSet(items) /\ x[f] = id
         /\ Apart(items) => Apart(With(items, f, id))
<1>. DEFINE values == {id}
<1>1. \A x \in ToSet(items) : x[f] \in values <=> x[f] = id
  OBVIOUS
<1>. HIDE DEF values
<1>2. /\ Chosen(items, f, values) \in Seq(S)
      /\ ToSet(Chosen(items, f, values)) = {x \in ToSet(items) : x[f] \in values}
      /\ Apart(items) => Apart(Chosen(items, f, values))
  BY ChosenItems, Zenon
<1>3. With(items, f, id) = Chosen(items, f, values)
  BY DEF With, values
<1>. QED
  BY <1>1, <1>2, <1>3

LEMMA NotEmpty == ASSUME NEW s, ToSet(s) # {} PROVE s # << >>
BY DEF ToSet

LEMMA FewerUnder ==
  ASSUME NEW items, NEW fewer, NEW n, ToSet(fewer) \subseteq ToSet(items), Under(items, n)
  PROVE  Under(fewer, n)
BY DEF Under, ToSet

LEMMA SoundItems ==
  ASSUME NEW p, Sound(p)
  PROVE  /\ p \in ArrangedType
         /\ p.tracks \in Seq(TrackType) /\ p.patterns \in Seq(PatternType) /\ p.clips \in Seq(PlacedClip)
         /\ p.nextTrack \in Nat /\ p.nextPattern \in Nat /\ p.nextClip \in Nat
         /\ ToSet(p.tracks) \subseteq TrackType /\ ToSet(p.patterns) \subseteq PatternType
         /\ ToSet(p.clips) \subseteq PlacedClip
         /\ \A c \in ToSet(p.clips) : /\ \E t \in ToSet(p.tracks) : t.id = c.track
                                      /\ \E q \in ToSet(p.patterns) : q.id = c.pattern
<1>1. /\ p \in ArrangedType
      /\ p.tracks \in Seq(TrackType) /\ p.patterns \in Seq(PatternType) /\ p.clips \in Seq(PlacedClip)
      /\ p.nextTrack \in Nat /\ p.nextPattern \in Nat /\ p.nextClip \in Nat
  BY DEF Sound, ArrangedType
<1>2. /\ ToSet(p.tracks) \subseteq TrackType /\ ToSet(p.patterns) \subseteq PatternType
      /\ ToSet(p.clips) \subseteq PlacedClip
  BY <1>1 DEF ToSet
<1>3. ASSUME NEW c \in ToSet(p.clips) PROVE Has(p.tracks, c.track) /\ Has(p.patterns, c.pattern)
  BY DEF Sound, InPlace, ToSet
<1>4. ASSUME NEW c \in ToSet(p.clips)
      PROVE  /\ \E t \in ToSet(p.tracks) : t.id = c.track
             /\ \E q \in ToSet(p.patterns) : q.id = c.pattern
  BY <1>1, <1>3, <1>4, HasSet
<1>. QED
  BY <1>1, <1>2, <1>4

\* Clips are in their place when the sets of items say so.
LEMMA SetsInPlace ==
  ASSUME NEW p \in ArrangedType,
         \A c \in ToSet(p.clips) : /\ \E t \in ToSet(p.tracks) : t.id = c.track
                                   /\ \E q \in ToSet(p.patterns) : q.id = c.pattern
  PROVE  InPlace(p)
<1>1. p.tracks \in Seq(TrackType) /\ p.patterns \in Seq(PatternType)
  BY DEF ArrangedType
<1>2. ASSUME NEW i \in DOMAIN p.clips PROVE Has(p.tracks, p.clips[i].track) /\ Has(p.patterns, p.clips[i].pattern)
  <2>1. p.clips[i] \in ToSet(p.clips)
    BY DEF ToSet
  <2>. QED
    BY <1>1, <2>1, HasSet
<1>. QED
  BY <1>2 DEF InPlace

\* What is left of a set of items without those of this id, track or pattern.
OtherIds(items, id) == {x \in items : x.id # id}
OtherTracks(items, id) == {x \in items : x.track # id}
OtherPatterns(items, id) == {x \in items : x.pattern # id}

LEMMA TrackRemoved ==
  ASSUME NEW p, Sound(p), NEW id
  PROVE  /\ Sound(RemoveTrack(p, id)) /\ Later(p, RemoveTrack(p, id))
         /\ ToSet(RemoveTrack(p, id).tracks) = OtherIds(ToSet(p.tracks), id)
         /\ ToSet(RemoveTrack(p, id).clips) = OtherTracks(ToSet(p.clips), id)
         /\ RemoveTrack(p, id).patterns = p.patterns
<1>. DEFINE q == RemoveTrack(p, id)
            ts == Without(p.tracks, "id", id)
            cs == Without(p.clips, "track", id)
<1>1. /\ p \in ArrangedType /\ p.tracks \in Seq(TrackType) /\ p.clips \in Seq(PlacedClip)
      /\ \A c \in ToSet(p.clips) : /\ \E t \in ToSet(p.tracks) : t.id = c.track
                                   /\ \E u \in ToSet(p.patterns) : u.id = c.pattern
  BY SoundItems
<1>2. /\ ts \in Seq(TrackType) /\ (\A x : x \in ToSet(ts) <=> x \in ToSet(p.tracks) /\ x["id"] # id)
      /\ Apart(p.tracks) => Apart(ts)
  <2>1. \A f : /\ Without(p.tracks, f, id) \in Seq(TrackType)
               /\ \A x : x \in ToSet(Without(p.tracks, f, id)) <=> x \in ToSet(p.tracks) /\ x[f] # id
               /\ Apart(p.tracks) => Apart(Without(p.tracks, f, id))
    BY <1>1, WithoutItems, Zenon
  <2>. QED
    BY <2>1
<1>3. /\ cs \in Seq(PlacedClip) /\ (\A x : x \in ToSet(cs) <=> x \in ToSet(p.clips) /\ x["track"] # id)
      /\ Apart(p.clips) => Apart(cs)
  <2>1. \A f : /\ Without(p.clips, f, id) \in Seq(PlacedClip)
               /\ \A x : x \in ToSet(Without(p.clips, f, id)) <=> x \in ToSet(p.clips) /\ x[f] # id
               /\ Apart(p.clips) => Apart(Without(p.clips, f, id))
    BY <1>1, WithoutItems, Zenon
  <2>. QED
    BY <2>1
<1>. HIDE DEF ts, cs
<1>4. /\ q \in ArrangedType /\ q.tracks = ts /\ q.clips = cs /\ q.patterns = p.patterns
      /\ q.nextTrack = p.nextTrack /\ q.nextPattern = p.nextPattern /\ q.nextClip = p.nextClip
  <2>1. q = [p EXCEPT !.tracks = ts, !.clips = cs]
    BY DEF RemoveTrack, ts, cs
  <2>. HIDE DEF q
  <2>. QED
    BY <1>1, <1>2, <1>3, <2>1 DEF ArrangedType
<1>. HIDE DEF q
<1>5. ToSet(ts) = {t \in ToSet(p.tracks) : t.id # id} /\ ToSet(cs) = {c \in ToSet(p.clips) : c.track # id}
  BY <1>2, <1>3
<1>6. InPlace(q)
  BY <1>1, <1>4, <1>5, SetsInPlace
<1>7. Under(ts, p.nextTrack) /\ Under(cs, p.nextClip)
  BY <1>5, FewerUnder DEF Sound
<1>8. Sound(q) /\ Later(p, q)
  <2>1. Later(p, q)
    BY <1>1, <1>4, AsLate
  <2>2. Sound(q)
    BY <1>1, <1>2, <1>3, <1>4, <1>6, <1>7 DEF Sound
  <2>. QED
    BY <2>1, <2>2
<1>. QED
  BY <1>4, <1>5, <1>8 DEF q, OtherIds, OtherTracks, OtherPatterns

LEMMA PatternRemoved ==
  ASSUME NEW p, Sound(p), NEW id
  PROVE  /\ Sound(RemovePattern(p, id)) /\ Later(p, RemovePattern(p, id))
         /\ ToSet(RemovePattern(p, id).patterns) = OtherIds(ToSet(p.patterns), id)
         /\ ToSet(RemovePattern(p, id).clips) = OtherPatterns(ToSet(p.clips), id)
         /\ RemovePattern(p, id).tracks = p.tracks
<1>. DEFINE q == RemovePattern(p, id)
            ts == Without(p.patterns, "id", id)
            cs == Without(p.clips, "pattern", id)
<1>1. /\ p \in ArrangedType /\ p.patterns \in Seq(PatternType) /\ p.clips \in Seq(PlacedClip)
      /\ \A c \in ToSet(p.clips) : /\ \E t \in ToSet(p.tracks) : t.id = c.track
                                   /\ \E u \in ToSet(p.patterns) : u.id = c.pattern
  BY SoundItems
<1>2. /\ ts \in Seq(PatternType) /\ (\A x : x \in ToSet(ts) <=> x \in ToSet(p.patterns) /\ x["id"] # id)
      /\ Apart(p.patterns) => Apart(ts)
  <2>1. \A f : /\ Without(p.patterns, f, id) \in Seq(PatternType)
               /\ \A x : x \in ToSet(Without(p.patterns, f, id)) <=> x \in ToSet(p.patterns) /\ x[f] # id
               /\ Apart(p.patterns) => Apart(Without(p.patterns, f, id))
    BY <1>1, WithoutItems, Zenon
  <2>. QED
    BY <2>1
<1>3. /\ cs \in Seq(PlacedClip) /\ (\A x : x \in ToSet(cs) <=> x \in ToSet(p.clips) /\ x["pattern"] # id)
      /\ Apart(p.clips) => Apart(cs)
  <2>1. \A f : /\ Without(p.clips, f, id) \in Seq(PlacedClip)
               /\ \A x : x \in ToSet(Without(p.clips, f, id)) <=> x \in ToSet(p.clips) /\ x[f] # id
               /\ Apart(p.clips) => Apart(Without(p.clips, f, id))
    BY <1>1, WithoutItems, Zenon
  <2>. QED
    BY <2>1
<1>. HIDE DEF ts, cs
<1>4. /\ q \in ArrangedType /\ q.patterns = ts /\ q.clips = cs /\ q.tracks = p.tracks
      /\ q.nextTrack = p.nextTrack /\ q.nextPattern = p.nextPattern /\ q.nextClip = p.nextClip
  <2>1. q = [p EXCEPT !.patterns = ts, !.clips = cs]
    BY DEF RemovePattern, ts, cs
  <2>. HIDE DEF q
  <2>. QED
    BY <1>1, <1>2, <1>3, <2>1 DEF ArrangedType
<1>. HIDE DEF q
<1>5. ToSet(ts) = {t \in ToSet(p.patterns) : t.id # id} /\ ToSet(cs) = {c \in ToSet(p.clips) : c.pattern # id}
  BY <1>2, <1>3
<1>6. InPlace(q)
  BY <1>1, <1>4, <1>5, SetsInPlace
<1>7. Under(ts, p.nextPattern) /\ Under(cs, p.nextClip)
  BY <1>5, FewerUnder DEF Sound
<1>8. Sound(q) /\ Later(p, q)
  <2>1. Later(p, q)
    BY <1>1, <1>4, AsLate
  <2>2. Sound(q)
    BY <1>1, <1>2, <1>3, <1>4, <1>6, <1>7 DEF Sound
  <2>. QED
    BY <2>1, <2>2
<1>. QED
  BY <1>4, <1>5, <1>8 DEF q, OtherIds, OtherTracks, OtherPatterns

LEMMA ClipRemoved ==
  ASSUME NEW p, Sound(p), NEW id
  PROVE  /\ Sound(RemoveClip(p, id)) /\ Later(p, RemoveClip(p, id))
         /\ ToSet(RemoveClip(p, id).clips) = OtherIds(ToSet(p.clips), id)
         /\ RemoveClip(p, id).tracks = p.tracks /\ RemoveClip(p, id).patterns = p.patterns
<1>. DEFINE q == RemoveClip(p, id)
            cs == Without(p.clips, "id", id)
<1>1. /\ p \in ArrangedType /\ p.clips \in Seq(PlacedClip)
      /\ \A c \in ToSet(p.clips) : /\ \E t \in ToSet(p.tracks) : t.id = c.track
                                   /\ \E u \in ToSet(p.patterns) : u.id = c.pattern
  BY SoundItems
<1>3. /\ cs \in Seq(PlacedClip) /\ (\A x : x \in ToSet(cs) <=> x \in ToSet(p.clips) /\ x["id"] # id)
      /\ Apart(p.clips) => Apart(cs)
  <2>1. \A f : /\ Without(p.clips, f, id) \in Seq(PlacedClip)
               /\ \A x : x \in ToSet(Without(p.clips, f, id)) <=> x \in ToSet(p.clips) /\ x[f] # id
               /\ Apart(p.clips) => Apart(Without(p.clips, f, id))
    BY <1>1, WithoutItems, Zenon
  <2>. QED
    BY <2>1
<1>. HIDE DEF cs
<1>4. /\ q \in ArrangedType /\ q.patterns = p.patterns /\ q.clips = cs /\ q.tracks = p.tracks
      /\ q.nextTrack = p.nextTrack /\ q.nextPattern = p.nextPattern /\ q.nextClip = p.nextClip
  <2>1. q = [p EXCEPT !.clips = cs]
    BY DEF RemoveClip, cs
  <2>. HIDE DEF q
  <2>. QED
    BY <1>1, <1>3, <2>1 DEF ArrangedType
<1>. HIDE DEF q
<1>5. ToSet(cs) = {c \in ToSet(p.clips) : c.id # id}
  BY <1>3
<1>6. InPlace(q)
  BY <1>1, <1>4, <1>5, SetsInPlace
<1>7. Under(cs, p.nextClip)
  BY <1>5, FewerUnder DEF Sound
<1>8. Sound(q) /\ Later(p, q)
  <2>1. Later(p, q)
    BY <1>1, <1>4, AsLate
  <2>2. Sound(q)
    BY <1>1, <1>3, <1>4, <1>6, <1>7 DEF Sound
  <2>. QED
    BY <2>1, <2>2
<1>. QED
  BY <1>4, <1>5, <1>8 DEF q, OtherIds, OtherTracks, OtherPatterns

LEMMA TheItem ==
  ASSUME NEW S, NEW items \in Seq(S), NEW id, Has(items, id)
  PROVE  The(items, id) \in ToSet(items) /\ The(items, id) \in S /\ The(items, id).id = id
<1>. DEFINE i == CHOOSE i \in DOMAIN items : items[i].id = id
<1>1. i \in DOMAIN items /\ items[i].id = id
  BY DEF Has
<1>2. The(items, id) = items[i]
  BY DEF The
<1>. HIDE DEF i
<1>. QED
  BY <1>1, <1>2 DEF ToSet

\* q is items with new in the place of old.
Swapped(q, S, items, old, new) ==
  /\ q \in Seq(S) /\ Apart(q)
  /\ ToSet(q) = (ToSet(items) \ {old}) \cup {new}
  /\ \A n : Under(items, n) => Under(q, n)
  /\ \A id : Has(q, id) <=> Has(items, id)

LEMMA ChangedItems ==
  ASSUME NEW S, NEW items \in Seq(S), NEW new \in S, NEW old \in ToSet(items), Apart(items),
         old.id = new.id
  PROVE  Swapped(Changed(items, new), S, items, old, new)
<1>. DEFINE q == Changed(items, new)
<1>1. q \in Seq(S) /\ DOMAIN q = DOMAIN items
      /\ \A i \in DOMAIN items : q[i] = IF items[i].id = new.id THEN new ELSE items[i]
  <2>1. q = [i \in 1 .. Len(items) |-> IF items[i].id = new.id THEN new ELSE items[i]]
    BY DEF Changed
  <2>. QED
    BY <2>1
<1>. HIDE DEF q
<1>2. \A i \in DOMAIN items : q[i].id = items[i].id
  BY <1>1
<1>3. PICK k \in DOMAIN items : items[k] = old
  BY DEF ToSet
<1>4. \A i \in DOMAIN items : items[i].id = new.id <=> i = k
  BY <1>3 DEF Apart
<1>5. \A i \in DOMAIN items : items[i] = old <=> i = k
  BY <1>3, <1>4
<1>6. ToSet(q) = (ToSet(items) \ {old}) \cup {new}
  <2>1. ASSUME NEW i \in DOMAIN items PROVE q[i] \in (ToSet(items) \ {old}) \cup {new}
    <3>1. CASE i = k
      BY <1>1, <1>4, <3>1
    <3>2. CASE i # k
      BY <1>1, <1>4, <1>5, <3>2 DEF ToSet
    <3>. QED
      BY <3>1, <3>2
  <2>2. ASSUME NEW i \in DOMAIN items, items[i] # old PROVE items[i] \in ToSet(q)
    BY <1>1, <1>4, <1>5, <2>2 DEF ToSet
  <2>3. new \in ToSet(q)
    BY <1>1, <1>3, <1>4 DEF ToSet
  <2>4. ToSet(q) \subseteq (ToSet(items) \ {old}) \cup {new}
    BY <1>1, <2>1 DEF ToSet
  <2>5. ToSet(items) \ {old} \subseteq ToSet(q)
    <3>1. SUFFICES ASSUME NEW x \in ToSet(items), x # old PROVE x \in ToSet(q)
      OBVIOUS
    <3>2. PICK i \in DOMAIN items : x = items[i]
      BY DEF ToSet
    <3>. QED
      BY <2>2, <3>1, <3>2
  <2>. QED
    BY <2>3, <2>4, <2>5
<1>7. Apart(q)
  BY <1>1, <1>2 DEF Apart
<1>8. \A n : Under(items, n) => Under(q, n)
  BY <1>1, <1>2 DEF Under
<1>9. \A id : Has(q, id) <=> Has(items, id)
  BY <1>1, <1>2 DEF Has
<1>. QED
  BY <1>1, <1>6, <1>7, <1>8, <1>9 DEF q, Swapped

\* A step from p came to q, which has these tracks, patterns and clips.
Became(p, q, tracks, patterns, clips) ==
  /\ Sound(q) /\ Later(p, q)
  /\ ToSet(q.tracks) = tracks /\ ToSet(q.patterns) = patterns /\ ToSet(q.clips) = clips

LEMMA TrackChanged ==
  ASSUME NEW p, Sound(p), NEW old \in ToSet(p.tracks), NEW new \in TrackType, old.id = new.id,
         NEW q, q = [p EXCEPT !.tracks = Changed(@, new)]
  PROVE  Became(p, q, (ToSet(p.tracks) \ {old}) \cup {new}, ToSet(p.patterns), ToSet(p.clips))
<1>. DEFINE ts == Changed(p.tracks, new)
<1>1. p \in ArrangedType /\ p.tracks \in Seq(TrackType) /\ Apart(p.tracks) /\ InPlace(p)
      /\ Under(p.tracks, p.nextTrack)
  BY SoundItems DEF Sound
<1>2. /\ ts \in Seq(TrackType) /\ Apart(ts) /\ ToSet(ts) = (ToSet(p.tracks) \ {old}) \cup {new}
      /\ \A n : Under(p.tracks, n) => Under(ts, n)
      /\ \A id : Has(ts, id) <=> Has(p.tracks, id)
  <2>1. Swapped(ts, TrackType, p.tracks, old, new)
    BY <1>1, ChangedItems, Zenon
  <2>. HIDE DEF ts
  <2>. QED
    BY <2>1 DEF Swapped
<1>. HIDE DEF ts
<1>3. /\ q \in ArrangedType /\ q.tracks = ts /\ q.patterns = p.patterns /\ q.clips = p.clips
      /\ q.nextTrack = p.nextTrack /\ q.nextPattern = p.nextPattern /\ q.nextClip = p.nextClip
  <2>1. q = [p EXCEPT !.tracks = ts]
    BY DEF ts
  <2>. QED
    BY <1>1, <1>2, <2>1 DEF ArrangedType
<1>4. InPlace(q)
  BY <1>1, <1>2, <1>3 DEF InPlace
<1>5. Under(ts, p.nextTrack)
  BY <1>1, <1>2
<1>6. Sound(q) /\ Later(p, q)
  <2>1. Later(p, q)
    BY <1>1, <1>3, AsLate
  <2>2. Sound(q)
    BY <1>1, <1>2, <1>3, <1>4, <1>5 DEF Sound
  <2>. QED
    BY <2>1, <2>2
<1>. QED
  BY <1>2, <1>3, <1>6 DEF Became

LEMMA ClipChanged ==
  ASSUME NEW p, Sound(p), NEW old \in ToSet(p.clips), NEW new \in PlacedClip, old.id = new.id,
         \E t \in ToSet(p.tracks) : t.id = new.track, \E u \in ToSet(p.patterns) : u.id = new.pattern,
         NEW q, q = [p EXCEPT !.clips = Changed(@, new)]
  PROVE  Became(p, q, ToSet(p.tracks), ToSet(p.patterns), (ToSet(p.clips) \ {old}) \cup {new})
<1>. DEFINE cs == Changed(p.clips, new)
<1>1. /\ p \in ArrangedType /\ p.clips \in Seq(PlacedClip) /\ Apart(p.clips)
      /\ Under(p.clips, p.nextClip)
      /\ \A c \in ToSet(p.clips) : /\ \E t \in ToSet(p.tracks) : t.id = c.track
                                   /\ \E u \in ToSet(p.patterns) : u.id = c.pattern
  BY SoundItems DEF Sound
<1>2. /\ cs \in Seq(PlacedClip) /\ Apart(cs) /\ ToSet(cs) = (ToSet(p.clips) \ {old}) \cup {new}
      /\ \A n : Under(p.clips, n) => Under(cs, n)
  <2>1. Swapped(cs, PlacedClip, p.clips, old, new)
    BY <1>1, ChangedItems, Zenon
  <2>. HIDE DEF cs
  <2>. QED
    BY <2>1 DEF Swapped
<1>. HIDE DEF cs
<1>3. /\ q \in ArrangedType /\ q.clips = cs /\ q.patterns = p.patterns /\ q.tracks = p.tracks
      /\ q.nextTrack = p.nextTrack /\ q.nextPattern = p.nextPattern /\ q.nextClip = p.nextClip
  <2>1. q = [p EXCEPT !.clips = cs]
    BY DEF cs
  <2>. QED
    BY <1>1, <1>2, <2>1 DEF ArrangedType
<1>4. InPlace(q)
  <2>1. ToSet(q.clips) = (ToSet(p.clips) \ {old}) \cup {new}
    BY <1>2, <1>3
  <2>2. \A c \in ToSet(q.clips) : /\ \E t \in ToSet(q.tracks) : t.id = c.track
                                  /\ \E u \in ToSet(q.patterns) : u.id = c.pattern
    BY <1>1, <1>3, <2>1
  <2>. QED
    BY <1>3, <2>2, SetsInPlace
<1>5. Under(cs, p.nextClip)
  BY <1>1, <1>2
<1>6. Sound(q) /\ Later(p, q)
  <2>1. Later(p, q)
    BY <1>1, <1>3, AsLate
  <2>2. Sound(q)
    BY <1>1, <1>2, <1>3, <1>4, <1>5 DEF Sound
  <2>. QED
    BY <2>1, <2>2
<1>. QED
  BY <1>2, <1>3, <1>6 DEF Became

-----------------------------------------------------------------------------
(* Undoing and redoing an edit                                             *)

\* From p a step came to q, whose document is d.
Reaches(p, q, d) == Sound(q) /\ Later(p, q) /\ Arranged(q) = d

LEMMA DocFields ==
  ASSUME NEW q, NEW d \in DocType, ToSet(q.tracks) = d.tracks, ToSet(q.patterns) = d.patterns,
         ToSet(q.clips) = d.clips
  PROVE  Arranged(q) = d
BY DEF Arranged, DocType

LEMMA ArrangedFields ==
  ASSUME NEW q
  PROVE  /\ Arranged(q).tracks = ToSet(q.tracks) /\ Arranged(q).patterns = ToSet(q.patterns)
         /\ Arranged(q).clips = ToSet(q.clips)
BY DEF Arranged

\* With one item more, the others are those whose id is not its.
LEMMA OneMore ==
  ASSUME NEW S, NEW more, NEW x, Distinct(more), more = S \cup {x}, x \notin S
  PROVE  /\ \A y \in S : y.id # x.id
         /\ {y \in more : y.id # x.id} = S
<1>1. \A y \in S : y.id # x.id
  BY DEF Distinct
<1>. QED
  BY <1>1

LEMMA UndoesAddTrack ==
  ASSUME NEW e, NEW p, NEW a, NEW b, Sound(p), SoundDoc(a), SoundDoc(b), AddsTrack(e, a, b), Arranged(p) = b
  PROVE  Reaches(p, EditUndone(e, p), a)
<1>. DEFINE q == RemoveTrack(p, e.track.id)
<1>1. /\ e.do = "addTrack" /\ e.track \notin a.tracks /\ b.tracks = a.tracks \cup {e.track}
      /\ b.patterns = a.patterns /\ b.clips = a.clips
  BY DEF AddsTrack
<1>2. EditUndone(e, p) = q
  BY <1>1 DEF EditUndone
<1>3. b.tracks = ToSet(p.tracks) /\ b.patterns = ToSet(p.patterns) /\ b.clips = ToSet(p.clips)
  BY ArrangedFields
<1>4. /\ Sound(q) /\ Later(p, q) /\ q.patterns = p.patterns
      /\ ToSet(q.tracks) = {t \in b.tracks : t.id # e.track.id}
      /\ ToSet(q.clips) = {c \in b.clips : c.track # e.track.id}
  <2>1. /\ Sound(q) /\ Later(p, q) /\ q.patterns = p.patterns
        /\ ToSet(q.tracks) = OtherIds(ToSet(p.tracks), e.track.id)
        /\ ToSet(q.clips) = OtherTracks(ToSet(p.clips), e.track.id)
    BY TrackRemoved, Zenon
  <2>. HIDE DEF q
  <2>. QED
    BY <1>3, <2>1 DEF OtherIds, OtherTracks
<1>. HIDE DEF q
<1>5. (\A y \in a.tracks : y.id # e.track.id) /\ {t \in b.tracks : t.id # e.track.id} = a.tracks
  BY <1>1, OneMore DEF SoundDoc
<1>6. \A c \in b.clips : c.track # e.track.id
  BY <1>1, <1>5 DEF SoundDoc
<1>7. ToSet(q.tracks) = a.tracks /\ ToSet(q.clips) = a.clips /\ ToSet(q.patterns) = a.patterns
  BY <1>1, <1>3, <1>4, <1>5, <1>6
<1>8. Arranged(q) = a
  <2>1. a \in DocType
    BY DEF SoundDoc
  <2>2. ToSet(q.tracks) = a.tracks /\ ToSet(q.patterns) = a.patterns /\ ToSet(q.clips) = a.clips
    BY <1>7
  <2>. QED
    BY <2>1, <2>2, DocFields
<1>. QED
  BY <1>2, <1>4, <1>8 DEF Reaches

LEMMA RedoesAddTrack ==
  ASSUME NEW e, NEW p, NEW a, NEW b, Sound(p), SoundDoc(a), SoundDoc(b), AddsTrack(e, a, b), Arranged(p) = a
  PROVE  Reaches(p, EditRedone(e, p), b)
<1>. DEFINE q == AddTrack(p, e.track)
<1>1. /\ e.do = "addTrack" /\ e.track \in TrackType /\ e.track \notin a.tracks
      /\ b.tracks = a.tracks \cup {e.track} /\ b.patterns = a.patterns /\ b.clips = a.clips
  BY DEF AddsTrack
<1>2. EditRedone(e, p) = q
  BY <1>1 DEF EditRedone
<1>3. a.tracks = ToSet(p.tracks) /\ a.patterns = ToSet(p.patterns) /\ a.clips = ToSet(p.clips)
  BY ArrangedFields
<1>4. \A y \in a.tracks : y.id # e.track.id
  BY <1>1, OneMore DEF SoundDoc
<1>5. p.tracks \in Seq(TrackType)
  BY SoundItems
<1>6. ~Has(p.tracks, e.track.id)
  BY <1>3, <1>4, <1>5, HasSet
<1>7. /\ Sound(q) /\ Later(p, q) /\ q.tracks = Append(p.tracks, e.track)
      /\ q.patterns = p.patterns /\ q.clips = p.clips
  BY <1>1, <1>6, TrackAdded
<1>. HIDE DEF q
<1>8. ToSet(q.tracks) = b.tracks
  BY <1>1, <1>3, <1>5, <1>7, Appended
<1>9. Arranged(q) = b
  <2>1. b \in DocType
    BY DEF SoundDoc
  <2>2. ToSet(q.tracks) = b.tracks /\ ToSet(q.patterns) = b.patterns /\ ToSet(q.clips) = b.clips
    BY <1>1, <1>3, <1>7, <1>8
  <2>. QED
    BY <2>1, <2>2, DocFields
<1>. QED
  BY <1>2, <1>7, <1>9 DEF Reaches

LEMMA RedoesDeleteTrack ==
  ASSUME NEW e, NEW p, NEW a, NEW b, Sound(p), SoundDoc(a), SoundDoc(b), DeletesTrack(e, a, b), Arranged(p) = a
  PROVE  Reaches(p, EditRedone(e, p), b)
<1>. DEFINE q == RemoveTrack(p, e.track.id)
            gone == ToSet(e.clips)
<1>1. /\ e.do = "deleteTrack" /\ e.track \notin b.tracks /\ a.tracks = b.tracks \cup {e.track}
      /\ a.patterns = b.patterns /\ a.clips = b.clips \cup gone
      /\ \A c \in gone : c.track = e.track.id
  BY DEF DeletesTrack
<1>. HIDE DEF gone
<1>2. EditRedone(e, p) = q
  BY <1>1 DEF EditRedone
<1>3. a.tracks = ToSet(p.tracks) /\ a.patterns = ToSet(p.patterns) /\ a.clips = ToSet(p.clips)
  BY ArrangedFields
<1>4. /\ Sound(q) /\ Later(p, q) /\ q.patterns = p.patterns
      /\ ToSet(q.tracks) = {t \in a.tracks : t.id # e.track.id}
      /\ ToSet(q.clips) = {c \in a.clips : c.track # e.track.id}
  <2>1. /\ Sound(q) /\ Later(p, q) /\ q.patterns = p.patterns
        /\ ToSet(q.tracks) = OtherIds(ToSet(p.tracks), e.track.id)
        /\ ToSet(q.clips) = OtherTracks(ToSet(p.clips), e.track.id)
    BY TrackRemoved, Zenon
  <2>. HIDE DEF q
  <2>. QED
    BY <1>3, <2>1 DEF OtherIds, OtherTracks
<1>. HIDE DEF q
<1>5. (\A y \in b.tracks : y.id # e.track.id) /\ {t \in a.tracks : t.id # e.track.id} = b.tracks
  BY <1>1, OneMore DEF SoundDoc
<1>6. \A c \in b.clips : c.track # e.track.id
  BY <1>5 DEF SoundDoc
<1>7. {c \in a.clips : c.track # e.track.id} = b.clips
  BY <1>1, <1>6
<1>8. Arranged(q) = b
  <2>1. b \in DocType
    BY DEF SoundDoc
  <2>2. ToSet(q.tracks) = b.tracks /\ ToSet(q.patterns) = b.patterns /\ ToSet(q.clips) = b.clips
    BY <1>1, <1>3, <1>4, <1>5, <1>7
  <2>. QED
    BY <2>1, <2>2, DocFields
<1>. QED
  BY <1>2, <1>4, <1>8 DEF Reaches

LEMMA UndoesDeleteTrack ==
  ASSUME NEW e, NEW p, NEW a, NEW b, Sound(p), SoundDoc(a), SoundDoc(b), DeletesTrack(e, a, b), Arranged(p) = b
  PROVE  Reaches(p, EditUndone(e, p), a)
<1>. DEFINE r == AddTrack(p, e.track)
            q == AddAll(r, "clips", e.clips)
<1>1. /\ e.do = "deleteTrack" /\ e.track \in TrackType /\ e.clips \in Seq(PlacedClip) /\ Apart(e.clips)
      /\ e.track \notin b.tracks /\ a.tracks = b.tracks \cup {e.track} /\ a.patterns = b.patterns
      /\ a.clips = b.clips \cup ToSet(e.clips)
      /\ \A c \in ToSet(e.clips) : c.track = e.track.id /\ c \notin b.clips
  BY DEF DeletesTrack
<1>2. EditUndone(e, p) = q
  BY <1>1 DEF EditUndone
<1>3. b.tracks = ToSet(p.tracks) /\ b.patterns = ToSet(p.patterns) /\ b.clips = ToSet(p.clips)
  BY ArrangedFields
<1>4. \A y \in b.tracks : y.id # e.track.id
  BY <1>1, OneMore DEF SoundDoc
<1>5. /\ p.tracks \in Seq(TrackType) /\ p.patterns \in Seq(PatternType) /\ p.clips \in Seq(PlacedClip)
  BY SoundItems
<1>6. ~Has(p.tracks, e.track.id)
  BY <1>3, <1>4, <1>5, HasSet
<1>7. /\ Sound(r) /\ Later(p, r) /\ r.tracks = Append(p.tracks, e.track)
      /\ r.patterns = p.patterns /\ r.clips = p.clips
  BY <1>1, <1>6, TrackAdded
<1>. HIDE DEF r
<1>8. ToSet(r.tracks) = a.tracks /\ r.tracks \in Seq(TrackType)
  BY <1>1, <1>3, <1>5, <1>7, Appended
<1>9. \A k \in DOMAIN e.clips :
        /\ ~Has(r.clips, e.clips[k].id)
        /\ Has(r.tracks, e.clips[k].track) /\ Has(r.patterns, e.clips[k].pattern)
  <2>1. SUFFICES ASSUME NEW c \in ToSet(e.clips)
                 PROVE  ~Has(r.clips, c.id) /\ Has(r.tracks, c.track) /\ Has(r.patterns, c.pattern)
    BY DEF ToSet
  <2>2. c \in a.clips /\ c \notin b.clips /\ c.track = e.track.id
    BY <1>1
  <2>3. ~\E y \in b.clips : y.id = c.id
    BY <1>1, <2>2 DEF SoundDoc, Distinct
  <2>4. \E t \in a.tracks : t.id = c.track
    BY <1>1, <2>2
  <2>5. \E u \in a.patterns : u.id = c.pattern
    BY <2>2 DEF SoundDoc
  <2>6. ~Has(r.clips, c.id)
    BY <1>3, <1>5, <1>7, <2>3, HasSet
  <2>7. Has(r.tracks, c.track)
    BY <1>8, <2>4, HasSet
  <2>8. Has(r.patterns, c.pattern)
    BY <1>1, <1>3, <1>5, <1>7, <2>5, HasSet
  <2>. QED
    BY <2>6, <2>7, <2>8
<1>10. /\ Sound(q) /\ Later(r, q) /\ q.tracks = r.tracks /\ q.patterns = r.patterns
       /\ Joined(q.clips, r.clips, e.clips, Len(e.clips))
  BY <1>1, <1>7, <1>9, ClipsAllAdded
<1>. HIDE DEF q
<1>11. ToSet(q.clips) = a.clips
  <2>1. q.clips \in Seq(PlacedClip) /\ r.clips \in Seq(PlacedClip) /\ e.clips \in Seq(PlacedClip)
    BY <1>1, <1>7, <1>10, SoundItems
  <2>2. ToSet(q.clips) = ToSet(r.clips) \cup ToSet(e.clips)
    BY <1>10, <2>1, JoinedAll
  <2>. QED
    BY <1>1, <1>3, <1>7, <2>2
<1>12. Arranged(q) = a
  <2>1. a \in DocType
    BY DEF SoundDoc
  <2>2. ToSet(q.tracks) = a.tracks /\ ToSet(q.patterns) = a.patterns /\ ToSet(q.clips) = a.clips
    BY <1>1, <1>3, <1>7, <1>8, <1>10, <1>11
  <2>. QED
    BY <2>1, <2>2, DocFields
<1>13. Later(p, q)
  <2>1. p \in ArrangedType /\ r \in ArrangedType /\ q \in ArrangedType
    BY <1>7, <1>10, SoundItems
  <2>. QED
    BY <1>7, <1>10, <2>1, StillLater
<1>. QED
  BY <1>2, <1>10, <1>12, <1>13 DEF Reaches

LEMMA SwapsTrack ==
  ASSUME NEW p, NEW q, NEW a, NEW b, NEW old, NEW new, Sound(p), SoundDoc(b), Arranged(p) = a,
         old \in a.tracks, new \in b.tracks, old.id = new.id,
         b.tracks = (a.tracks \ {old}) \cup {new}, b.patterns = a.patterns, b.clips = a.clips,
         q = [p EXCEPT !.tracks = Changed(@, new)]
  PROVE  Reaches(p, q, b)
<1>1. a.tracks = ToSet(p.tracks) /\ a.patterns = ToSet(p.patterns) /\ a.clips = ToSet(p.clips)
  BY ArrangedFields
<1>2. new \in TrackType
  BY DEF SoundDoc, DocType
<1>3. Became(p, q, (ToSet(p.tracks) \ {old}) \cup {new}, ToSet(p.patterns), ToSet(p.clips))
  <2>1. old \in ToSet(p.tracks)
    BY <1>1
  <2>. QED
    BY <1>2, <2>1, TrackChanged, Zenon
<1>4. Arranged(q) = b
  <2>1. b \in DocType
    BY DEF SoundDoc
  <2>2. ToSet(q.tracks) = b.tracks /\ ToSet(q.patterns) = b.patterns /\ ToSet(q.clips) = b.clips
    BY <1>1, <1>3 DEF Became
  <2>. QED
    BY <2>1, <2>2, DocFields
<1>. QED
  BY <1>3, <1>4 DEF Reaches, Became

LEMMA SwapsClip ==
  ASSUME NEW p, NEW q, NEW a, NEW b, NEW old, NEW new, Sound(p), SoundDoc(b), Arranged(p) = a,
         old \in a.clips, new \in b.clips, old.id = new.id,
         b.clips = (a.clips \ {old}) \cup {new}, b.tracks = a.tracks, b.patterns = a.patterns,
         q = [p EXCEPT !.clips = Changed(@, new)]
  PROVE  Reaches(p, q, b)
<1>1. a.tracks = ToSet(p.tracks) /\ a.patterns = ToSet(p.patterns) /\ a.clips = ToSet(p.clips)
  BY ArrangedFields
<1>2. /\ new \in PlacedClip
      /\ \E t \in ToSet(p.tracks) : t.id = new.track
      /\ \E u \in ToSet(p.patterns) : u.id = new.pattern
  BY <1>1 DEF SoundDoc, DocType
<1>3. Became(p, q, ToSet(p.tracks), ToSet(p.patterns), (ToSet(p.clips) \ {old}) \cup {new})
  <2>1. old \in ToSet(p.clips)
    BY <1>1
  <2>. QED
    BY <1>2, <2>1, ClipChanged, Zenon
<1>4. Arranged(q) = b
  <2>1. b \in DocType
    BY DEF SoundDoc
  <2>2. ToSet(q.tracks) = b.tracks /\ ToSet(q.patterns) = b.patterns /\ ToSet(q.clips) = b.clips
    BY <1>1, <1>3 DEF Became
  <2>. QED
    BY <2>1, <2>2, DocFields
<1>. QED
  BY <1>3, <1>4 DEF Reaches, Became

LEMMA GainsClip ==
  ASSUME NEW p, NEW a, NEW b, NEW c \in PlacedClip, Sound(p), SoundDoc(b), Arranged(p) = a,
         c \notin a.clips, b.clips = a.clips \cup {c}, b.tracks = a.tracks, b.patterns = a.patterns
  PROVE  Reaches(p, AddClip(p, c), b)
<1>. DEFINE q == AddClip(p, c)
<1>1. a.tracks = ToSet(p.tracks) /\ a.patterns = ToSet(p.patterns) /\ a.clips = ToSet(p.clips)
  BY ArrangedFields
<1>2. \A y \in a.clips : y.id # c.id
  BY OneMore DEF SoundDoc
<1>3. /\ p.tracks \in Seq(TrackType) /\ p.patterns \in Seq(PatternType) /\ p.clips \in Seq(PlacedClip)
  BY SoundItems
<1>4. ~Has(p.clips, c.id)
  BY <1>1, <1>2, <1>3, HasSet
<1>5. (\E t \in a.tracks : t.id = c.track) /\ (\E u \in a.patterns : u.id = c.pattern)
  BY DEF SoundDoc
<1>6. Has(p.tracks, c.track) /\ Has(p.patterns, c.pattern)
  BY <1>1, <1>3, <1>5, HasSet
<1>7. /\ Sound(q) /\ Later(p, q) /\ q.clips = Append(p.clips, c)
      /\ q.tracks = p.tracks /\ q.patterns = p.patterns
  BY <1>4, <1>6, ClipAdded
<1>. HIDE DEF q
<1>8. ToSet(q.clips) = b.clips
  BY <1>1, <1>3, <1>7, Appended
<1>9. Arranged(q) = b
  <2>1. b \in DocType
    BY DEF SoundDoc
  <2>2. ToSet(q.tracks) = b.tracks /\ ToSet(q.patterns) = b.patterns /\ ToSet(q.clips) = b.clips
    BY <1>1, <1>7, <1>8
  <2>. QED
    BY <2>1, <2>2, DocFields
<1>. QED
  BY <1>7, <1>9 DEF Reaches, q

LEMMA LosesClip ==
  ASSUME NEW p, NEW a, NEW b, NEW c, Sound(p), SoundDoc(a), SoundDoc(b), Arranged(p) = b,
         c \notin a.clips, b.clips = a.clips \cup {c}, b.tracks = a.tracks, b.patterns = a.patterns
  PROVE  Reaches(p, RemoveClip(p, c.id), a)
<1>. DEFINE q == RemoveClip(p, c.id)
<1>1. b.tracks = ToSet(p.tracks) /\ b.patterns = ToSet(p.patterns) /\ b.clips = ToSet(p.clips)
  BY ArrangedFields
<1>2. /\ Sound(q) /\ Later(p, q) /\ ToSet(q.clips) = {y \in b.clips : y.id # c.id}
      /\ q.tracks = p.tracks /\ q.patterns = p.patterns
  <2>1. /\ Sound(q) /\ Later(p, q) /\ ToSet(q.clips) = OtherIds(ToSet(p.clips), c.id)
        /\ q.tracks = p.tracks /\ q.patterns = p.patterns
    BY ClipRemoved, Zenon
  <2>. HIDE DEF q
  <2>. QED
    BY <1>1, <2>1 DEF OtherIds
<1>. HIDE DEF q
<1>3. {y \in b.clips : y.id # c.id} = a.clips
  <2>1. Distinct(b.clips)
    BY DEF SoundDoc
  <2>. QED
    BY <2>1, OneMore
<1>4. Arranged(q) = a
  <2>1. a \in DocType
    BY DEF SoundDoc
  <2>2. ToSet(q.tracks) = a.tracks /\ ToSet(q.patterns) = a.patterns /\ ToSet(q.clips) = a.clips
    BY <1>1, <1>2, <1>3
  <2>. QED
    BY <2>1, <2>2, DocFields
<1>. QED
  BY <1>2, <1>4 DEF Reaches, q

LEMMA UndoesCreatePattern ==
  ASSUME NEW e, NEW p, NEW a, NEW b, Sound(p), SoundDoc(a), SoundDoc(b), CreatesPattern(e, a, b), Arranged(p) = b
  PROVE  Reaches(p, EditUndone(e, p), a)
<1>. DEFINE q == RemovePattern(p, e.pattern.id)
<1>1. /\ e.do = "createPattern" /\ e.clip.pattern = e.pattern.id
      /\ e.pattern \notin a.patterns /\ b.patterns = a.patterns \cup {e.pattern}
      /\ b.clips = a.clips \cup {e.clip} /\ b.tracks = a.tracks
  BY DEF CreatesPattern
<1>2. EditUndone(e, p) = q
  BY <1>1 DEF EditUndone
<1>3. b.tracks = ToSet(p.tracks) /\ b.patterns = ToSet(p.patterns) /\ b.clips = ToSet(p.clips)
  BY ArrangedFields
<1>4. /\ Sound(q) /\ Later(p, q) /\ q.tracks = p.tracks
      /\ ToSet(q.patterns) = {t \in b.patterns : t.id # e.pattern.id}
      /\ ToSet(q.clips) = {c \in b.clips : c.pattern # e.pattern.id}
  <2>1. /\ Sound(q) /\ Later(p, q) /\ q.tracks = p.tracks
        /\ ToSet(q.patterns) = OtherIds(ToSet(p.patterns), e.pattern.id)
        /\ ToSet(q.clips) = OtherPatterns(ToSet(p.clips), e.pattern.id)
    BY PatternRemoved, Zenon
  <2>. HIDE DEF q
  <2>. QED
    BY <1>3, <2>1 DEF OtherIds, OtherPatterns
<1>. HIDE DEF q
<1>5. (\A y \in a.patterns : y.id # e.pattern.id) /\ {t \in b.patterns : t.id # e.pattern.id} = a.patterns
  BY <1>1, OneMore DEF SoundDoc
<1>6. \A c \in a.clips : c.pattern # e.pattern.id
  BY <1>5 DEF SoundDoc
<1>7. {c \in b.clips : c.pattern # e.pattern.id} = a.clips
  BY <1>1, <1>6
<1>8. Arranged(q) = a
  <2>1. a \in DocType
    BY DEF SoundDoc
  <2>2. ToSet(q.tracks) = a.tracks /\ ToSet(q.patterns) = a.patterns /\ ToSet(q.clips) = a.clips
    BY <1>1, <1>3, <1>4, <1>5, <1>7
  <2>. QED
    BY <2>1, <2>2, DocFields
<1>. QED
  BY <1>2, <1>4, <1>8 DEF Reaches

LEMMA RedoesCreatePattern ==
  ASSUME NEW e, NEW p, NEW a, NEW b, Sound(p), SoundDoc(a), SoundDoc(b), CreatesPattern(e, a, b), Arranged(p) = a
  PROVE  Reaches(p, EditRedone(e, p), b)
<1>. DEFINE r == AddPattern(p, e.pattern)
            q == AddClip(r, e.clip)
            d == [a EXCEPT !.patterns = b.patterns]
<1>1. /\ e.do = "createPattern" /\ e.pattern \in PatternType /\ e.clip \in PlacedClip
      /\ e.pattern \notin a.patterns /\ b.patterns = a.patterns \cup {e.pattern}
      /\ e.clip \notin a.clips /\ b.clips = a.clips \cup {e.clip} /\ b.tracks = a.tracks
  BY DEF CreatesPattern
<1>2. EditRedone(e, p) = q
  BY <1>1 DEF EditRedone
<1>3. a.tracks = ToSet(p.tracks) /\ a.patterns = ToSet(p.patterns) /\ a.clips = ToSet(p.clips)
  BY ArrangedFields
<1>4. \A y \in a.patterns : y.id # e.pattern.id
  BY <1>1, OneMore DEF SoundDoc
<1>5. p.patterns \in Seq(PatternType)
  BY SoundItems
<1>6. ~Has(p.patterns, e.pattern.id)
  BY <1>3, <1>4, <1>5, HasSet
<1>7. /\ Sound(r) /\ Later(p, r) /\ r.patterns = Append(p.patterns, e.pattern)
      /\ r.tracks = p.tracks /\ r.clips = p.clips
  BY <1>1, <1>6, PatternAdded
<1>. HIDE DEF r
<1>8. ToSet(r.patterns) = b.patterns
  BY <1>1, <1>3, <1>5, <1>7, Appended
<1>9. Arranged(r) = d
  <2>1. a \in DocType /\ b \in DocType
    BY DEF SoundDoc
  <2>2. d \in DocType /\ d.tracks = a.tracks /\ d.patterns = b.patterns /\ d.clips = a.clips
    BY <2>1 DEF DocType
  <2>3. ToSet(r.tracks) = d.tracks /\ ToSet(r.patterns) = d.patterns /\ ToSet(r.clips) = d.clips
    BY <1>3, <1>7, <1>8, <2>2
  <2>. HIDE DEF d
  <2>. QED
    BY <2>2, <2>3, DocFields
<1>10. d.tracks = b.tracks /\ d.patterns = b.patterns /\ d.clips = a.clips
  BY <1>1 DEF SoundDoc, DocType
<1>. HIDE DEF d
<1>11. Reaches(r, q, b)
  BY <1>1, <1>7, <1>9, <1>10, GainsClip
<1>12. Later(p, q)
  <2>1. p \in ArrangedType /\ r \in ArrangedType /\ q \in ArrangedType
    BY <1>7, <1>11, SoundItems DEF Reaches
  <2>2. Later(r, q)
    BY <1>11 DEF Reaches
  <2>. HIDE DEF q
  <2>. QED
    BY <1>7, <2>1, <2>2, StillLater
<1>. QED
  BY <1>2, <1>11, <1>12 DEF Reaches

\* Undoing an edit leads from the document after it to the one before.
LEMMA EditUndoes ==
  ASSUME NEW e, NEW p, NEW a, NEW b, Sound(p), SoundDoc(a), SoundDoc(b), Leads(e, a, b), Arranged(p) = b
  PROVE  Reaches(p, EditUndone(e, p), a)
<1>1. CASE AddsTrack(e, a, b)
  BY <1>1, UndoesAddTrack
<1>2. CASE DeletesTrack(e, a, b)
  BY <1>2, UndoesDeleteTrack
<1>3. CASE RenamesTrack(e, a, b)
  <2>1. EditUndone(e, p) = [p EXCEPT !.tracks = Changed(@, e.old)]
    BY <1>3 DEF RenamesTrack, EditUndone
  <2>. QED
    BY <1>3, <2>1, SwapsTrack DEF RenamesTrack
<1>4. CASE CreatesPattern(e, a, b)
  BY <1>4, UndoesCreatePattern
<1>5. CASE ChangesClip(e, a, b)
  <2>1. EditUndone(e, p) = [p EXCEPT !.clips = Changed(@, e.old)]
    BY <1>5 DEF ChangesClip, EditUndone
  <2>. QED
    BY <1>5, <2>1, SwapsClip DEF ChangesClip
<1>6. CASE AddsClip(e, a, b)
  <2>1. EditUndone(e, p) = RemoveClip(p, e.clip.id)
    BY <1>6 DEF AddsClip, EditUndone
  <2>. QED
    <3>1. /\ e.clip \notin a.clips /\ b.clips = a.clips \cup {e.clip}
          /\ b.tracks = a.tracks /\ b.patterns = a.patterns
      BY <1>6 DEF AddsClip
    <3>2. Reaches(p, RemoveClip(p, e.clip.id), a)
      BY <3>1, LosesClip, Zenon
    <3>. QED
      BY <2>1, <3>2
<1>7. CASE DeletesClip(e, a, b)
  <2>1. EditUndone(e, p) = AddClip(p, e.clip)
    BY <1>7 DEF DeletesClip, EditUndone
  <2>. QED
    BY <1>7, <2>1, GainsClip DEF DeletesClip
<1>. QED
  BY <1>1, <1>2, <1>3, <1>4, <1>5, <1>6, <1>7 DEF Leads

\* Redoing it leads back.
LEMMA EditRedoes ==
  ASSUME NEW e, NEW p, NEW a, NEW b, Sound(p), SoundDoc(a), SoundDoc(b), Leads(e, a, b), Arranged(p) = a
  PROVE  Reaches(p, EditRedone(e, p), b)
<1>1. CASE AddsTrack(e, a, b)
  BY <1>1, RedoesAddTrack
<1>2. CASE DeletesTrack(e, a, b)
  BY <1>2, RedoesDeleteTrack
<1>3. CASE RenamesTrack(e, a, b)
  <2>1. EditRedone(e, p) = [p EXCEPT !.tracks = Changed(@, e.new)]
    BY <1>3 DEF RenamesTrack, EditRedone
  <2>. QED
    BY <1>3, <2>1, SwapsTrack DEF RenamesTrack
<1>4. CASE CreatesPattern(e, a, b)
  BY <1>4, RedoesCreatePattern
<1>5. CASE ChangesClip(e, a, b)
  <2>1. EditRedone(e, p) = [p EXCEPT !.clips = Changed(@, e.new)]
    BY <1>5 DEF ChangesClip, EditRedone
  <2>. QED
    BY <1>5, <2>1, SwapsClip DEF ChangesClip
<1>6. CASE AddsClip(e, a, b)
  <2>1. EditRedone(e, p) = AddClip(p, e.clip)
    BY <1>6 DEF AddsClip, EditRedone
  <2>. QED
    BY <1>6, <2>1, GainsClip DEF AddsClip
<1>7. CASE DeletesClip(e, a, b)
  <2>1. EditRedone(e, p) = RemoveClip(p, e.clip.id)
    BY <1>7 DEF DeletesClip, EditRedone
  <2>. QED
    <3>1. /\ e.clip \notin b.clips /\ a.clips = b.clips \cup {e.clip}
          /\ a.tracks = b.tracks /\ a.patterns = b.patterns
      BY <1>7 DEF DeletesClip
    <3>2. Reaches(p, RemoveClip(p, e.clip.id), b)
      BY <3>1, LosesClip, Zenon
    <3>. QED
      BY <2>1, <3>2
<1>. QED
  BY <1>1, <1>2, <1>3, <1>4, <1>5, <1>6, <1>7 DEF Leads

-----------------------------------------------------------------------------
(* Documents                                                               *)

LEMMA DocOfSound ==
  ASSUME NEW p, Sound(p), Peopled(p)
  PROVE  SoundDoc(Arranged(p)) /\ DocUnder(Arranged(p), p)
<1>. DEFINE d == Arranged(p)
<1>1. d.tracks = ToSet(p.tracks) /\ d.patterns = ToSet(p.patterns) /\ d.clips = ToSet(p.clips)
  BY ArrangedFields
<1>2. /\ p.tracks \in Seq(TrackType) /\ p.patterns \in Seq(PatternType) /\ p.clips \in Seq(PlacedClip)
      /\ ToSet(p.tracks) \subseteq TrackType /\ ToSet(p.patterns) \subseteq PatternType
      /\ ToSet(p.clips) \subseteq PlacedClip
      /\ \A c \in ToSet(p.clips) : /\ \E t \in ToSet(p.tracks) : t.id = c.track
                                   /\ \E q \in ToSet(p.patterns) : q.id = c.pattern
  BY SoundItems
<1>3. d \in DocType
  BY <1>2 DEF Arranged, DocType
<1>. HIDE DEF d
<1>4. Distinct(d.tracks) /\ Distinct(d.patterns) /\ Distinct(d.clips)
  BY <1>1, <1>2, ApartSet DEF Sound
<1>5. d.tracks # {} /\ d.patterns # {}
  <2>1. 1 \in DOMAIN p.tracks /\ 1 \in DOMAIN p.patterns
    BY <1>2 DEF Peopled
  <2>2. p.tracks[1] \in ToSet(p.tracks) /\ p.patterns[1] \in ToSet(p.patterns)
    BY <2>1 DEF ToSet
  <2>. QED
    BY <1>1, <2>2
<1>6. DocUnder(d, p)
  BY <1>1 DEF Sound, Under, DocUnder, ToSet
<1>. QED
  BY <1>1, <1>2, <1>3, <1>4, <1>5, <1>6 DEF SoundDoc, d

LEMMA PeopledDoc ==
  ASSUME NEW p, SoundDoc(Arranged(p))
  PROVE  Peopled(p)
BY ArrangedFields DEF SoundDoc, Peopled, ToSet

LEMMA UnderLater ==
  ASSUME NEW d \in DocType, NEW p \in ArrangedType, NEW q \in ArrangedType, DocUnder(d, p), Later(p, q)
  PROVE  DocUnder(d, q)
<1>1. /\ \A t \in d.tracks : t.id \in Nat
      /\ \A t \in d.patterns : t.id \in Nat
      /\ \A c \in d.clips : c.id \in Nat
  BY DEF DocType, TrackType, PatternType, PlacedClip
<1>2. /\ p.nextTrack \in Nat /\ p.nextPattern \in Nat /\ p.nextClip \in Nat
      /\ q.nextTrack \in Nat /\ q.nextPattern \in Nat /\ q.nextClip \in Nat
  BY DEF ArrangedType
<1>. QED
  BY <1>1, <1>2 DEF DocUnder, Later

LEMMA DocsType ==
  ASSUME ArrangementInv
  PROVE  /\ undo \in Seq(Edits) /\ redo \in Seq(Edits) /\ docs \in Seq(DocType)
         /\ Len(undo) \in Nat /\ Len(redo) \in Nat
         /\ DOMAIN undo = 1 .. Len(undo) /\ DOMAIN redo = 1 .. Len(redo) /\ DOMAIN docs = 1 .. Len(docs)
         /\ Len(docs) = Len(undo) + Len(redo) + 1
         /\ Len(undo) + 1 \in DOMAIN docs
         /\ project \in ArrangedType
         /\ Sound(project) /\ SoundDoc(Arranged(project))
<1>1. /\ undo \in Seq(Edits) /\ redo \in Seq(Edits) /\ docs \in Seq(DocType)
      /\ Len(docs) = Len(undo) + Len(redo) + 1
  BY DEF ArrangementInv, DocsInv
<1>2. project \in ArrangedType /\ Sound(project) /\ SoundDoc(Arranged(project))
  BY DocOfSound, SoundItems DEF ArrangementInv
<1>. QED
  BY <1>1, <1>2

\* A command that leads from one sound project to the next keeps the history.
LEMMA Pushes ==
  ASSUME ArrangementInv, NEW e \in Edits, Sound(project'), Later(project, project'), Peopled(project'),
         Leads(e, Arranged(project), Arranged(project')), PushEdit(e)
  PROVE  ArrangementInv'
<1>. DEFINE n == Len(undo)
            d == Arranged(project')
<1>1. /\ undo \in Seq(Edits) /\ redo \in Seq(Edits) /\ docs \in Seq(DocType)
      /\ n \in Nat /\ Len(redo) \in Nat /\ Len(docs) = n + Len(redo) + 1
      /\ project \in ArrangedType
  BY DocsType
<1>2. undo' = Append(undo, e) /\ redo' = << >> /\ docs' = Append(SubSeq(docs, 1, n + 1), d)
  BY DEF PushEdit
<1>3. SoundDoc(d) /\ DocUnder(d, project') /\ d \in DocType
  BY DocOfSound DEF SoundDoc
<1>. HIDE DEF d
<1>4. n + 1 <= Len(docs)
  BY <1>1
<1>5. /\ docs' \in Seq(DocType) /\ Len(docs') = n + 2 /\ docs'[n + 2] = d
      /\ \A k \in 1 .. n + 1 : docs'[k] = docs[k]
  <2>. DEFINE s == SubSeq(docs, 1, n + 1)
  <2>1. s \in Seq(DocType) /\ Len(s) = n + 1 /\ \A k \in 1 .. n + 1 : s[k] = docs[k]
    BY <1>1, <1>4
  <2>2. docs' = Append(s, d)
    BY <1>2
  <2>. HIDE DEF s
  <2>. QED
    BY <1>1, <1>3, <2>1, <2>2
<1>6. /\ undo' \in Seq(Edits) /\ Len(undo') = n + 1 /\ undo'[n + 1] = e
      /\ \A k \in 1 .. n : undo'[k] = undo[k]
  BY <1>1, <1>2
<1>7. \A k \in DOMAIN docs' : SoundDoc(docs'[k]) /\ DocUnder(docs'[k], project')
  <2>1. TAKE k \in DOMAIN docs'
  <2>2. CASE k = n + 2
    BY <1>3, <1>5, <2>2
  <2>3. CASE k # n + 2
    <3>1. k \in 1 .. n + 1 /\ k \in DOMAIN docs
      BY <1>1, <1>4, <1>5, <2>3
    <3>2. SoundDoc(docs[k]) /\ DocUnder(docs[k], project) /\ docs[k] \in DocType
      BY <1>1, <3>1 DEF ArrangementInv, DocsInv
    <3>3. DocUnder(docs[k], project')
      BY <1>1, <3>2, UnderLater, SoundItems
    <3>. QED
      BY <1>5, <3>1, <3>2, <3>3
  <2>. QED
    BY <2>2, <2>3
<1>8. \A k \in DOMAIN undo' : Leads(undo'[k], docs'[k], docs'[k + 1])
  <2>1. TAKE k \in DOMAIN undo'
  <2>2. CASE k = n + 1
    <3>1. docs'[k] = Arranged(project)
      <4>1. docs[n + 1] = Arranged(project)
        BY DEF ArrangementInv, DocsInv
      <4>2. n + 1 \in 1 .. n + 1
        BY <1>1
      <4>. QED
        BY <1>5, <2>2, <4>1, <4>2
    <3>2. docs'[k + 1] = d /\ undo'[k] = e
      BY <1>1, <1>5, <1>6, <2>2
    <3>. QED
      BY <3>1, <3>2 DEF d
  <2>3. CASE k # n + 1
    <3>1. k \in 1 .. n /\ k \in 1 .. n + 1 /\ k + 1 \in 1 .. n + 1 /\ k \in DOMAIN undo
      BY <1>1, <1>6, <2>3
    <3>2. Leads(undo[k], docs[k], docs[k + 1])
      BY <3>1 DEF ArrangementInv, DocsInv
    <3>. QED
      BY <1>5, <1>6, <3>1, <3>2
  <2>. QED
    BY <2>2, <2>3
<1>9. docs'[Len(undo') + 1] = Arranged(project')
  BY <1>1, <1>5, <1>6 DEF d
<1>10. DocsInv'
  <2>1. Len(redo') = 0 /\ redo' \in Seq(Edits) /\ DOMAIN redo' = {}
    BY <1>2
  <2>. QED
    BY <1>1, <1>5, <1>6, <1>7, <1>8, <1>9, <2>1 DEF DocsInv
<1>. QED
  BY <1>10 DEF ArrangementInv

LEMMA UndoKeeps ==
  ASSUME ArrangementInv, arrangementUndo
  PROVE  ArrangementInv'
<1>. DEFINE n == Len(undo)
            m == Len(redo)
            e == undo[n]
            a == docs[n]
            b == docs[n + 1]
<1>1. /\ undo \in Seq(Edits) /\ redo \in Seq(Edits) /\ docs \in Seq(DocType)
      /\ n \in Nat /\ m \in Nat /\ Len(docs) = n + m + 1 /\ DOMAIN docs = 1 .. n + m + 1
      /\ DOMAIN undo = 1 .. n /\ DOMAIN redo = 1 .. m /\ project \in ArrangedType
  BY DocsType
<1>2. n > 0
  BY <1>1 DEF arrangementUndo
<1>3. /\ project' = EditUndone(e, project) /\ undo' = SubSeq(undo, 1, n - 1)
      /\ redo' = Append(redo, e) /\ docs' = docs
  BY DEF arrangementUndo, Last, Front
<1>4. /\ SoundDoc(a) /\ SoundDoc(b) /\ Leads(e, a, b) /\ Arranged(project) = b
      /\ Sound(project)
  <2>1. n \in DOMAIN undo /\ n \in DOMAIN docs /\ n + 1 \in DOMAIN docs
    BY <1>1, <1>2
  <2>2. /\ \A k \in DOMAIN docs : SoundDoc(docs[k])
        /\ \A k \in DOMAIN undo : Leads(undo[k], docs[k], docs[k + 1])
        /\ docs[n + 1] = Arranged(project) /\ Sound(project)
    BY DEF ArrangementInv, DocsInv
  <2>. QED
    BY <2>1, <2>2
<1>. HIDE DEF a, b
<1>5. Sound(project') /\ Later(project, project') /\ Arranged(project') = a
  BY <1>3, <1>4, EditUndoes DEF Reaches
<1>6. Peopled(project')
  BY <1>4, <1>5, PeopledDoc
<1>7. /\ undo' \in Seq(Edits) /\ Len(undo') = n - 1 /\ DOMAIN undo' = 1 .. n - 1
      /\ \A k \in 1 .. n - 1 : undo'[k] = undo[k]
  <2>1. undo \in Seq(Edits) /\ Len(undo) > 0
    BY ONLY <1>1, <1>2
  <2>. QED
    BY ONLY <1>3, <2>1, LastCutOff
<1>8. /\ redo' \in Seq(Edits) /\ Len(redo') = m + 1 /\ DOMAIN redo' = 1 .. m + 1
      /\ redo'[m + 1] = e /\ \A k \in 1 .. m : redo'[k] = redo[k]
  <2>1. e \in Edits
    BY <1>1, <1>2
  <2>. HIDE DEF e
  <2>. QED
    BY <1>1, <1>3, <2>1
<1>9. \A k \in DOMAIN docs' : SoundDoc(docs'[k]) /\ DocUnder(docs'[k], project')
  <2>1. project' \in ArrangedType
    BY <1>5, SoundItems
  <2>2. ASSUME NEW k \in DOMAIN docs PROVE SoundDoc(docs[k]) /\ DocUnder(docs[k], project')
    <3>1. SoundDoc(docs[k]) /\ DocUnder(docs[k], project) /\ docs[k] \in DocType
      BY <1>1 DEF ArrangementInv, DocsInv
    <3>. QED
      BY <1>1, <1>5, <2>1, <3>1, UnderLater
  <2>. QED
    BY <1>3, <2>2
<1>10. \A k \in DOMAIN undo' : Leads(undo'[k], docs'[k], docs'[k + 1])
  <2>1. \A k \in 1 .. n - 1 : k \in 1 .. n
    BY ONLY <1>1
  <2>2. \A k \in 1 .. n : Leads(undo[k], docs[k], docs[k + 1])
    BY <1>1 DEF ArrangementInv, DocsInv
  <2>. QED
    BY ONLY <1>3, <1>7, <2>1, <2>2, Zenon
<1>11. \A k \in DOMAIN redo' : Leads(redo'[k], docs'[Len(docs') - k], docs'[Len(docs') - k + 1])
  <2>1. TAKE k \in DOMAIN redo'
  <2>2. CASE k = m + 1
    <3>1. Len(docs') - k = n /\ Len(docs') - k + 1 = n + 1
      BY <1>1, <1>3, <2>2
    <3>. QED
      BY <1>3, <1>4, <1>8, <2>2, <3>1 DEF a, b
  <2>3. CASE k # m + 1
    <3>1. k \in 1 .. m /\ k \in DOMAIN redo
      BY <1>1, <1>8, <2>3
    <3>2. Leads(redo[k], docs[Len(docs) - k], docs[Len(docs) - k + 1])
      BY <3>1 DEF ArrangementInv, DocsInv
    <3>. QED
      BY <1>3, <1>8, <3>1, <3>2
  <2>. QED
    BY <2>2, <2>3
<1>12. docs'[Len(undo') + 1] = Arranged(project')
  <2>1. Len(undo') + 1 = n
    BY ONLY <1>1, <1>2, <1>7
  <2>. QED
    BY ONLY <1>3, <1>5, <2>1 DEF a
<1>13. Len(docs') = Len(undo') + Len(redo') + 1
  <2>1. Len(docs') = n + m + 1
    BY <1>1, <1>3
  <2>2. \A i, j \in Nat : (i - 1) + (j + 1) + 1 = i + j + 1
    OBVIOUS
  <2>3. Len(undo') + Len(redo') + 1 = n + m + 1
    <3>1. Len(undo') = n - 1 /\ Len(redo') = m + 1 /\ n \in Nat /\ m \in Nat
      BY ONLY <1>1, <1>7, <1>8
    <3>. HIDE DEF n, m
    <3>. QED
      BY ONLY <2>2, <3>1, Zenon
  <2>. QED
    BY <2>1, <2>3
<1>14. DocsInv'
  BY <1>1, <1>3, <1>7, <1>8, <1>9, <1>10, <1>11, <1>12, <1>13 DEF DocsInv
<1>. QED
  BY <1>5, <1>6, <1>14 DEF ArrangementInv

LEMMA RedoKeeps ==
  ASSUME ArrangementInv, arrangementRedo
  PROVE  ArrangementInv'
<1>. DEFINE n == Len(undo)
            m == Len(redo)
            e == redo[m]
            a == docs[n + 1]
            b == docs[n + 2]
<1>1. /\ undo \in Seq(Edits) /\ redo \in Seq(Edits) /\ docs \in Seq(DocType)
      /\ n \in Nat /\ m \in Nat /\ Len(docs) = n + m + 1 /\ DOMAIN docs = 1 .. n + m + 1
      /\ DOMAIN undo = 1 .. n /\ DOMAIN redo = 1 .. m /\ project \in ArrangedType
  BY DocsType
<1>2. m > 0
  BY <1>1 DEF arrangementRedo
<1>3. /\ project' = EditRedone(e, project) /\ redo' = SubSeq(redo, 1, m - 1)
      /\ undo' = Append(undo, e) /\ docs' = docs
  BY DEF arrangementRedo, Last, Front
<1>4. /\ SoundDoc(a) /\ SoundDoc(b) /\ Leads(e, a, b) /\ Arranged(project) = a
      /\ Sound(project)
  <2>1. Len(docs) - m = n + 1 /\ Len(docs) - m + 1 = n + 2 /\ m \in DOMAIN redo
        /\ n + 1 \in DOMAIN docs /\ n + 2 \in DOMAIN docs
    BY <1>1, <1>2
  <2>2. Leads(e, docs[Len(docs) - m], docs[Len(docs) - m + 1])
    BY <2>1 DEF ArrangementInv, DocsInv
  <2>3. Leads(e, a, b)
    BY <2>1, <2>2
  <2>. QED
    BY <2>1, <2>3 DEF ArrangementInv, DocsInv
<1>. HIDE DEF a, b
<1>5. Sound(project') /\ Later(project, project') /\ Arranged(project') = b
  BY <1>3, <1>4, EditRedoes DEF Reaches
<1>6. Peopled(project')
  BY <1>4, <1>5, PeopledDoc
<1>7. /\ redo' \in Seq(Edits) /\ Len(redo') = m - 1 /\ DOMAIN redo' = 1 .. m - 1
      /\ \A k \in 1 .. m - 1 : redo'[k] = redo[k]
  <2>1. redo \in Seq(Edits) /\ Len(redo) > 0
    BY ONLY <1>1, <1>2
  <2>. QED
    BY ONLY <1>3, <2>1, LastCutOff
<1>8. /\ undo' \in Seq(Edits) /\ Len(undo') = n + 1 /\ DOMAIN undo' = 1 .. n + 1
      /\ undo'[n + 1] = e /\ \A k \in 1 .. n : undo'[k] = undo[k]
  <2>1. e \in Edits
    BY <1>1, <1>2
  <2>. HIDE DEF e
  <2>. QED
    BY <1>1, <1>3, <2>1
<1>9. \A k \in DOMAIN docs' : SoundDoc(docs'[k]) /\ DocUnder(docs'[k], project')
  <2>1. project' \in ArrangedType
    BY <1>5, SoundItems
  <2>2. ASSUME NEW k \in DOMAIN docs PROVE SoundDoc(docs[k]) /\ DocUnder(docs[k], project')
    <3>1. SoundDoc(docs[k]) /\ DocUnder(docs[k], project) /\ docs[k] \in DocType
      BY <1>1 DEF ArrangementInv, DocsInv
    <3>. QED
      BY <1>1, <1>5, <2>1, <3>1, UnderLater
  <2>. QED
    BY <1>3, <2>2
<1>10. \A k \in DOMAIN redo' : Leads(redo'[k], docs'[Len(docs') - k], docs'[Len(docs') - k + 1])
  <2>1. TAKE k \in DOMAIN redo'
  <2>2. k \in DOMAIN redo /\ redo'[k] = redo[k]
    BY <1>1, <1>7
  <2>3. Leads(redo[k], docs[Len(docs) - k], docs[Len(docs) - k + 1])
    BY <2>2 DEF ArrangementInv, DocsInv
  <2>. QED
    BY <1>3, <2>2, <2>3
<1>11. \A k \in DOMAIN undo' : Leads(undo'[k], docs'[k], docs'[k + 1])
  <2>1. TAKE k \in DOMAIN undo'
  <2>2. CASE k = n + 1
    <3>1. k + 1 = n + 2
      BY <1>1, <2>2
    <3>. QED
      BY <1>3, <1>4, <1>8, <2>2, <3>1 DEF a, b
  <2>3. CASE k # n + 1
    <3>1. k \in 1 .. n /\ k \in DOMAIN undo
      BY <1>1, <1>8, <2>3
    <3>2. Leads(undo[k], docs[k], docs[k + 1])
      BY <3>1 DEF ArrangementInv, DocsInv
    <3>. QED
      BY <1>3, <1>8, <3>1, <3>2
  <2>. QED
    BY <2>2, <2>3
<1>12. docs'[Len(undo') + 1] = Arranged(project')
  <2>1. Len(undo') + 1 = n + 2
    BY <1>1, <1>8
  <2>. QED
    BY <1>3, <1>5, <2>1 DEF b
<1>13. Len(docs') = Len(undo') + Len(redo') + 1
  <2>1. Len(docs') = n + m + 1
    BY <1>1, <1>3
  <2>2. \A i, j \in Nat : (i + 1) + (j - 1) + 1 = i + j + 1
    OBVIOUS
  <2>3. Len(undo') + Len(redo') + 1 = n + m + 1
    <3>1. n \in Nat /\ m \in Nat
      BY <1>1
    <3>2. Len(undo') = n + 1 /\ Len(redo') = m - 1
      BY <1>7, <1>8
    <3>. HIDE DEF n, m
    <3>3. (n + 1) + (m - 1) + 1 = n + m + 1
      BY <2>2, <3>1
    <3>. QED
      BY <3>2, <3>3
  <2>. QED
    BY <2>1, <2>3
<1>14. DocsInv'
  BY <1>1, <1>3, <1>7, <1>8, <1>9, <1>10, <1>11, <1>12, <1>13 DEF DocsInv
<1>. QED
  BY <1>5, <1>6, <1>14 DEF ArrangementInv

-----------------------------------------------------------------------------
(* The commands                                                            *)

\* The next id is not in use.
LEMMA NextIsNew ==
  ASSUME NEW S, NEW items \in Seq(S), NEW n \in Nat, \A x \in S : x.id \in Nat, Under(items, n)
  PROVE  ~Has(items, n)
<1>1. \A i \in DOMAIN items : items[i].id \in Nat /\ items[i].id < n
  BY DEF Under
<1>. QED
  BY <1>1 DEF Has

LEMMA NextIds ==
  ASSUME NEW p, Sound(p)
  PROVE  ~Has(p.tracks, p.nextTrack) /\ ~Has(p.patterns, p.nextPattern) /\ ~Has(p.clips, p.nextClip)
<1>1. /\ p.tracks \in Seq(TrackType) /\ p.patterns \in Seq(PatternType) /\ p.clips \in Seq(PlacedClip)
      /\ p.nextTrack \in Nat /\ p.nextPattern \in Nat /\ p.nextClip \in Nat
  BY SoundItems
<1>2. /\ \A x \in TrackType : x.id \in Nat
      /\ \A x \in PatternType : x.id \in Nat
      /\ \A x \in PlacedClip : x.id \in Nat
  BY DEF TrackType, PatternType, PlacedClip
<1>. QED
  BY <1>1, <1>2, NextIsNew DEF Sound

LEMMA AddTrackKeeps ==
  ASSUME ArrangementInv, NEW name \in Names, addTrack(name)
  PROVE  ArrangementInv'
<1>. DEFINE t == Track(project.nextTrack, name)
            e == [do |-> "addTrack", track |-> t]
<1>1. /\ Sound(project) /\ Peopled(project) /\ project.tracks \in Seq(TrackType)
      /\ project.nextTrack \in Nat /\ project' = AddTrack(project, t) /\ PushEdit(e)
  BY SoundItems DEF ArrangementInv, addTrack
<1>2. t \in TrackType /\ t.id = project.nextTrack
  BY <1>1 DEF Track, TrackType, TrackNames
<1>3. e \in Edits /\ e.do = "addTrack" /\ e.track = t
  BY <1>2 DEF Edits
<1>. HIDE DEF t, e
<1>4. ~Has(project.tracks, t.id)
  BY <1>1, <1>2, NextIds
<1>5. /\ Sound(project') /\ Later(project, project') /\ project'.tracks = Append(project.tracks, t)
      /\ project'.patterns = project.patterns /\ project'.clips = project.clips
  BY <1>1, <1>2, <1>4, TrackAdded
<1>6. ToSet(project'.tracks) = ToSet(project.tracks) \cup {t} /\ project'.tracks # << >>
  BY <1>1, <1>2, <1>5, Appended
<1>7. Peopled(project')
  BY <1>1, <1>5, <1>6 DEF Peopled
<1>8. t \notin ToSet(project.tracks)
  BY <1>1, <1>4, HasSet
<1>9. AddsTrack(e, Arranged(project), Arranged(project'))
  BY <1>2, <1>3, <1>5, <1>6, <1>8 DEF AddsTrack, Arranged
<1>. QED
  BY <1>1, <1>3, <1>5, <1>7, <1>9, Pushes DEF Leads

LEMMA RenameTrackKeeps ==
  ASSUME ArrangementInv, NEW name \in Names, NEW id, renameTrack(id, name)
  PROVE  ArrangementInv'
<1>. DEFINE old == The(project.tracks, id)
            new == [old EXCEPT !.name = name]
            e == [do |-> "renameTrack", old |-> old, new |-> new]
<1>1. /\ Sound(project) /\ Peopled(project) /\ project.tracks \in Seq(TrackType)
      /\ project' = [project EXCEPT !.tracks = Changed(@, new)] /\ PushEdit(e)
      /\ Has(project.tracks, id)
  BY SoundItems DEF ArrangementInv, renameTrack
<1>2. old \in TrackType /\ old \in ToSet(project.tracks)
  BY <1>1, TheItem
<1>. HIDE DEF old
<1>3. new \in TrackType /\ new.id = old.id
  BY <1>2 DEF TrackType, TrackNames
<1>4. e \in Edits /\ e.do = "renameTrack" /\ e.old = old /\ e.new = new
  BY <1>2, <1>3 DEF Edits
<1>. HIDE DEF new, e
<1>5. Became(project, project', (ToSet(project.tracks) \ {old}) \cup {new}, ToSet(project.patterns),
             ToSet(project.clips))
  BY <1>1, <1>2, <1>3, TrackChanged, Zenon
<1>6. \A x \in ToSet(project.tracks) : x.id = old.id => x = old
  BY <1>1, <1>2, ApartSet DEF Sound, Distinct
<1>7. ToSet(project.tracks) = (ToSet(project'.tracks) \ {new}) \cup {old}
  <2>1. ToSet(project'.tracks) = (ToSet(project.tracks) \ {old}) \cup {new}
    BY <1>5 DEF Became
  <2>2. new # old => new \notin ToSet(project.tracks)
    BY <1>3, <1>6
  <2>. QED
    BY <1>2, <2>1, <2>2
<1>8. RenamesTrack(e, Arranged(project), Arranged(project'))
  BY <1>2, <1>3, <1>4, <1>5, <1>7 DEF RenamesTrack, Arranged, Became
<1>9. Peopled(project')
  <2>1. ToSet(project'.tracks) # {} /\ ToSet(project'.patterns) = ToSet(project.patterns)
    BY <1>5 DEF Became
  <2>2. ToSet(project.patterns) # {}
    BY <1>1, DocOfSound DEF SoundDoc, Arranged
  <2>. QED
    BY <2>1, <2>2, NotEmpty DEF Peopled
<1>. QED
  BY <1>1, <1>4, <1>5, <1>8, <1>9, Pushes DEF Leads, Became

LEMMA DeleteTrackKeeps ==
  ASSUME ArrangementInv, NEW id, deleteTrack(id)
  PROVE  ArrangementInv'
<1>. DEFINE t == The(project.tracks, id)
            cs == With(project.clips, "track", id)
            e == [do |-> "deleteTrack", track |-> t, clips |-> cs]
<1>1. /\ Sound(project) /\ Peopled(project) /\ project.tracks \in Seq(TrackType)
      /\ project.clips \in Seq(PlacedClip) /\ project' = RemoveTrack(project, id) /\ PushEdit(e)
      /\ Has(project.tracks, id) /\ Len(project.tracks) > 1
  BY SoundItems DEF ArrangementInv, deleteTrack
<1>2. t \in TrackType /\ t \in ToSet(project.tracks) /\ t.id = id
  BY <1>1, TheItem
<1>3. /\ cs \in Seq(PlacedClip) /\ Apart(cs)
      /\ \A c : c \in ToSet(cs) <=> c \in ToSet(project.clips) /\ c.track = id
  <2>1. \A f : /\ With(project.clips, f, id) \in Seq(PlacedClip)
               /\ \A x : x \in ToSet(With(project.clips, f, id)) <=> x \in ToSet(project.clips) /\ x[f] = id
               /\ Apart(project.clips) => Apart(With(project.clips, f, id))
    BY <1>1, WithItems, Zenon
  <2>. QED
    BY <1>1, <2>1 DEF Sound
<1>. HIDE DEF t, cs
<1>4. e \in Edits /\ e.do = "deleteTrack" /\ e.track = t /\ e.clips = cs
  BY <1>2, <1>3 DEF Edits
<1>. HIDE DEF e
<1>5. /\ Sound(project') /\ Later(project, project')
      /\ ToSet(project'.tracks) = {x \in ToSet(project.tracks) : x.id # id}
      /\ ToSet(project'.clips) = {c \in ToSet(project.clips) : c.track # id}
      /\ project'.patterns = project.patterns
  <2>1. /\ Sound(project') /\ Later(project, project')
        /\ ToSet(project'.tracks) = OtherIds(ToSet(project.tracks), id)
        /\ ToSet(project'.clips) = OtherTracks(ToSet(project.clips), id)
        /\ project'.patterns = project.patterns
    BY <1>1, TrackRemoved, Zenon
  <2>. QED
    BY <2>1 DEF OtherIds, OtherTracks
<1>6. \A x \in ToSet(project.tracks) : x.id = id => x = t
  BY <1>1, <1>2, ApartSet DEF Sound, Distinct
<1>7. t \notin ToSet(project'.tracks) /\ ToSet(project.tracks) = ToSet(project'.tracks) \cup {t}
  BY <1>2, <1>5, <1>6
<1>8. /\ ToSet(project.clips) = ToSet(project'.clips) \cup ToSet(cs)
      /\ \A c \in ToSet(cs) : c.track = t.id /\ c \notin ToSet(project'.clips)
  BY <1>2, <1>3, <1>5
<1>9. DeletesTrack(e, Arranged(project), Arranged(project'))
  BY <1>2, <1>3, <1>4, <1>5, <1>7, <1>8 DEF DeletesTrack, Arranged
<1>10. Peopled(project')
  <2>1. 1 \in DOMAIN project.tracks /\ 2 \in DOMAIN project.tracks
    BY <1>1
  <2>2. project.tracks[1].id # id \/ project.tracks[2].id # id
    BY <1>1, <2>1 DEF Sound, Apart
  <2>3. \E x \in ToSet(project.tracks) : x.id # id
    BY <2>1, <2>2 DEF ToSet
  <2>4. ToSet(project'.tracks) # {}
    BY <1>5, <2>3
  <2>. QED
    BY <1>1, <1>5, <2>4 DEF Peopled, ToSet
<1>. QED
  BY <1>1, <1>4, <1>5, <1>9, <1>10, Pushes DEF Leads

LEMMA TrackIds ==
  ASSUME NEW items \in Seq(TrackType), NEW id, Has(items, id)
  PROVE  id \in Nat
<1>1. PICK i \in DOMAIN items : items[i].id = id
  BY DEF Has
<1>2. items[i] \in TrackType
  OBVIOUS
<1>. QED
  BY <1>1, <1>2 DEF TrackType

LEMMA CreatePatternKeeps ==
  ASSUME ArrangementInv, NEW track, NEW start \in DropBeats, createPattern(track, start)
  PROVE  ArrangementInv'
<1>. DEFINE pattern == Pattern(project.nextPattern, NewLength)
            clip == Clip(project.nextClip, track, pattern.id, start, NewLength)
            e == [do |-> "createPattern", pattern |-> pattern, clip |-> clip]
            r == AddPattern(project, pattern)
<1>1. /\ Sound(project) /\ Peopled(project) /\ project.tracks \in Seq(TrackType)
      /\ project.patterns \in Seq(PatternType) /\ project.clips \in Seq(PlacedClip)
      /\ project.nextPattern \in Nat /\ project.nextClip \in Nat
      /\ project' = AddClip(r, clip) /\ PushEdit(e) /\ Has(project.tracks, track)
  BY SoundItems DEF ArrangementInv, createPattern
<1>2. pattern \in PatternType /\ pattern.id = project.nextPattern
  BY <1>1, ArrangementAssumption DEF Pattern, PatternType
<1>3. track \in Nat
  BY <1>1, TrackIds
<1>4. /\ clip \in PlacedClip /\ clip.id = project.nextClip /\ clip.track = track
      /\ clip.pattern = pattern.id
  BY <1>1, <1>2, <1>3, ArrangementAssumption DEF Clip, PlacedClip
<1>5. e \in Edits /\ e.do = "createPattern" /\ e.pattern = pattern /\ e.clip = clip
  BY <1>2, <1>4 DEF Edits
<1>. HIDE DEF pattern, clip, e
<1>6. ~Has(project.patterns, pattern.id) /\ ~Has(project.clips, clip.id)
  BY <1>1, <1>2, <1>4, NextIds
<1>7. /\ Sound(r) /\ Later(project, r) /\ r.patterns = Append(project.patterns, pattern)
      /\ r.tracks = project.tracks /\ r.clips = project.clips
  BY <1>1, <1>2, <1>6, PatternAdded
<1>. HIDE DEF r
<1>8. ToSet(r.patterns) = ToSet(project.patterns) \cup {pattern} /\ r.patterns # << >>
      /\ r.patterns \in Seq(PatternType)
  <2>1. project.patterns \in Seq(PatternType) /\ pattern \in PatternType
    BY <1>1, <1>2
  <2>2. /\ Append(project.patterns, pattern) \in Seq(PatternType)
        /\ ToSet(Append(project.patterns, pattern)) = ToSet(project.patterns) \cup {pattern}
        /\ Append(project.patterns, pattern) # << >>
    BY <2>1, Appended, Zenon
  <2>. QED
    BY <1>7, <2>2
<1>9. Has(r.patterns, clip.pattern)
  <2>1. pattern \in ToSet(r.patterns) /\ pattern.id = clip.pattern
    BY <1>4, <1>8
  <2>. QED
    BY <1>8, <2>1, HasSet
<1>10. /\ Sound(project') /\ Later(r, project') /\ project'.clips = Append(project.clips, clip)
       /\ project'.tracks = project.tracks /\ project'.patterns = r.patterns
  BY <1>1, <1>4, <1>6, <1>7, <1>9, ClipAdded
<1>11. ToSet(project'.clips) = ToSet(project.clips) \cup {clip}
  BY <1>1, <1>4, <1>10, Appended
<1>12. pattern \notin ToSet(project.patterns) /\ clip \notin ToSet(project.clips)
  BY <1>1, <1>6, HasSet
<1>13. Later(project, project')
  <2>1. project \in ArrangedType /\ r \in ArrangedType /\ project' \in ArrangedType
    BY <1>1, <1>7, <1>10, SoundItems
  <2>. QED
    BY <1>7, <1>10, <2>1, StillLater
<1>14. Peopled(project')
  BY <1>1, <1>8, <1>10 DEF Peopled
<1>15. CreatesPattern(e, Arranged(project), Arranged(project'))
  BY <1>2, <1>4, <1>5, <1>8, <1>10, <1>11, <1>12 DEF CreatesPattern, Arranged
<1>. QED
  BY <1>1, <1>5, <1>10, <1>13, <1>14, <1>15, Pushes DEF Leads

LEMMA ChangeClipKeeps ==
  ASSUME ArrangementInv, NEW id, NEW new \in PlacedClip, new.id = id, Has(project.clips, id),
         Has(project.tracks, new.track), Has(project.patterns, new.pattern), ChangeClip(new)
  PROVE  ArrangementInv'
<1>. DEFINE old == The(project.clips, new.id)
            e == [do |-> "changeClip", old |-> old, new |-> new]
<1>1. /\ Sound(project) /\ Peopled(project) /\ project.clips \in Seq(PlacedClip)
      /\ project.tracks \in Seq(TrackType) /\ project.patterns \in Seq(PatternType)
      /\ project' = [project EXCEPT !.clips = Changed(@, new)] /\ PushEdit(e)
  BY SoundItems DEF ArrangementInv, ChangeClip
<1>2. old \in PlacedClip /\ old \in ToSet(project.clips) /\ old.id = new.id
  BY <1>1, TheItem
<1>. HIDE DEF old
<1>4. e \in Edits /\ e.do = "changeClip" /\ e.old = old /\ e.new = new
  BY <1>2 DEF Edits
<1>. HIDE DEF e
<1>3. (\E t \in ToSet(project.tracks) : t.id = new.track) /\ (\E u \in ToSet(project.patterns) : u.id = new.pattern)
  BY <1>1, HasSet
<1>5. Became(project, project', ToSet(project.tracks), ToSet(project.patterns),
             (ToSet(project.clips) \ {old}) \cup {new})
  BY <1>1, <1>2, <1>3, ClipChanged, Zenon
<1>6. \A x \in ToSet(project.clips) : x.id = old.id => x = old
  BY <1>1, <1>2, ApartSet DEF Sound, Distinct
<1>7. ToSet(project.clips) = (ToSet(project'.clips) \ {new}) \cup {old}
  <2>1. ToSet(project'.clips) = (ToSet(project.clips) \ {old}) \cup {new}
    BY <1>5 DEF Became
  <2>2. new # old => new \notin ToSet(project.clips)
    BY <1>2, <1>6
  <2>. QED
    BY <1>2, <2>1, <2>2
<1>8. ChangesClip(e, Arranged(project), Arranged(project'))
  BY <1>2, <1>4, <1>5, <1>7 DEF ChangesClip, Arranged, Became
<1>9. Peopled(project')
  <2>1. ToSet(project'.tracks) = ToSet(project.tracks) /\ ToSet(project'.patterns) = ToSet(project.patterns)
    BY <1>5 DEF Became
  <2>2. ToSet(project.patterns) # {} /\ ToSet(project.tracks) # {}
    BY <1>1, DocOfSound DEF SoundDoc, Arranged
  <2>. QED
    BY <2>1, <2>2, NotEmpty DEF Peopled
<1>. QED
  BY <1>1, <1>4, <1>5, <1>8, <1>9, Pushes DEF Leads, Became

\* A clip of the project has its track and pattern.
LEMMA TheClip ==
  ASSUME NEW p, Sound(p), NEW id, Has(p.clips, id)
  PROVE  /\ The(p.clips, id) \in PlacedClip /\ The(p.clips, id) \in ToSet(p.clips)
         /\ The(p.clips, id).id = id
         /\ Has(p.tracks, The(p.clips, id).track) /\ Has(p.patterns, The(p.clips, id).pattern)
<1>1. p.clips \in Seq(PlacedClip)
  BY SoundItems
<1>2. The(p.clips, id) \in PlacedClip /\ The(p.clips, id) \in ToSet(p.clips) /\ The(p.clips, id).id = id
  BY <1>1, TheItem
<1>3. \A c \in ToSet(p.clips) : Has(p.tracks, c.track) /\ Has(p.patterns, c.pattern)
  BY DEF Sound, InPlace, ToSet
<1>. QED
  BY <1>2, <1>3

LEMMA MoveClipKeeps ==
  ASSUME ArrangementInv, NEW id, NEW start \in DropBeats, NEW track, moveClip(id, start, track)
  PROVE  ArrangementInv'
<1>. DEFINE old == The(project.clips, id)
            new == [old EXCEPT !.start = start, !.track = track]
<1>1. /\ Sound(project) /\ Has(project.clips, id) /\ Has(project.tracks, track) /\ ChangeClip(new)
      /\ project.tracks \in Seq(TrackType)
  BY SoundItems DEF ArrangementInv, moveClip
<1>2. old \in PlacedClip /\ old.id = id /\ Has(project.patterns, old.pattern)
  BY <1>1, TheClip
<1>3. track \in Nat /\ start \in Nat
  BY <1>1, TrackIds, ArrangementAssumption
<1>. HIDE DEF old
<1>4. new \in PlacedClip /\ new.id = id /\ new.track = track /\ new.pattern = old.pattern
  BY <1>2, <1>3 DEF PlacedClip
<1>. HIDE DEF new
<1>. QED
  BY <1>1, <1>2, <1>4, ChangeClipKeeps

LEMMA ResizeClipKeeps ==
  ASSUME ArrangementInv, NEW id, NEW duration \in ClipLengths, resizeClip(id, duration)
  PROVE  ArrangementInv'
<1>. DEFINE old == The(project.clips, id)
            new == [old EXCEPT !.duration = duration]
<1>1. Sound(project) /\ Has(project.clips, id) /\ ChangeClip(new)
  BY DEF ArrangementInv, resizeClip
<1>2. /\ old \in PlacedClip /\ old.id = id
      /\ Has(project.tracks, old.track) /\ Has(project.patterns, old.pattern)
  BY <1>1, TheClip
<1>3. duration \in Nat \ {0}
  BY ArrangementAssumption
<1>. HIDE DEF old
<1>4. new \in PlacedClip /\ new.id = id /\ new.track = old.track /\ new.pattern = old.pattern
  BY <1>2, <1>3 DEF PlacedClip
<1>. HIDE DEF new
<1>. QED
  BY <1>1, <1>2, <1>4, ChangeClipKeeps

LEMMA DuplicateClipKeeps ==
  ASSUME ArrangementInv, NEW id, duplicateClip(id)
  PROVE  ArrangementInv'
<1>. DEFINE source == The(project.clips, id)
            copy == [source EXCEPT !.id = project.nextClip, !.start = source.start + source.duration]
            e == [do |-> "duplicateClip", clip |-> copy]
<1>1. /\ Sound(project) /\ Peopled(project) /\ project.clips \in Seq(PlacedClip)
      /\ project.nextClip \in Nat /\ project' = AddClip(project, copy) /\ PushEdit(e)
      /\ Has(project.clips, id)
  BY SoundItems DEF ArrangementInv, duplicateClip
<1>2. /\ source \in PlacedClip
      /\ Has(project.tracks, source.track) /\ Has(project.patterns, source.pattern)
  BY <1>1, TheClip
<1>. HIDE DEF source
<1>3. source.start + source.duration \in Nat
  BY <1>2 DEF PlacedClip
<1>4. /\ copy \in PlacedClip /\ copy.id = project.nextClip
      /\ copy.track = source.track /\ copy.pattern = source.pattern
  BY <1>1, <1>2, <1>3 DEF PlacedClip
<1>5. e \in Edits /\ e.do = "duplicateClip" /\ e.clip = copy
  BY <1>4 DEF Edits
<1>. HIDE DEF copy, e
<1>6. ~Has(project.clips, copy.id)
  BY <1>1, <1>4, NextIds
<1>7. /\ Sound(project') /\ Later(project, project') /\ project'.clips = Append(project.clips, copy)
      /\ project'.tracks = project.tracks /\ project'.patterns = project.patterns
  BY <1>1, <1>2, <1>4, <1>6, ClipAdded
<1>8. ToSet(project'.clips) = ToSet(project.clips) \cup {copy}
  BY <1>1, <1>4, <1>7, Appended
<1>9. copy \notin ToSet(project.clips)
  BY <1>1, <1>6, HasSet
<1>10. AddsClip(e, Arranged(project), Arranged(project'))
  BY <1>4, <1>5, <1>7, <1>8, <1>9 DEF AddsClip, Arranged
<1>11. Peopled(project')
  BY <1>1, <1>7 DEF Peopled
<1>. QED
  BY <1>1, <1>5, <1>7, <1>10, <1>11, Pushes DEF Leads

LEMMA DeleteClipKeeps ==
  ASSUME ArrangementInv, NEW id, deleteClip(id)
  PROVE  ArrangementInv'
<1>. DEFINE c == The(project.clips, id)
            e == [do |-> "deleteClip", clip |-> c]
<1>1. /\ Sound(project) /\ Peopled(project) /\ project.clips \in Seq(PlacedClip)
      /\ project' = RemoveClip(project, id) /\ PushEdit(e) /\ Has(project.clips, id)
  BY SoundItems DEF ArrangementInv, deleteClip
<1>2. c \in PlacedClip /\ c \in ToSet(project.clips) /\ c.id = id
  BY <1>1, TheItem
<1>. HIDE DEF c
<1>3. e \in Edits /\ e.do = "deleteClip" /\ e.clip = c
  BY <1>2 DEF Edits
<1>. HIDE DEF e
<1>4. /\ Sound(project') /\ Later(project, project')
      /\ ToSet(project'.clips) = {x \in ToSet(project.clips) : x.id # id}
      /\ project'.tracks = project.tracks /\ project'.patterns = project.patterns
  <2>1. /\ Sound(project') /\ Later(project, project')
        /\ ToSet(project'.clips) = OtherIds(ToSet(project.clips), id)
        /\ project'.tracks = project.tracks /\ project'.patterns = project.patterns
    BY <1>1, ClipRemoved, Zenon
  <2>. QED
    BY <2>1 DEF OtherIds
<1>5. \A x \in ToSet(project.clips) : x.id = id => x = c
  BY <1>1, <1>2, ApartSet DEF Sound, Distinct
<1>6. c \notin ToSet(project'.clips) /\ ToSet(project.clips) = ToSet(project'.clips) \cup {c}
  BY <1>2, <1>4, <1>5
<1>7. DeletesClip(e, Arranged(project), Arranged(project'))
  BY <1>2, <1>3, <1>4, <1>6 DEF DeletesClip, Arranged
<1>8. Peopled(project')
  BY <1>1, <1>4 DEF Peopled
<1>. QED
  BY <1>1, <1>3, <1>4, <1>7, <1>8, Pushes DEF Leads

LEMMA ReplaceKeeps ==
  ASSUME NEW p, Sound(p), Peopled(p), Replace(p)
  PROVE  ArrangementInv'
<1>1. project' = p /\ undo' = << >> /\ redo' = << >> /\ docs' = <<Arranged(p)>>
  BY DEF Replace
<1>2. SoundDoc(Arranged(p)) /\ DocUnder(Arranged(p), p)
  BY DocOfSound
<1>3. Arranged(p) \in DocType
  BY <1>2 DEF SoundDoc
<1>. DEFINE d == Arranged(p)
<1>. HIDE DEF d
<1>4. /\ docs' = <<d>> /\ SoundDoc(d) /\ DocUnder(d, project') /\ d \in DocType
      /\ Arranged(project') = d
  BY <1>1, <1>2, <1>3 DEF d
<1>5. /\ docs' \in Seq(DocType) /\ Len(docs') = 1 /\ DOMAIN docs' = {1} /\ docs'[1] = d
  BY <1>4
<1>6. /\ undo' \in Seq(Edits) /\ redo' \in Seq(Edits) /\ Len(undo') = 0 /\ Len(redo') = 0
      /\ DOMAIN undo' = {} /\ DOMAIN redo' = {}
  BY <1>1
<1>7. docs'[Len(undo') + 1] = Arranged(project') /\ Len(docs') = Len(undo') + Len(redo') + 1
  BY <1>4, <1>5, <1>6
<1>8. \A k \in DOMAIN docs' : SoundDoc(docs'[k]) /\ DocUnder(docs'[k], project')
  BY <1>4, <1>5
<1>9. DocsInv'
  BY <1>5, <1>6, <1>7, <1>8 DEF DocsInv
<1>. QED
  BY <1>1, <1>9 DEF ArrangementInv

LEMMA ArrangementStays ==
  ASSUME ArrangementInv, UNCHANGED <<project, undo, redo, docs>>
  PROVE  ArrangementInv'
BY DEF ArrangementInv, DocsInv

-----------------------------------------------------------------------------
(* Importing                                                               *)

\* What is in S and not in T has an id from n on.
NewFrom(S, T, n) == \A x \in S : x \in T \/ x.id >= n

\* q is p with items added that have new ids, new clips being on new tracks
\* and of new patterns.
Grows(p, q) ==
  /\ Sound(q) /\ Later(p, q)
  /\ ToSet(p.tracks) \subseteq ToSet(q.tracks) /\ ToSet(p.patterns) \subseteq ToSet(q.patterns)
  /\ ToSet(p.clips) \subseteq ToSet(q.clips)
  /\ NewFrom(ToSet(q.tracks), ToSet(p.tracks), p.nextTrack)
  /\ NewFrom(ToSet(q.patterns), ToSet(p.patterns), p.nextPattern)
  /\ NewFrom(ToSet(q.clips), ToSet(p.clips), p.nextClip)
  /\ \A c \in ToSet(q.clips) : \/ c \in ToSet(p.clips)
                               \/ c.track >= p.nextTrack /\ c.pattern >= p.nextPattern

LEMMA GrowsByTrack ==
  ASSUME NEW p, Sound(p), NEW q, Grows(p, q), NEW length \in Nat \ {0}, NEW start \in Nat
  PROVE  Grows(p, ImportTrack(q, length, start))
<1>. DEFINE t == Track(q.nextTrack, "MIDI")
            u == Pattern(q.nextPattern, length)
            c == Clip(q.nextClip, q.nextTrack, q.nextPattern, start, length)
            q1 == AddTrack(q, t)
            q2 == AddPattern(q1, u)
            q3 == AddClip(q2, c)
<1>0. ImportTrack(q, length, start) = q3
  BY DEF ImportTrack
<1>1. /\ Sound(q) /\ q \in ArrangedType /\ q.tracks \in Seq(TrackType) /\ q.patterns \in Seq(PatternType)
      /\ q.clips \in Seq(PlacedClip)
      /\ q.nextTrack \in Nat /\ q.nextPattern \in Nat /\ q.nextClip \in Nat
  BY SoundItems DEF Grows
<1>2. /\ t \in TrackType /\ t.id = q.nextTrack
      /\ u \in PatternType /\ u.id = q.nextPattern
      /\ c \in PlacedClip /\ c.id = q.nextClip /\ c.track = q.nextTrack /\ c.pattern = q.nextPattern
  BY <1>1 DEF Track, Pattern, Clip, TrackType, PatternType, PlacedClip, TrackNames
<1>. HIDE DEF t, u, c
<1>3. ~Has(q.tracks, t.id) /\ ~Has(q.patterns, u.id) /\ ~Has(q.clips, c.id)
  BY <1>1, <1>2, NextIds
<1>4. /\ Sound(q1) /\ Later(q, q1) /\ q1.tracks = Append(q.tracks, t)
      /\ q1.patterns = q.patterns /\ q1.clips = q.clips
  BY <1>1, <1>2, <1>3, TrackAdded
<1>. HIDE DEF q1
<1>5. /\ Sound(q2) /\ Later(q1, q2) /\ q2.patterns = Append(q.patterns, u)
      /\ q2.tracks = q1.tracks /\ q2.clips = q.clips
  BY <1>2, <1>3, <1>4, PatternAdded
<1>. HIDE DEF q2
<1>6. /\ q2.tracks \in Seq(TrackType) /\ q2.patterns \in Seq(PatternType)
      /\ ToSet(q2.tracks) = ToSet(q.tracks) \cup {t} /\ ToSet(q2.patterns) = ToSet(q.patterns) \cup {u}
  <2>1. t \in TrackType /\ u \in PatternType
    BY ONLY <1>2
  <2>2. Append(q.tracks, t) \in Seq(TrackType) /\ ToSet(Append(q.tracks, t)) = ToSet(q.tracks) \cup {t}
    BY ONLY <1>1, <2>1, Appended
  <2>3. /\ Append(q.patterns, u) \in Seq(PatternType)
        /\ ToSet(Append(q.patterns, u)) = ToSet(q.patterns) \cup {u}
    BY ONLY <1>1, <2>1, Appended
  <2>4. q2.tracks = Append(q.tracks, t) /\ q2.patterns = Append(q.patterns, u)
    BY ONLY <1>4, <1>5
  <2>. QED
    BY ONLY <2>2, <2>3, <2>4
<1>7. Has(q2.tracks, c.track) /\ Has(q2.patterns, c.pattern)
  <2>1. t \in ToSet(q2.tracks) /\ t.id = c.track /\ u \in ToSet(q2.patterns) /\ u.id = c.pattern
    BY <1>2, <1>6
  <2>. QED
    BY <1>6, <2>1, HasSet
<1>8. /\ Sound(q3) /\ Later(q2, q3) /\ q3.clips = Append(q.clips, c)
      /\ q3.tracks = q2.tracks /\ q3.patterns = q2.patterns
  BY <1>2, <1>3, <1>5, <1>7, ClipAdded
<1>. HIDE DEF q3
<1>9. ToSet(q3.clips) = ToSet(q.clips) \cup {c}
  BY <1>1, <1>2, <1>8, Appended
<1>10. p \in ArrangedType /\ q1 \in ArrangedType /\ q2 \in ArrangedType /\ q3 \in ArrangedType
  BY <1>4, <1>5, <1>8, SoundItems
<1>11. Later(p, q3)
  <2>1. Later(p, q)
    BY DEF Grows
  <2>2. Later(p, q1)
    BY <1>1, <1>4, <1>10, <2>1, StillLater
  <2>3. Later(p, q2)
    BY <1>5, <1>10, <2>2, StillLater
  <2>. QED
    BY <1>8, <1>10, <2>3, StillLater
<1>12. q.nextTrack >= p.nextTrack /\ q.nextPattern >= p.nextPattern /\ q.nextClip >= p.nextClip
  BY <1>1, <1>10 DEF Grows, Later, ArrangedType
<1>13. NewFrom(ToSet(q3.tracks), ToSet(p.tracks), p.nextTrack)
  BY <1>2, <1>6, <1>8, <1>12 DEF Grows, NewFrom
<1>14. NewFrom(ToSet(q3.patterns), ToSet(p.patterns), p.nextPattern)
  BY <1>2, <1>6, <1>8, <1>12 DEF Grows, NewFrom
<1>15. NewFrom(ToSet(q3.clips), ToSet(p.clips), p.nextClip)
  BY <1>2, <1>9, <1>12 DEF Grows, NewFrom
<1>16. \A x \in ToSet(q3.clips) : \/ x \in ToSet(p.clips)
                                  \/ x.track >= p.nextTrack /\ x.pattern >= p.nextPattern
  BY <1>2, <1>9, <1>12 DEF Grows
<1>17. /\ ToSet(p.tracks) \subseteq ToSet(q3.tracks) /\ ToSet(p.patterns) \subseteq ToSet(q3.patterns)
       /\ ToSet(p.clips) \subseteq ToSet(q3.clips)
  BY <1>6, <1>8, <1>9 DEF Grows
<1>. QED
  BY <1>0, <1>8, <1>11, <1>13, <1>14, <1>15, <1>16, <1>17 DEF Grows

LEMMA ImportGrows ==
  ASSUME NEW p, Sound(p), NEW file \in Imports, NEW start \in DropBeats
  PROVE  Grows(p, Imported(p, file, start))
<1>. DEFINE n == file.tracks
            l == file.length
            S == {q \in ArrangedType : Grows(p, q)}
            Step(q) == ImportTrack(q, l, start)
            step == [k \in 1 .. n |-> [q \in S |-> Step(q)]]
            Body(g) == [k \in 0 .. n |-> IF k = 0 THEN p ELSE Step(g[k - 1])]
            made == CHOOSE g : g = Body(g)
<1>0. Imported(p, file, start) = made[n]
  BY DEF Imported
<1>1. n \in Nat /\ l \in Nat \ {0} /\ start \in Nat
  BY ArrangementAssumption
<1>2. p \in S
  <2>1. \A T : \A m : NewFrom(T, T, m)
    BY DEF NewFrom
  <2>. QED
    BY <2>1 DEF Grows, Sound, Later, ArrangedType
<1>. HIDE DEF n, l
<1>3. \A q \in S : Step(q) \in S
  <2>1. TAKE q \in S
  <2>2. Grows(p, Step(q))
    BY <1>1, GrowsByTrack
  <2>3. Step(q) \in ArrangedType
    BY <2>2, SoundItems DEF Grows
  <2>. QED
    BY <2>2, <2>3
<1>. HIDE DEF Step, S
<1>4. step \in [1 .. n -> [S -> S]]
  BY <1>3
<1>5. PICK d \in [0 .. n -> S] : d[0] = p /\ \A k \in 1 .. n : d[k] = step[k][d[k - 1]]
  <2>1. Steps(n, S, step)
    BY <1>4 DEF Steps
  <2>. HIDE DEF step
  <2>2. PICK path : Path(n, S, step, p, path)
    BY <1>1, <1>2, <2>1, StepsLead
  <2>. QED
    BY <2>2 DEF Path
<1>6. d = Body(d)
  <2>1. ASSUME NEW k \in 0 .. n PROVE d[k] = Body(d)[k]
    <3>1. CASE k = 0
      BY <1>5, <3>1
    <3>2. CASE k # 0
      <4>1. k \in 1 .. n /\ k - 1 \in 0 .. n
        BY <1>1, <3>2
      <4>2. d[k] = step[k][d[k - 1]] /\ d[k - 1] \in S
        BY <1>5, <4>1
      <4>. QED
        BY <3>2, <4>1, <4>2
    <3>. QED
      BY <3>1, <3>2
  <2>. QED
    BY <1>5, <2>1
<1>7. made = Body(made)
  <2>. HIDE DEF Body
  <2>. QED
    BY <1>6
<1>. HIDE DEF made
<1>8. made[0] = p /\ \A k \in 1 .. n : made[k] = Step(made[k - 1])
  <2>1. made[0] = Body(made)[0] /\ \A k \in 1 .. n : made[k] = Body(made)[k]
    <3>. HIDE DEF Body
    <3>. QED
      BY <1>7
  <2>2. 0 \in 0 .. n /\ \A k \in 1 .. n : k \in 0 .. n /\ k # 0
    BY <1>1
  <2>. QED
    BY <2>1, <2>2
<1>. DEFINE Good == {k \in 0 .. n : made[k] \in S}
<1>9. n \in Good
  <2>1. Good \in SUBSET Nat /\ 0 \in Good
    BY <1>1, <1>2, <1>8
  <2>2. ASSUME NEW j \in 0 .. n - 1, j \in Good PROVE j + 1 \in Good
    <3>1. j + 1 \in 1 .. n /\ (j + 1) - 1 = j /\ j + 1 \in 0 .. n
      BY ONLY <1>1, j \in 0 .. n - 1
    <3>2. made[j + 1] = Step(made[j])
      BY <1>8, <3>1
    <3>. QED
      BY <1>3, <2>2, <3>1, <3>2
  <2>. HIDE DEF Good
  <2>. QED
    BY <1>1, <2>1, <2>2, CountUp
<1>. QED
  BY <1>0, <1>9 DEF S

\* A document with what q has and p does not.
GrownBy(d, p, q) ==
  [part \in DOMAIN d |-> d[part] \cup (Arranged(q)[part] \ Arranged(p)[part])]

LEMMA GrownFields ==
  ASSUME NEW d \in DocType, NEW p, NEW q, Sound(q)
  PROVE  /\ GrownBy(d, p, q) \in DocType
         /\ GrownBy(d, p, q).tracks = d.tracks \cup (ToSet(q.tracks) \ ToSet(p.tracks))
         /\ GrownBy(d, p, q).patterns = d.patterns \cup (ToSet(q.patterns) \ ToSet(p.patterns))
         /\ GrownBy(d, p, q).clips = d.clips \cup (ToSet(q.clips) \ ToSet(p.clips))
<1>. DEFINE ts == d.tracks \cup (ToSet(q.tracks) \ ToSet(p.tracks))
            us == d.patterns \cup (ToSet(q.patterns) \ ToSet(p.patterns))
            cs == d.clips \cup (ToSet(q.clips) \ ToSet(p.clips))
            r == [tracks |-> ts, patterns |-> us, clips |-> cs]
<1>1. /\ DOMAIN d = {"tracks", "patterns", "clips"}
      /\ d.tracks \subseteq TrackType /\ d.patterns \subseteq PatternType /\ d.clips \subseteq PlacedClip
  BY DEF DocType
<1>2. /\ ToSet(q.tracks) \subseteq TrackType /\ ToSet(q.patterns) \subseteq PatternType
      /\ ToSet(q.clips) \subseteq PlacedClip
  BY SoundItems
<1>3. GrownBy(d, p, q) = r
  <2>. DEFINE More(part) == d[part] \cup (Arranged(q)[part] \ Arranged(p)[part])
              P == {"tracks", "patterns", "clips"}
  <2>1. GrownBy(d, p, q) = [part \in P |-> More(part)]
    BY <1>1 DEF GrownBy
  <2>2. More("tracks") = ts /\ More("patterns") = us /\ More("clips") = cs
    BY DEF Arranged
  <2>. HIDE DEF More, ts, us, cs
  <2>3. r = [part \in P |-> More(part)]
    <3>1. \A part \in P : r[part] = More(part)
      BY <2>2
    <3>2. r = [part \in P |-> r[part]]
      OBVIOUS
    <3>. QED
      BY <3>1, <3>2
  <2>. QED
    BY <2>1, <2>3
<1>4. ts \subseteq TrackType /\ us \subseteq PatternType /\ cs \subseteq PlacedClip
  BY <1>1, <1>2
<1>. HIDE DEF ts, us, cs
<1>5. r \in DocType /\ r.tracks = ts /\ r.patterns = us /\ r.clips = cs
  BY <1>4 DEF DocType
<1>. QED
  BY <1>3, <1>5 DEF ts, us, cs

\* What is below n and what is from n on share no id.
LEMMA DistinctBoth ==
  ASSUME NEW S, NEW T, NEW n \in Nat, Distinct(S), Distinct(T),
         \A x \in S : x.id \in Nat /\ x.id < n, \A x \in T : x.id \in Nat /\ x.id >= n
  PROVE  Distinct(S \cup T)
<1>1. \A x \in S, y \in T : x.id # y.id
  <2>1. TAKE x \in S, y \in T
  <2>2. x.id \in Nat /\ y.id \in Nat /\ x.id < n /\ y.id >= n
    OBVIOUS
  <2>. QED
    BY <2>2
<1>. QED
  BY <1>1 DEF Distinct

\* The items of q that p has not got.
LEMMA NewItems ==
  ASSUME NEW p, NEW q, Sound(p), Grows(p, q)
  PROVE  /\ \A x \in ToSet(q.tracks) \ ToSet(p.tracks) : x.id >= p.nextTrack /\ x.id \in Nat /\ x.id < q.nextTrack
         /\ \A x \in ToSet(q.patterns) \ ToSet(p.patterns) : x.id >= p.nextPattern /\ x.id \in Nat /\ x.id < q.nextPattern
         /\ \A x \in ToSet(q.clips) \ ToSet(p.clips) :
              /\ x.id >= p.nextClip /\ x.id \in Nat /\ x.id < q.nextClip
              /\ \E t \in ToSet(q.tracks) \ ToSet(p.tracks) : t.id = x.track
              /\ \E u \in ToSet(q.patterns) \ ToSet(p.patterns) : u.id = x.pattern
         /\ Distinct(ToSet(q.tracks) \ ToSet(p.tracks))
         /\ Distinct(ToSet(q.patterns) \ ToSet(p.patterns))
         /\ Distinct(ToSet(q.clips) \ ToSet(p.clips))
<1>1. /\ Sound(q) /\ q.tracks \in Seq(TrackType) /\ q.patterns \in Seq(PatternType) /\ q.clips \in Seq(PlacedClip)
      /\ ToSet(q.tracks) \subseteq TrackType /\ ToSet(q.patterns) \subseteq PatternType
      /\ ToSet(q.clips) \subseteq PlacedClip
      /\ \A c \in ToSet(q.clips) : /\ \E t \in ToSet(q.tracks) : t.id = c.track
                                   /\ \E u \in ToSet(q.patterns) : u.id = c.pattern
  BY SoundItems DEF Grows
<1>2. /\ p.nextTrack \in Nat /\ p.nextPattern \in Nat /\ p.nextClip \in Nat
      /\ ToSet(p.tracks) \subseteq TrackType /\ ToSet(p.patterns) \subseteq PatternType
  BY SoundItems
<1>3. /\ \A x \in ToSet(q.tracks) : x.id \in Nat /\ x.id < q.nextTrack
      /\ \A x \in ToSet(q.patterns) : x.id \in Nat /\ x.id < q.nextPattern
      /\ \A x \in ToSet(q.clips) : x.id \in Nat /\ x.id < q.nextClip
  <2>1. \A x \in ToSet(q.tracks) : x.id \in Nat /\ x.id < q.nextTrack
    BY <1>1 DEF Sound, Under, ToSet, TrackType
  <2>2. \A x \in ToSet(q.patterns) : x.id \in Nat /\ x.id < q.nextPattern
    BY <1>1 DEF Sound, Under, ToSet, PatternType
  <2>3. \A x \in ToSet(q.clips) : x.id \in Nat /\ x.id < q.nextClip
    BY <1>1 DEF Sound, Under, ToSet, PlacedClip
  <2>. QED
    BY <2>1, <2>2, <2>3
<1>4. \A x \in ToSet(p.tracks) : x.id \in Nat /\ x.id < p.nextTrack
  BY <1>2 DEF Sound, Under, ToSet, TrackType
<1>5. \A x \in ToSet(p.patterns) : x.id \in Nat /\ x.id < p.nextPattern
  BY <1>2 DEF Sound, Under, ToSet, PatternType
<1>6. \A x \in ToSet(q.clips) \ ToSet(p.clips) :
        /\ \E t \in ToSet(q.tracks) \ ToSet(p.tracks) : t.id = x.track
        /\ \E u \in ToSet(q.patterns) \ ToSet(p.patterns) : u.id = x.pattern
  <2>1. TAKE c \in ToSet(q.clips) \ ToSet(p.clips)
  <2>2. c.track >= p.nextTrack /\ c.pattern >= p.nextPattern
    BY DEF Grows
  <2>3. PICK t \in ToSet(q.tracks) : t.id = c.track
    BY <1>1
  <2>4. PICK u \in ToSet(q.patterns) : u.id = c.pattern
    BY <1>1
  <2>5. t \notin ToSet(p.tracks)
    BY <1>2, <1>3, <1>4, <2>2, <2>3
  <2>6. u \notin ToSet(p.patterns)
    BY <1>2, <1>3, <1>5, <2>2, <2>4
  <2>. QED
    BY <2>3, <2>4, <2>5, <2>6
<1>7. Distinct(ToSet(q.tracks)) /\ Distinct(ToSet(q.patterns)) /\ Distinct(ToSet(q.clips))
  BY <1>1, ApartSet DEF Sound
<1>8. /\ Distinct(ToSet(q.tracks) \ ToSet(p.tracks)) /\ Distinct(ToSet(q.patterns) \ ToSet(p.patterns))
      /\ Distinct(ToSet(q.clips) \ ToSet(p.clips))
  BY <1>7 DEF Distinct
<1>. QED
  BY <1>3, <1>6, <1>8 DEF Grows, NewFrom

LEMMA GrownSound ==
  ASSUME NEW p, NEW q, Sound(p), Grows(p, q), NEW d, SoundDoc(d), DocUnder(d, p)
  PROVE  SoundDoc(GrownBy(d, p, q)) /\ DocUnder(GrownBy(d, p, q), q)
<1>. DEFINE g == GrownBy(d, p, q)
            ts == ToSet(q.tracks) \ ToSet(p.tracks)
            us == ToSet(q.patterns) \ ToSet(p.patterns)
            cs == ToSet(q.clips) \ ToSet(p.clips)
<1>1. d \in DocType /\ Sound(q)
  BY DEF SoundDoc, Grows
<1>2. g \in DocType /\ g.tracks = d.tracks \cup ts /\ g.patterns = d.patterns \cup us /\ g.clips = d.clips \cup cs
  BY <1>1, GrownFields
<1>3. /\ \A x \in ts : x.id >= p.nextTrack /\ x.id \in Nat /\ x.id < q.nextTrack
      /\ \A x \in us : x.id >= p.nextPattern /\ x.id \in Nat /\ x.id < q.nextPattern
      /\ \A x \in cs : /\ x.id >= p.nextClip /\ x.id \in Nat /\ x.id < q.nextClip
                       /\ \E t \in ts : t.id = x.track
                       /\ \E u \in us : u.id = x.pattern
      /\ Distinct(ts) /\ Distinct(us) /\ Distinct(cs)
  BY NewItems, Zenon
<1>. HIDE DEF g, ts, us, cs
<1>4. /\ p.nextTrack \in Nat /\ p.nextPattern \in Nat /\ p.nextClip \in Nat
      /\ q.nextTrack \in Nat /\ q.nextPattern \in Nat /\ q.nextClip \in Nat
  BY <1>1, SoundItems
<1>5. /\ \A x \in d.tracks : x.id \in Nat /\ x.id < p.nextTrack
      /\ \A x \in d.patterns : x.id \in Nat /\ x.id < p.nextPattern
      /\ \A x \in d.clips : x.id \in Nat /\ x.id < p.nextClip
  <2>1. \A x \in d.tracks : x.id \in Nat
    BY <1>1 DEF DocType, TrackType
  <2>2. \A x \in d.patterns : x.id \in Nat
    BY <1>1 DEF DocType, PatternType
  <2>3. \A x \in d.clips : x.id \in Nat
    BY <1>1 DEF DocType, PlacedClip
  <2>. QED
    BY <2>1, <2>2, <2>3 DEF DocUnder
<1>6. Distinct(g.tracks) /\ Distinct(g.patterns) /\ Distinct(g.clips)
  <2>1. Distinct(d.tracks \cup ts)
    BY <1>3, <1>4, <1>5, DistinctBoth DEF SoundDoc
  <2>2. Distinct(d.patterns \cup us)
    BY <1>3, <1>4, <1>5, DistinctBoth DEF SoundDoc
  <2>3. Distinct(d.clips \cup cs)
    BY <1>3, <1>4, <1>5, DistinctBoth DEF SoundDoc
  <2>. QED
    BY <1>2, <2>1, <2>2, <2>3
<1>7. \A c \in g.clips : (\E t \in g.tracks : t.id = c.track) /\ (\E u \in g.patterns : u.id = c.pattern)
  BY <1>2, <1>3 DEF SoundDoc
<1>8. g.tracks # {} /\ g.patterns # {}
  BY <1>2 DEF SoundDoc
<1>9. DocUnder(g, q)
  <2>1. p.nextTrack <= q.nextTrack /\ p.nextPattern <= q.nextPattern /\ p.nextClip <= q.nextClip
    BY DEF Grows, Later
  <2>2. \A i \in Nat : /\ i < p.nextTrack => i < q.nextTrack
                       /\ i < p.nextPattern => i < q.nextPattern
                       /\ i < p.nextClip => i < q.nextClip
    BY <1>4, <2>1
  <2>. QED
    BY <1>2, <1>3, <1>5, <2>2 DEF DocUnder
<1>. QED
  BY <1>2, <1>6, <1>7, <1>8, <1>9 DEF SoundDoc, g

\* No document below p's next ids has any of the new items.
LEMMA NoneNew ==
  ASSUME NEW p, NEW q, Sound(p), Grows(p, q), NEW d \in DocType, DocUnder(d, p)
  PROVE  /\ d.tracks \cap (ToSet(q.tracks) \ ToSet(p.tracks)) = {}
         /\ d.patterns \cap (ToSet(q.patterns) \ ToSet(p.patterns)) = {}
         /\ d.clips \cap (ToSet(q.clips) \ ToSet(p.clips)) = {}
<1>. DEFINE ts == ToSet(q.tracks) \ ToSet(p.tracks)
            us == ToSet(q.patterns) \ ToSet(p.patterns)
            cs == ToSet(q.clips) \ ToSet(p.clips)
<1>1. /\ \A x \in ts : x.id >= p.nextTrack /\ x.id \in Nat
      /\ \A x \in us : x.id >= p.nextPattern /\ x.id \in Nat
      /\ \A x \in cs : x.id >= p.nextClip /\ x.id \in Nat
  BY NewItems, Zenon
<1>. HIDE DEF ts, us, cs
<1>2. p.nextTrack \in Nat /\ p.nextPattern \in Nat /\ p.nextClip \in Nat
  BY SoundItems
<1>3. /\ \A x \in d.tracks : x \notin ts
      /\ \A x \in d.patterns : x \notin us
      /\ \A x \in d.clips : x \notin cs
  BY <1>1, <1>2 DEF DocUnder
<1>4. d.tracks \cap ts = {} /\ d.patterns \cap us = {} /\ d.clips \cap cs = {}
  BY <1>3
<1>. QED
  BY <1>4 DEF ts, us, cs

\* An edit leads from and to the documents with the new items as it did without.
LEMMA GrownLeads ==
  ASSUME NEW p, NEW q, Sound(p), Grows(p, q), NEW e, NEW a, NEW b, SoundDoc(a), SoundDoc(b),
         DocUnder(a, p), DocUnder(b, p), Leads(e, a, b)
  PROVE  Leads(e, GrownBy(a, p, q), GrownBy(b, p, q))
<1>. DEFINE g == GrownBy(a, p, q)
            h == GrownBy(b, p, q)
            ts == ToSet(q.tracks) \ ToSet(p.tracks)
            us == ToSet(q.patterns) \ ToSet(p.patterns)
            cs == ToSet(q.clips) \ ToSet(p.clips)
<1>1. a \in DocType /\ b \in DocType /\ Sound(q)
  BY DEF SoundDoc, Grows
<1>2. g.tracks = a.tracks \cup ts /\ g.patterns = a.patterns \cup us /\ g.clips = a.clips \cup cs
  BY <1>1, GrownFields
<1>3. h.tracks = b.tracks \cup ts /\ h.patterns = b.patterns \cup us /\ h.clips = b.clips \cup cs
  BY <1>1, GrownFields
<1>4. a.tracks \cap ts = {} /\ a.patterns \cap us = {} /\ a.clips \cap cs = {}
  BY <1>1, NoneNew
<1>5. b.tracks \cap ts = {} /\ b.patterns \cap us = {} /\ b.clips \cap cs = {}
  BY <1>1, NoneNew
<1>. HIDE DEF g, h, ts, us, cs
<1>6. AddsTrack(e, a, b) => AddsTrack(e, g, h)
  BY <1>2, <1>3, <1>4, <1>5 DEF AddsTrack
<1>7. DeletesTrack(e, a, b) => DeletesTrack(e, g, h)
  BY <1>2, <1>3, <1>4, <1>5 DEF DeletesTrack
<1>8. RenamesTrack(e, a, b) => RenamesTrack(e, g, h)
  BY <1>2, <1>3, <1>4, <1>5 DEF RenamesTrack
<1>9. CreatesPattern(e, a, b) => CreatesPattern(e, g, h)
  BY <1>2, <1>3, <1>4, <1>5 DEF CreatesPattern
<1>10. ChangesClip(e, a, b) => ChangesClip(e, g, h)
  BY <1>2, <1>3, <1>4, <1>5 DEF ChangesClip
<1>11. AddsClip(e, a, b) => AddsClip(e, g, h)
  BY <1>2, <1>3, <1>4, <1>5 DEF AddsClip
<1>12. DeletesClip(e, a, b) => DeletesClip(e, g, h)
  BY <1>2, <1>3, <1>4, <1>5 DEF DeletesClip
<1>13. Leads(e, g, h)
  BY <1>6, <1>7, <1>8, <1>9, <1>10, <1>11, <1>12 DEF Leads
<1>. QED
  BY <1>13 DEF g, h

LEMMA GrownProject ==
  ASSUME NEW p, NEW q, Sound(p), Peopled(p), Grows(p, q)
  PROVE  GrownBy(Arranged(p), p, q) = Arranged(q)
<1>. DEFINE d == Arranged(p)
            g == GrownBy(d, p, q)
<1>1. d \in DocType /\ Sound(q)
  BY DocOfSound DEF SoundDoc, Grows
<1>2. d.tracks = ToSet(p.tracks) /\ d.patterns = ToSet(p.patterns) /\ d.clips = ToSet(p.clips)
  BY ArrangedFields
<1>3. /\ g \in DocType /\ g.tracks = d.tracks \cup (ToSet(q.tracks) \ ToSet(p.tracks))
      /\ g.patterns = d.patterns \cup (ToSet(q.patterns) \ ToSet(p.patterns))
      /\ g.clips = d.clips \cup (ToSet(q.clips) \ ToSet(p.clips))
  BY <1>1, GrownFields
<1>. HIDE DEF g
<1>4. g.tracks = ToSet(q.tracks) /\ g.patterns = ToSet(q.patterns) /\ g.clips = ToSet(q.clips)
  BY <1>2, <1>3 DEF Grows
<1>5. Arranged(q) = g
  BY <1>3, <1>4, DocFields
<1>. QED
  BY <1>5 DEF g

LEMMA ImportKeeps ==
  ASSUME ArrangementInv, NEW file \in Imports, NEW start \in DropBeats, importMidi(file, start)
  PROVE  ArrangementInv'
<1>. DEFINE n == Len(undo)
            Grown(d) == GrownBy(d, project, project')
<1>1. /\ project' = Imported(project, file, start) /\ undo' = undo /\ redo' = redo
      /\ docs' = [i \in DOMAIN docs |-> Grown(docs[i])]
  BY DEF importMidi, GrownBy
<1>2. /\ undo \in Seq(Edits) /\ redo \in Seq(Edits) /\ docs \in Seq(DocType)
      /\ n \in Nat /\ Len(redo) \in Nat /\ Len(docs) = n + Len(redo) + 1
      /\ DOMAIN undo = 1 .. n /\ DOMAIN redo = 1 .. Len(redo) /\ DOMAIN docs = 1 .. Len(docs)
      /\ n + 1 \in DOMAIN docs
  BY DocsType
<1>3. Sound(project) /\ Peopled(project) /\ Grows(project, project')
  BY <1>1, ImportGrows DEF ArrangementInv
<1>4. ASSUME NEW k \in DOMAIN docs
      PROVE  /\ SoundDoc(docs[k]) /\ DocUnder(docs[k], project)
             /\ SoundDoc(Grown(docs[k])) /\ DocUnder(Grown(docs[k]), project')
             /\ Grown(docs[k]) \in DocType
  <2>1. SoundDoc(docs[k]) /\ DocUnder(docs[k], project)
    BY DEF ArrangementInv, DocsInv
  <2>2. SoundDoc(Grown(docs[k])) /\ DocUnder(Grown(docs[k]), project')
    BY <1>3, <2>1, GrownSound
  <2>. QED
    BY <2>1, <2>2 DEF SoundDoc
<1>5. ASSUME NEW e, NEW i \in DOMAIN docs, NEW j \in DOMAIN docs, Leads(e, docs[i], docs[j])
      PROVE  Leads(e, Grown(docs[i]), Grown(docs[j]))
  BY <1>3, <1>4, <1>5, GrownLeads
<1>6. docs[n + 1] = Arranged(project)
  BY DEF ArrangementInv, DocsInv
<1>7. Grown(docs[n + 1]) = Arranged(project')
  BY <1>3, <1>6, GrownProject
<1>. HIDE DEF Grown
<1>8. /\ DOMAIN docs' = DOMAIN docs /\ Len(docs') = Len(docs) /\ docs' \in Seq(DocType)
      /\ \A k \in DOMAIN docs : docs'[k] = Grown(docs[k])
  <2>1. docs' = [i \in 1 .. Len(docs) |-> Grown(docs[i])]
    BY <1>1, <1>2
  <2>2. \A i \in 1 .. Len(docs) : Grown(docs[i]) \in DocType
    BY <1>2, <1>4
  <2>3. Len(docs) \in Nat
    BY <1>2
  <2>. QED
    BY <1>2, <2>1, <2>2, <2>3
<1>9. \A k \in DOMAIN undo' : Leads(undo'[k], docs'[k], docs'[k + 1])
  <2>1. TAKE k \in DOMAIN undo'
  <2>2. k \in DOMAIN undo /\ k \in DOMAIN docs /\ k + 1 \in DOMAIN docs
    BY <1>1, <1>2
  <2>3. Leads(undo[k], docs[k], docs[k + 1])
    BY <2>2 DEF ArrangementInv, DocsInv
  <2>4. Leads(undo[k], Grown(docs[k]), Grown(docs[k + 1]))
    BY <1>5, <2>2, <2>3
  <2>. QED
    BY <1>1, <1>8, <2>2, <2>4
<1>10. \A k \in DOMAIN redo' : Leads(redo'[k], docs'[Len(docs') - k], docs'[Len(docs') - k + 1])
  <2>1. TAKE k \in DOMAIN redo'
  <2>. DEFINE i == Len(docs) - k
              j == Len(docs) - k + 1
  <2>2. k \in DOMAIN redo /\ i \in DOMAIN docs /\ j \in DOMAIN docs
    BY <1>1, <1>2
  <2>3. Leads(redo[k], docs[i], docs[j])
    BY <2>2 DEF ArrangementInv, DocsInv
  <2>4. Len(docs') - k = i /\ Len(docs') - k + 1 = j
    BY <1>8
  <2>. HIDE DEF i, j
  <2>5. Leads(redo[k], Grown(docs[i]), Grown(docs[j]))
    BY <1>5, <2>2, <2>3
  <2>. QED
    BY <1>1, <1>8, <2>2, <2>4, <2>5
<1>11. \A k \in DOMAIN docs' : SoundDoc(docs'[k]) /\ DocUnder(docs'[k], project')
  BY <1>4, <1>8
<1>12. docs'[Len(undo') + 1] = Arranged(project')
  BY <1>1, <1>2, <1>7, <1>8
<1>13. Len(docs') = Len(undo') + Len(redo') + 1
  BY <1>1, <1>2, <1>8
<1>14. DocsInv'
  BY <1>1, <1>2, <1>8, <1>9, <1>10, <1>11, <1>12, <1>13 DEF DocsInv
<1>15. Sound(project') /\ Peopled(project')
  <2>1. SoundDoc(Arranged(project'))
    BY <1>2, <1>4, <1>7
  <2>. QED
    BY <1>3, <2>1, PeopledDoc DEF Grows
<1>. QED
  BY <1>14, <1>15 DEF ArrangementInv

-----------------------------------------------------------------------------

LEMMA ArrangementStarts == ArrangementInit => ArrangementInv
<1>1. SUFFICES ASSUME ArrangementInit PROVE ArrangementInv
  OBVIOUS
<1>. DEFINE d == Arranged(Fresh)
<1>2. Sound(Fresh) /\ Peopled(Fresh) /\ SoundDoc(d) /\ DocUnder(d, Fresh) /\ d \in DocType
  BY FreshSound, DocOfSound DEF SoundDoc
<1>3. project = Fresh /\ undo = << >> /\ redo = << >> /\ docs = <<d>>
  BY <1>1 DEF ArrangementInit
<1>. HIDE DEF d
<1>4. docs \in Seq(DocType) /\ Len(docs) = 1 /\ DOMAIN docs = {1} /\ docs[1] = d
  BY <1>2, <1>3
<1>5. /\ undo \in Seq(Edits) /\ redo \in Seq(Edits) /\ Len(undo) = 0 /\ Len(redo) = 0
      /\ DOMAIN undo = {} /\ DOMAIN redo = {}
  BY <1>3
<1>6. docs[Len(undo) + 1] = Arranged(project)
  BY <1>3, <1>4, <1>5 DEF d
<1>7. \A k \in DOMAIN docs : SoundDoc(docs[k]) /\ DocUnder(docs[k], project)
  BY <1>2, <1>3, <1>4
<1>8. Len(docs) = Len(undo) + Len(redo) + 1
  BY <1>4, <1>5
<1>9. DocsInv
  BY <1>4, <1>5, <1>6, <1>7, <1>8 DEF DocsInv
<1>. QED
  BY <1>2, <1>3, <1>9 DEF ArrangementInv

LEMMA CommandKeeps == ASSUME ArrangementInv, Command PROVE ArrangementInv'
<1>1. CASE \E name \in Names : addTrack(name)
  BY <1>1, AddTrackKeeps
<1>2. ASSUME NEW id, \E name \in Names : renameTrack(id, name) PROVE ArrangementInv'
  BY <1>2, RenameTrackKeeps
<1>3. ASSUME NEW id, deleteTrack(id) PROVE ArrangementInv'
  BY <1>3, DeleteTrackKeeps
<1>4. ASSUME NEW id, \E start \in DropBeats : createPattern(id, start) PROVE ArrangementInv'
  BY <1>4, CreatePatternKeeps
<1>5. ASSUME NEW id, NEW track, \E start \in DropBeats : moveClip(id, start, track) PROVE ArrangementInv'
  BY <1>5, MoveClipKeeps
<1>6. ASSUME NEW id, \E duration \in ClipLengths : resizeClip(id, duration) PROVE ArrangementInv'
  BY <1>6, ResizeClipKeeps
<1>7. ASSUME NEW id, openClip(id) PROVE ArrangementInv'
  BY <1>7, ArrangementStays DEF openClip
<1>8. ASSUME NEW id, duplicateClip(id) PROVE ArrangementInv'
  BY <1>8, DuplicateClipKeeps
<1>9. ASSUME NEW id, deleteClip(id) PROVE ArrangementInv'
  BY <1>9, DeleteClipKeeps
<1>. QED
  BY <1>1, <1>2, <1>3, <1>4, <1>5, <1>6, <1>7, <1>8, <1>9, Zenon DEF Command

LEMMA ArrangementKept == ArrangementInv /\ [ArrangementNext]_arrangementVars => ArrangementInv'
<1>1. SUFFICES ASSUME ArrangementInv, [ArrangementNext]_arrangementVars PROVE ArrangementInv'
  OBVIOUS
<1>2. CASE Command
  BY <1>1, <1>2, CommandKeeps
<1>3. CASE arrangementUndo
  BY <1>1, <1>3, UndoKeeps
<1>4. CASE arrangementRedo
  BY <1>1, <1>4, RedoKeeps
<1>5. CASE \E file \in Imports, start \in DropBeats : importMidi(file, start)
  BY <1>1, <1>5, ImportKeeps
<1>6. CASE EditNotes \/ UndoNotes
  BY <1>1, <1>6, ArrangementStays DEF EditNotes, UndoNotes
<1>7. CASE Replace(Loaded(project))
  <2>1. Sound(Loaded(project)) /\ Peopled(Loaded(project))
    BY <1>1, LoadsTheSame DEF ArrangementInv, Peopled
  <2>. QED
    BY <1>7, <2>1, ReplaceKeeps
<1>8. CASE Replace(Fresh)
  BY <1>8, FreshSound, ReplaceKeeps
<1>9. CASE UNCHANGED arrangementVars
  BY <1>1, <1>9, ArrangementStays DEF arrangementVars
<1>. QED
  BY <1>1, <1>2, <1>3, <1>4, <1>5, <1>6, <1>7, <1>8, <1>9 DEF ArrangementNext

\* Every project is one that can be saved and opened again, and is the same
\* then: add_track, remove_track, remove_pattern, the edits' closures and
\* importMidi leave no clip without its track or pattern and give no id twice.
THEOREM ProjectReopens == ArrangementSpec => []Reopens
<1>1. ArrangementInv => Reopens
  BY SoundLoads, LoadsTheSame DEF ArrangementInv, Reopens
<1>. QED
  BY <1>1, ArrangementStarts, ArrangementKept, PTL DEF ArrangementSpec

\* Undo and redo of the arrangement lead to the documents its commands made,
\* however many commands, undos, redos and imports came between: the two
\* closures of an edit are each other's inverse on the document they were made
\* for, and what the history never learns of (imported tracks, patterns and
\* clips) is only ever added beside it.
THEOREM UndoneLeadsBack == ArrangementSpec => []UndoLeadsBack
<1>1. ArrangementInv => UndoLeadsBack
  BY DEF ArrangementInv, DocsInv, UndoLeadsBack
<1>. QED
  BY <1>1, ArrangementStarts, ArrangementKept, PTL DEF ArrangementSpec

\* The note history is of the pattern that is open: whoever opens another one
\* (openClip, createPattern, importMidi, a new project) starts it anew.
THEOREM NotesHistoryIsOpen == ArrangementSpec => []NotesUndoOpenPattern
<1>. DEFINE NotesInv == notes_undo \in Seq({active_pattern})
<1>1. ArrangementInit => NotesInv
  BY DEF ArrangementInit
<1>2. NotesInv /\ [ArrangementNext]_arrangementVars => NotesInv'
  <2>1. SUFFICES ASSUME NotesInv, [ArrangementNext]_arrangementVars PROVE NotesInv'
    OBVIOUS
  <2>2. CASE NotesStay
    BY <2>1, <2>2 DEF NotesStay
  <2>3. CASE notes_undo' = << >>
    BY <2>3
  <2>4. CASE EditNotes
    BY <2>1, <2>4 DEF EditNotes
  <2>5. CASE UndoNotes
    BY <2>1, <2>5 DEF UndoNotes, Front
  <2>6. CASE UNCHANGED arrangementVars
    BY <2>1, <2>6 DEF arrangementVars
  <2>7. CASE arrangementUndo \/ arrangementRedo
    BY <2>2, <2>7 DEF arrangementUndo, arrangementRedo, NotesStay
  <2>8. CASE Command
    BY <2>2, <2>3, <2>8, Zenon
       DEF Command, addTrack, renameTrack, deleteTrack, createPattern, moveClip, resizeClip, ChangeClip,
           openClip, duplicateClip, deleteClip
  <2>9. CASE \E file \in Imports, start \in DropBeats : importMidi(file, start)
    BY <2>3, <2>9, Zenon DEF importMidi
  <2>10. CASE \E p : Replace(p)
    BY <2>3, <2>10, Zenon DEF Replace
  <2>. QED
    BY <2>1, <2>4, <2>5, <2>6, <2>7, <2>8, <2>9, <2>10, Zenon DEF ArrangementNext
<1>3. NotesInv => NotesUndoOpenPattern
  BY DEF NotesUndoOpenPattern
<1>. QED
  BY <1>1, <1>2, <1>3, PTL DEF ArrangementSpec
=============================================================================
