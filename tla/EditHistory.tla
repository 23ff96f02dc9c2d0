----------------------------- MODULE EditHistory -----------------------------
(***************************************************************************)
(* The notes of the clip open in the piano roll, the mouse gestures and    *)
(* key commands that edit them, and the undo history: EditorController     *)
(* with CommandHistory, the edit commands, NoteSequence and the drags of   *)
(* PianoRollItem and of the velocity lane.                                 *)
(*                                                                         *)
(* Everything runs on the GUI thread, one handler at a time.  What         *)
(* interleaves are handlers: a drag is a press, moves and a release, and   *)
(* between any two of them a key (undo, redo, delete, nudge, duplicate) or *)
(* a right click may come in.  A gesture writes the notes directly while   *)
(* it lasts and tells the history of it only when it ends.                 *)
(*                                                                         *)
(* Data: `pos` stands for start and pitch, which one command moves         *)
(* together; times are multiples of a grid step.  A command is a sequence  *)
(* of primitive changes, so a compound command in a batch is simply        *)
(* concatenated to it.  The selection is not kept: every operation on      *)
(* selected notes takes any set of them.                                   *)
(***************************************************************************)
EXTENDS Integers, SequencesExt, Functions

CONSTANTS
  Opened,        \* the documents a clip may hold when it is opened
  MaxId,         \* bound: notes created in one clip
  MaxPos,        \* bound: the last start and pitch
  MaxDur,        \* bound: the longest note
  Velocities,    \* note velocities
  DefaultVelocity,  \* velocity of a note a click creates
  SnapDuration,  \* length of a note a click creates
  MinDuration,   \* shortest note a drag makes, 1/32 beat
  MaxParts       \* bound: primitive changes in the history

Ids == 1..MaxId
Positions == 0..MaxPos
Durations == 1..MaxDur
Note == [pos : Int, dur : Int, vel : Velocities, rel : {0, 1}]

ASSUME BoundsAssumption ==
  MaxId \in Nat /\ MaxPos \in Nat /\ MaxDur \in Nat /\ MaxParts \in Nat
ASSUME LengthsAssumption ==
  SnapDuration \in Nat \ {0} /\ MinDuration \in Nat \ {0}
ASSUME VelocityAssumption == DefaultVelocity \in Velocities

\* What NoteSequence::add_note and ProjectFile::load let into a sequence.
ASSUME OpenedAssumption ==
  \A doc \in Opened :
    /\ DOMAIN doc \subseteq Ids
    /\ doc \in [DOMAIN doc -> Note]
    /\ \A i \in DOMAIN doc : doc[i].pos >= 0 /\ doc[i].dur > 0

VARIABLES
  notes,         \* note id -> note: the open sequence
  nextId,        \* NoteSequence::next_note_id_
  undoStack, redoStack,
  inBatch, batch,
  drag,          \* the piano roll's drag: mode, created note, notes at the press
  gesture,       \* velocity_gesture_: old and new velocity by note id
  interrupted    \* history variable: the history changed under an open gesture

editVars == <<notes, nextId, undoStack, redoStack, inBatch, batch, drag, gesture,
          interrupted>>
stacks == <<undoStack, redoStack, inBatch, batch>>

Empty == << >>
NoDrag == [mode |-> "none", id |-> 0, initial |-> Empty]
NoGesture == [old |-> Empty, new |-> Empty]

-----------------------------------------------------------------------------
(* NoteSequence and the commands.                                          *)

\* f, and what g has where f has nothing; and the function of one argument.
\* (TLC's @@ and :>, which are not open to proofs.)
Over(f, g) ==
  [i \in DOMAIN f \cup DOMAIN g |-> IF i \in DOMAIN f THEN f[i] ELSE g[i]]
Only(i, x) == [k \in {i} |-> x]

\* add_note: an id that is in use already is refused.  A note that is not valid
\* is refused as well, which is left out: as long as notes are valid
\* (NotesAreValid) none that comes back is another.
Added(doc, new) == Over(doc, new)

Removed(doc, ids) == Restrict(doc, DOMAIN doc \ ids)

\* A note's fields as a function of the ids.
Field(doc, f, ids) == [i \in ids |-> doc[i][f]]

\* A direct write, as the edits do it.
Written(doc, f, value) ==
  [i \in DOMAIN doc |->
     IF i \in DOMAIN value THEN [doc[i] EXCEPT ![f] = value[i]] ELSE doc[i]]

\* move_note and resize_note refuse what is out of range.
Accepted(f, v) == CASE f = "pos" -> v >= 0
                    [] f = "dur" -> v > 0
                    [] f = "vel" -> TRUE

\* A write through NoteSequence.  update_velocity also sets the release
\* velocity, which the commands leave at its default.
Updated(doc, f, value) ==
  LET ok == {i \in DOMAIN value \cap DOMAIN doc : Accepted(f, value[i])}
      set == Written(doc, f, Restrict(value, ok))
  IN  IF f = "vel" THEN Written(set, "rel", [i \in ok |-> 0]) ELSE set

AddPart(i, n) == [do |-> "add", notes |-> Only(i, n)]
AddNote(i, n) == <<AddPart(i, n)>>
RemoveNotes(ns) == <<[do |-> "remove", notes |-> ns]>>
SetNotes(f, old, new) ==
  IF DOMAIN new = {} THEN << >>
  ELSE <<[do |-> "set", field |-> f, old |-> old, new |-> new]>>

UndoPart(part, doc) ==
  CASE part.do = "add"    -> Removed(doc, DOMAIN part.notes)
    [] part.do = "remove" -> Added(doc, part.notes)
    [] part.do = "set"    -> Updated(doc, part.field, part.old)

RedoPart(doc, part) ==
  CASE part.do = "add"    -> Added(doc, part.notes)
    [] part.do = "remove" -> Removed(doc, DOMAIN part.notes)
    [] part.do = "set"    -> Updated(doc, part.field, part.new)

\* A faulty variant of Undone: the parts are undone in the order they were made.
UndoneForward(cmd, doc) ==
  LET left[k \in 0 .. Len(cmd)] ==
        IF k = 0 THEN doc ELSE UndoPart(cmd[k], left[k - 1])
  IN  left[Len(cmd)]

\* A compound command is undone from its last part to its first: left[k] is
\* what is left when its first k parts are not undone yet.
Undone(cmd, doc) ==
  LET left[k \in 0 .. Len(cmd)] ==
        IF k = Len(cmd) THEN doc ELSE UndoPart(cmd[k + 1], left[k + 1])
  IN  left[0]

\* And made again in order: made[k] has its first k parts.
Redone(cmd, doc) ==
  LET made[k \in 0 .. Len(cmd)] ==
        IF k = 0 THEN doc ELSE RedoPart(made[k - 1], cmd[k])
  IN  made[Len(cmd)]

-----------------------------------------------------------------------------
(* CommandHistory.                                                         *)

\* Bound: only so many primitive changes are kept.
HasRoom(cmd) == Len(FlattenSeq(undoStack)) + Len(batch) + Len(cmd) =< MaxParts

Push(cmd) ==
  /\ HasRoom(cmd)
  /\ IF inBatch
     THEN /\ batch' = batch \o cmd
          /\ UNCHANGED <<undoStack, redoStack, inBatch>>
     ELSE /\ undoStack' = Append(undoStack, cmd)
          /\ redoStack' = << >>
          /\ UNCHANGED <<inBatch, batch>>

PushUnlessEmpty(cmd) == IF cmd = << >> THEN UNCHANGED stacks ELSE Push(cmd)

\* begin_batch, and the first command pushed to the batch.
BeginBatch(cmd) ==
  /\ HasRoom(cmd)
  /\ inBatch' = TRUE
  /\ batch' = (IF inBatch THEN batch ELSE << >>) \o cmd
  /\ UNCHANGED <<undoStack, redoStack>>

CommitBatch ==
  /\ inBatch' = FALSE
  /\ batch' = << >>
  /\ IF inBatch /\ batch # << >>
     THEN /\ undoStack' = Append(undoStack, batch)
          /\ redoStack' = << >>
     ELSE UNCHANGED <<undoStack, redoStack>>

ClearHistory ==
  /\ undoStack' = << >> /\ redoStack' = << >>
  /\ inBatch' = FALSE /\ batch' = << >>

-----------------------------------------------------------------------------
Dragging == drag.mode # "none"
InGesture == DOMAIN gesture.old # {}

\* An edit that reaches the history while a gesture is open.  An erase drag
\* collects its edits in a batch, so only undo and redo interrupt it.
EditInterrupts == interrupted' = (interrupted \/ InGesture \/ (Dragging /\ drag.mode # "erase"))
UndoInterrupts == interrupted' = (interrupted \/ InGesture \/ Dragging)

\* An id above those of all notes.
NextId(doc) == Max({0} \cup DOMAIN doc) + 1

EditInit ==
  /\ notes \in Opened
  /\ nextId = NextId(notes)
  /\ undoStack = << >> /\ redoStack = << >>
  /\ inBatch = FALSE /\ batch = << >>
  /\ drag = NoDrag /\ gesture = NoGesture
  /\ interrupted = FALSE

\* openClip, createPattern: another sequence, and a new history.
OpenClip ==
  /\ ~Dragging /\ ~InGesture
  /\ notes' \in Opened
  /\ nextId' = NextId(notes')
  /\ ClearHistory
  /\ interrupted' = FALSE
  /\ UNCHANGED <<drag, gesture>>

-----------------------------------------------------------------------------
(* Key commands and right clicks, which may come at any time.              *)

Write(ids, f, value) ==
  /\ notes' = Written(notes, f, value)
  /\ Push(SetNotes(f, Field(notes, f, ids), value))
  /\ EditInterrupts
  /\ UNCHANGED <<nextId, drag, gesture>>

MoveSelected(ids, d) ==
  /\ \A i \in ids : notes[i].pos + d =< MaxPos
  /\ Write(ids, "pos", [i \in ids |-> Max({0, notes[i].pos + d})])

\* A faulty variant of ResizeSelected: no shortest duration.
ResizeSelectedUnclamped(ids, d) ==
  /\ \A i \in ids : notes[i].dur + d =< MaxDur
  /\ Write(ids, "dur", [i \in ids |-> notes[i].dur + d])

ResizeSelected(ids, d) ==
  /\ \A i \in ids : notes[i].dur + d =< MaxDur
  /\ Write(ids, "dur", [i \in ids |-> Max({MinDuration, notes[i].dur + d})])

SetSelectedVelocity(ids, v) == Write(ids, "vel", [i \in ids |-> v])

\* removeNote, deleteSelected
DeleteNotes(ids) ==
  /\ notes' = Removed(notes, ids)
  /\ Push(RemoveNotes(Restrict(notes, ids)))
  /\ EditInterrupts
  /\ UNCHANGED <<nextId, drag, gesture>>

\* duplicate: copies behind the originals, without their release velocity.
Duplicate(ids) ==
  LET start  == Min({notes[i].pos : i \in ids})
      span   == Max({notes[i].pos + notes[i].dur : i \in ids}) - start
      order  == SetToSeq(ids)
      copies == [k \in nextId..(nextId + Len(order) - 1) |->
                   LET n == notes[order[k - nextId + 1]]
                   IN  [n EXCEPT !.pos = @ + span, !.rel = 0]]
      parts == [k \in 1..Len(order) |->
                  AddPart(nextId + k - 1, copies[nextId + k - 1])]
  IN  /\ DOMAIN copies \subseteq Ids
      /\ \A k \in DOMAIN copies : copies[k].pos =< MaxPos
      /\ notes' = Added(notes, copies)
      /\ nextId' = nextId + Len(order)
      /\ Push(parts)
      /\ EditInterrupts
      /\ UNCHANGED <<drag, gesture>>

Undo ==
  /\ undoStack # << >>
  /\ notes' = Undone(Last(undoStack), notes)
  /\ undoStack' = Front(undoStack)
  /\ redoStack' = Append(redoStack, Last(undoStack))
  /\ UndoInterrupts
  /\ UNCHANGED <<nextId, inBatch, batch, drag, gesture>>

Redo ==
  /\ redoStack # << >>
  /\ notes' = Redone(Last(redoStack), notes)
  /\ redoStack' = Front(redoStack)
  /\ undoStack' = Append(undoStack, Last(redoStack))
  /\ UndoInterrupts
  /\ UNCHANGED <<nextId, inBatch, batch, drag, gesture>>

-----------------------------------------------------------------------------
(* Drags in the piano roll.                                                *)

\* A press with the eraser opens a batch and erases the note it hits.
PressErase(ids) ==
  /\ ~Dragging /\ ~InGesture
  /\ drag' = [NoDrag EXCEPT !.mode = "erase"]
  /\ notes' = Removed(notes, ids)
  /\ BeginBatch(IF ids = {} THEN << >> ELSE RemoveNotes(Restrict(notes, ids)))
  /\ UNCHANGED <<nextId, gesture, interrupted>>

PressNote(mode, ids) ==
  /\ ~Dragging /\ ~InGesture
  /\ drag' = [mode |-> mode, id |-> 0, initial |-> Restrict(notes, ids)]
  /\ UNCHANGED <<notes, nextId, stacks, gesture, interrupted>>

\* A faulty variant of PressEmpty: the next id follows from the number of notes.
PressEmptyBySize(pos) ==
  /\ ~Dragging /\ ~InGesture
  /\ nextId \in Ids
  /\ notes' = Added(notes, Only(nextId, [pos |-> pos, dur |-> SnapDuration,
                                         vel |-> DefaultVelocity, rel |-> 0]))
  /\ nextId' = Cardinality(DOMAIN notes') + 1
  /\ drag' = [NoDrag EXCEPT !.mode = "create", !.id = nextId]
  /\ UNCHANGED <<stacks, gesture, interrupted>>

\* beginNoteCreation: the note is there at once, its command comes later.
PressEmpty(pos) ==
  /\ ~Dragging /\ ~InGesture
  /\ nextId \in Ids
  /\ notes' = Added(notes, Only(nextId, [pos |-> pos, dur |-> SnapDuration,
                                         vel |-> DefaultVelocity, rel |-> 0]))
  /\ nextId' = nextId + 1
  /\ drag' = [NoDrag EXCEPT !.mode = "create", !.id = nextId]
  /\ UNCHANGED <<stacks, gesture, interrupted>>

\* The notes of a drag that are still there.
Grabbed == DOMAIN drag.initial \cap DOMAIN notes

DragCreate(dur) ==
  /\ drag.mode = "create"
  /\ notes' = IF drag.id \in DOMAIN notes
              THEN Written(notes, "dur", Only(drag.id, Max({MinDuration, dur})))
              ELSE notes
  /\ UNCHANGED <<nextId, stacks, drag, gesture, interrupted>>

\* A move starts from where the notes were at the press.
DragMove(d) ==
  /\ drag.mode = "move"
  /\ \A i \in Grabbed : drag.initial[i].pos + d =< MaxPos
  /\ notes' = Written(notes, "pos",
                [i \in Grabbed |-> Max({0, drag.initial[i].pos + d})])
  /\ UNCHANGED <<nextId, stacks, drag, gesture, interrupted>>

DragEnd(d) ==
  /\ drag.mode = "end"
  /\ \A i \in Grabbed : drag.initial[i].dur + d =< MaxDur
  /\ notes' = Written(notes, "dur",
                [i \in Grabbed |-> Max({MinDuration, drag.initial[i].dur + d})])
  /\ UNCHANGED <<nextId, stacks, drag, gesture, interrupted>>

\* std::clamp(v, 0, high); with high < 0 its behaviour is undefined, and
\* implementations return one of the bounds.
Clamp(v, high) == IF high < 0 THEN {0, high} ELSE {Max({0, Min({v, high})})}

DragStart(d) ==
  LET end(i) == drag.initial[i].pos + drag.initial[i].dur
  IN  /\ drag.mode = "start"
      /\ \E pos \in [Grabbed -> (-MinDuration)..MaxPos] :
           /\ \A i \in Grabbed :
                /\ pos[i] \in Clamp(drag.initial[i].pos + d, end(i) - MinDuration)
                /\ end(i) - pos[i] =< MaxDur
           /\ notes' = Written(Written(notes, "pos", pos), "dur",
                               [i \in Grabbed |-> end(i) - pos[i]])
      /\ UNCHANGED <<nextId, stacks, drag, gesture, interrupted>>

ReleaseErase ==
  /\ drag.mode = "erase"
  /\ CommitBatch
  /\ drag' = NoDrag
  /\ UNCHANGED <<notes, nextId, gesture, interrupted>>

ReleaseCreate ==
  /\ drag.mode = "create"
  /\ PushUnlessEmpty(IF drag.id \in DOMAIN notes
                     THEN AddNote(drag.id, notes[drag.id]) ELSE << >>)
  /\ drag' = NoDrag
  /\ UNCHANGED <<notes, nextId, gesture, interrupted>>

\* The commands that took the initial notes to where they are now.
Changes(f) ==
  LET ids == {i \in Grabbed : notes[i][f] # drag.initial[i][f]}
  IN  SetNotes(f, Field(drag.initial, f, ids), Field(notes, f, ids))

ReleaseNote ==
  /\ drag.mode \in {"move", "start", "end"}
  /\ PushUnlessEmpty(Changes("pos") \o Changes("dur"))
  /\ drag' = NoDrag
  /\ UNCHANGED <<notes, nextId, gesture, interrupted>>

-----------------------------------------------------------------------------
(* The velocity lane.  A press begins the gesture and previews at once.    *)

Preview(old, new, v) ==
  LET here == DOMAIN old \cap DOMAIN notes
  IN  /\ notes' = Written(notes, "vel", [i \in here |-> v])
      /\ gesture' = [old |-> old, new |-> Over([i \in here |-> v], new)]
      /\ UNCHANGED <<nextId, stacks, drag, interrupted>>

BeginVelocityGesture(ids, v) ==
  /\ ~Dragging /\ ~InGesture
  /\ Preview(Field(notes, "vel", ids), Field(notes, "vel", ids), v)

PreviewVelocityGesture(v) ==
  /\ InGesture
  /\ Preview(gesture.old, gesture.new, v)

CommitVelocityGesture ==
  /\ InGesture
  /\ PushUnlessEmpty(IF gesture.new = gesture.old THEN << >>
                     ELSE SetNotes("vel", gesture.old, gesture.new))
  /\ gesture' = NoGesture
  /\ UNCHANGED <<notes, nextId, drag, interrupted>>

-----------------------------------------------------------------------------
\* Bound: after a gesture was interrupted, it is still finished, and undo and
\* redo are followed, but no other edit begins in this clip.
Followed == ~interrupted

Some == (SUBSET DOMAIN notes) \ {{}}

Key ==
  \/ Undo
  \/ Redo
  \/ /\ Followed
     /\ \E ids \in Some :
          \/ \E d \in {-1, 1} : MoveSelected(ids, d) \/ ResizeSelected(ids, d)
          \/ \E v \in Velocities : SetSelectedVelocity(ids, v)
          \/ DeleteNotes(ids)
          \/ Duplicate(ids)

Press ==
  /\ Followed
  /\ \/ \E ids \in {{}} \cup {{i} : i \in DOMAIN notes} : PressErase(ids)
     \/ \E pos \in Positions : PressEmpty(pos)
     \/ \E ids \in Some :
          \/ \E mode \in {"move", "start", "end"} : PressNote(mode, ids)
          \/ \E v \in Velocities : BeginVelocityGesture(ids, v)

Mouse ==
  \/ \E dur \in Durations : DragCreate(dur)
  \/ \E d \in {-1, 0, 1} : DragMove(d) \/ DragEnd(d) \/ DragStart(d)
  \/ \E v \in Velocities : PreviewVelocityGesture(v)
  \/ ReleaseErase \/ ReleaseCreate \/ ReleaseNote \/ CommitVelocityGesture

EditNext == OpenClip \/ Key \/ Press \/ Mouse

EditSpec == EditInit /\ [][EditNext]_editVars

-----------------------------------------------------------------------------
(* Properties.                                                             *)

\* Every note keeps to what Note::is_valid asks of it, whichever edits,
\* drags, undos and redos produced it; project_file.cpp refuses to load a
\* project in which one does not.
NotesAreValid == \A i \in DOMAIN notes : notes[i].pos >= 0 /\ notes[i].dur > 0

PartIds(part) == IF part.do = "set" THEN DOMAIN part.new ELSE DOMAIN part.notes
CommandIds(cmd) == UNION {PartIds(cmd[k]) : k \in DOMAIN cmd}

\* Commands and gestures name notes by id, also notes that are gone and may
\* come back: no id they or the sequence know is ever given out again.
IdsAreNotReused ==
  /\ DOMAIN notes \cup DOMAIN drag.initial \cup DOMAIN gesture.old \subseteq 1..(nextId - 1)
  /\ drag.id < nextId
  /\ \A cmd \in Range(undoStack) \cup Range(redoStack) \cup {batch} :
       CommandIds(cmd) \subseteq 1..(nextId - 1)

\* The document without the gesture that is still open.
Settled ==
  LET ids == Grabbed
  IN  CASE drag.mode = "create" -> Removed(notes, {drag.id})
        [] drag.mode = "erase"  -> Undone(batch, notes)
        [] drag.mode \in {"move", "start", "end"} ->
             Written(Written(notes, "pos", Field(drag.initial, "pos", ids)),
                     "dur", Field(drag.initial, "dur", ids))
        [] OTHER -> Written(notes, "vel", gesture.old)

\* A document as the commands promise to restore it: VelocityCommand does
\* not keep the release velocity.
Heard(doc) == [i \in DOMAIN doc |->
                 [pos |-> doc[i].pos, dur |-> doc[i].dur, vel |-> doc[i].vel]]

\* The documents that undo would lead back through, and redo forward.
Before(stack, doc) ==
  LET n == Len(stack)
      doc_at[k \in 1 .. n + 1] ==
        IF k = n + 1 THEN doc ELSE Undone(stack[k], doc_at[k + 1])
  IN  [k \in 1 .. n |-> Heard(doc_at[k])]
After(stack, doc) ==
  LET n == Len(stack)
      doc_at[k \in 0 .. n] ==
        IF k = 0 THEN doc ELSE Redone(stack[n - k + 1], doc_at[k - 1])
  IN  [k \in 1 .. n |-> Heard(doc_at[k])]
Docs == Before(undoStack, Settled) \o <<Heard(Settled)>> \o After(redoStack, Settled)

Timeline == INSTANCE DocumentTimeline
              WITH docs <- Docs, cursor <- Len(undoStack) + 1

\* Undo and redo walk along the documents that the edits went through, and a
\* gesture, however many steps it took, is one step of that walk.  So it is
\* as long as no key and no right click touches the history while a gesture
\* is open, and again from the next clip that is opened: the editor does not
\* block them, and a drag that an undo interrupts records its way from where
\* the notes were before the undo.
ImplementsTimeline ==
  Timeline!Init /\ [][interrupted' \/ Timeline!Next]_<<Docs, Len(undoStack)>>

=============================================================================
