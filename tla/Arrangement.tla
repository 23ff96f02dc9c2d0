----------------------------- MODULE Arrangement -----------------------------
(***************************************************************************)
(* The project (tracks, patterns and clips), the arrangement's commands    *)
(* with their own undo history, the note history of the open pattern, the  *)
(* import of MIDI files, and what saving and opening make of a project:    *)
(* Project, Pattern and ProjectFile, and EditorController on top of them.  *)
(*                                                                         *)
(* Everything runs on the GUI thread.  What can go wrong is a sequence of  *)
(* legal commands: an undo that runs after changes it knows nothing of, a  *)
(* clip left behind without its track, a note history that outlives its    *)
(* pattern, a project that is saved and then refused.                      *)
(*                                                                         *)
(* Data: mixer settings, the notes themselves and the selection are left   *)
(* out; a command on notes is known by the pattern it was made in.         *)
(***************************************************************************)
EXTENDS Integers, SequencesExt

CONSTANTS
  Names,        \* names of tracks
  DropBeats,    \* beats the user drops clips and patterns at
  ClipLengths,  \* lengths the user drags clips to, in beats
  NewLength,    \* length of a new pattern
  Imports,      \* what MIDI files hold: lengths and numbers of tracks
  MaxCommands,  \* bound: arrangement commands and imports
  MaxNotes      \* bound: note edits in the history

ASSUME ArrangementAssumption ==
  /\ DropBeats \subseteq Nat
  /\ ClipLengths \subseteq Nat \ {0}
  /\ NewLength \in Nat \ {0}
  /\ Imports \subseteq [tracks : Nat \ {0}, length : Nat \ {0}]

VARIABLES
  project,        \* project_
  active_pattern, \* active_pattern_id_
  undo, redo,     \* arrangement_undo_, arrangement_redo_
  notes_undo,     \* history_: for each command, the pattern it was made in
  commands,       \* history variable: commands and imports so far
  docs            \* history variable: the documents undo and redo lead to

arrangementVars ==
  <<project, active_pattern, undo, redo, notes_undo, commands, docs>>

-----------------------------------------------------------------------------
(* Project.                                                                *)

Track(id, name) == [id |-> id, name |-> name]
Pattern(id, length) == [id |-> id, length |-> length]
Clip(id, track, pattern, start, duration) ==
  [id |-> id, track |-> track, pattern |-> pattern, start |-> start,
   duration |-> duration]

Cleared == [tracks |-> << >>, patterns |-> << >>, clips |-> << >>,
            nextTrack |-> 1, nextPattern |-> 1, nextClip |-> 1]

Has(items, id) == \E i \in DOMAIN items : items[i].id = id
The(items, id) == items[CHOOSE i \in DOMAIN items : items[i].id = id]

\* The items whose field f is one of values, in their order.
Chosen(items, f, values) ==
  LET kept[k \in 0 .. Len(items)] ==
        IF k = 0 THEN << >>
        ELSE IF items[k][f] \in values THEN Append(kept[k - 1], items[k])
        ELSE kept[k - 1]
  IN  kept[Len(items)]
With(items, f, id) == Chosen(items, f, {id})
Without(items, f, id) ==
  Chosen(items, f, {items[i][f] : i \in DOMAIN items} \ {id})

Changed(items, new) ==
  [i \in DOMAIN items |-> IF items[i].id = new.id THEN new ELSE items[i]]
AtLeast(n, id) == IF n > id THEN n ELSE id + 1

\* ClipInstance::is_valid, and the checks of add_clip.
Fits(p, clip) ==
  /\ clip.start >= 0
  /\ clip.duration > 0
  /\ ~Has(p.clips, clip.id)
  /\ Has(p.tracks, clip.track)
  /\ Has(p.patterns, clip.pattern)

\* add_track, add_pattern and add_clip refuse an id that is in use.
AddTrack(p, track) ==
  IF Has(p.tracks, track.id) THEN p
  ELSE [p EXCEPT !.tracks = Append(@, track),
                 !.nextTrack = AtLeast(@, track.id)]
AddPattern(p, pattern) ==
  IF Has(p.patterns, pattern.id) THEN p
  ELSE [p EXCEPT !.patterns = Append(@, pattern),
                 !.nextPattern = AtLeast(@, pattern.id)]
AddClip(p, clip) ==
  IF ~Fits(p, clip) THEN p
  ELSE [p EXCEPT !.clips = Append(@, clip), !.nextClip = AtLeast(@, clip.id)]

\* One after the other.
Add(p, part, item) == CASE part = "tracks"   -> AddTrack(p, item)
                        [] part = "patterns" -> AddPattern(p, item)
                        [] part = "clips"    -> AddClip(p, item)
AddAll(p, part, items) ==
  LET added[k \in 0 .. Len(items)] ==
        IF k = 0 THEN p ELSE Add(added[k - 1], part, items[k])
  IN  added[Len(items)]

\* A faulty variant of RemoveTrack: its clips stay.
RemoveTrackOnly(p, id) == [p EXCEPT !.tracks = Without(@, "id", id)]

\* remove_track and remove_pattern take the clips along.
RemoveTrack(p, id) ==
  [p EXCEPT !.tracks = Without(@, "id", id),
            !.clips = Without(@, "track", id)]
RemovePattern(p, id) ==
  [p EXCEPT !.patterns = Without(@, "id", id),
            !.clips = Without(@, "pattern", id)]
RemoveClip(p, id) == [p EXCEPT !.clips = Without(@, "id", id)]

\* reset_project_model
Fresh ==
  AddClip(AddPattern(AddTrack(Cleared, Track(1, "Instrument 1")),
                     Pattern(1, NewLength)),
          Clip(1, 1, 1, 0, NewLength))

\* ProjectFile::load of what ProjectFile::save writes: whether it is accepted,
\* and the project it makes.
Loadable(p) ==
  /\ p.tracks # << >>
  /\ p.patterns # << >>
  /\ \A items \in {p.tracks, p.patterns, p.clips} :
       \A i, j \in DOMAIN items : items[i].id = items[j].id => i = j
  /\ \A i \in DOMAIN p.clips : Fits([p EXCEPT !.clips = << >>], p.clips[i])

Loaded(p) ==
  AddAll(AddAll(AddAll(Cleared, "tracks", p.tracks), "patterns", p.patterns),
         "clips", p.clips)

-----------------------------------------------------------------------------
(* The arrangement's history: an edit holds what its two closures need.    *)

\* A faulty variant of EditUndone: a deleted track comes back without its clips.
EditUndoneBare(edit, p) ==
  CASE edit.do = "addTrack"      -> RemoveTrack(p, edit.track.id)
    [] edit.do = "deleteTrack"   -> AddTrack(p, edit.track)
    [] edit.do = "renameTrack"   -> [p EXCEPT !.tracks = Changed(@, edit.old)]
    [] edit.do = "createPattern" -> RemovePattern(p, edit.pattern.id)
    [] edit.do = "changeClip"    -> [p EXCEPT !.clips = Changed(@, edit.old)]
    [] edit.do = "duplicateClip" -> RemoveClip(p, edit.clip.id)
    [] edit.do = "deleteClip"    -> AddClip(p, edit.clip)

EditUndone(edit, p) ==
  CASE edit.do = "addTrack"      -> RemoveTrack(p, edit.track.id)
    [] edit.do = "deleteTrack"   -> AddAll(AddTrack(p, edit.track), "clips", edit.clips)
    [] edit.do = "renameTrack"   -> [p EXCEPT !.tracks = Changed(@, edit.old)]
    [] edit.do = "createPattern" -> RemovePattern(p, edit.pattern.id)
    [] edit.do = "changeClip"    -> [p EXCEPT !.clips = Changed(@, edit.old)]
    [] edit.do = "duplicateClip" -> RemoveClip(p, edit.clip.id)
    [] edit.do = "deleteClip"    -> AddClip(p, edit.clip)

EditRedone(edit, p) ==
  CASE edit.do = "addTrack"      -> AddTrack(p, edit.track)
    [] edit.do = "deleteTrack"   -> RemoveTrack(p, edit.track.id)
    [] edit.do = "renameTrack"   -> [p EXCEPT !.tracks = Changed(@, edit.new)]
    [] edit.do = "createPattern" -> AddClip(AddPattern(p, edit.pattern), edit.clip)
    [] edit.do = "changeClip"    -> [p EXCEPT !.clips = Changed(@, edit.new)]
    [] edit.do = "duplicateClip" -> AddClip(p, edit.clip)
    [] edit.do = "deleteClip"    -> RemoveClip(p, edit.clip.id)

\* What a document is as far as the arrangement's undo goes: a track or clip
\* that an undo brings back goes to the end.
Arranged(p) ==
  [tracks |-> ToSet(p.tracks), patterns |-> ToSet(p.patterns),
   clips |-> ToSet(p.clips)]

\* push_arrangement_edit, the edit having been done.
PushEdit(edit) ==
  /\ commands < MaxCommands
  /\ commands' = commands + 1
  /\ undo' = Append(undo, edit)
  /\ redo' = << >>
  /\ docs' = Append(SubSeq(docs, 1, Len(undo) + 1), Arranged(project'))

\* arrangementUndo and arrangementRedo
arrangementUndo ==
  /\ undo # << >>
  /\ project' = EditUndone(Last(undo), project)
  /\ undo' = Front(undo)
  /\ redo' = Append(redo, Last(undo))
  /\ UNCHANGED <<active_pattern, notes_undo, commands, docs>>

arrangementRedo ==
  /\ redo # << >>
  /\ project' = EditRedone(Last(redo), project)
  /\ redo' = Front(redo)
  /\ undo' = Append(undo, Last(redo))
  /\ UNCHANGED <<active_pattern, notes_undo, commands, docs>>

-----------------------------------------------------------------------------
(* The commands.                                                           *)

NotesStay == UNCHANGED <<active_pattern, notes_undo>>

addTrack(name) ==
  LET track == Track(project.nextTrack, name)
  IN  /\ project' = AddTrack(project, track)
      /\ PushEdit([do |-> "addTrack", track |-> track])
      /\ NotesStay

renameTrack(id, name) ==
  LET old == The(project.tracks, id)
      new == [old EXCEPT !.name = name]
  IN  /\ Has(project.tracks, id)
      /\ project' = [project EXCEPT !.tracks = Changed(@, new)]
      /\ PushEdit([do |-> "renameTrack", old |-> old, new |-> new])
      /\ NotesStay

\* The last track stays.
deleteTrack(id) ==
  /\ Has(project.tracks, id)
  /\ Len(project.tracks) > 1
  /\ project' = RemoveTrack(project, id)
  /\ PushEdit([do |-> "deleteTrack", track |-> The(project.tracks, id),
           clips |-> With(project.clips, "track", id)])
  /\ NotesStay

\* A new pattern, in a clip at start, is the one open.
createPattern(track, start) ==
  LET pattern == Pattern(project.nextPattern, NewLength)
      clip == Clip(project.nextClip, track, pattern.id, start, NewLength)
  IN  /\ Has(project.tracks, track)
      /\ project' = AddClip(AddPattern(project, pattern), clip)
      /\ active_pattern' = pattern.id
      /\ notes_undo' = << >>
      /\ PushEdit([do |-> "createPattern", pattern |-> pattern, clip |-> clip])

\* A faulty variant of openClip: the note history is kept.
openClipKeeping(id) ==
  /\ Has(project.clips, id)
  /\ active_pattern' = The(project.clips, id).pattern
  /\ UNCHANGED <<project, undo, redo, notes_undo, commands, docs>>

\* The pattern of a clip opens in the piano roll.
openClip(id) ==
  /\ Has(project.clips, id)
  /\ active_pattern' = The(project.clips, id).pattern
  /\ notes_undo' = << >>
  /\ UNCHANGED <<project, undo, redo, commands, docs>>

ChangeClip(new) ==
  /\ project' = [project EXCEPT !.clips = Changed(@, new)]
  /\ PushEdit([do |-> "changeClip", old |-> The(project.clips, new.id), new |-> new])
  /\ NotesStay

moveClip(id, start, track) ==
  /\ Has(project.clips, id)
  /\ Has(project.tracks, track)
  /\ ChangeClip([The(project.clips, id) EXCEPT !.start = start, !.track = track])

resizeClip(id, duration) ==
  /\ Has(project.clips, id)
  /\ ChangeClip([The(project.clips, id) EXCEPT !.duration = duration])

\* The copy follows the clip.
duplicateClip(id) ==
  LET source == The(project.clips, id)
      copy == [source EXCEPT !.id = project.nextClip,
                             !.start = source.start + source.duration]
  IN  /\ Has(project.clips, id)
      /\ project' = AddClip(project, copy)
      /\ PushEdit([do |-> "duplicateClip", clip |-> copy])
      /\ NotesStay

deleteClip(id) ==
  /\ Has(project.clips, id)
  /\ project' = RemoveClip(project, id)
  /\ PushEdit([do |-> "deleteClip", clip |-> The(project.clips, id)])
  /\ NotesStay

\* importMidi: a track, a pattern and a clip for each track of the file that
\* has notes.  The arrangement's history does not learn of it.
ImportTrack(p, length, start) ==
  AddClip(AddPattern(AddTrack(p, Track(p.nextTrack, "MIDI")),
                     Pattern(p.nextPattern, length)),
          Clip(p.nextClip, p.nextTrack, p.nextPattern, start, length))

Imported(p, file, start) ==
  LET made[k \in 0 .. file.tracks] ==
        IF k = 0 THEN p ELSE ImportTrack(made[k - 1], file.length, start)
  IN  made[file.tracks]

importMidi(file, start) ==
  LET Grown(d) ==
        [part \in DOMAIN d |->
           d[part] \cup (Arranged(project')[part] \ Arranged(project)[part])]
  IN  /\ commands < MaxCommands
      /\ commands' = commands + 1
      /\ project' = Imported(project, file, start)
      /\ active_pattern' = project.nextPattern
      /\ notes_undo' = << >>
      /\ docs' = [i \in DOMAIN docs |-> Grown(docs[i])]
      /\ UNCHANGED <<undo, redo>>

\* An edit of the notes in the piano roll, and its undo.
EditNotes ==
  /\ Has(project.patterns, active_pattern)
  /\ Len(notes_undo) < MaxNotes
  /\ notes_undo' = Append(notes_undo, active_pattern)
  /\ UNCHANGED <<project, active_pattern, undo, redo, commands, docs>>

UndoNotes ==
  /\ Has(project.patterns, active_pattern)
  /\ notes_undo # << >>
  /\ notes_undo' = Front(notes_undo)
  /\ UNCHANGED <<project, active_pattern, undo, redo, commands, docs>>

\* newProject and openProject start all over.  (The project whose first pattern
\* has no lane, for which openProject returns before it clears the histories, is
\* in Session: no file the program wrote holds one.)
Replace(p) ==
  /\ project' = p
  /\ active_pattern' = Head(p.patterns).id
  /\ undo' = << >>
  /\ redo' = << >>
  /\ notes_undo' = << >>
  /\ docs' = <<Arranged(p)>>
  /\ UNCHANGED commands

ArrangementInit ==
  /\ project = Fresh
  /\ active_pattern = 1
  /\ undo = << >>
  /\ redo = << >>
  /\ notes_undo = << >>
  /\ commands = 0
  /\ docs = <<Arranged(Fresh)>>

Command ==
  \/ \E name \in Names : addTrack(name)
  \/ \E i \in DOMAIN project.tracks :
       LET id == project.tracks[i].id
       IN  \/ \E name \in Names : renameTrack(id, name)
           \/ deleteTrack(id)
           \/ \E start \in DropBeats : createPattern(id, start)
  \/ \E i \in DOMAIN project.clips :
       LET id == project.clips[i].id
       IN  \/ \E start \in DropBeats, j \in DOMAIN project.tracks :
                moveClip(id, start, project.tracks[j].id)
           \/ \E duration \in ClipLengths : resizeClip(id, duration)
           \/ openClip(id) \/ duplicateClip(id) \/ deleteClip(id)

ArrangementNext ==
  \/ Command \/ arrangementUndo \/ arrangementRedo
  \/ \E file \in Imports, start \in DropBeats : importMidi(file, start)
  \/ EditNotes \/ UndoNotes
  \/ Loadable(project) /\ Replace(Loaded(project))
  \/ Replace(Fresh)

ArrangementSpec == ArrangementInit /\ [][ArrangementNext]_arrangementVars

-----------------------------------------------------------------------------
(* Properties.                                                             *)

\* Undo and redo of the arrangement lead back to the documents the commands
\* made, with what was imported since added to each, whatever was done to
\* tracks, patterns and clips in between.
UndoLeadsBack == docs[Len(undo) + 1] = Arranged(project)

\* Every project the commands, undos and imports lead to can be opened again
\* when it is saved, and is the same then: no clip is left without its track
\* or pattern, no id is given twice, and the last track and pattern stay.
Reopens ==
  /\ Loadable(project)
  /\ LET p == Loaded(project)
     IN  <<p.tracks, p.patterns, p.clips>>
           = <<project.tracks, project.patterns, project.clips>>

\* The commands in the note history were made in the pattern that is open:
\* undo takes back no note of another pattern.  That holds even while an undo
\* of the arrangement has taken the pattern away.
NotesUndoOpenPattern ==
  \A i \in DOMAIN notes_undo : notes_undo[i] = active_pattern
=============================================================================
