CONSTANTS
  Names = {"lead"}
  DropBeats = {0, 4}
  ClipLengths = {2}
  NewLength = 4
  Imports <- MCImports
  MaxCommands = 3
  MaxNotes = 1
SPECIFICATION ArrangementSpec
INVARIANTS
  Reopens
  UndoLeadsBack
  NotesUndoOpenPattern
