CONSTANTS
  Keys <- MCKeys
  Deltas = {0, 1}
  Division = 3
  TicksPerBeat = 2
  MaxTracks = 2
  MaxEvents = 4
  None = None
SPECIFICATION Spec
INVARIANTS
  NotesFollowFile
CHECK_DEADLOCK FALSE
