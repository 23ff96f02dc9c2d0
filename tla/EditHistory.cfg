SPECIFICATION EditSpec
CONSTANTS
  Opened <- MCOpened
  MaxId = 2
  MaxPos = 1
  MaxDur = 2
  Velocities = {1, 2}
  DefaultVelocity = 1
  SnapDuration = 1
  MinDuration = 1
  MaxParts = 2
INVARIANTS NotesAreValid IdsAreNotReused
PROPERTIES ImplementsTimeline
