CONSTANTS
  a = a
  b = b
  Paths = {a, b}
  Recovery = Recovery
  NoPath = NoPath
  Nothing = Nothing
  Unreadable = Unreadable
  Disks <- MCDisks
  MaxEdits = 3
SPECIFICATION Spec
INVARIANTS
  CleanMeansSaved
  AutosavedWorkSurvives
PROPERTIES
  OnlyDiscardLosesWork
