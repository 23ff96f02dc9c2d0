CONSTANTS
  MaxEvents = 2
  MaxSets = 3
  MaxFlush = 2
SPECIFICATION Spec
INVARIANTS
  TypeOK
  WriterOffReader
  QuantumPlaysOneTrack
  LastTrackPlays
