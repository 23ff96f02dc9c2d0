CONSTANTS
  TicksPerBeat = 4
  Tempos <- MCTempos
  PatternLength = 8
  t1 = t1
  t2 = t2
  Tracks = {t1, t2}
  NotePool <- MCNotePool
  Projects <- MCProjects
  ClipStarts <- MCClipStarts
  ClipDurations <- MCClipDurations
  LoopRanges <- MCLoopRanges
  SeekTargets <- MCSeekTargets
  Frames <- MCFrames
  Capacity = 3
  TrackCapacity = 18
  VoiceCount = 3
  Word = 64
  MaxEdits = 1
  MaxClipId = 3
  MaxPos = 11
SPECIFICATION Spec
INVARIANTS
  WalkFollowsTimeline
  SoundsAsWritten
  ClicksOnTheBeat
