CONSTANTS
  VoiceCount = 2
  Levels = 2
  Presses <- MCPresses
  MaxCalls = 2
  MaxSong = 1
  MaxResets = 1
SPECIFICATION FairSpec
INVARIANTS
  HeldAuditionIsKnown
  LatestCallSounds
PROPERTIES
  StopSilencesSong
  ReleaseSilencesUnlessClicked
