CONSTANTS
  Frames <- MCFrames
  SeekRequests <- MCSeekRequests
  LoopRequests <- MCLoopRequests
  MaxSeeks <- MCMaxSeeks
  MaxPos <- MCMaxPos
SPECIFICATION FairSpec
INVARIANTS
  TypeOK
  NoStalePlayhead
PROPERTIES
  EverySeekLands
  PlayheadStaysInLoop
