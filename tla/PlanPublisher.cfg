CONSTANTS
  MaxGen = 5
  Blocks = {1, 2}
SPECIFICATION FairSpec
INVARIANTS
  TypeOK
  NoUseAfterFree
  NoDanglingPointer
  FramesFit
PROPERTIES
  CompletedMonotone
  EventuallyReclaimed
  ImplementsReclamation
CHECK_DEADLOCK FALSE
