CONSTANTS
  Capacity = 2
  Modulus = 4
  Quantum = 1
  MaxPos = 1
  MaxFlush = 2
SPECIFICATION FairSpec
INVARIANTS
  TypeOK
  NoSlotRace
  FlushLeavesNothingOld
  SortedUntilSought
PROPERTIES
  FlushAnswered
  ImplementsFifo
