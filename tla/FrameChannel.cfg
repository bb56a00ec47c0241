SPECIFICATION FairSpec
CONSTANTS
  Blocks = 2
  Capacity = 2
  MaxFrames = 3
INVARIANTS
  TypeOK
  AtMostOneBehind
  NothingMissed
  RingKeepsNewest
PROPERTIES
  NextFrameRepairs
CHECK_DEADLOCK FALSE
