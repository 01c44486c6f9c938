SPECIFICATION InterruptsSpec
CONSTANTS
  Ms = 2
  MaxKeys = 3
  Vectors <- MCVectors
CHECK_DEADLOCK FALSE
INVARIANTS Transparent FrameMatches
PROPERTIES OnlyInWindow Boots WakesUp KeysRead
