SPECIFICATION Spec
CONSTANTS
  Memmap <- HeapMap
  ByteBits = 4
  PageBytes = 4
  MaxRun = 2
  PageUnits = 2
  Sizes = {1, 2}
  Values = {1, 2}
  MaxLive = 3
  Shrinks = FALSE
CHECK_DEADLOCK FALSE
INVARIANTS RingOK NoLeak ContentsKept
