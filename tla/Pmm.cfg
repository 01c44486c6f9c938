SPECIFICATION Spec
CONSTANTS
  Memmap <- SplitMap
  ByteBits = 2
  PageBytes = 2
  MaxRun = 3
INVARIANTS Accounting HeldDisjoint HeldUsable Inv
PROPERTIES RefusedOnlyWhenFull SearchEnds ImplementsPageAllocator
