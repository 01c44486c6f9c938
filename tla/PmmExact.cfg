SPECIFICATION Spec
CONSTANTS
  Memmap <- ExactMap
  ByteBits = 2
  PageBytes = 2
  MaxRun = 3
INVARIANT HeldUsable
