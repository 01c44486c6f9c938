SPECIFICATION SetupSpec
CONSTANTS
  Memmap <- MCMemmap
  ByteBits = 4
  PageBytes = 4
  MaxRun = 1
  Fanout = 3
  HhdmBase = 27
  Layouts <- MCLayouts
  ListSize = 3
  Machines <- MCMachines
  Framebuffers <- MCFramebuffers
  Instances <- MCInstances
CHECK_DEADLOCK FALSE
INVARIANTS KernelMapped ListsAsTable RoutedAsTables ScreenFits
PROPERTIES ImplementsAddressSpace SetupEnds
