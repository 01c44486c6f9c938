SPECIFICATION FlantermSpec
CONSTANTS
  TabSize = 2
  Screens <- MCScreens
  Alphabets <- MCAlphabets
  MaxValues = 2
  Word = 20
  Cp437 = {233}
  Combining = {769}
  MaxLength = 7
  Palettes <- MCPalettes
  BufferSize = 6
  Bits <- MCBits
  Jobs <- MCPrecisions
  Quiet <- MCQuiet
  Silence <- MCSilence
INVARIANT ImplementsStandard
