SPECIFICATION FlantermSpec
CONSTANTS
  TabSize = 2
  Screens <- MCScreens
  Alphabets <- MCAlphabets
  MaxValues = 2
  Word = 20
  Cp437 = {233}
  Combining = {769}
  MaxLength = 7
  Palettes <- MCPalettes
  BufferSize = 6
  Bits <- MCBits
  Jobs <- MCJobs
  Quiet <- MCQuiet
  Silence <- MCSilence
INVARIANTS FieldsOK OneState ParsesAsGrammar DecodesUtf8 ReverseMirrors PrintsAsStandard BufferKept
PROPERTIES VerticalMoves EditsExactly ImplementsPaper PrivateOnlyWhenAsked HueKept
