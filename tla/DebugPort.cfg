CONSTANTS
  Ports = {"framebuffer", "memory", "uart"}
  Texts <- MCTexts
  Garbage = {TRUE, FALSE}
  gWidth = 24
  gHeight = 72
  size = 3
  TxDepth = 2
  Attributes <- MCAttributes
  Depth = 2
  MaxCalls = 3
SPECIFICATION FairSpec
INVARIANTS ConsoleRight LogIsTail AloneNothingLost AttributesSet
PROPERTIES InterruptsRestored CallsReturn
