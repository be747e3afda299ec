CONSTANTS
  WB = WB
  XN = XN
  Unmapped = Unmapped
  Bit <- MCBit
  Radix = 2
  RootTableLevel = 1
  RootCount = 2
  AddressLimit = 16
  MemoryTables <- MCMemoryTables
  Calls <- MCCalls
  MaxCalls = 2
  MayFail = TRUE
  WriteBack <- MCWriteBack
  SectionPages = 3
  Sections = 3
  RootPage = 1
  MemoryMaps <- MCMemoryMaps
  Requests <- MCRequests
  MaxRequests = 2
SPECIFICATION MCSpec
INVARIANT NoTableOfEitherLost
PROPERTIES BothImplementMemoryMap BothEnabledAsTold BothCallsEnd
