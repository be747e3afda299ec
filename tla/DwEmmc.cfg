CONSTANTS
  MaxWords = 3
  FifoWords = 1
  DataPolls = 2
  ResetPolls = 2
  Frequencies = {50000, 400000, 25000000}
SPECIFICATION FairSpec
INVARIANT OnlyNewWords
PROPERTIES SuccessIsComplete ClockChangedSafely TransfersEnd
