CONSTANTS
  BlockSize = 2
  LastBlocks = {0, 1, 2, 3}
  AnyLastBlocks = {0, 3}
  LbaLimit = 8
  Lbas = {0, 2, 7}
  MaxBufferSize = 6
  ReadyPolls = 2
  BusyPolls = 1
  Hosts = {{"status", "command", "data", "stop", "notify"}, {"status", "command", "data"}, {"data", "notify"}}
  DiagnosticHosts = {{"data", "notify"}}
SPECIFICATION MCSpec
INVARIANTS PiecesInOrder WithinDevice ReadyForNext PassedRestores
PROPERTY RequestEnds
