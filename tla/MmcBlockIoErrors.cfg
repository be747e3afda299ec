CONSTANTS
  BlockSize = 2
  LastBlocks = {0, 3}
  LbaLimit = 8
  Lbas = {0, 2}
  MaxBufferSize = 6
  ReadyPolls = 2
  BusyPolls = 1
  Hosts = {{"command", "data"}}
SPECIFICATION Spec
INVARIANT AllBlocksOrError
