SPECIFICATION NvmeSpec
CONSTANTS
  QueueMax = 2
  Aqas <- MCAqas
  IndexSpan = 4
  LbaSpan = 16
  Halves = {0}
  SqBase <- MCSqBase
  CqBase <- MCCqBase
  NumBlocks = 2
  MemSize = 1
  IdLen = 1
  IdData = 0
  Data = {0}
  Cmds <- MCCmds
  Tails = {0, 1, 3}
  Heads = {1}
  Faulty = {}
INVARIANTS
  NvmeTypeOK
PROPERTIES
  IndicesReturn
  DoorbellReturns
CHECK_DEADLOCK FALSE
