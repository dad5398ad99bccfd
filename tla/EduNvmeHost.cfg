SPECIFICATION Spec
CONSTANTS
  QueueMax = 2
  Aqas <- MCAqas
  IndexSpan = 4
  LbaSpan = 16
  Halves = {0, 1}
  SqBase <- MCSqBase
  CqBase <- MCCqBase
  NumBlocks = 2
  MemSize = 1
  IdLen = 1
  IdData = 0
  Data = {0, 1}
  Cmds = {}
  Tails = {}
  Heads = {}
  Faulty = {"data"}
  NCmds = 4
  NSessions = 2
  MaxTimeouts = 1
  QueueSize = 2
INVARIANTS
  HostTypeOK
  PhaseTellsNew
  CompletionsInOrder
  CompletionMatches
PROPERTIES
  ReadBack
  WaitEnds
CHECK_DEADLOCK FALSE
