SPECIFICATION Bar0Spec
CONSTANTS
  PFs = {"A", "B"}
  VFs = {"V"}
  Vectors = 2
  FactorialMax = 12
  DmaMaxLen = 2
  MemSize = 2
  Data = {0}
  Faulty = {}
  HostWrites <- MCWrites
INVARIANTS
  Bar0TypeOK
  NoIntxUnderMsix
  AcceptsNext
PROPERTIES
  PeersReturn
