SPECIFICATION HostSpec
CONSTANTS
  PFs = {"A", "B"}
  VFs = {}
  Vectors = 2
  FactorialMax = 12
  DmaMaxLen = 2
  MemSize = 4
  Data = {0, 1}
  Faulty = {}
  HostWrites <- MCWrites
  F = "A"
  PageSize = 2
  Payloads <- MCPayloads
INVARIANTS
  HostTypeOK
  NothingLeftHeld
  DmaVerified
PROPERTIES
  TransferEnds
