SPECIFICATION RingSpec
CONSTANTS
  MaxRingSize = 2
  DmaMaxLen = 2
  Halves = {0, 1}
  RingBase <- MCRingBase
  MemSize = 2
  Data = {0, 1}
  Lens = {0, 1, 2, 3}
  Tags = {0}
  RegVals = {0, 1, 2, 3}
  GuestDescs <- MCDescs
  Faulty = {"fetch", "read", "write", "status"}
INVARIANTS
  RingTypeOK
  IndexBounds
  OwnedSlot
PROPERTIES
  PassTerminates
CHECK_DEADLOCK FALSE
