SPECIFICATION Spec
CONSTANTS
  MaxRingSize = 4
  DmaMaxLen = 1
  Halves = {0, 1}
  RingBase <- MCRingBase
  MemSize <- MCMemSize
  Data <- MCNumbers
  Lens = {0, 1}
  Tags <- MCNumbers
  RegVals = {}
  GuestDescs = {}
  Faulty = {"fetch", "read"}
  NJobs = 6
  Sizes = {2, 4}
INVARIANTS
  HostTypeOK
  NextInOrder
  FetchedUnchanged
  CompleteHasData
PROPERTIES
  InterruptAfterStatus
  ImplementsQueue
