SPECIFICATION Spec
CONSTANTS
  MaxRingSize = 4
  DmaMaxLen = 1
  Halves = {0, 1}
  RingBase <- MCRingBase
  MemSize <- MCMemSize
  Data <- MCNumbers
  Lens = {0, 1}
  Tags <- MCNumbers
  RegVals = {}
  GuestDescs = {}
  Faulty = {"read"}
  NJobs = 4
  Sizes = {2, 4}
INVARIANTS
  DrainedAtIdle
PROPERTIES
  EveryRequestReaped
