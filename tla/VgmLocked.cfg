CONSTANTS
  t1 = t1
  t2 = t2
  p1 = p1
  p2 = p2
  p3 = p3
  p4 = p4
  p5 = p5
  Threads = {t1, t2}
  NoThread = NoThread
  NumBlocks = 3
  BlockSize = 2
  Values = {v1}
  Zero = Zero
  Junk = Junk
  Requests <- Mixed
  NumDevices = 1
  VramLimit <- ThreeVram
  RamLimit = 1
  PagefileLimit = 1
  WordBlocks = 8
  Ptrs = {p1, p2, p3, p4}
  Faults = {"cudaMalloc", "cudaMemcpy", "CreateFileMapping", "MapViewOfFile"}
  ClientOps = {}
  ThrashMin = 2
  HistoryWindow = 3
SPECIFICATION Spec
SYMMETRY Symmetry
INVARIANT TypeOK
INVARIANT LockSound
INVARIANT VramExact
INVARIANT NothingLeaks
INVARIANT OwnerGoesOn
INVARIANT ReleasedAtDestroy
PROPERTY EvictsOldest
PROPERTY CallsAdvance
PROPERTY ActsAsStore
