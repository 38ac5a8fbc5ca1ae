CONSTANTS
  t1 = t1
  t2 = t2
  p1 = p1
  p2 = p2
  p3 = p3
  p4 = p4
  p5 = p5
  Threads = {t1}
  NoThread = NoThread
  NumBlocks = 2
  BlockSize = 1
  Values = {v1}
  Zero = Zero
  Junk = Junk
  Requests <- WriteEach
  NumDevices = 1
  VramLimit <- OneVram
  RamLimit = 1
  PagefileLimit = 2
  WordBlocks = 4
  Ptrs = {p1, p2, p3}
  Faults <- PlacementFaults
  ClientOps <- AnyOp
  ThrashMin = 1
  HistoryWindow = 1
SPECIFICATION Spec
SYMMETRY Symmetry
INVARIANT StorageSound
INVARIANT VramWithinBudget
