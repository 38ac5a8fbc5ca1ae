CONSTANTS
  t1 = t1
  t2 = t2
  p1 = p1
  p2 = p2
  p3 = p3
  p4 = p4
  p5 = p5
  Threads = {t1}
  NoThread = NoThread
  NumBlocks = 2
  BlockSize = 2
  Values = {v1}
  Zero = Zero
  Junk = Junk
  Requests <- WriteEach
  NumDevices = 0
  VramLimit <- ThreeVram
  RamLimit = 1
  PagefileLimit = 1
  WordBlocks = 8
  Ptrs = {p1, p2, p3, p4}
  Faults = {}
  ClientOps = {"migrateBlockToTier"}
  ThrashMin = 2
  HistoryWindow = 3
SPECIFICATION Spec
PROPERTY MovesKeepContents
