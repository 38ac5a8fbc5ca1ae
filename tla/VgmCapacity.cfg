CONSTANTS
  t1 = t1
  t2 = t2
  p1 = p1
  p2 = p2
  p3 = p3
  p4 = p4
  p5 = p5
  Threads = {t1, t2}
  NoThread = NoThread
  NumBlocks = 4
  BlockSize = 1
  Values = {v1}
  Zero = Zero
  Junk = Junk
  Requests <- Filling
  NumDevices = 2
  VramLimit <- OnlySecond
  RamLimit = 1
  PagefileLimit = 1
  WordBlocks = 4
  Ptrs = {p1, p2}
  Faults = {}
  ClientOps = {"logResidencyChange"}
  ThrashMin = 1
  HistoryWindow = 2
  MaxCalls = 1
SPECIFICATION FiniteSpec
INVARIANT RamWithinBudget
PROPERTY TiersInOrder
PROPERTY RefusedOnlyWhenFull
PROPERTY CallsReturn
CHECK_DEADLOCK FALSE
