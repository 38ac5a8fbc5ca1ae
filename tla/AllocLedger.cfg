CONSTANTS
  t1 = t1
  t2 = t2
  t3 = t3
  p1 = p1
  p2 = p2
  Threads <- ThreeThreads
  Ptrs <- TwoPtrs
  Sizes = {1, 2}
  Faults = {"cudaFree"}
  MaxTotal = 6
SYMMETRY Interchangeable
SPECIFICATION Spec
INVARIANTS TypeOK EntriesLive LedgerExact TotalCovers
PROPERTY DriftStays
CHECK_DEADLOCK FALSE
