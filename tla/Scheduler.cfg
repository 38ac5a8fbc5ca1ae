CONSTANTS
  r1 = r1
  r2 = r2
  r3 = r3
  r4 = r4
  Requests <- FourRequests
  NoSlot = NoSlot
  CacheSlots <- AnyOrFirst
  capacity = 2
  max_queue = 2
  MaxCalls = 4
SPECIFICATION FairSpec
INVARIANTS TypeOK SlotsSound TicketsSound LineBounded CountersAgree
PROPERTIES ActsAsAdmission WaitEnds
CHECK_DEADLOCK FALSE
