CONSTANTS
  r1 = r1
  r2 = r2
  Requests <- TwoRequests
  Slots <- TwoSlots
  Quitters <- OneQuitter
  Stallers <- OneStaller
  MaxLine = 1
  Faults <- AnyFault
  MaxRequests = 2
  MaxData = 1
SPECIFICATION FairSpec
INVARIANTS TypeOK ContextsApart NobodyForgotten EndsOnce NoLeak
 
CHECK_DEADLOCK FALSE
