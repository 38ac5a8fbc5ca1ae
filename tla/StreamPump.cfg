CONSTANTS
  LastRequest = 2
  JoinTimesOut = FALSE
  EngineFails = TRUE
SPECIFICATION Spec
INVARIANTS WritesApart
CHECK_DEADLOCK FALSE
