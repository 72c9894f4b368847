SPECIFICATION FairSpec
CONSTANTS
  AsyncStart = TRUE
  ReloadsCallback = FALSE
  MaxSessions = 1
  MaxQueue = 1
PROPERTY StopReturns
CHECK_DEADLOCK FALSE
