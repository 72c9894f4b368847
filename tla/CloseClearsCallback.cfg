SPECIFICATION Spec
CONSTANTS
  AsyncStart = FALSE
  ReloadsCallback = TRUE
  MaxSessions = 1
  MaxQueue = 1
INVARIANT NoNullCall
CHECK_DEADLOCK FALSE
