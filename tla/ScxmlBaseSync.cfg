SPECIFICATION FairSpec
CONSTANTS
  AsyncStart = FALSE
  ReloadsCallback = FALSE
  MaxSessions = 3
  MaxQueue = 2
INVARIANT TypeOK
INVARIANT ThreadOwnsInterpreter
INVARIANT StoppedAnnouncedOnce
INVARIANT StartedAcceptsEvents
INVARIANT StopWakesThread
PROPERTY FollowsChart
PROPERTY StopReturns
CHECK_DEADLOCK FALSE
