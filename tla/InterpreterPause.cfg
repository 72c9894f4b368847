SPECIFICATION Spec
CONSTANTS
  Event = {e1}
  Main = main
  Nested = {n1, n2}
  Delay = {1, 2}
  MaxNow = 6
  MaxRead = 1
  None = none
SYMMETRY Symmetry
INVARIANT TypeOK
INVARIANT ClockCountsRunningTime
INVARIANT NeverEarly
INVARIANT PauseSilences
INVARIANT DelaysFollowClock
PROPERTY ClockStepsBackBounded
