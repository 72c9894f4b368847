SPECIFICATION Spec
CONSTANTS
  MaxHour = 5
  MaxMinute = 1
  MaxDay = 1
  Saturday = 1
  Count = 3
  MaxTemperature = 1
  Settings <- MCSettings
  Files <- MCFiles
  MaxEvents = 8
INVARIANT TypeOK
INVARIANT ProgramInOrder
INVARIANT CurrentStartedLast
CHECK_DEADLOCK FALSE
