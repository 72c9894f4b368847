SPECIFICATION Spec
CONSTANTS
  Name = {n1, n2}
  Main = main
  Invoked = {sub}
  App = app
  GlobalData = TRUE
  MaxWrites = 3
  MaxQueue = 2
INVARIANT TypeOK
INVARIANT EventFindsItsData
INVARIANT ReportsArriveInOrder
CHECK_DEADLOCK FALSE
