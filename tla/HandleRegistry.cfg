SPECIFICATION Spec
CONSTANTS
  App = {t1, t2}
  Addr = {a, b}
  MadeCalls <- OneOfEachKind
  MaxObjects = 3
INVARIANT TypeOK
INVARIANT UsesItsObject
INVARIANT RegistryMatchesObjects
PROPERTY CloseReturns
CHECK_DEADLOCK FALSE
