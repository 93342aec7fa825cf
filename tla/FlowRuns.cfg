CONSTANTS
  N = 3
  Owner <- MixedOwner
  ClientsMayLeave = TRUE
  StoresMayFail = TRUE
SPECIFICATION Spec
INVARIANTS
  TypeOK
  HistoryTellsTheFlow
PROPERTIES
  RowsAreFinal
  CancelReachesItsFlow
  FlowLetsGo
CHECK_DEADLOCK FALSE
