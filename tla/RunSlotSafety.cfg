CONSTANTS
  NoRun = NoRun
  Runs = {r1, r2}
  ClientsMayLeave = TRUE
  MaxCancels = 2
  MaxKills = 1
SPECIFICATION Spec
SYMMETRY Symmetry
INVARIANTS
  TypeOK
  SlotIsExclusive
  CancellationIsHeard
PROPERTY HistoryIsKept
CHECK_DEADLOCK FALSE
