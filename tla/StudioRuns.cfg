SPECIFICATION Spec
CONSTANTS
  A = A
  B = B
  Docs <- MCDocs
  Twins <- MCTwins
  Boxes = 1
  MaxRuns = 2
INVARIANTS
  BoxesTellOneRun
  PanelTellsTheTruth
  StopIsUnderWay
SYMMETRY Either
CHECK_DEADLOCK FALSE
