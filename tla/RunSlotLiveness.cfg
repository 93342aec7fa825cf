CONSTANTS
  NoRun = NoRun
  Runs = {r1, r2}
  ClientsMayLeave = TRUE
  MaxCancels = 0
  MaxKills = 1
SPECIFICATION Spec
PROPERTIES
  RunsLetGo
  RunsAreSerial
CHECK_DEADLOCK FALSE
