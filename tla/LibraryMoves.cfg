CONSTANTS
  job = job
  flow = flow
  Keys = {job, flow}
  Starts <- MCStarts
  MaxEdits = 1
  MaxImports = 1
  MaxFaults = 2
  MaxCloses = 1
SPECIFICATION Spec
INVARIANTS
  RecordsAreSomewhere
  LibraryIsWhole
PROPERTIES
  SessionIsNotBricked
CHECK_DEADLOCK FALSE
