\* The instance of LibraryMoves.cfg, in a browser whose library is to be migrated.
CONSTANTS
  job = job
  flow = flow
  Keys = {job, flow}
  Starts <- OldBrowser
  MaxEdits = 0
  MaxImports = 0
  MaxFaults = 2
  MaxCloses = 0
SPECIFICATION Spec
INVARIANTS
  MigrationKeepsData
CHECK_DEADLOCK FALSE
