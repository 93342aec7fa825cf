CONSTANTS
  jobA = jobA
  jobB = jobB
  Jobs <- TwoJobs
  NoJob = NoJob
  Backends = {"workspace", "browser"}
  MaxEdits = 2
  MaxRenames = 1
  MaxElsewhere = 1
  MaxSaves = 1
  MaxFaults = 1
  MaxQueue = 1
SPECIFICATION Spec
SYMMETRY Symmetric
INVARIANTS
  EditsAreCarried
PROPERTIES
  KeepsPromise
CHECK_DEADLOCK FALSE
