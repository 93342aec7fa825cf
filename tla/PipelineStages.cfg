\* Drawings of up to three boxes over two Jobs and a file, three edits or runs, one run at most.
SPECIFICATION CanvasSpec
CHECK_DEADLOCK FALSE
CONSTANTS
  load = load
  clean = clean
  extract = extract
  Jobs <- MCJobs
  Files <- MCFiles
  Ids = {1, 2, 3}
  MissingName = 4
  Opened <- MCOpened
  Libraries <- MCLibraries
  HistoryLimit = 2
  MaxMoves = 3
  MaxRuns = 1
INVARIANTS
  DrawingsStaySound
  BoxesTellTheRun
PROPERTIES
  PipelineTimeline
  RunsAreTheDrawing
