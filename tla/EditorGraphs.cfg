CONSTANTS
  Whats <- AllWhats
  Dual = {"join", "union"}
  SubPipelines = {"join"}
  Codes = {"a", "b"}
  RuleCodes <- MCRuleCodes
  Palette <- MCPalette
  Forms <- MCForms
  Imported <- MCImported
  HistoryLimit = 1
  MaxIds = 8
  MaxSelected = 1
  MaxCommits = 2
SPECIFICATION Spec
INVARIANTS
  VersionsAreSound
  RunsAsDrawn
  StepsFindTheirBoxes
  RoundTrip
  LintAgrees
PROPERTIES
  KeepsTimeline
CHECK_DEADLOCK FALSE
