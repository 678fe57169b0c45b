CONSTANTS
  Deploys = {d1, d2, d3, d4}
  ImageDeploys = {}
  Deletes = {}
  Nobody = Nobody
  NoFunction = NoFunction
  MaxCrashes = 2
  Disconnects = TRUE
SPECIFICATION Spec
CHECK_DEADLOCK FALSE
SYMMETRY Symmetry
INVARIANTS TypeOK ReadyIsBacked TemplateIsBacked ReadyHasPool
PROPERTY HistoryKept
