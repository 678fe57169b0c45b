CONSTANTS
  Pools = {p1, p2}
  Requests = {r1, r2}
  Warmers = {}
  Instances = {i1, i2}
  Addrs = {a1, a2}
  NoInstance = NoInstance
  SmallPool = p1
  MaxSmall = 1
  MaxLarge = 2
  MaxInstances <- MCMaxInstances
  MinInstances = 1
  Concurrency = 1
  GlobalLimit = 2
  QueuePolicy = "Wait"
  QueueMaxWait = 0
  IdleTimeout = 0
  PromptSteps = FALSE
  Environment = {"disconnect", "crash", "reset", "stream", "reuse", "stop", "delete"}
SPECIFICATION Spec
CHECK_DEADLOCK FALSE
SYMMETRY Symmetry
INVARIANTS TypeOK AdmissionInv ReaperSparesHolders
PROPERTIES FloorKept ImplementsBudget
