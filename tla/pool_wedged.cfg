CONSTANTS
  Pools = {p1}
  Requests = {r1, r2}
  Warmers = {}
  Instances = {i1, i2}
  Addrs = {a1, a2}
  NoInstance = NoInstance
  SmallPool = p1
  MaxSmall = 2
  MaxLarge = 2
  MaxInstances <- MCMaxInstances
  MinInstances = 1
  Concurrency = 1
  GlobalLimit = 2
  QueuePolicy = "Wait"
  QueueMaxWait = 0
  IdleTimeout = 0
  PromptSteps = FALSE
  Environment = {"disconnect"}
SPECIFICATION Spec
CHECK_DEADLOCK FALSE
INVARIANT StartingHasStarter
