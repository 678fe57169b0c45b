CONSTANTS
  Pools = {p1}
  Requests = {r1, r2}
  Warmers = {w1}
  Instances = {i1, i2}
  Addrs = {a1, a2}
  NoInstance = NoInstance
  SmallPool = p1
  MaxSmall = 2
  MaxLarge = 2
  MaxInstances <- MCMaxInstances
  MinInstances = 1
  Concurrency = 1
  GlobalLimit = 2
  QueuePolicy = "Wait"
  QueueMaxWait = 1
  IdleTimeout = 1
  PromptSteps = TRUE
  Environment = {"crash", "delete"}
SPECIFICATION FairSpec
CHECK_DEADLOCK FALSE
INVARIANTS NoOrphan AtMostOneSurvivor
PROPERTY CallsReturn
