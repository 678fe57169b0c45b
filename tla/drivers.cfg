CONSTANTS
  Instances = {p1, c1}
  Containers = {c1}
  MaxLives = 2
  Faults = {"docker", "drop", "crash", "killed"}
SPECIFICATION FairSpec
CHECK_DEADLOCK FALSE
INVARIANTS TypeOK ReportedIsGone ContainersInHand ShutdownLeaves CgroupsRemoved
PROPERTY SpawnAndStopReturn
