CONSTANTS
  MaxAttempts = 2
  MaxLines = 3
  Writers = {"inline", "detached"}
  Faults = {"drop", "killed"}
SPECIFICATION FairSpec
CHECK_DEADLOCK FALSE
INVARIANTS TypeOK FollowerComplete
PROPERTY FollowerEnds
