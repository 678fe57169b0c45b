CONSTANTS
  Drains = {d1, d2}
  MaxLines = 2
  MaxBuffers = 2
  Capacity = 2
  Channel = 2
  Tails = {1, 2}
SPECIFICATION FairSpec
CHECK_DEADLOCK FALSE
INVARIANTS TypeOK FollowerSees FollowerInOrder
PROPERTY FollowerEnds
