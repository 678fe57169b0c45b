CONSTANTS
  Deploys = {d1, d2}
  ImageDeploys = {d2}
  Deletes = {x1}
  Nobody = Nobody
  NoFunction = NoFunction
  MaxCrashes = 1
  Disconnects = FALSE
SPECIFICATION FairSpec
CHECK_DEADLOCK FALSE
INVARIANT FailedRedeployHarmless
PROPERTY BuildingReleased
