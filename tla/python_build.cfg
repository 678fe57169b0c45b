CONSTANTS
  Names = {"main.py", "requirements.txt"}
  Main = "main.py"
  Requirements = "requirements.txt"
  Versions = {"v1", "v2"}
  Declaring = {"v2"}
  Framework = "fw"
  Modes = {"host", "container"}
  MaxAttempts = 2
  MaxEdits = 1
  Faults = {"io", "docker", "drop", "killed"}
SPECIFICATION FairSpec
CHECK_DEADLOCK FALSE
INVARIANTS TypeOK ReadyIsOwn
PROPERTY BuildReturns
