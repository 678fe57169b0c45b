CONSTANTS
  Names = {"main.py", "requirements.txt"}
  Main = "main.py"
  Requirements = "requirements.txt"
  Versions = {"v1", "v2"}
  Declaring = {"v2"}
  Framework = "fw"
  Modes = {"host"}
  MaxAttempts = 2
  MaxEdits = 1
  Faults = {}
SPECIFICATION Spec
CHECK_DEADLOCK FALSE
INVARIANT RetryIsCopied
