CONSTANTS
  Registers = {r1, r2}
  Deletes = {x1}
  Sweep = Sweep
  Topics = {t1, t2, t3}
  Missing = {t3}
  HttpTrigger = Http
  Triggers = {t1, t2, t3, Http}
  None = None
  MaxFailures = 2
  MaxCrashes = 1
  Disconnects = TRUE
SPECIFICATION FairSpec
CHECK_DEADLOCK FALSE
INVARIANTS TypeOK BoundIsSubscribed
PROPERTIES RecordIsBound DeletedIsUnsubscribed RetriesEnd
