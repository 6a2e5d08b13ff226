SPECIFICATION FairSpec
CONSTANTS
  Check = {c1, c2}
  Verdict = {"error"}
  MaxHistory = 2
  MaxRetries = 5
  MaxPolls = 2
  FaultKinds = {"refused", "lost", "delayed"}
  MaxFaults = 0
  MaxCrashes = 0
  MaxEdits = 1
  MaxReruns = 0
  MaxMishaps = 0
INVARIANT NoOrphan
PROPERTIES
  WatchersEnd
  CreatedIsRecorded
CHECK_DEADLOCK FALSE
