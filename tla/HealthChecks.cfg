SPECIFICATION FairSpec
CONSTANTS
  Status = {"pass", "error"}
  MaxAttempts = 2
  MaxRetries = 2
  FaultKinds = {"refused", "lost"}
  MaxMishaps = 2
  MaxLate = 1
  MaxWrites = 2
INVARIANTS
  SettledIsFinal
  ExecutionsBounded
PROPERTIES
  ImplementsLifecycle
  
CHECK_DEADLOCK FALSE
