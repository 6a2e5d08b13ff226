SPECIFICATION Spec
CONSTANTS
  Check = {c1, c2}
  Verdict = {"pass", "error"}
  MaxHistory = 2
  MaxRetries = 2
  MaxPolls = 2
  FaultKinds = {"refused", "lost", "delayed"}
  MaxFaults = 1
  MaxCrashes = 1
  MaxEdits = 0
  MaxReruns = 1
  MaxMishaps = 1
CONSTRAINT FewMishaps
SYMMETRY Symmetry
INVARIANTS
  RecordedNotActive
  EnteredOnce
  
PROPERTY ImplementsLedger
CHECK_DEADLOCK FALSE
