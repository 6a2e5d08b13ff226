SPECIFICATION Spec
CONSTANTS
  Run = {r1, r2}
  Holmes = {h1, h2}
  None = None
  MaxFaults = 2
  MaxRetries = 1
INVARIANTS
  ReportsAreTrue
  
PROPERTIES
  RunsEnd
CHECK_DEADLOCK FALSE
