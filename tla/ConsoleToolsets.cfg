SPECIFICATION Spec
CONSTANTS
  Toolset = {"kube", "mcp"}
  Custom = {"mcp"}
  Mcp = {"mcp"}
  Command = {"kube"}
  Deferred = {"kube", "mcp"}
  Loading = {"mcp"}
  Process = {p1, p2}
  Thread <- MCThread
  Contents <- MCContents
  NoFile = NoFile
  Torn = Torn
  MaxStarts = 3
  MaxEdits = 1
  MaxCrashes = 1
  MaxChanges = 1
  MaxCalls = 2
INVARIANTS
  RunsOnlyChecked
  TrustsOwnStatuses
CHECK_DEADLOCK FALSE
