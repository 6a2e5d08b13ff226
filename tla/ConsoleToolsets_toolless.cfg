SPECIFICATION Spec
CONSTANTS
  Toolset = {"api", "mcp"}
  Custom = {"api", "mcp"}
  Mcp = {"mcp"}
  Command = {}
  Deferred = {"api", "mcp"}
  Loading = {"api", "mcp"}
  Process = {p1}
  Thread <- MCThread
  Contents <- MCContents
  NoFile = NoFile
  Torn = Torn
  MaxStarts = 2
  MaxEdits = 0
  MaxCrashes = 0
  MaxChanges = 0
  MaxCalls = 0
INVARIANTS
  DeferredHasTrigger
CHECK_DEADLOCK FALSE
