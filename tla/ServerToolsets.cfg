SPECIFICATION ToolsetsSpec
CONSTANTS
  Toolset = {"kube", "mcp"}
  Builtin = {"kube"}
  Mcp = {"mcp"}
  Caller = {"request"}
  BackoffSteps = 2
  MaxChanges = 2
  MaxFailures = 1
INVARIANTS
  DatabaseShowsExecutor
PROPERTIES
  ExecutorFollows
CHECK_DEADLOCK FALSE
