-------------------------- MODULE MCConsoleToolsets -------------------------
(* Instances of ConsoleToolsets for TLC: "kube" is a built-in toolset with a command, *)
(* "mcp" an MCP server and "api" a toolset of type http of the configuration.         *)
EXTENDS ConsoleToolsets

MCContents ==
  {[t \in Toolset |-> IF t \in Custom THEN "on" ELSE "unset"],
   [t \in Toolset |-> IF t = "kube" THEN "off" ELSE "unset"]}

\* Two threads in one of the processes.
MCThread == {CHOOSE p \in Process : TRUE} \X {1, 2}
=============================================================================
