--------------------------- MODULE ServerToolsets ---------------------------
(***************************************************************************)
(* The tool executor that all requests of the Holmes server share          *)
(* (server.py, Config in config.py, ToolsetManager), and its copy in the   *)
(* platform's database (utils/holmes_sync_toolsets.py, supabase_dal.py).   *)
(*                                                                         *)
(* The main thread creates the executor and reports it before the server   *)
(* starts.  From then on a refresh thread checks all toolsets again at     *)
(* intervals, short ones while an MCP server fails, and replaces and       *)
(* reports the executor when a status changed.  Whoever finds no executor, *)
(* a request, the scheduled prompts or the refresh, creates one: nothing   *)
(* is locked, and a creation takes as long as the slowest prerequisite.    *)
(***************************************************************************)
EXTENDS Naturals

CONSTANTS
  Toolset,       \* toolsets that are enabled in the configuration, or may become so
  Builtin,       \* those that do not come from the files of custom toolsets
  Mcp,           \* those that are MCP servers
  Caller,        \* threads that serve requests or scheduled prompts
  BackoffSteps,  \* length of MCP_RETRY_BACKOFF_SCHEDULE
  MaxChanges,    \* bound on changes of what a check finds, and of the files
  MaxFailures    \* bound on writes to the database that fail

ASSUME ToolsetAssumption == Builtin \subseteq Toolset /\ Builtin # {} /\ Mcp \subseteq Toolset
ASSUME ThreadAssumption == "main" \notin Caller /\ "refresh" \notin Caller
ASSUME NumbersAssumption == {BackoffSteps, MaxChanges, MaxFailures} \subseteq Nat

VARIABLES
  world,      \* what a check of each toolset would find now
  files,      \* the custom toolset files: what they define, and whether they load
  connected,  \* the process has a connection to the platform (dal.enabled)
  executor,   \* config._server_tool_executor: the status of each toolset it has
  db,         \* HolmesToolsStatus: the rows of this cluster
  task,       \* what each thread is doing
  backoff,    \* index into the schedule of short intervals
  unreported, \* auxiliary: the database could not be told of the executor, or was not
  count       \* changes and faults so far

toolsetVars == <<world, files, connected, executor, db, task, backoff, unreported, count>>
-----------------------------------------------------------------------------
Thread == {"main", "refresh"} \union Caller
Status == {"absent", "enabled", "failed"}
Nothing == [t \in Toolset |-> "absent"]     \* no executor: one without toolsets never is

Pc == {"begin", "idle", "sleep", "create", "recheck", "report", "delete", "done"}
Task == [pc : Pc, todo : SUBSET Toolset, found : [Toolset -> Status],
         old : [Toolset -> Status]]
Resting(pc) == [pc |-> pc, todo |-> {}, found |-> Nothing, old |-> Nothing]

ToolsetsTypeOK ==
  /\ world \in [Toolset -> {"enabled", "failed"}]
  /\ files \in [defined : SUBSET Toolset, loadable : BOOLEAN]
  /\ connected \in BOOLEAN
  /\ executor \in [Toolset -> Status]
  /\ db \in [Toolset -> Status]
  /\ task \in [Thread -> Task]
  /\ backoff \in 0..BackoffSteps
  /\ unreported \in BOOLEAN
  /\ count \in [changes : 0..MaxChanges, faults : 0..MaxFailures]

ToolsetsInit ==
  /\ world \in [Toolset -> {"enabled", "failed"}]
  /\ files \in [defined : {d \in SUBSET Toolset : Builtin \subseteq d}, loadable : BOOLEAN]
  /\ connected \in BOOLEAN
  /\ executor = Nothing
  /\ db \in {Nothing, [t \in Toolset |-> "enabled"]}   \* what an earlier process left
  /\ task = [h \in Thread |-> Resting(IF h = "main" THEN "begin" ELSE "idle")]
  /\ backoff = 0
  /\ unreported = TRUE
  /\ count = [changes |-> 0, faults |-> 0]
-----------------------------------------------------------------------------
(* Listing and checking the toolsets *)

\* Where a thread goes when there is nothing more to do: the main thread serves, the
\* refresh thread sleeps, a request goes on with the executor.
Over(h) == Resting(CASE h = "main" -> "done" [] h = "refresh" -> "sleep" [] OTHER -> "idle")

\* _list_all_toolsets makes new objects, and reads the files of custom toolsets again; if
\* one of them cannot be read it raises, and the caller logs that or answers with an error.
List(h, pc) ==
  task' = [task EXCEPT ![h] =
    IF files.loadable
    THEN [pc |-> pc, todo |-> files.defined, found |-> Nothing, old |-> executor]
    ELSE Over(h)]

\* One of the parallel checks.
Check(h, t) ==
  /\ task[h].pc \in {"create", "recheck"}
  /\ t \in task[h].todo
  /\ task' = [task EXCEPT ![h].todo = @ \ {t}, ![h].found[t] = world[t]]
  /\ UNCHANGED <<world, files, connected, executor, db, backoff, unreported, count>>

Listed(h, pc) == task[h].pc = pc /\ task[h].todo = {}

\* create_tool_executor assigns what it made, whatever is there by now.  Only the start
\* of the server reports it.
Create(h) ==
  /\ Listed(h, "create")
  /\ executor' = task[h].found
  /\ unreported' = TRUE
  /\ task' = [task EXCEPT ![h] = IF h = "main" THEN Resting("report") ELSE Over(h)]
  /\ UNCHANGED <<world, files, connected, db, backoff, count>>
-----------------------------------------------------------------------------
(* The start of the server, and requests *)

\* sync_before_server_start
Begin ==
  /\ task["main"].pc = "begin"
  /\ IF connected THEN List("main", "create")
     ELSE task' = [task EXCEPT !["main"] = Over("main")]
  /\ UNCHANGED <<world, files, connected, executor, db, backoff, unreported, count>>

\* A request, or a scheduled prompt, that finds no executor.
Request(c) ==
  /\ task["main"].pc = "done"
  /\ task[c].pc = "idle"
  /\ executor = Nothing
  /\ List(c, "create")
  /\ UNCHANGED <<world, files, connected, executor, db, backoff, unreported, count>>
-----------------------------------------------------------------------------
(* The refresh loop *)

HasFailedMcp == \E t \in Mcp : executor[t] = "failed"

\* _toolset_status_refresh_loop starts its thread, which goes to sleep.
StartRefresh ==
  /\ task["main"].pc = "done"
  /\ task["refresh"].pc = "idle"
  /\ task' = [task EXCEPT !["refresh"] = Resting("sleep")]
  /\ backoff' = IF HasFailedMcp /\ BackoffSteps > 0 THEN 1 ELSE 0
  /\ UNCHANGED <<world, files, connected, executor, db, unreported, count>>

\* The end of a sleep: refresh_server_tool_executor.
Wake ==
  /\ task["refresh"].pc = "sleep"
  /\ List("refresh", IF executor = Nothing THEN "create" ELSE "recheck")
  /\ UNCHANGED <<world, files, connected, executor, db, backoff, unreported, count>>

\* _get_next_refresh_interval, when the loop goes to sleep again.
NextInterval(failed) ==
  IF failed /\ backoff < BackoffSteps THEN backoff + 1 ELSE 0

\* Mutant: statuses are compared with those of the toolsets that are enabled now.
ChangesOfEnabled(old, new) ==
  {t \in Toolset : old[t] = "enabled" /\ new[t] # "absent" /\ old[t] # new[t]}

\* refresh_server_toolsets_and_get_changes: a toolset that appears or disappears is none.
Changes(old, new) ==
  {t \in Toolset : old[t] # "absent" /\ new[t] # "absent" /\ old[t] # new[t]}

Refresh ==
  LET new == task["refresh"].found IN
  /\ Listed("refresh", "recheck")
  /\ IF Changes(task["refresh"].old, new) # {}
     THEN /\ executor' = new
          /\ unreported' = TRUE
          /\ task' = [task EXCEPT !["refresh"] = Resting("report")]
          /\ UNCHANGED backoff
     ELSE /\ task' = [task EXCEPT !["refresh"] = Resting("sleep")]
          /\ backoff' = NextInterval(HasFailedMcp)
          /\ UNCHANGED <<executor, unreported>>
  /\ UNCHANGED <<world, files, connected, db, count>>
-----------------------------------------------------------------------------
(* holmes_sync_toolsets_status *)

\* Rows are written for what the executor has.
Upserted == [t \in Toolset |-> IF executor[t] # "absent" THEN executor[t] ELSE db[t]]

Rest(h) ==
  /\ task' = [task EXCEPT ![h] = Over(h)]
  /\ backoff' = IF h = "refresh" THEN NextInterval(HasFailedMcp) ELSE backoff

\* The names that are kept are those of the rows that were written.
Upsert(h) ==
  /\ task[h].pc = "report"
  /\ connected
  /\ db' = Upserted
  /\ task' = [task EXCEPT ![h] = [Resting("delete") EXCEPT !.found = executor]]
  /\ UNCHANGED <<world, files, connected, executor, backoff, unreported, count>>

\* Mutant: rows of toolsets that are gone are kept.
DeleteNothing(h) ==
  /\ task[h].pc = "delete"
  /\ unreported' = (executor # task[h].found)
  /\ Rest(h)
  /\ UNCHANGED <<world, files, connected, executor, db, count>>

Delete(h) ==
  /\ task[h].pc = "delete"
  /\ db' = [t \in Toolset |-> IF task[h].found[t] = "absent" THEN "absent" ELSE db[t]]
  /\ unreported' = (executor # task[h].found)
  /\ Rest(h)
  /\ UNCHANGED <<world, files, connected, executor, count>>

\* The platform does not answer, which is logged; or there is none.
NotReported(h) ==
  /\ \/ task[h].pc \in {"report", "delete"} /\ connected /\ count.faults < MaxFailures
        /\ count' = [count EXCEPT !.faults = @ + 1]
     \/ task[h].pc = "report" /\ ~connected /\ UNCHANGED count
  /\ Rest(h)
  /\ UNCHANGED <<world, files, connected, executor, db, unreported>>
-----------------------------------------------------------------------------
(* What toolsets depend on *)

Change ==
  /\ count.changes < MaxChanges
  /\ count' = [count EXCEPT !.changes = @ + 1]
  /\ \/ \E t \in Toolset : world' = [world EXCEPT ![t] = IF @ = "failed" THEN "enabled" ELSE "failed"]
        /\ UNCHANGED files
     \/ \E d \in SUBSET Toolset \ {files.defined} :
          /\ Builtin \subseteq d
          /\ files' = [files EXCEPT !.defined = d]
        /\ UNCHANGED world
     \/ files' = [files EXCEPT !.loadable = FALSE] /\ files.loadable /\ UNCHANGED world
  /\ UNCHANGED <<connected, executor, db, task, backoff, unreported>>

\* Somebody mends the file.
Mend ==
  /\ ~files.loadable
  /\ files' = [files EXCEPT !.loadable = TRUE]
  /\ UNCHANGED <<world, connected, executor, db, task, backoff, unreported, count>>

Work(h) == Create(h) \/ Upsert(h) \/ Delete(h) \/ NotReported(h) \/ \E t \in Toolset : Check(h, t)
Loop == StartRefresh \/ Wake \/ Refresh

ToolsetsNext ==
  \/ Begin \/ Loop \/ Change \/ Mend
  \/ \E h \in Thread : Work(h)
  \/ \E c \in Caller : Request(c)

\* Threads are scheduled, sleeps and checks end; a file that does not load is mended.
ToolsetsFairness ==
  /\ WF_toolsetVars(Begin) /\ WF_toolsetVars(Loop) /\ WF_toolsetVars(Mend)
  /\ \A h \in Thread : WF_toolsetVars(Work(h))

ToolsetsSpec == ToolsetsInit /\ [][ToolsetsNext]_toolsetVars /\ ToolsetsFairness
-----------------------------------------------------------------------------
(* Properties *)

\* While the refresh thread sleeps, the platform shows what requests use: every toolset
\* of the executor with its status, and no other.  What is not so was not reported: a
\* write failed, or the executor was created by a thread that does not report.
DatabaseShowsExecutor ==
  connected /\ task["refresh"].pc = "sleep" /\ ~unreported => db = executor

\* Whatever the order of checks, failures to load and creations that overlap, in the end
\* the executor has the status of every toolset as a check finds it.  A toolset that a
\* file gained or lost meanwhile is not followed: that alone is no change.
ExecutorFollows ==
  <>[](/\ executor # Nothing
       /\ \A t \in files.defined : executor[t] \in {world[t], "absent"})
=============================================================================
