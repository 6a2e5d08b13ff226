--------------------------- MODULE ConsoleToolsets --------------------------
(***************************************************************************)
(* How the command line gets its tools: Config.load_from_file (config.py), *)
(* ToolsetManager.load_toolset_with_status (core/toolset_manager.py) and   *)
(* the lazy initialisation of a toolset on the first use of one of its     *)
(* tools (core/tools.py, core/tools_utils/tool_executor.py).               *)
(*                                                                         *)
(* Three files outlive a process: the user's configuration, the hashes of  *)
(* it (utils/config_hash.py), and the statuses of the toolsets as the last *)
(* full check of their prerequisites found them.  Nothing locks them, so   *)
(* two processes may use them at the same time, and one may be killed      *)
(* between any two steps.  A start that finds the hashes unchanged takes   *)
(* the statuses from the file and checks, of every toolset but an MCP      *)
(* server, only what is fast; the rest waits for the first call.           *)
(***************************************************************************)
EXTENDS Naturals, FiniteSets

CONSTANTS
  Toolset,      \* names of toolsets
  Custom,       \* those that exist only when the configuration defines them
  Mcp,          \* those of them that are MCP servers
  Command,      \* toolsets with a command among their prerequisites
  Deferred,     \* toolsets with a prerequisite that a cached start defers
  Loading,      \* those that have no tools before such a prerequisite has made them
  Process,      \* runs of the command line that may overlap
  Thread,       \* the threads that call tools: a process and a number
  Contents,     \* contents the configuration file may have
  NoFile,       \* the configuration file or the hashes are not there
  Torn,         \* a file that was emptied and not written yet
  MaxStarts, MaxEdits, MaxCrashes, MaxChanges, MaxCalls   \* bounds on what happens

ASSUME ToolsetAssumption ==
  /\ Mcp \subseteq Custom /\ Custom \subseteq Toolset
  /\ Command \subseteq Deferred /\ Mcp \subseteq Loading
  /\ Loading \subseteq Deferred /\ Deferred \subseteq Toolset
  /\ Mcp \cap Command = {}
ASSUME ThreadAssumption == Thread \subseteq Process \X Nat
ASSUME ContentsAssumption ==
  /\ Contents \subseteq [Toolset -> {"unset", "on", "off"}]
  /\ NoFile \notin [Toolset -> {"unset", "on", "off"}]
ASSUME BoundsAssumption ==
  {MaxStarts, MaxEdits, MaxCrashes, MaxChanges, MaxCalls} \subseteq Nat

VARIABLES
  file,      \* the configuration file: contents or NoFile
  hashes,    \* ~/.holmes/config_hashes: the contents that were hashed, NoFile or Torn
  cache,     \* ~/.holmes/toolsets_status.json
  world,     \* what a check of each toolset's prerequisites would find now
  process,   \* the processes of the command line
  thread,    \* their threads that call tools
  disturbed, \* auxiliary: something since the last quiet refresh that may make the cache stale
  count      \* how often things happened, for the bounds

vars == <<file, hashes, cache, world, process, thread, disturbed, count>>
-----------------------------------------------------------------------------
Configuration == Contents \union {NoFile}
Status == {"enabled", "disabled", "failed"}
Row == [status : Status, enabled : BOOLEAN]

\* known: the toolset exists for this process.  tools: the executor has its tools.
\* checked: how the last full check ended.  inits: checks that lazy calls completed.
Entry == [known : BOOLEAN, enabled : BOOLEAN, status : Status, lazy : BOOLEAN,
          initialized : BOOLEAN, tools : BOOLEAN,
          checked : {"none", "passed", "failed", "raised"}, inits : Nat]
Unlisted == [known |-> FALSE, enabled |-> FALSE, status |-> "disabled", lazy |-> FALSE,
             initialized |-> TRUE, tools |-> FALSE, checked |-> "none", inits |-> 0]

Pc == {"off", "hash", "save", "saving", "decide", "check", "open", "dump", "read",
       "recheck", "ready", "failed"}

TypeOK ==
  /\ file \in Configuration
  /\ hashes \in Configuration \union {Torn}
  /\ cache \in [state : {"absent", "torn", "whole"}, basis : Configuration,
                row : [Toolset -> Row \union {NoFile}]]
  /\ world \in [Toolset -> {"works", "fails", "raises", "unset"}]
  /\ process \in [Process ->
       [pc : Pc, config : Configuration, refresh : BOOLEAN, cached : BOOLEAN,
        todo : SUBSET Toolset, toolset : [Toolset -> Entry],
        hashed : Configuration, basis : Configuration, excused : BOOLEAN]]
  /\ thread \in [Thread ->
       [pc : {"idle", "wait", "init", "run", "refused", "raised"}, of : Toolset \union {NoFile}]]
  /\ disturbed \in BOOLEAN
  /\ count \in [starts : 0..MaxStarts, edits : 0..MaxEdits, crashes : 0..MaxCrashes,
                changes : 0..MaxChanges, calls : 0..MaxCalls]

Off == [pc |-> "off", config |-> NoFile, refresh |-> FALSE, cached |-> FALSE, todo |-> {},
        toolset |-> [t \in Toolset |-> Unlisted], hashed |-> NoFile, basis |-> NoFile,
        excused |-> FALSE]
Idle == [pc |-> "idle", of |-> NoFile]

Init ==
  /\ file \in Configuration
  /\ hashes = NoFile
  /\ cache = [state |-> "absent", basis |-> NoFile, row |-> [t \in Toolset |-> NoFile]]
  /\ world = [t \in Toolset |-> "works"]
  /\ process = [p \in Process |-> Off]
  /\ thread = [i \in Thread |-> Idle]
  /\ disturbed = FALSE
  /\ count = [starts |-> 0, edits |-> 0, crashes |-> 0, changes |-> 0, calls |-> 0]
-----------------------------------------------------------------------------
(* Toolsets *)

Starting(p) == process[p].pc \notin {"off", "ready", "failed"}

\* Whether a configuration defines or leaves in place a toolset, and enables it:
\* enable_all_toolsets turns the built-in ones on before the configuration is merged.
Setting(c, t) == IF c = NoFile THEN "unset" ELSE c[t]
Known(c, t) == t \notin Custom \/ Setting(c, t) # "unset"
Enables(c, t, all) == Setting(c, t) = "on" \/ (all /\ Setting(c, t) = "unset" /\ t \notin Custom)

\* _list_all_toolsets: new objects, not checked yet.
Listed(c, all) ==
  [t \in Toolset |-> [Unlisted EXCEPT !.known = Known(c, t), !.enabled = Enables(c, t, all)]]

\* check_prerequisites: the status is set to enabled first, and an exception that the
\* check of a command does not catch leaves it so.
Checked(e, found) ==
  [e EXCEPT !.status = IF found \in {"works", "raises"} THEN "enabled" ELSE "failed",
            !.checked = CASE found = "works" -> "passed"
                          [] found = "raises" -> "raised"
                          [] OTHER -> "failed"]

\* check_config_prerequisites: static flags and environment variables only, which is all
\* there is to check of a toolset that is not deferred.
ConfigChecked(e, t, found) ==
  IF found = "unset" THEN [e EXCEPT !.status = "failed"]
  ELSE [e EXCEPT !.status = "enabled", !.lazy = e.lazy \/ t \in Deferred,
                 !.initialized = t \notin Deferred,
                 !.checked = IF t \in Deferred THEN @ ELSE "passed"]

\* The status and the switch of the file win over those of the configuration.
FromCache(e, row) ==
  IF e.known /\ row # NoFile THEN [e EXCEPT !.status = row.status, !.enabled = row.enabled] ELSE e

\* What is checked again after the statuses are read from the file.
Selected(ts) ==
  {t \in Toolset : ts[t].known /\ ts[t].enabled /\ (ts[t].status = "enabled" \/ t \in Mcp)}

\* ToolExecutor.__init__: the tools that the toolsets that are enabled now have now.
WithTools(ts) ==
  [t \in Toolset |-> [ts[t] EXCEPT !.tools =
     ts[t].known /\ ts[t].status = "enabled" /\ (t \in Loading => ts[t].checked = "passed")]]
-----------------------------------------------------------------------------
(* A start of the command line *)

At(p, pc) == [process EXCEPT ![p].pc = pc]

\* Auxiliary: no comparison of hashes will tell this start whether the cache is its own,
\* because the configuration is gone or because another start is under way.
Unwatched(p) ==
  \/ file = NoFile /\ hashes # NoFile
  \/ \E q \in Process \ {p} : Starting(q)

\* Config.load_from_file, and the start of load_toolset_with_status.  The hashes are
\* looked at unless --refresh-toolsets is given or there was no configuration file.
Start(p) ==
  /\ process[p].pc \in {"off", "failed"}
  /\ count.starts < MaxStarts
  /\ \E refresh \in BOOLEAN :
       process' = [process EXCEPT ![p] =
         [Off EXCEPT !.pc = IF refresh \/ file = NoFile THEN "decide" ELSE "hash",
                     !.config = file, !.refresh = refresh]]
  /\ count' = [count EXCEPT !.starts = @ + 1]
  /\ disturbed' = (disturbed \/ Unwatched(p))
  /\ UNCHANGED <<file, hashes, cache, world, thread>>

\* The hash of the file on disk, which need not be what the process loaded, is compared
\* with the stored one; a store that cannot be read counts as empty.
Changed == IF hashes = Torn THEN file # NoFile ELSE hashes # file

CheckHashes(p) ==
  /\ process[p].pc = "hash"
  /\ process' = IF Changed
                THEN [process EXCEPT ![p].pc = "save", ![p].hashed = file, ![p].refresh = TRUE]
                ELSE At(p, "decide")
  /\ UNCHANGED <<file, hashes, cache, world, thread, disturbed, count>>

\* save_config_hashes: open truncates, the content comes later.
SaveHashes(p) ==
  /\ \/ /\ process[p].pc = "save"
        /\ hashes' = Torn
        /\ process' = At(p, "saving")
     \/ /\ process[p].pc = "saving"
        /\ hashes' = process[p].hashed
        /\ process' = [process EXCEPT ![p].pc = "decide", ![p].hashed = NoFile]
  /\ UNCHANGED <<file, cache, world, thread, disturbed, count>>

\* Mutant: a file that is there is used even when a refresh is due.
DecideCached(p) ==
  /\ process[p].pc = "decide"
  /\ process' = IF cache.state = "absent"
                THEN [process EXCEPT ![p].pc = "check", ![p].refresh = FALSE,
                        ![p].toolset = Listed(process[p].config, TRUE),
                        ![p].todo = {t \in Toolset : Known(process[p].config, t)
                                                     /\ Enables(process[p].config, t, TRUE)}]
                ELSE [process EXCEPT ![p].pc = "read", ![p].cached = TRUE]
  /\ UNCHANGED <<file, hashes, cache, world, thread, disturbed, count>>

Decide(p) ==
  /\ process[p].pc = "decide"
  /\ process' = IF cache.state = "absent" \/ process[p].refresh
                THEN [process EXCEPT ![p].pc = "check", ![p].refresh = FALSE,
                        ![p].toolset = Listed(process[p].config, TRUE),
                        ![p].todo = {t \in Toolset : Known(process[p].config, t)
                                                     /\ Enables(process[p].config, t, TRUE)}]
                ELSE [process EXCEPT ![p].pc = "read", ![p].cached = TRUE]
  /\ UNCHANGED <<file, hashes, cache, world, thread, disturbed, count>>

\* One of the parallel checks of check_toolset_prerequisites; nobody reads the futures.
Check(p, t) ==
  /\ process[p].pc \in {"check", "recheck"}
  /\ t \in process[p].todo
  /\ process' = [process EXCEPT ![p].todo = @ \ {t},
                                ![p].toolset[t] = Checked(process[p].toolset[t], world[t])]
  /\ UNCHANGED <<file, hashes, cache, world, thread, disturbed, count>>

\* refresh_toolset_status: the status file is emptied when it is opened.
Open(p) ==
  /\ process[p].pc = "check"
  /\ process[p].todo = {}
  /\ process' = At(p, "dump")
  /\ cache' = [cache EXCEPT !.state = "torn"]
  /\ UNCHANGED <<file, hashes, world, thread, disturbed, count>>

RowOf(e) == IF e.known THEN [status |-> e.status, enabled |-> e.enabled] ELSE NoFile

\* Auxiliary: the cache and the hashes are of one configuration again once a start wrote
\* the cache for the contents whose hash is stored, with nobody in its way.
Quiet(p) ==
  /\ hashes = process[p].config
  /\ \A q \in Process \ {p} : ~Starting(q)

\* Two processes that write at the same time may leave a mixture of both texts.
Dump(p) ==
  /\ process[p].pc = "dump"
  /\ \E state \in IF cache.state = "torn" THEN {"whole"} ELSE {"whole", "torn"} :
       cache' = [state |-> state, basis |-> process[p].config,
                 row |-> [t \in Toolset |-> RowOf(process[p].toolset[t])]]
  /\ process' = [process EXCEPT ![p].pc = "read", ![p].toolset = Off.toolset]
  /\ disturbed' = ~(Quiet(p) /\ cache'.state = "whole")
  /\ UNCHANGED <<file, hashes, world, thread, count>>

\* The second half of load_toolset_with_status: the file is read whatever it is now, new
\* objects take the statuses from it, and a cached start checks fast what can wait.
Read(p) ==
  /\ process[p].pc = "read"
  /\ LET c == process[p].config
         ts == [t \in Toolset |-> FromCache(Listed(c, FALSE)[t], cache.row[t])]
         later == IF process[p].cached THEN Selected(ts) \ Mcp ELSE {}
     IN process' =
          IF cache.state # "whole" THEN [process EXCEPT ![p] = [Off EXCEPT !.pc = "failed", !.excused = disturbed]]
          ELSE [process EXCEPT ![p].pc = "recheck",
                  ![p].toolset = [t \in Toolset |-> IF t \in later
                                    THEN ConfigChecked(ts[t], t, world[t]) ELSE ts[t]],
                  ![p].todo = Selected(ts) \ later,
                  ![p].basis = cache.basis, ![p].excused = disturbed]
  /\ UNCHANGED <<file, hashes, cache, world, thread, disturbed, count>>

\* create_console_tool_executor
Ready(p) ==
  /\ process[p].pc = "recheck"
  /\ process[p].todo = {}
  /\ process' = [process EXCEPT ![p].pc = "ready", ![p].toolset = WithTools(@)]
  /\ UNCHANGED <<file, hashes, cache, world, thread, disturbed, count>>
-----------------------------------------------------------------------------
(* Calls of tools *)

Turn(i, pc) == [thread EXCEPT ![i].pc = pc]
Entered(i) == process[i[1]].toolset[thread[i].of]

\* What ensure_toolset_initialized answers of a toolset that is initialised.
Verdict(e) == IF e.status = "failed" THEN "refused" ELSE "run"

\* Mutant: a toolset that was not initialised is used all the same.
Unasked(e) == FALSE
\* Toolset.needs_initialization
NeedsInitialization(e) == e.lazy /\ ~e.initialized

\* The worker thread calls a tool; of a toolset that needs it, it goes for the lock.
Call(i, t) ==
  LET e == process[i[1]].toolset[t] IN
  /\ process[i[1]].pc = "ready"
  /\ thread[i].pc = "idle"
  /\ e.tools
  /\ count.calls < MaxCalls
  /\ thread' = [thread EXCEPT ![i] =
       [pc |-> IF NeedsInitialization(e) THEN "wait" ELSE Verdict(e), of |-> t]]
  /\ count' = [count EXCEPT !.calls = @ + 1]
  /\ UNCHANGED <<file, hashes, cache, world, process, disturbed>>

LockFree(i) ==
  \A j \in Thread :
    j[1] = i[1] /\ thread[j].of = thread[i].of => thread[j].pc # "init"

\* lazy_initialize up to the second test of _initialized, under the lock.
Acquire(i) ==
  /\ thread[i].pc = "wait"
  /\ LockFree(i)
  /\ thread' = Turn(i, IF Entered(i).initialized
                       THEN IF Entered(i).status = "enabled" THEN "run" ELSE "refused"
                       ELSE "init")
  /\ UNCHANGED <<file, hashes, cache, world, process, disturbed, count>>

\* The deferred check.  An exception leaves the toolset as it was, to be tried again by
\* the next call, and ends the call and the batch it is part of.
Initialize(i) ==
  LET t == thread[i].of
      e == Checked(Entered(i), world[t]) IN
  /\ thread[i].pc = "init"
  /\ IF e.checked = "raised"
     THEN /\ thread' = Turn(i, "raised")
          /\ process' = [process EXCEPT ![i[1]].toolset[t] = e]
     ELSE /\ thread' = Turn(i, IF e.status = "enabled" THEN "run" ELSE "refused")
          /\ process' = [process EXCEPT ![i[1]].toolset[t] =
               [e EXCEPT !.initialized = TRUE, !.lazy = FALSE, !.inits = @ + 1]]
  /\ UNCHANGED <<file, hashes, cache, world, disturbed, count>>

\* The tool has run, or its call is answered with an error or given up.
Return(i) ==
  /\ thread[i].pc \in {"run", "refused", "raised"}
  /\ thread' = [thread EXCEPT ![i] = Idle]
  /\ UNCHANGED <<file, hashes, cache, world, process, disturbed, count>>
-----------------------------------------------------------------------------
(* The user, the machine and what the prerequisites depend on *)

Quit(p) ==
  /\ process' = [process EXCEPT ![p] = Off]
  /\ thread' = [i \in Thread |-> IF i[1] = p THEN Idle ELSE thread[i]]

Exit(p) ==
  /\ process[p].pc = "ready"
  /\ Quit(p)
  /\ UNCHANGED <<file, hashes, cache, world, disturbed, count>>

\* Killed between two steps of its start.
Crash(p) ==
  /\ Starting(p)
  /\ count.crashes < MaxCrashes
  /\ Quit(p)
  /\ disturbed' = TRUE
  /\ count' = [count EXCEPT !.crashes = @ + 1]
  /\ UNCHANGED <<file, hashes, cache, world>>

\* The user edits the configuration, puts it there or takes it away.
Edit ==
  /\ count.edits < MaxEdits
  /\ file' \in Configuration \ {file}
  /\ disturbed' = (disturbed \/ \E p \in Process : Starting(p))
  /\ count' = [count EXCEPT !.edits = @ + 1]
  /\ UNCHANGED <<hashes, cache, world, process, thread>>

\* A backend, a credential or a command comes or goes; only the check of a command can
\* end in an exception that check_prerequisites does not catch.
Change(t) ==
  /\ count.changes < MaxChanges
  /\ \E found \in {"works", "unset"} \union (IF t \in Deferred THEN {"fails"} ELSE {})
                    \union (IF t \in Command THEN {"raises"} ELSE {}) :
       /\ found # world[t]
       /\ world' = [world EXCEPT ![t] = found]
  /\ count' = [count EXCEPT !.changes = @ + 1]
  /\ UNCHANGED <<file, hashes, cache, process, thread, disturbed>>

Step(p) ==
  \/ CheckHashes(p) \/ SaveHashes(p) \/ Decide(p) \/ Open(p) \/ Dump(p) \/ Read(p) \/ Ready(p)
  \/ \E t \in Toolset : Check(p, t)

Proceed(i) == Acquire(i) \/ Initialize(i) \/ Return(i)

Next ==
  \/ \E p \in Process : Start(p) \/ Step(p) \/ Exit(p) \/ Crash(p)
  \/ \E i \in Thread : Proceed(i) \/ \E t \in Toolset : Call(i, t)
  \/ Edit
  \/ \E t \in Toolset : Change(t)

Spec == Init /\ [][Next]_vars
-----------------------------------------------------------------------------
(* Properties *)

\* A tool runs only after a full check of its toolset in the same process.  The check
\* passed, or it ended in an exception that the pool of a start that refreshes dropped
\* (check_toolset_prerequisites); the one path on which a check is put off, the cached
\* start, never lets a tool run on the word of the file.
RunsOnlyChecked ==
  \A i \in Thread : thread[i].pc = "run" =>
    \/ Entered(i).checked = "passed"
    \/ Entered(i).checked = "raised" /\ ~process[i[1]].cached

\* Threads that call tools of one toolset at the same time initialise it once between
\* them: Toolset.lazy_initialize tests, locks and tests again.
InitializedOnce ==
  \A p \in Process, t \in Toolset : process[p].toolset[t].inits <= 1

\* A start that takes the statuses from the file takes them from one that was written
\* for the configuration it has loaded, and finds one that is whole, unless since the
\* last refresh that nothing disturbed a start was killed, overlapped another, was given
\* --refresh-toolsets or had no configuration file, or the file was edited during one.
\* (In each of these cases the hashes and the statuses are of different configurations,
\* and stay so.)
TrustsOwnStatuses ==
  \A p \in Process :
    \/ process[p].excused
    \/ /\ process[p].pc # "failed"
       /\ process[p].pc \in {"recheck", "ready"} /\ process[p].cached =>
            process[p].basis = process[p].config

\* "Callable and command prerequisites are deferred until the first time the LLM uses a
\* tool from the toolset" (toolset_manager.py): whatever is deferred has a tool in the
\* executor that the LLM can use, so that its prerequisites are checked some day.
DeferredHasTrigger ==
  \A p \in Process, t \in Toolset :
    LET e == process[p].toolset[t] IN
    process[p].pc = "ready" /\ e.status = "enabled" /\ NeedsInitialization(e) => e.tools
=============================================================================
