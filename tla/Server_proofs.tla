--------------------------- MODULE Server_proofs ----------------------------
(***************************************************************************)
(* Proofs about the two loops of the server process: ServerToolsets, for   *)
(* any toolsets and callers, and any number of changes and failed writes,  *)
(* and ScheduledPrompts, for any number of runs, servers, retries and      *)
(* faults.  In both: type correctness, and that what the platform is told  *)
(* is true; of prompts, that one is answered again only after a fault.     *)
(*                                                                         *)
(* Toolsets: only the start of the server and the refresh thread report,   *)
(* and the second begins when the first is done; from the moment an        *)
(* executor is replaced until the rows of the one that was reported are    *)
(* all there is, it counts as unreported.                                  *)
(*                                                                         *)
(* Prompts: count what may still lead to an answer of a run: a row that    *)
(* will be given out, a server that has not answered yet, an update on its *)
(* way that would bring the row back.  Together with the answers that were *)
(* given they are never more than one and the faults so far: a step that   *)
(* adds one takes another away, or is a fault.                             *)
(***************************************************************************)
EXTENDS ServerToolsets, ScheduledPrompts, FiniteSetTheorems, TLAPS

(* ServerToolsets *)

\* Where each thread can be.
PcOf(h) ==
  CASE h = "main" -> {"begin", "create", "report", "delete", "done"}
    [] h = "refresh" -> {"idle", "sleep", "create", "recheck", "report", "delete"}
    [] OTHER -> {"idle", "create"}

\* Nobody else begins before the main thread is done.
MainFirst ==
  task["main"].pc # "done" => \A h \in Thread \ {"main"} : task[h].pc = "idle"

\* An executor that is being reported is not reported yet; what was written of it stays.
BeingReported ==
  \A h \in Thread :
    /\ task[h].pc \in {"report", "delete"} => unreported
    /\ task[h].pc = "delete" =>
         \A t \in Toolset : task[h].found[t] # "absent" => db[t] = task[h].found[t]

ToolsetsInv ==
  /\ ToolsetsTypeOK
  /\ \A h \in Thread : task[h].pc \in PcOf(h)
  /\ MainFirst
  /\ BeingReported
  /\ ~unreported => db = executor
-----------------------------------------------------------------------------
LEMMA RestingLemma ==
  /\ Nothing \in [Toolset -> Status]
  /\ \A pc \in Pc : Resting(pc) \in Task /\ Resting(pc).pc = pc
BY DEF Nothing, Resting, Task, Status

LEMMA OverLemma ==
  ASSUME NEW h \in Thread
  PROVE  Over(h) \in Task /\ Over(h).pc \in PcOf(h) /\ Over(h).pc \in {"done", "sleep", "idle"}
<1>1. CASE h = "main"
  BY <1>1, RestingLemma DEF Over, PcOf, Pc
<1>2. CASE h = "refresh"
  BY <1>2, RestingLemma DEF Over, PcOf, Pc
<1>3. CASE h \notin {"main", "refresh"}
  BY <1>3, RestingLemma DEF Over, PcOf, Pc
<1> QED
  BY <1>1, <1>2, <1>3

\* Thread h goes on as n.
ThreadMoves(h, n) == n \in Task /\ n.pc \in PcOf(h) /\ task' = [task EXCEPT ![h] = n]

LEMMA ListLemma ==
  ASSUME ToolsetsTypeOK, NEW h \in Thread, NEW pc \in {"create", "recheck"}, pc \in PcOf(h), List(h, pc)
  PROVE  \E n : ThreadMoves(h, n) /\ n.pc \in {pc, "done", "sleep", "idle"}
<1>1. CASE files.loadable
  <2> DEFINE n == [pc |-> pc, todo |-> files.defined, found |-> Nothing, old |-> executor]
  <2>1. n \in Task /\ n.pc = pc
    BY RestingLemma DEF ToolsetsTypeOK, Task, Pc
  <2>2. task' = [task EXCEPT ![h] = n]
    BY <1>1 DEF List
  <2> QED
    BY <2>1, <2>2 DEF ThreadMoves
<1>2. CASE ~files.loadable
  <2>1. task' = [task EXCEPT ![h] = Over(h)]
    BY <1>2 DEF List
  <2> QED
    BY <2>1, OverLemma DEF ThreadMoves
<1> QED
  BY <1>1, <1>2

LEMMA CheckLemma ==
  ASSUME ToolsetsTypeOK, \A h \in Thread : task[h].pc \in PcOf(h), NEW h \in Thread, NEW t \in Toolset, Check(h, t)
  PROVE  \E n : ThreadMoves(h, n) /\ n.pc = task[h].pc
<1> DEFINE found == [task[h].found EXCEPT ![t] = world[t]]
           n == [task[h] EXCEPT !.todo = @ \ {t}, !.found = found]
<1>1. /\ task \in [Thread -> Task] /\ task[h] \in Task /\ world[t] \in Status
      /\ task' = [task EXCEPT ![h].todo = @ \ {t}, ![h].found[t] = world[t]]
  BY DEF ToolsetsTypeOK, Status, Check
<1>2. found \in [Toolset -> Status]
  BY <1>1 DEF Task
<1>3. task' = [task EXCEPT ![h] = n]
  BY <1>1, Zenon
<1> HIDE DEF found
<1>4. n \in Task /\ n.pc = task[h].pc
  BY <1>1, <1>2 DEF Task
<1> QED
  BY <1>3, <1>4 DEF ThreadMoves

\* What a move of one thread leaves of the invariant about threads.
LEMMA ThreadMovesLemma ==
  ASSUME ToolsetsInv, NEW h \in Thread, NEW n, ThreadMoves(h, n)
  PROVE  /\ task' \in [Thread -> Task]
         /\ task'[h] = n /\ \A k \in Thread \ {h} : task'[k] = task[k]
         /\ \A k \in Thread : task'[k].pc \in PcOf(k)
<1>1. task \in [Thread -> Task] /\ \A k \in Thread : task[k].pc \in PcOf(k)
  BY DEF ToolsetsInv, ToolsetsTypeOK
<1> QED
  BY <1>1 DEF ThreadMoves

\* A thread that does not report moves to where nothing is reported, and neither the
\* database nor the note that it is out of date changes.
LEMMA PlainMove ==
  ASSUME ToolsetsInv, NEW h \in Thread, NEW n, ThreadMoves(h, n), UNCHANGED <<db, executor, unreported>>,
         n.pc \notin {"report", "delete"},
         h = "main" \/ n.pc = "idle" \/ task["main"].pc = "done",
         h = "main" => n.pc = "done" \/ task["main"].pc # "done"
  PROVE  MainFirst' /\ BeingReported' /\ (~unreported' => db' = executor')
<1>1. /\ task'[h] = n /\ \A k \in Thread \ {h} : task'[k] = task[k]
  BY ThreadMovesLemma
<1>2. "main" \in Thread
  BY DEF Thread
<1>3. MainFirst'
  BY <1>1, <1>2 DEF ToolsetsInv, MainFirst
<1>4. BeingReported'
  BY <1>1 DEF ToolsetsInv, BeingReported
<1> QED
  BY <1>3, <1>4 DEF ToolsetsInv
-----------------------------------------------------------------------------
\* The threads.
LEMMA ThreadsLemma ==
  /\ "main" \in Thread /\ "refresh" \in Thread /\ Caller \subseteq Thread
  /\ \A h \in Thread : h = "main" \/ h = "refresh" \/ h \in Caller
  /\ \A c \in Caller : c # "main" /\ c # "refresh"
BY ThreadAssumption DEF Thread

LEMMA ToolsetsInitLemma == ToolsetsInit => ToolsetsInv
<1> SUFFICES ASSUME ToolsetsInit PROVE ToolsetsInv
  OBVIOUS
<1>1. \A h \in Thread : task[h] = Resting(IF h = "main" THEN "begin" ELSE "idle")
  BY DEF ToolsetsInit
<1>2. \A h \in Thread : task[h] \in Task /\ task[h].pc = IF h = "main" THEN "begin" ELSE "idle"
  BY <1>1, RestingLemma DEF Pc
<1>3. ToolsetsTypeOK
  <2>1. task \in [Thread -> Task]
    BY <1>2 DEF ToolsetsInit
  <2>2. files \in [defined : SUBSET Toolset, loadable : BOOLEAN]
    BY DEF ToolsetsInit
  <2>3. db \in [Toolset -> Status] /\ executor \in [Toolset -> Status]
    BY RestingLemma DEF ToolsetsInit, Status
  <2>4. backoff \in 0..BackoffSteps /\ count \in [changes : 0..MaxChanges, faults : 0..MaxFailures]
    BY NumbersAssumption DEF ToolsetsInit
  <2> QED
    BY <2>1, <2>2, <2>3, <2>4 DEF ToolsetsTypeOK, ToolsetsInit
<1>4. \A h \in Thread : task[h].pc \in PcOf(h)
  <2> SUFFICES ASSUME NEW h \in Thread PROVE task[h].pc \in PcOf(h)
    OBVIOUS
  <2> QED
    BY <1>2 DEF PcOf
<1>5. MainFirst /\ BeingReported
  BY <1>2 DEF MainFirst, BeingReported
<1> QED
  BY <1>3, <1>4, <1>5 DEF ToolsetsInv, ToolsetsInit

LEMMA IntervalLemma ==
  ASSUME ToolsetsTypeOK, NEW failed
  PROVE  NextInterval(failed) \in 0..BackoffSteps
BY NumbersAssumption DEF NextInterval, ToolsetsTypeOK

\* Everything but the threads keeps its type.
DataOK ==
  /\ world \in [Toolset -> {"enabled", "failed"}]
  /\ files \in [defined : SUBSET Toolset, loadable : BOOLEAN]
  /\ connected \in BOOLEAN
  /\ executor \in [Toolset -> Status]
  /\ db \in [Toolset -> Status]
  /\ backoff \in 0..BackoffSteps
  /\ unreported \in BOOLEAN
  /\ count \in [changes : 0..MaxChanges, faults : 0..MaxFailures]

\* A step of a thread, put together.
LEMMA StepLemma ==
  ASSUME ToolsetsInv, NEW h \in Thread, NEW n, ThreadMoves(h, n), DataOK', MainFirst', BeingReported',
         ~unreported' => db' = executor'
  PROVE  ToolsetsInv'
<1>1. task' \in [Thread -> Task] /\ \A k \in Thread : task'[k].pc \in PcOf(k)
  BY ThreadMovesLemma
<1> QED
  BY <1>1 DEF ToolsetsInv, ToolsetsTypeOK, DataOK

LEMMA CreateStep ==
  ASSUME ToolsetsInv, NEW h \in Thread, Create(h)
  PROVE  ToolsetsInv'
<1> DEFINE n == IF h = "main" THEN Resting("report") ELSE Over(h)
<1>1. Resting("report") \in Task /\ Resting("report").pc = "report" /\ "report" \in PcOf("main")
  BY RestingLemma DEF Pc, PcOf
<1>2. ThreadMoves(h, n)
  BY <1>1, OverLemma DEF Create, ThreadMoves
<1>3. task'[h] = n /\ \A k \in Thread \ {h} : task'[k] = task[k]
  BY <1>2, ThreadMovesLemma
<1>4. task[h] \in Task /\ task[h].pc = "create"
  BY DEF ToolsetsInv, ToolsetsTypeOK, Create, Listed
<1>5. DataOK'
  BY <1>4 DEF Create, DataOK, ToolsetsInv, ToolsetsTypeOK, Task
<1>6. MainFirst'
  <2>1. CASE h = "main"
    <3>1. task["main"].pc # "done"
      BY <1>4, <2>1
    <3> QED
      BY <1>3, <2>1, <3>1 DEF ToolsetsInv, MainFirst
  <2>2. CASE h # "main"
    <3>1. task["main"].pc = "done"
      BY <1>4, <2>2, ThreadsLemma DEF ToolsetsInv, MainFirst
    <3> QED
      BY <1>3, <2>2, <3>1, ThreadsLemma DEF MainFirst
  <2> QED
    BY <2>1, <2>2
<1>7. n.pc # "delete"
  BY <1>1, OverLemma
<1>8. BeingReported' /\ unreported'
  BY <1>3, <1>7 DEF ToolsetsInv, BeingReported, Create
<1> QED
  BY <1>2, <1>5, <1>6, <1>8, StepLemma

LEMMA UpsertStep ==
  ASSUME ToolsetsInv, NEW h \in Thread, Upsert(h)
  PROVE  ToolsetsInv'
<1>0. /\ task[h] \in Task /\ task[h].pc = "report" /\ executor \in [Toolset -> Status]
      /\ db \in [Toolset -> Status] /\ unreported
  BY DEF ToolsetsInv, ToolsetsTypeOK, Upsert, BeingReported
<1>1. PICK n : n = [Resting("delete") EXCEPT !.found = executor]
  OBVIOUS
<1>2. n \in Task /\ n.pc = "delete" /\ n.found = executor
  BY <1>0, <1>1, RestingLemma DEF Task, Pc
<1>3. "delete" \in PcOf(h)
  BY <1>0 DEF ToolsetsInv, PcOf
<1>4. ThreadMoves(h, n)
  BY <1>1, <1>2, <1>3 DEF ThreadMoves, Upsert
<1>5. task'[h] = n /\ \A k \in Thread \ {h} : task'[k] = task[k]
  BY <1>4, ThreadMovesLemma
<1>6. db' \in [Toolset -> Status] /\ \A t \in Toolset : executor[t] # "absent" => db'[t] = executor[t]
  BY <1>0 DEF Upsert, Upserted
<1>7. DataOK'
  BY <1>0, <1>6 DEF Upsert, DataOK, ToolsetsInv, ToolsetsTypeOK
<1>8. \A k \in Thread \ {h} : task[k].pc \notin {"report", "delete"}
  <2>1. CASE h = "main"
    BY <1>0, <2>1 DEF ToolsetsInv, MainFirst
  <2>2. CASE h = "refresh"
    <3>1. task["main"].pc = "done"
      BY <1>0, <2>2, ThreadsLemma DEF ToolsetsInv, MainFirst
    <3> QED
      BY <2>2, <3>1, ThreadsLemma DEF ToolsetsInv, PcOf
  <2>3. CASE h \in Caller
    BY <1>0, <2>3, ThreadsLemma DEF ToolsetsInv, PcOf
  <2> QED
    BY <2>1, <2>2, <2>3, ThreadsLemma
<1>9. MainFirst'
  BY <1>0, <1>2, <1>5, ThreadsLemma DEF ToolsetsInv, MainFirst
<1>10. BeingReported' /\ unreported'
  BY <1>0, <1>2, <1>5, <1>6, <1>8 DEF BeingReported, Upsert
<1> QED
  BY <1>4, <1>7, <1>9, <1>10, StepLemma

\* A thread that is done with its report rests, whether it could report or not.
LEMMA RestStep ==
  ASSUME ToolsetsInv, NEW h \in Thread, task[h].pc \in {"report", "delete"}, Rest(h)
  PROVE  /\ ThreadMoves(h, Over(h)) /\ backoff' \in 0..BackoffSteps /\ MainFirst'
         /\ \A k \in Thread : task'[k].pc \notin {"report", "delete"}
<1>1. ThreadMoves(h, Over(h))
  BY OverLemma DEF Rest, ThreadMoves
<1>2. task'[h] = Over(h) /\ \A k \in Thread \ {h} : task'[k] = task[k]
  BY <1>1, ThreadMovesLemma
<1>3. backoff' \in 0..BackoffSteps
  BY IntervalLemma DEF Rest, ToolsetsInv, ToolsetsTypeOK
<1>4. \A k \in Thread \ {h} : task[k].pc \notin {"report", "delete"}
  <2>1. CASE h = "main"
    BY <2>1 DEF ToolsetsInv, MainFirst
  <2>2. CASE h = "refresh"
    <3>1. task["main"].pc = "done"
      BY <2>2, ThreadsLemma DEF ToolsetsInv, MainFirst
    <3> QED
      BY <2>2, <3>1, ThreadsLemma DEF ToolsetsInv, PcOf
  <2>3. CASE h \in Caller
    BY <2>3, ThreadsLemma DEF ToolsetsInv, PcOf
  <2> QED
    BY <2>1, <2>2, <2>3, ThreadsLemma
<1>5. MainFirst'
  <2>1. CASE h = "main"
    <3>1. Over(h).pc = "done"
      BY <2>1, RestingLemma DEF Over, Pc
    <3> QED
      BY <1>2, <2>1, <3>1 DEF MainFirst
  <2>2. CASE h # "main"
    <3>1. task["main"].pc = "done"
      BY <2>2, ThreadsLemma DEF ToolsetsInv, MainFirst
    <3> QED
      BY <1>2, <2>2, <3>1, ThreadsLemma DEF MainFirst
  <2> QED
    BY <2>1, <2>2
<1> QED
  BY <1>1, <1>2, <1>3, <1>4, <1>5, OverLemma

LEMMA DeleteStep ==
  ASSUME ToolsetsInv, NEW h \in Thread, Delete(h)
  PROVE  ToolsetsInv'
<1>0. /\ task[h] \in Task /\ task[h].pc = "delete" /\ db \in [Toolset -> Status]
      /\ executor \in [Toolset -> Status]
      /\ \A t \in Toolset : task[h].found[t] # "absent" => db[t] = task[h].found[t]
  BY DEF ToolsetsInv, ToolsetsTypeOK, Delete, BeingReported
<1>1. /\ ThreadMoves(h, Over(h)) /\ backoff' \in 0..BackoffSteps /\ MainFirst'
      /\ \A k \in Thread : task'[k].pc \notin {"report", "delete"}
  BY <1>0, RestStep DEF Delete
<1>2. db' \in [Toolset -> Status] /\ db' = task[h].found
  <2>1. task[h].found \in [Toolset -> Status]
    BY <1>0 DEF Task
  <2>2. db' = [t \in Toolset |-> IF task[h].found[t] = "absent" THEN "absent" ELSE db[t]]
    BY DEF Delete
  <2>3. db' \in [Toolset -> Status]
    BY <1>0, <2>2 DEF Status
  <2>4. \A t \in Toolset : db'[t] = task[h].found[t]
    BY <1>0, <2>2
  <2> QED
    BY <2>1, <2>3, <2>4
<1>3. ~unreported' => db' = executor'
  BY <1>2 DEF Delete
<1>4. DataOK'
  BY <1>0, <1>1, <1>2 DEF Delete, DataOK, ToolsetsInv, ToolsetsTypeOK
<1>5. BeingReported'
  BY <1>1 DEF BeingReported
<1> QED
  BY <1>1, <1>3, <1>4, <1>5, StepLemma

LEMMA NotReportedStep ==
  ASSUME ToolsetsInv, NEW h \in Thread, NotReported(h)
  PROVE  ToolsetsInv'
<1>0. task[h].pc \in {"report", "delete"} /\ unreported
  BY DEF NotReported, ToolsetsInv, BeingReported
<1>1. /\ ThreadMoves(h, Over(h)) /\ backoff' \in 0..BackoffSteps /\ MainFirst'
      /\ \A k \in Thread : task'[k].pc \notin {"report", "delete"}
  BY <1>0, RestStep DEF NotReported
<1>2. count' \in [changes : 0..MaxChanges, faults : 0..MaxFailures]
  <2>1. count \in [changes : 0..MaxChanges, faults : 0..MaxFailures]
    BY DEF ToolsetsInv, ToolsetsTypeOK
  <2>2. CASE UNCHANGED count
    BY <2>1, <2>2
  <2>3. CASE count.faults < MaxFailures /\ count' = [count EXCEPT !.faults = @ + 1]
    <3>1. count.faults + 1 \in 0..MaxFailures
      BY <2>1, <2>3, NumbersAssumption
    <3> QED
      BY <2>1, <2>3, <3>1
  <2> QED
    BY <2>2, <2>3 DEF NotReported
<1>3. DataOK'
  BY <1>1, <1>2 DEF NotReported, DataOK, ToolsetsInv, ToolsetsTypeOK
<1>4. BeingReported' /\ unreported'
  BY <1>0, <1>1 DEF BeingReported, NotReported
<1> QED
  BY <1>1, <1>3, <1>4, StepLemma

\* A step after which the thread reports nothing, and the data keep their types.
LEMMA PlainStep ==
  ASSUME ToolsetsInv, NEW h \in Thread, NEW n, ThreadMoves(h, n), UNCHANGED <<db, executor, unreported>>,
         n.pc \notin {"report", "delete"},
         h = "main" \/ n.pc = "idle" \/ task["main"].pc = "done",
         h = "main" => n.pc = "done" \/ task["main"].pc # "done",
         DataOK'
  PROVE  ToolsetsInv'
BY PlainMove, StepLemma

LEMMA CheckStep ==
  ASSUME ToolsetsInv, NEW h \in Thread, NEW t \in Toolset, Check(h, t)
  PROVE  ToolsetsInv'
<1>1. PICK n : ThreadMoves(h, n) /\ n.pc = task[h].pc
  BY CheckLemma DEF ToolsetsInv
<1>2. task[h].pc \in {"create", "recheck"}
  BY DEF Check
<1>3. h = "main" \/ task["main"].pc = "done"
  BY <1>2, ThreadsLemma DEF ToolsetsInv, MainFirst
<1>4. DataOK' /\ UNCHANGED <<db, executor, unreported>>
  BY DEF Check, DataOK, ToolsetsInv, ToolsetsTypeOK
<1> QED
  BY <1>1, <1>2, <1>3, <1>4, PlainStep

LEMMA BeginStep ==
  ASSUME ToolsetsInv, Begin
  PROVE  ToolsetsInv'
<1>1. task["main"].pc = "begin" /\ UNCHANGED <<world, files, connected, executor, db, backoff, unreported, count>>
  BY DEF Begin
<1>2. DataOK'
  BY <1>1 DEF DataOK, ToolsetsInv, ToolsetsTypeOK
<1>3. \E n : ThreadMoves("main", n) /\ n.pc \in {"create", "done", "sleep", "idle"}
  <2>1. CASE connected
    <3>1. List("main", "create") /\ "create" \in PcOf("main")
      BY <2>1 DEF Begin, PcOf
    <3> QED
      BY <3>1, ListLemma, ThreadsLemma DEF ToolsetsInv
  <2>2. CASE ~connected
    <3>1. task' = [task EXCEPT !["main"] = Over("main")]
      BY <2>2 DEF Begin
    <3> QED
      BY <3>1, OverLemma, ThreadsLemma DEF ThreadMoves
  <2> QED
    BY <2>1, <2>2
<1> QED
  BY <1>1, <1>2, <1>3, PlainStep, ThreadsLemma

\* A request that finds no executor, and the end of a sleep.
LEMMA ListStep ==
  ASSUME ToolsetsInv, NEW h \in Thread, h # "main", task["main"].pc = "done",
         NEW pc \in {"create", "recheck"}, pc \in PcOf(h), List(h, pc),
         UNCHANGED <<world, files, connected, executor, db, backoff, unreported, count>>
  PROVE  ToolsetsInv'
<1>1. PICK n : ThreadMoves(h, n) /\ n.pc \in {pc, "done", "sleep", "idle"}
  BY ListLemma DEF ToolsetsInv
<1>2. DataOK'
  BY DEF DataOK, ToolsetsInv, ToolsetsTypeOK
<1> QED
  BY <1>1, <1>2, PlainStep

LEMMA StartRefreshStep ==
  ASSUME ToolsetsInv, StartRefresh
  PROVE  ToolsetsInv'
<1>1. Resting("sleep") \in Task /\ Resting("sleep").pc = "sleep" /\ "sleep" \in PcOf("refresh")
  BY RestingLemma DEF Pc, PcOf
<1>2. ThreadMoves("refresh", Resting("sleep"))
  BY <1>1 DEF StartRefresh, ThreadMoves
<1>3. backoff' \in 0..BackoffSteps
  BY NumbersAssumption DEF StartRefresh
<1>4. DataOK'
  BY <1>3 DEF StartRefresh, DataOK, ToolsetsInv, ToolsetsTypeOK
<1>5. task["main"].pc = "done" /\ UNCHANGED <<db, executor, unreported>>
  BY DEF StartRefresh
<1> QED
  BY <1>1, <1>2, <1>4, <1>5, PlainStep, ThreadsLemma

LEMMA RefreshStep ==
  ASSUME ToolsetsInv, Refresh
  PROVE  ToolsetsInv'
<1>0. task["refresh"] \in Task /\ task["refresh"].pc = "recheck" /\ task["main"].pc = "done"
  BY ThreadsLemma DEF ToolsetsInv, ToolsetsTypeOK, Refresh, Listed, MainFirst
<1>1. CASE Changes(task["refresh"].old, task["refresh"].found) # {}
  <2>1. /\ executor' = task["refresh"].found /\ unreported' = TRUE
        /\ task' = [task EXCEPT !["refresh"] = Resting("report")]
        /\ UNCHANGED <<world, files, connected, db, count, backoff>>
    BY <1>1 DEF Refresh
  <2>2. Resting("report") \in Task /\ Resting("report").pc = "report" /\ "report" \in PcOf("refresh")
    BY RestingLemma DEF Pc, PcOf
  <2>3. ThreadMoves("refresh", Resting("report"))
    BY <2>1, <2>2 DEF ThreadMoves
  <2>4. /\ task'["refresh"].pc = "report"
        /\ \A k \in Thread \ {"refresh"} : task'[k] = task[k]
    BY <2>2, <2>3, ThreadMovesLemma, ThreadsLemma
  <2>5. DataOK'
    BY <1>0, <2>1 DEF DataOK, ToolsetsInv, ToolsetsTypeOK, Task
  <2>6. MainFirst'
    BY <1>0, <2>4, ThreadsLemma DEF MainFirst
  <2>7. BeingReported'
    BY <2>1, <2>4 DEF ToolsetsInv, BeingReported
  <2> QED
    BY <2>1, <2>3, <2>5, <2>6, <2>7, StepLemma, ThreadsLemma
<1>2. CASE ~(Changes(task["refresh"].old, task["refresh"].found) # {})
  <2>1. /\ task' = [task EXCEPT !["refresh"] = Resting("sleep")]
        /\ backoff' = NextInterval(HasFailedMcp)
        /\ UNCHANGED <<world, files, connected, executor, db, unreported, count>>
    BY <1>2 DEF Refresh
  <2>2. Resting("sleep") \in Task /\ Resting("sleep").pc = "sleep" /\ "sleep" \in PcOf("refresh")
    BY RestingLemma DEF Pc, PcOf
  <2>3. ThreadMoves("refresh", Resting("sleep"))
    BY <2>1, <2>2 DEF ThreadMoves
  <2>4. backoff' \in 0..BackoffSteps
    BY <2>1, IntervalLemma DEF ToolsetsInv
  <2>5. DataOK'
    BY <2>1, <2>4 DEF DataOK, ToolsetsInv, ToolsetsTypeOK
  <2> QED
    BY <1>0, <2>1, <2>2, <2>3, <2>5, PlainStep, ThreadsLemma
<1> QED
  BY <1>1, <1>2

\* What toolsets depend on is nothing the invariant is about.
LEMMA WorldStep ==
  ASSUME ToolsetsInv, Change \/ Mend
  PROVE  ToolsetsInv'
<1>1. UNCHANGED <<connected, executor, db, task, backoff, unreported>>
  BY DEF Change, Mend
<1>2. world' \in [Toolset -> {"enabled", "failed"}]
  BY DEF Change, Mend, ToolsetsInv, ToolsetsTypeOK
<1>3. files' \in [defined : SUBSET Toolset, loadable : BOOLEAN]
  BY DEF Change, Mend, ToolsetsInv, ToolsetsTypeOK
<1>4. count' \in [changes : 0..MaxChanges, faults : 0..MaxFailures]
  <2>1. count \in [changes : 0..MaxChanges, faults : 0..MaxFailures]
    BY DEF ToolsetsInv, ToolsetsTypeOK
  <2>2. CASE Change
    <3>1. count.changes + 1 \in 0..MaxChanges /\ count' = [count EXCEPT !.changes = @ + 1]
      BY <2>1, <2>2, NumbersAssumption DEF Change
    <3> QED
      BY <2>1, <3>1
  <2>3. CASE Mend
    BY <2>1, <2>3 DEF Mend
  <2> QED
    BY <2>2, <2>3
<1> QED
  BY <1>1, <1>2, <1>3, <1>4 DEF ToolsetsInv, ToolsetsTypeOK, MainFirst, BeingReported

LEMMA ToolsetsInductive == ToolsetsInv /\ [ToolsetsNext]_toolsetVars => ToolsetsInv'
<1> SUFFICES ASSUME ToolsetsInv, [ToolsetsNext]_toolsetVars PROVE ToolsetsInv'
  OBVIOUS
<1>1. CASE Begin
  BY <1>1, BeginStep
<1>2. CASE StartRefresh
  BY <1>2, StartRefreshStep
<1>3. CASE Wake
  <2>1. task["refresh"].pc = "sleep" /\ task["main"].pc = "done"
    BY <1>3, ThreadsLemma DEF Wake, ToolsetsInv, MainFirst
  <2>2. PICK pc \in {"create", "recheck"} : List("refresh", pc)
    BY <1>3 DEF Wake
  <2>3. pc \in PcOf("refresh") /\ UNCHANGED <<world, files, connected, executor, db, backoff, unreported, count>>
    BY <1>3 DEF Wake, PcOf
  <2> QED
    BY <2>1, <2>2, <2>3, ListStep, ThreadsLemma
<1>4. CASE Refresh
  BY <1>4, RefreshStep
<1>5. CASE Change \/ Mend
  BY <1>5, WorldStep
<1>6. ASSUME NEW h \in Thread, Work(h) PROVE ToolsetsInv'
  BY <1>6, CreateStep, UpsertStep, DeleteStep, NotReportedStep, CheckStep DEF Work
<1>7. ASSUME NEW c \in Caller, Request(c) PROVE ToolsetsInv'
  <2>1. "create" \in PcOf(c)
    BY ThreadsLemma DEF PcOf
  <2> QED
    BY <1>7, <2>1, ListStep, ThreadsLemma DEF Request
<1>8. CASE UNCHANGED toolsetVars
  BY <1>8 DEF toolsetVars, ToolsetsInv, ToolsetsTypeOK, MainFirst, BeingReported
<1> QED
  BY <1>1, <1>2, <1>3, <1>4, <1>5, <1>6, <1>7, <1>8 DEF ToolsetsNext, Loop

LEMMA ToolsetsInvariant == ToolsetsSpec => []ToolsetsInv
BY ToolsetsInitLemma, ToolsetsInductive, PTL DEF ToolsetsSpec
-----------------------------------------------------------------------------
\* Every variable keeps its type, whatever overlaps.
THEOREM ToolsetsTypeCorrect == ToolsetsSpec => []ToolsetsTypeOK
<1>1. ToolsetsInv => ToolsetsTypeOK
  BY DEF ToolsetsInv
<1> QED
  BY <1>1, ToolsetsInvariant, PTL

\* When the refresh thread sleeps and nothing is known to be unreported, the rows of the
\* cluster are the executor's toolsets with their statuses, and no others: the start of the
\* server and the refresh never report at the same time.
THEOREM DatabaseShows == ToolsetsSpec => []DatabaseShowsExecutor
<1>1. ToolsetsInv => DatabaseShowsExecutor
  BY DEF ToolsetsInv, DatabaseShowsExecutor
<1> QED
  BY <1>1, ToolsetsInvariant, PTL
-----------------------------------------------------------------------------
(* ScheduledPrompts *)

Server == [pc : {"off", "poll", "parse", "execute", "chat", "report"},
           run : Run \union {None}, outcome : Final \union {"none"}]
Row == [status : Final \union {"pending", "pulled", "running"}, retries : 0..MaxRetries]

\* A server is at a run exactly from its claim to its report.
AtWork(t) ==
  /\ t.pc \in {"off", "poll"} => t.run = None
  /\ t.pc \notin {"off", "poll"} => t.run \in Run
  /\ t.pc = "report" => t.outcome \in {"completed", "failed"}

\* What is reported, or will be, is true.
TrueReport(r, status) ==
  /\ status = "completed" => answered[r] > 0
  /\ status = "failed_no_retry" => payload[r] = "invalid"

TrueReports ==
  /\ \A r \in Run : TrueReport(r, row[r].status)
  /\ \A u \in late : TrueReport(u.run, u.status)
  /\ \A h \in Holmes : holmes[h].pc = "report" => TrueReport(holmes[h].run, holmes[h].outcome)

\* The row will be given out again, without a fault.
Waiting(r) ==
  IF \/ row[r].status \in {"pending", "failed"}
     \/ row[r].status \in {"pulled", "running"} /\ ~Worked(r)
  THEN 1 ELSE 0

\* The server may still answer, or report a failure that is tried again.
Tries(t, r) ==
  /\ t.run = r
  /\ t.pc \in {"parse", "execute", "chat"} \/ (t.pc = "report" /\ t.outcome = "failed")
Trying(r) == {h \in Holmes : Tries(holmes[h], r)}

\* An update on its way that would bring the row back.
Returning(r, status) == IF [run |-> r, status |-> status] \in late THEN 1 ELSE 0

Weight(r) ==
  answered[r] + Waiting(r) + Cardinality(Trying(r)) + Returning(r, "running") + Returning(r, "failed")

Weighed == \A r \in Run : Weight(r) <= 1 + faults

IInv ==
  /\ TypeOK
  /\ \A h \in Holmes : AtWork(holmes[h])
  /\ TrueReports
  /\ Weighed
-----------------------------------------------------------------------------
(* Servers *)

LEMMA PollingLemma ==
  /\ Polling \in Server /\ Polling.pc = "poll" /\ Polling.run = None
  /\ Off \in Server /\ Off.pc = "off" /\ Off.run = None
BY DEF Polling, Off, Server

\* One server changes: what that does to the number of those that try, and to the rows
\* that are worked on.
Count(t, r) == IF Tries(t, r) THEN 1 ELSE 0

LEMMA ServerLemma ==
  ASSUME TypeOK, NEW h \in Holmes, NEW n \in Server, NEW r \in Run,
         holmes' = [holmes EXCEPT ![h] = n]
  PROVE  /\ Cardinality(Trying(r)) \in Nat /\ Cardinality(Trying(r)') \in Nat
         /\ Cardinality(Trying(r)') = Cardinality(Trying(r)) - Count(holmes[h], r) + Count(n, r)
         /\ n.run = r => Worked(r)'
         /\ n.run # r /\ holmes[h].run # r => (Worked(r)' <=> Worked(r))
         /\ n.run = holmes[h].run => (Worked(r)' <=> Worked(r))
         /\ holmes[h].run = r => Worked(r)
<1>1. holmes'[h] = n /\ \A k \in Holmes \ {h} : holmes'[k] = holmes[k]
  BY DEF TypeOK
<1>2. IsFiniteSet(Trying(r)) /\ IsFiniteSet(Trying(r)')
  BY HolmesAssumption, FS_Subset DEF Trying
<1>3. Cardinality(Trying(r)) \in Nat /\ Cardinality(Trying(r)') \in Nat
  BY <1>2, FS_CardinalityType
<1>4. Cardinality(Trying(r)') = Cardinality(Trying(r)) - Count(holmes[h], r) + Count(n, r)
  <2>1. CASE Tries(holmes[h], r) /\ Tries(n, r)
    <3>1. Trying(r)' = Trying(r)
      BY <1>1, <2>1 DEF Trying
    <3> QED
      BY <1>3, <2>1, <3>1 DEF Count
  <2>2. CASE ~Tries(holmes[h], r) /\ ~Tries(n, r)
    <3>1. Trying(r)' = Trying(r)
      BY <1>1, <2>2 DEF Trying
    <3> QED
      BY <1>3, <2>2, <3>1 DEF Count
  <2>3. CASE Tries(holmes[h], r) /\ ~Tries(n, r)
    <3>1. Trying(r)' = Trying(r) \ {h} /\ h \in Trying(r)
      BY <1>1, <2>3 DEF Trying
    <3>2. Cardinality(Trying(r)') = Cardinality(Trying(r)) - 1
      BY <1>2, <3>1, FS_RemoveElement
    <3> QED
      BY <1>3, <2>3, <3>2 DEF Count
  <2>4. CASE ~Tries(holmes[h], r) /\ Tries(n, r)
    <3>1. Trying(r)' = Trying(r) \union {h} /\ h \notin Trying(r)
      BY <1>1, <2>4 DEF Trying
    <3>2. Cardinality(Trying(r)') = Cardinality(Trying(r)) + 1
      BY <1>2, <3>1, FS_AddElement
    <3> QED
      BY <1>3, <2>4, <3>2 DEF Count
  <2> QED
    BY <2>1, <2>2, <2>3, <2>4
<1>5. /\ n.run = r => Worked(r)'
      /\ n.run # r /\ holmes[h].run # r => (Worked(r)' <=> Worked(r))
      /\ n.run = holmes[h].run => (Worked(r)' <=> Worked(r))
      /\ holmes[h].run = r => Worked(r)
  BY <1>1 DEF Worked
<1> QED
  BY <1>3, <1>4, <1>5

\* No server changes.
LEMMA NoServerLemma ==
  ASSUME TypeOK, NEW r \in Run, UNCHANGED holmes
  PROVE  /\ Cardinality(Trying(r)) \in Nat
         /\ Cardinality(Trying(r)') = Cardinality(Trying(r))
         /\ Worked(r)' <=> Worked(r)
<1>1. IsFiniteSet(Trying(r))
  BY HolmesAssumption, FS_Subset DEF Trying
<1>2. Trying(r)' = Trying(r)
  BY DEF Trying
<1> QED
  BY <1>1, <1>2, FS_CardinalityType DEF Worked
-----------------------------------------------------------------------------
(* Calls of the database *)

LEMMA RowLemma ==
  ASSUME TypeOK, NEW r \in Run, NEW status \in Final \union {"pending", "pulled", "running"}, Set(r, status)
  PROVE  /\ row' \in [Run -> Row]
         /\ row'[r].status = status
         /\ \A s \in Run \ {r} : row'[s] = row[s]
<1>1. row[r] \in Row
  BY DEF TypeOK, Row
<1>2. [row[r] EXCEPT !.status = status] \in Row /\ [row[r] EXCEPT !.status = status].status = status
  BY <1>1 DEF Row
<1>3. row' = [row EXCEPT ![r] = [row[r] EXCEPT !.status = status]]
  BY DEF Set
<1> HIDE DEF Row
<1>4. row \in [Run -> Row]
  BY DEF TypeOK, Row
<1> QED
  BY <1>2, <1>3, <1>4

\* What a call of the database can do, whatever becomes of it.
LEMMA SendLemma ==
  ASSUME TypeOK, NEW r \in Run, NEW status \in Final \union {"running"}, Send(r, status)
  PROVE  /\ row' \in [Run -> Row] /\ late' \subseteq Update /\ faults' \in 0..MaxFaults
         /\ \A s \in Run \ {r} : row'[s] = row[s]
         /\ \A u \in late' : u \in late \/ u = [run |-> r, status |-> status]
         /\ \/ row'[r].status = status /\ late' = late /\ faults' = faults
            \/ row' = row /\ late' = late /\ faults' = faults + 1
            \/ row' = row /\ late' = late \union {[run |-> r, status |-> status]} /\ faults' = faults + 1
<1> DEFINE u == [run |-> r, status |-> status]
<1>1. u \in Update
  BY DEF Update
<1>2. CASE Set(r, status) /\ UNCHANGED <<late, faults>>
  BY <1>2, RowLemma DEF TypeOK
<1>3. CASE Fault /\ UNCHANGED <<row, late>>
  BY <1>3, BoundsAssumption DEF TypeOK, Fault, Row
<1>4. CASE Fault /\ late' = late \union {u} /\ UNCHANGED row
  BY <1>1, <1>4, BoundsAssumption DEF TypeOK, Fault, Row
<1> QED
  BY <1>2, <1>3, <1>4 DEF Send
-----------------------------------------------------------------------------
(* Moves of a server *)

\* Server h becomes n.
Moves(h, n) == n \in Server /\ holmes' = [holmes EXCEPT ![h] = n]

LEMMA BecomeLemma ==
  ASSUME TypeOK, NEW h \in Holmes, NEW pc \in {"poll", "execute", "chat"}, Become(h, pc)
  PROVE  \E n : Moves(h, n) /\ n.pc = pc /\ n.run = holmes[h].run
<1> DEFINE n == [holmes[h] EXCEPT !.pc = pc]
<1>1. holmes[h] \in Server
  BY DEF TypeOK, Server
<1>2. n \in Server /\ n.pc = pc /\ n.run = holmes[h].run
  BY <1>1 DEF Server
<1>3. holmes' = [holmes EXCEPT ![h] = n]
  BY DEF Become
<1> QED
  BY <1>2, <1>3 DEF Moves

LEMMA ReportLemma ==
  ASSUME TypeOK, NEW h \in Holmes, NEW outcome \in Final, Report(h, outcome)
  PROVE  \E n : Moves(h, n) /\ n.pc = "report" /\ n.run = holmes[h].run /\ n.outcome = outcome
<1> DEFINE n == [holmes[h] EXCEPT !.pc = "report", !.outcome = outcome]
<1>1. holmes[h] \in Server
  BY DEF TypeOK, Server
<1>2. n \in Server /\ n.pc = "report" /\ n.run = holmes[h].run /\ n.outcome = outcome
  BY <1>1 DEF Server
<1>3. holmes' = [holmes EXCEPT ![h] = n]
  BY DEF Report, TypeOK
<1> QED
  BY <1>2, <1>3 DEF Moves

LEMMA ClaimedLemma ==
  ASSUME TypeOK, NEW h \in Holmes, NEW r \in Run,
         holmes' = [holmes EXCEPT ![h].pc = "parse", ![h].run = r]
  PROVE  \E n : Moves(h, n) /\ n.pc = "parse" /\ n.run = r
<1> DEFINE n == [holmes[h] EXCEPT !.pc = "parse", !.run = r]
<1>1. holmes[h] \in Server
  BY DEF TypeOK, Server
<1>2. n \in Server /\ n.pc = "parse" /\ n.run = r
  BY <1>1 DEF Server
<1>3. holmes' = [holmes EXCEPT ![h] = n]
  BY DEF TypeOK
<1> QED
  BY <1>2, <1>3 DEF Moves

LEMMA RestLemma ==
  ASSUME NEW h \in Holmes, NEW t \in {Polling, Off}, holmes' = [holmes EXCEPT ![h] = t]
  PROVE  Moves(h, t) /\ t.pc \in {"poll", "off"} /\ t.run = None
BY PollingLemma DEF Moves

\* The parts of the invariant that look at one server at a time.
ServersOK == \A h \in Holmes : AtWork(holmes[h])

LEMMA MovesLemma ==
  ASSUME TypeOK, ServersOK, NEW h \in Holmes, NEW n, Moves(h, n), AtWork(n)
  PROVE  holmes' \in [Holmes -> Server] /\ ServersOK'
<1>1. holmes \in [Holmes -> Server]
  BY DEF TypeOK, Server
<1>2. holmes' \in [Holmes -> Server] /\ holmes'[h] = n /\ \A k \in Holmes \ {h} : holmes'[k] = holmes[k]
  BY <1>1 DEF Moves
<1> QED
  BY <1>2 DEF ServersOK
-----------------------------------------------------------------------------
(* Type correctness *)

LEMMA InitLemma == Init => IInv
<1> SUFFICES ASSUME Init PROVE IInv
  OBVIOUS
<1>1. TypeOK
  BY PollingLemma, BoundsAssumption DEF Init, TypeOK, Server, Final, Update
<1>2. \A h \in Holmes : AtWork(holmes[h]) /\ holmes[h].pc = "off" /\ holmes[h].run = None
  BY PollingLemma DEF Init, AtWork
<1>3. TrueReports
  BY <1>2 DEF Init, TrueReports, TrueReport
<1>4. Weighed
  <2> SUFFICES ASSUME NEW r \in Run PROVE Weight(r) <= 1 + faults
    BY DEF Weighed
  <2>1. Trying(r) = {}
    BY <1>2 DEF Trying, Tries
  <2> QED
    BY <2>1, FS_EmptySet DEF Weight, Init, Waiting, Returning
<1> QED
  BY <1>1, <1>2, <1>3, <1>4 DEF IInv

LEMMA TypeStep ==
  ASSUME TypeOK, ServersOK, [Next]_vars
  PROVE  TypeOK' /\ ServersOK'
<1> DEFINE Same == UNCHANGED <<row, late, faults>>
<1>0. /\ holmes \in [Holmes -> Server] /\ row \in [Run -> Row] /\ late \subseteq Update
      /\ faults \in 0..MaxFaults /\ answered \in [Run -> Nat]
  BY DEF TypeOK, Server, Row
\* It suffices to look at the servers, the rows, what is on its way, and the counters.
<1>a. /\ holmes' \in [Holmes -> Server] /\ ServersOK' /\ row' \in [Run -> Row] /\ late' \subseteq Update
      /\ faults' \in 0..MaxFaults /\ answered' \in [Run -> Nat] /\ payload' = payload
      => TypeOK' /\ ServersOK'
  BY DEF TypeOK, Server, Row
<1>1. CASE \E h \in Holmes : Start(h)
  <2>1. PICK h \in Holmes : Start(h)
    BY <1>1
  <2>2. PICK n : Moves(h, n) /\ n.pc = "poll" /\ n.run = holmes[h].run
    BY <2>1, BecomeLemma DEF Start
  <2>3. AtWork(n)
    BY <2>1, <2>2 DEF AtWork, Start, ServersOK
  <2> QED
    BY <1>0, <1>a, <2>1, <2>2, <2>3, MovesLemma DEF Start
<1>2. CASE \E h \in Holmes, r \in Run : Claim(h, r)
  <2>1. PICK h \in Holmes, r \in Run : Claim(h, r)
    BY <1>2
  <2>2. row' \in [Run -> Row]
    BY <2>1, RowLemma DEF Claim
  <2>3. CASE holmes' = [holmes EXCEPT ![h].pc = "parse", ![h].run = r] /\ UNCHANGED faults
    <3>1. PICK n : Moves(h, n) /\ n.pc = "parse" /\ n.run = r
      BY <2>3, ClaimedLemma
    <3>2. AtWork(n)
      BY <3>1 DEF AtWork
    <3>3. holmes' \in [Holmes -> Server] /\ ServersOK'
      BY <3>1, <3>2, MovesLemma
    <3> QED
      BY <1>0, <1>a, <2>1, <2>2, <2>3, <3>3 DEF Claim
  <2>4. CASE Fault /\ UNCHANGED holmes
    BY <1>0, <1>a, <2>1, <2>2, <2>4, BoundsAssumption DEF Claim, Fault, ServersOK
  <2> QED
    BY <2>1, <2>3, <2>4 DEF Claim
<1>3. CASE \E h \in Holmes : Parse(h)
  <2>1. PICK h \in Holmes : Parse(h)
    BY <1>3
  <2>2. holmes[h].run \in Run
    BY <2>1 DEF Parse, ServersOK, AtWork
  <2>3. CASE payload[holmes[h].run] = "invalid"
    <3>1. row' \in [Run -> Row] /\ late' \subseteq Update /\ faults' \in 0..MaxFaults
      BY <2>1, <2>2, <2>3, SendLemma DEF Parse, Final
    <3>2. Moves(h, Polling) /\ AtWork(Polling)
      BY <2>1, <2>3, RestLemma, PollingLemma DEF Parse, AtWork
    <3> QED
      BY <1>0, <1>a, <2>1, <3>1, <3>2, MovesLemma DEF Parse
  <2>4. CASE payload[holmes[h].run] # "invalid"
    <3>1. PICK n : Moves(h, n) /\ n.pc = "execute" /\ n.run = holmes[h].run
      BY <2>1, <2>4, BecomeLemma DEF Parse
    <3>2. AtWork(n)
      BY <2>2, <3>1 DEF AtWork
    <3> QED
      BY <1>0, <1>a, <2>1, <2>4, <3>1, <3>2, MovesLemma DEF Parse
  <2> QED
    BY <2>3, <2>4
<1>4. CASE \E h \in Holmes : Execute(h) \/ Answer(h) \/ Raise(h)
  <2>1. PICK h \in Holmes : Execute(h) \/ Answer(h) \/ Raise(h)
    BY <1>4
  <2>2. holmes[h].run \in Run
    BY <2>1 DEF Execute, Answer, Raise, ServersOK, AtWork
  <2>3. answered' \in [Run -> Nat]
    BY <1>0, <2>1 DEF Execute, Answer, Raise
  <2>4. Become(h, "chat") \/ \E outcome \in {"completed", "failed"} : Report(h, outcome)
    BY <2>1 DEF Execute, Answer, Raise
  <2>5. PICK n : Moves(h, n) /\ AtWork(n)
    BY <2>2, <2>4, BecomeLemma, ReportLemma DEF AtWork, Final
  <2> QED
    BY <1>0, <1>a, <2>1, <2>3, <2>5, MovesLemma DEF Execute, Answer, Raise
<1>5. CASE \E h \in Holmes : Finish(h)
  <2>1. PICK h \in Holmes : Finish(h)
    BY <1>5
  <2>2. holmes[h].run \in Run /\ holmes[h].outcome \in Final
    BY <2>1 DEF Finish, ServersOK, AtWork, Final
  <2>3. row' \in [Run -> Row] /\ late' \subseteq Update /\ faults' \in 0..MaxFaults
    BY <2>1, <2>2, SendLemma DEF Finish
  <2>4. Moves(h, Polling) /\ AtWork(Polling)
    BY <2>1, RestLemma, PollingLemma DEF Finish, AtWork
  <2> QED
    BY <1>0, <1>a, <2>1, <2>3, <2>4, MovesLemma DEF Finish
<1>6. CASE \E h \in Holmes : Heartbeat(h)
  <2>1. PICK h \in Holmes : Heartbeat(h)
    BY <1>6
  <2>2. holmes[h].run \in Run
    BY <2>1 DEF Heartbeat, ServersOK, AtWork
  <2>3. row' \in [Run -> Row] /\ late' \subseteq Update /\ faults' \in 0..MaxFaults
    BY <2>1, <2>2, SendLemma DEF Heartbeat
  <2> QED
    BY <1>0, <1>a, <2>1, <2>3 DEF Heartbeat, ServersOK
<1>7. CASE \E h \in Holmes : Kill(h)
  <2>1. PICK h \in Holmes : Kill(h)
    BY <1>7
  <2>2. Moves(h, Off) /\ AtWork(Off)
    BY <2>1, RestLemma, PollingLemma DEF Kill, AtWork
  <2>3. faults' \in 0..MaxFaults
    BY <1>0, <2>1, BoundsAssumption DEF Kill, Fault
  <2> QED
    BY <1>0, <1>a, <2>1, <2>2, <2>3, MovesLemma DEF Kill
<1>8. CASE \E r \in Run : Expire(r)
  <2>1. PICK r \in Run : Expire(r)
    BY <1>8
  <2>2. row' \in [Run -> Row]
    BY <2>1, RowLemma DEF Expire
  <2>3. faults' \in 0..MaxFaults
    BY <1>0, <2>1, BoundsAssumption DEF Expire, Fault
  <2> QED
    BY <1>0, <1>a, <2>1, <2>2, <2>3 DEF Expire, ServersOK
<1>9. CASE \E r \in Run : Retry(r)
  <2>1. PICK r \in Run : Retry(r)
    BY <1>9
  <2>2. [status |-> "pending", retries |-> row[r].retries + 1] \in Row
    BY <1>0, <2>1, BoundsAssumption DEF Retry, Row
  <2>3. row' \in [Run -> Row]
    BY <1>0, <2>1, <2>2 DEF Retry
  <2> QED
    BY <1>0, <1>a, <2>1, <2>3 DEF Retry, ServersOK
<1>10. CASE \E u \in late : Arrive(u)
  <2>1. PICK u \in late : Arrive(u)
    BY <1>10
  <2>2. u.run \in Run /\ u.status \in Final \union {"running"}
    BY <1>0 DEF Update
  <2>3. row' \in [Run -> Row]
    BY <2>1, <2>2, RowLemma DEF Arrive
  <2> QED
    BY <1>0, <1>a, <2>1, <2>3 DEF Arrive, ServersOK
<1>11. CASE UNCHANGED vars
  BY <1>0, <1>a, <1>11 DEF vars, ServersOK
<1> QED
  BY <1>1, <1>2, <1>3, <1>4, <1>5, <1>6, <1>7, <1>8, <1>9, <1>10, <1>11 DEF Next, Step, Platform
-----------------------------------------------------------------------------
(* Reports are true *)

\* The same after a step.
TrueAfter(r, status) ==
  /\ status = "completed" => answered'[r] > 0
  /\ status = "failed_no_retry" => payload'[r] = "invalid"

\* What was true stays true.
LEMMA KeepsTrue ==
  ASSUME TypeOK, [Next]_vars, NEW r \in Run, NEW status, TrueReport(r, status)
  PROVE  TrueAfter(r, status)
<1>1. payload' = payload
  BY DEF Next, Step, Platform, Start, Parse, Execute, Answer, Raise, Finish, Heartbeat, Kill, Claim, Expire,
         Retry, Arrive, vars
<1>2. CASE \E h \in Holmes : Answer(h)
  <2>1. PICK h \in Holmes : answered' = [answered EXCEPT ![holmes[h].run] = @ + 1]
    BY <1>2 DEF Answer
  <2>2. answered \in [Run -> Nat]
    BY DEF TypeOK
  <2>3. answered[r] > 0 => answered'[r] > 0
    BY <2>1, <2>2
  <2> QED
    BY <1>1, <2>3 DEF TrueReport, TrueAfter
<1>3. CASE ~\E h \in Holmes : Answer(h)
  <2>1. answered' = answered
    BY <1>3 DEF Next, Step, Platform, Start, Parse, Execute, Raise, Finish, Heartbeat, Kill, Claim, Expire,
                Retry, Arrive, vars
  <2> QED
    BY <1>1, <2>1 DEF TrueReport, TrueAfter
<1> QED
  BY <1>2, <1>3

\* A server that moves, and says nothing that is not true, leaves the servers' reports true.
LEMMA TrueServers ==
  ASSUME TypeOK, ServersOK, TrueReports, [Next]_vars, NEW h \in Holmes, NEW n, Moves(h, n),
         n.pc = "report" => n.run \in Run /\ TrueAfter(n.run, n.outcome)
  PROVE  \A k \in Holmes : holmes'[k].pc = "report" => TrueAfter(holmes'[k].run, holmes'[k].outcome)
<1>1. holmes'[h] = n /\ \A k \in Holmes \ {h} : holmes'[k] = holmes[k]
  BY DEF Moves, TypeOK
<1>2. \A k \in Holmes : holmes[k].pc = "report" => holmes[k].run \in Run /\ TrueReport(holmes[k].run, holmes[k].outcome)
  BY DEF TrueReports, ServersOK, AtWork
<1>3. \A k \in Holmes : holmes[k].pc = "report" => TrueAfter(holmes[k].run, holmes[k].outcome)
  BY <1>2, KeepsTrue
<1> QED
  BY <1>1, <1>3

\* A call of the database that says what is true leaves rows and updates true.
LEMMA TrueSend ==
  ASSUME TypeOK, TrueReports, [Next]_vars, NEW r \in Run, NEW status \in Final \union {"running"},
         Send(r, status), TrueReport(r, status)
  PROVE  /\ \A s \in Run : TrueAfter(s, row'[s].status)
         /\ \A u \in late' : TrueAfter(u.run, u.status)
<1>1. /\ \A s \in Run \ {r} : row'[s] = row[s]
      /\ row'[r].status = status \/ row' = row
      /\ \A u \in late' : u \in late \/ u = [run |-> r, status |-> status]
  BY SendLemma
<1>2. \A u \in late : u.run \in Run
  BY DEF TypeOK, Update
<1>3. TrueAfter(r, status) /\ \A s \in Run : TrueAfter(s, row[s].status)
  BY KeepsTrue DEF TrueReports
<1>4. \A u \in late : TrueAfter(u.run, u.status)
  BY <1>2, KeepsTrue DEF TrueReports
<1>5. \A s \in Run : TrueAfter(s, row'[s].status)
  <2> SUFFICES ASSUME NEW s \in Run PROVE TrueAfter(s, row'[s].status)
    OBVIOUS
  <2>1. s = r \/ s # r
    OBVIOUS
  <2> QED
    BY <1>1, <1>3, <2>1
<1>6. \A u \in late' : TrueAfter(u.run, u.status)
  <2> SUFFICES ASSUME NEW u \in late' PROVE TrueAfter(u.run, u.status)
    OBVIOUS
  <2>1. CASE u \in late
    BY <1>4, <2>1
  <2>2. CASE u = [run |-> r, status |-> status]
    BY <1>3, <2>2
  <2> QED
    BY <1>1, <2>1, <2>2
<1> QED
  BY <1>5, <1>6

LEMMA TrueStep ==
  ASSUME TypeOK, ServersOK, TrueReports, [Next]_vars
  PROVE  TrueReports'
<1> DEFINE Rows == \A r \in Run : TrueAfter(r, row'[r].status)
           Lates == \A u \in late' : TrueAfter(u.run, u.status)
           Reports == \A h \in Holmes :
             holmes'[h].pc = "report" => TrueAfter(holmes'[h].run, holmes'[h].outcome)
<1>a. Rows /\ Lates /\ Reports => TrueReports'
  BY DEF TrueReports, TrueReport, TrueAfter
<1>b. row' = row => Rows
  BY KeepsTrue DEF TrueReports
<1>c. late' \subseteq late => Lates
  BY KeepsTrue DEF TrueReports, TypeOK, Update
<1>d. holmes' = holmes => Reports
  BY KeepsTrue DEF TrueReports, ServersOK, AtWork
\* A row that is given out, or taken, says nothing.
<1>e. ASSUME NEW r \in Run, NEW status \in {"pending", "pulled"}, Set(r, status) PROVE Rows
  <2>1. row'[r].status = status /\ \A s \in Run \ {r} : row'[s] = row[s]
    BY <1>e, RowLemma
  <2>2. TrueAfter(r, row'[r].status)
    BY <2>1 DEF TrueReport, TrueAfter
  <2>3. \A s \in Run \ {r} : TrueAfter(s, row[s].status)
    BY KeepsTrue DEF TrueReports
  <2> QED
    BY <2>1, <2>2, <2>3
<1> HIDE DEF Rows, Lates, Reports
<1>1. CASE \E h \in Holmes : Start(h)
  <2>1. PICK h \in Holmes : Start(h)
    BY <1>1
  <2>2. PICK n : Moves(h, n) /\ n.pc = "poll"
    BY <2>1, BecomeLemma DEF Start
  <2>3. Reports
    BY <2>2, TrueServers DEF Reports
  <2> QED
    BY <1>a, <1>b, <1>c, <2>1, <2>3 DEF Start
<1>2. CASE \E h \in Holmes, r \in Run : Claim(h, r)
  <2>1. PICK h \in Holmes, r \in Run : Claim(h, r)
    BY <1>2
  <2>2. Rows
    BY <1>e, <2>1 DEF Claim
  <2>3. CASE holmes' = [holmes EXCEPT ![h].pc = "parse", ![h].run = r]
    <3>1. PICK n : Moves(h, n) /\ n.pc = "parse"
      BY <2>3, ClaimedLemma
    <3>2. Reports
      BY <3>1, TrueServers DEF Reports
    <3> QED
      BY <1>a, <1>c, <2>1, <2>2, <3>2 DEF Claim
  <2>4. CASE UNCHANGED holmes
    BY <1>a, <1>c, <1>d, <2>1, <2>2, <2>4 DEF Claim
  <2> QED
    BY <2>1, <2>3, <2>4 DEF Claim
<1>3. CASE \E h \in Holmes : Parse(h)
  <2>1. PICK h \in Holmes : Parse(h)
    BY <1>3
  <2>2. holmes[h].run \in Run
    BY <2>1 DEF Parse, ServersOK, AtWork
  <2>3. CASE payload[holmes[h].run] = "invalid"
    <3>1. Send(holmes[h].run, "failed_no_retry") /\ TrueReport(holmes[h].run, "failed_no_retry")
      BY <2>1, <2>3 DEF Parse, TrueReport
    <3>2. Rows /\ Lates
      BY <2>2, <3>1, TrueSend DEF Rows, Lates, Final
    <3>3. Moves(h, Polling) /\ Polling.pc # "report"
      BY <2>1, <2>3, RestLemma, PollingLemma DEF Parse
    <3>4. Reports
      BY <3>3, TrueServers DEF Reports
    <3> QED
      BY <1>a, <3>2, <3>4
  <2>4. CASE payload[holmes[h].run] # "invalid"
    <3>1. PICK n : Moves(h, n) /\ n.pc = "execute"
      BY <2>1, <2>4, BecomeLemma DEF Parse
    <3>2. Reports
      BY <3>1, TrueServers DEF Reports
    <3> QED
      BY <1>a, <1>b, <1>c, <2>1, <2>4, <3>2 DEF Parse
  <2> QED
    BY <2>3, <2>4
<1>4. CASE \E h \in Holmes : Execute(h) \/ Answer(h) \/ Raise(h)
  <2>1. PICK h \in Holmes : Execute(h) \/ Answer(h) \/ Raise(h)
    BY <1>4
  <2>2. holmes[h].run \in Run
    BY <2>1 DEF Execute, Answer, Raise, ServersOK, AtWork
  <2>3. PICK n : Moves(h, n) /\ n.run = holmes[h].run
                 /\ (n.pc = "chat" \/ n.outcome = "failed" \/ (Answer(h) /\ n.outcome = "completed"))
    BY <2>1, BecomeLemma, ReportLemma DEF Execute, Answer, Raise, Final
  <2>4. Answer(h) => answered'[holmes[h].run] > 0
    BY <2>2 DEF Answer, TypeOK
  <2>5. n.pc = "report" => n.run \in Run /\ TrueAfter(n.run, n.outcome)
    BY <2>2, <2>3, <2>4 DEF TrueReport, TrueAfter
  <2>6. Reports
    BY <2>3, <2>5, TrueServers DEF Reports
  <2> QED
    BY <1>a, <1>b, <1>c, <2>1, <2>6 DEF Execute, Answer, Raise
<1>5. CASE \E h \in Holmes : Finish(h)
  <2>1. PICK h \in Holmes : Finish(h)
    BY <1>5
  <2>2. /\ holmes[h].run \in Run /\ holmes[h].outcome \in Final
        /\ TrueReport(holmes[h].run, holmes[h].outcome)
    BY <2>1 DEF Finish, ServersOK, AtWork, Final, TrueReports
  <2>3. Rows /\ Lates
    BY <2>1, <2>2, TrueSend DEF Finish, Rows, Lates
  <2>4. Moves(h, Polling) /\ Polling.pc # "report"
    BY <2>1, RestLemma, PollingLemma DEF Finish
  <2>5. Reports
    BY <2>4, TrueServers DEF Reports
  <2> QED
    BY <1>a, <2>3, <2>5
<1>6. CASE \E h \in Holmes : Heartbeat(h)
  <2>1. PICK h \in Holmes : Heartbeat(h)
    BY <1>6
  <2>2. holmes[h].run \in Run /\ TrueReport(holmes[h].run, "running")
    BY <2>1 DEF Heartbeat, ServersOK, AtWork, TrueReport
  <2>3. Rows /\ Lates
    BY <2>1, <2>2, TrueSend DEF Heartbeat, Rows, Lates
  <2> QED
    BY <1>a, <1>d, <2>1, <2>3 DEF Heartbeat
<1>7. CASE \E h \in Holmes : Kill(h)
  <2>1. PICK h \in Holmes : Kill(h)
    BY <1>7
  <2>2. Moves(h, Off) /\ Off.pc # "report"
    BY <2>1, RestLemma, PollingLemma DEF Kill
  <2>3. Reports
    BY <2>2, TrueServers DEF Reports
  <2> QED
    BY <1>a, <1>b, <1>c, <2>1, <2>3 DEF Kill
<1>8. CASE \E r \in Run : Expire(r)
  BY <1>a, <1>c, <1>d, <1>e, <1>8 DEF Expire
<1>9. CASE \E r \in Run : Retry(r)
  <2>1. PICK r \in Run : Retry(r)
    BY <1>9
  <2>2. row'[r].status = "pending" /\ \A s \in Run \ {r} : row'[s] = row[s]
    BY <2>1 DEF Retry, TypeOK
  <2>3. TrueAfter(r, row'[r].status)
    BY <2>2 DEF TrueReport, TrueAfter
  <2>4. \A s \in Run \ {r} : TrueAfter(s, row[s].status)
    BY KeepsTrue DEF TrueReports
  <2>5. Rows
    BY <2>2, <2>3, <2>4 DEF Rows
  <2> QED
    BY <1>a, <1>c, <1>d, <2>1, <2>5 DEF Retry
<1>10. CASE \E u \in late : Arrive(u)
  <2>1. PICK u \in late : Arrive(u)
    BY <1>10
  <2>2. u.run \in Run /\ u.status \in Final \union {"running"} /\ TrueReport(u.run, u.status)
    BY DEF TypeOK, Update, TrueReports
  <2>3. row'[u.run].status = u.status /\ \A s \in Run \ {u.run} : row'[s] = row[s]
    BY <2>1, <2>2, RowLemma DEF Arrive
  <2>4. TrueAfter(u.run, row'[u.run].status)
    BY <2>2, <2>3, KeepsTrue
  <2>5. \A s \in Run \ {u.run} : TrueAfter(s, row[s].status)
    BY KeepsTrue DEF TrueReports
  <2>6. Rows
    BY <2>3, <2>4, <2>5 DEF Rows
  <2> QED
    BY <1>a, <1>c, <1>d, <2>1, <2>6 DEF Arrive
<1>11. CASE UNCHANGED vars
  BY <1>a, <1>b, <1>c, <1>d, <1>11 DEF vars
<1> QED
  BY <1>1, <1>2, <1>3, <1>4, <1>5, <1>6, <1>7, <1>8, <1>9, <1>10, <1>11 DEF Next, Step, Platform
-----------------------------------------------------------------------------
(* A prompt is answered again only after a fault *)

\* The parts of the weight are numbers.
LEMMA PartsLemma ==
  ASSUME TypeOK, NEW r \in Run
  PROVE  /\ answered[r] \in Nat /\ faults \in Nat /\ Waiting(r) \in {0, 1}
         /\ Returning(r, "running") \in {0, 1} /\ Returning(r, "failed") \in {0, 1}
         /\ Cardinality(Trying(r)) \in Nat
<1>1. IsFiniteSet(Trying(r))
  BY HolmesAssumption, FS_Subset DEF Trying
<1> QED
  BY <1>1, FS_CardinalityType, BoundsAssumption DEF TypeOK, Waiting, Returning

LEMMA PartsNext ==
  ASSUME TypeOK', NEW r \in Run
  PROVE  /\ answered'[r] \in Nat /\ faults' \in Nat /\ Waiting(r)' \in {0, 1}
         /\ Returning(r, "running")' \in {0, 1} /\ Returning(r, "failed")' \in {0, 1}
         /\ Cardinality(Trying(r)') \in Nat
<1>1. IsFiniteSet(Trying(r)')
  BY HolmesAssumption, FS_Subset DEF Trying
<1> QED
  BY <1>1, FS_CardinalityType, BoundsAssumption DEF TypeOK, Waiting, Returning

\* What a call of the database of a run's own server adds.
LEMMA SendWeight ==
  ASSUME TypeOK, TypeOK', NEW r \in Run, NEW status \in Final \union {"running"}, Send(r, status)
  PROVE  /\ \A s \in Run \ {r} : \A st \in {"running", "failed"} : Returning(s, st)' = Returning(s, st)
         /\ \/ /\ faults' = faults /\ row'[r].status = status
               /\ \A st \in {"running", "failed"} : Returning(r, st)' = Returning(r, st)
            \/ /\ faults' = faults + 1 /\ row' = row
               /\ status \notin {"running", "failed"}
                    => \A st \in {"running", "failed"} : Returning(r, st)' = Returning(r, st)
               /\ Returning(r, "running")' + Returning(r, "failed")'
                    <= Returning(r, "running") + Returning(r, "failed") + 1
<1>1. \/ row'[r].status = status /\ late' = late /\ faults' = faults
      \/ row' = row /\ late' = late /\ faults' = faults + 1
      \/ row' = row /\ late' = late \union {[run |-> r, status |-> status]} /\ faults' = faults + 1
  BY SendLemma
<1>2. CASE late' = late
  <2>1. \A s \in Run : \A st \in {"running", "failed"} : Returning(s, st)' = Returning(s, st)
    BY <1>2 DEF Returning
  <2> QED
    BY <1>1, <1>2, <2>1, PartsLemma
<1>3. CASE row' = row /\ late' = late \union {[run |-> r, status |-> status]} /\ faults' = faults + 1
  <2>1. \A s \in Run : \A st \in {"running", "failed"} :
          s # r \/ st # status => Returning(s, st)' = Returning(s, st)
    BY <1>3 DEF Returning
  <2>2. status = "running" \/ status = "failed" \/ status \notin {"running", "failed"}
    OBVIOUS
  <2> QED
    BY <1>3, <2>1, <2>2, PartsLemma, PartsNext
<1> QED
  BY <1>1, <1>2, <1>3

\* A server moves, and neither rows nor updates do.
LEMMA MoveWeight ==
  ASSUME TypeOK, TypeOK', NEW h \in Holmes, NEW n, Moves(h, n), n.run = holmes[h].run, NEW r \in Run,
         UNCHANGED <<row, late, faults>>,
         answered'[r] + Count(n, r) <= answered[r] + Count(holmes[h], r)
  PROVE  Weight(r)' <= Weight(r)
<1>1. /\ Cardinality(Trying(r)') = Cardinality(Trying(r)) - Count(holmes[h], r) + Count(n, r)
      /\ Worked(r)' <=> Worked(r)
  BY ServerLemma DEF Moves
<1>2. /\ Waiting(r)' = Waiting(r) /\ Returning(r, "running")' = Returning(r, "running")
      /\ Returning(r, "failed")' = Returning(r, "failed")
  BY <1>1 DEF Waiting, Returning
<1>3. Count(n, r) \in {0, 1} /\ Count(holmes[h], r) \in {0, 1} /\ answered'[r] \in Nat
  BY PartsLemma DEF Count, TypeOK
<1> QED
  BY <1>1, <1>2, <1>3, PartsLemma, PartsNext DEF Weight

\* A server's call of the database ends its run: what it was still trying, if it was,
\* is now up to the row, or to the update.
LEMMA EndWeight ==
  ASSUME TypeOK, TypeOK', NEW h \in Holmes, NEW s \in Run, holmes[h].run = s,
         NEW status \in Final, Send(s, status), Moves(h, Polling), answered' = answered,
         status = "failed" => Tries(holmes[h], s), NEW r \in Run
  PROVE  Weight(r)' <= Weight(r) + (faults' - faults)
<1>1. /\ Cardinality(Trying(r)') = Cardinality(Trying(r)) - Count(holmes[h], r) + Count(Polling, r)
      /\ r # s => (Worked(r)' <=> Worked(r))
      /\ Worked(s)
  BY ServerLemma, PollingLemma, NoneAssumption DEF Moves
<1>2. Count(Polling, r) = 0 /\ Count(holmes[h], r) \in {0, 1}
  BY PollingLemma, NoneAssumption DEF Count, Tries
<1>3. CASE r # s
  <2>1. /\ Returning(r, "running")' = Returning(r, "running") /\ Returning(r, "failed")' = Returning(r, "failed")
        /\ faults' - faults \in {0, 1}
    BY <1>3, SendWeight, PartsLemma
  <2>2. row'[r] = row[r]
    BY <1>3, SendLemma
  <2>3. Waiting(r)' = Waiting(r)
    BY <1>1, <1>3, <2>2 DEF Waiting
  <2> QED
    BY <1>1, <1>2, <2>1, <2>3, PartsLemma, PartsNext DEF Weight
<1>4. CASE r = s
  <2>1. CASE status = "failed"
    <3>1. Count(holmes[h], r) = 1
      BY <1>4, <2>1 DEF Count
    <3>2. CASE faults' = faults /\ Returning(r, "running")' = Returning(r, "running")
               /\ Returning(r, "failed")' = Returning(r, "failed")
      BY <1>1, <1>2, <3>1, <3>2, PartsLemma, PartsNext DEF Weight
    <3>3. CASE /\ faults' = faults + 1
               /\ Returning(r, "running")' + Returning(r, "failed")'
                    <= Returning(r, "running") + Returning(r, "failed") + 1
      BY <1>1, <1>2, <3>1, <3>3, PartsLemma, PartsNext DEF Weight
    <3> QED
      BY <1>4, <3>2, <3>3, SendWeight
  <2>2. CASE status # "failed"
    <3>1. /\ Returning(r, "running")' = Returning(r, "running") /\ Returning(r, "failed")' = Returning(r, "failed")
          /\ (faults' = faults /\ row'[r].status = status) \/ faults' = faults + 1
      BY <1>4, <2>2, SendWeight DEF Final
    <3>2. CASE faults' = faults /\ row'[r].status = status
      <4>1. Waiting(r)' = 0
        BY <2>2, <3>2 DEF Waiting, Final
      <4> QED
        BY <1>1, <1>2, <3>1, <3>2, <4>1, PartsLemma, PartsNext DEF Weight
    <3>3. CASE faults' = faults + 1
      BY <1>1, <1>2, <3>1, <3>3, PartsLemma, PartsNext DEF Weight
    <3> QED
      BY <3>1, <3>2, <3>3
  <2> QED
    BY <2>1, <2>2
<1> QED
  BY <1>3, <1>4

\* No server moves and nothing is sent or arrives: a row changes, which alone counts.
LEMMA RowWeight ==
  ASSUME TypeOK, TypeOK', UNCHANGED <<holmes, late, answered>>, NEW s \in Run,
         \A r \in Run \ {s} : row'[r] = row[r],
         Waiting(s) = 1 \/ faults' = faults + 1, faults' >= faults,
         NEW r \in Run
  PROVE  Weight(r)' <= Weight(r) + (faults' - faults)
<1>1. /\ Cardinality(Trying(r)') = Cardinality(Trying(r)) /\ (Worked(r)' <=> Worked(r))
      /\ Returning(r, "running")' = Returning(r, "running") /\ Returning(r, "failed")' = Returning(r, "failed")
  BY NoServerLemma DEF Returning
<1>2. CASE r # s
  <2>1. Waiting(r)' = Waiting(r)
    BY <1>1, <1>2 DEF Waiting
  <2> QED
    BY <1>1, <2>1, PartsLemma, PartsNext DEF Weight
<1>3. CASE r = s
  BY <1>1, <1>3, PartsLemma, PartsNext DEF Weight
<1> QED
  BY <1>2, <1>3

LEMMA WeightStep ==
  ASSUME TypeOK, TypeOK', ServersOK, [Next]_vars, NEW r \in Run
  PROVE  Weight(r)' <= Weight(r) + (faults' - faults)
<1>0. holmes \in [Holmes -> Server] /\ faults \in Nat /\ faults' \in Nat
  BY BoundsAssumption DEF TypeOK, Server
<1>1. CASE \E h \in Holmes : Start(h)
  <2>1. PICK h \in Holmes : Start(h)
    BY <1>1
  <2>2. PICK n : Moves(h, n) /\ n.pc = "poll" /\ n.run = holmes[h].run
    BY <2>1, BecomeLemma DEF Start
  <2>3. Count(n, r) = 0 /\ Count(holmes[h], r) \in {0, 1} /\ answered' = answered
    BY <2>1, <2>2 DEF Count, Tries, Start
  <2>4. Weight(r)' <= Weight(r)
    BY <2>1, <2>2, <2>3, MoveWeight, PartsLemma DEF Start
  <2> QED
    BY <1>0, <2>1, <2>4, PartsLemma, PartsNext DEF Start, Weight
<1>2. CASE \E h \in Holmes, s \in Run : Claim(h, s)
  <2>1. PICK h \in Holmes, s \in Run : Claim(h, s)
    BY <1>2
  <2>2. /\ row'[s].status = "pulled" /\ \A z \in Run \ {s} : row'[z] = row[z]
        /\ Waiting(s) = 1 /\ late' = late /\ answered' = answered
    BY <2>1, RowLemma DEF Claim, Waiting
  <2>3. CASE holmes' = [holmes EXCEPT ![h].pc = "parse", ![h].run = s] /\ UNCHANGED faults
    <3>1. PICK n : Moves(h, n) /\ n.pc = "parse" /\ n.run = s
      BY <2>3, ClaimedLemma
    <3>2. holmes[h].run = None /\ Count(holmes[h], r) = 0
      BY <2>1, NoneAssumption DEF Claim, ServersOK, AtWork, Count, Tries
    <3>6. Count(n, r) \in {0, 1}
      BY DEF Count
    <3>7. /\ Cardinality(Trying(r)) \in Nat
          /\ Cardinality(Trying(r)') = Cardinality(Trying(r)) - Count(holmes[h], r) + Count(n, r)
          /\ n.run = r => Worked(r)'
          /\ n.run # r /\ holmes[h].run # r => (Worked(r)' <=> Worked(r))
      BY <3>1, ServerLemma DEF Moves
    <3>3. /\ Cardinality(Trying(r)') = Cardinality(Trying(r)) + Count(n, r)
          /\ s = r => Worked(r)'
          /\ s # r => (Worked(r)' <=> Worked(r))
      BY <3>1, <3>2, <3>6, <3>7, NoneAssumption
    <3>4. Returning(r, "running")' = Returning(r, "running") /\ Returning(r, "failed")' = Returning(r, "failed")
      BY <2>2 DEF Returning
    <3>5. Waiting(r)' + Count(n, r) <= Waiting(r)
      <4>1. CASE s = r
        BY <2>2, <3>1, <3>3, <4>1 DEF Waiting, Count, Tries
      <4>2. CASE s # r
        <5>1. Waiting(r)' = Waiting(r)
          BY <2>2, <3>3, <4>2 DEF Waiting
        <5> QED
          BY <3>1, <4>2, <5>1, PartsLemma DEF Count, Tries
      <4> QED
        BY <4>1, <4>2
    <3> QED
      BY <1>0, <2>2, <2>3, <3>3, <3>4, <3>5, <3>6, PartsLemma, PartsNext DEF Weight
  <2>4. CASE Fault /\ UNCHANGED holmes
    BY <1>0, <2>2, <2>4, RowWeight DEF Fault
  <2> QED
    BY <2>1, <2>3, <2>4 DEF Claim
<1>3. CASE \E h \in Holmes : Parse(h)
  <2>1. PICK h \in Holmes : Parse(h)
    BY <1>3
  <2>2. holmes[h].run \in Run /\ holmes[h].pc = "parse" /\ answered' = answered
    BY <2>1 DEF Parse, ServersOK, AtWork
  <2>3. CASE payload[holmes[h].run] = "invalid"
    <3>1. Send(holmes[h].run, "failed_no_retry") /\ Moves(h, Polling)
      BY <2>1, <2>3, RestLemma DEF Parse
    <3> QED
      BY <2>2, <3>1, EndWeight DEF Final
  <2>4. CASE payload[holmes[h].run] # "invalid"
    <3>1. PICK n : Moves(h, n) /\ n.pc = "execute" /\ n.run = holmes[h].run
      BY <2>1, <2>4, BecomeLemma DEF Parse
    <3>2. Count(n, r) = Count(holmes[h], r) /\ Count(n, r) \in {0, 1}
      BY <2>2, <3>1 DEF Count, Tries
    <3>3. Weight(r)' <= Weight(r)
      BY <2>1, <2>2, <2>4, <3>1, <3>2, MoveWeight, PartsLemma DEF Parse
    <3> QED
      BY <1>0, <2>1, <2>4, <3>3, PartsLemma, PartsNext DEF Parse, Weight
  <2> QED
    BY <2>3, <2>4
<1>4. CASE \E h \in Holmes : Execute(h) \/ Raise(h)
  <2>1. PICK h \in Holmes : Execute(h) \/ Raise(h)
    BY <1>4
  <2>2. PICK n : Moves(h, n) /\ n.run = holmes[h].run
                 /\ (n.pc = "chat" \/ (n.pc = "report" /\ n.outcome = "failed"))
    BY <2>1, BecomeLemma, ReportLemma DEF Execute, Raise, Final
  <2>3. Count(n, r) = Count(holmes[h], r) /\ Count(n, r) \in {0, 1} /\ answered' = answered
    BY <2>1, <2>2 DEF Count, Tries, Execute, Raise
  <2>4. Weight(r)' <= Weight(r)
    BY <2>1, <2>2, <2>3, MoveWeight, PartsLemma DEF Execute, Raise
  <2> QED
    BY <1>0, <2>1, <2>4, PartsLemma, PartsNext DEF Execute, Raise, Weight
<1>5. CASE \E h \in Holmes : Answer(h)
  <2>1. PICK h \in Holmes : Answer(h)
    BY <1>5
  <2>2. PICK n : Moves(h, n) /\ n.run = holmes[h].run /\ n.pc = "report" /\ n.outcome = "completed"
    BY <2>1, ReportLemma DEF Answer, Final
  <2>3. Count(n, r) = 0 /\ Count(holmes[h], r) = IF holmes[h].run = r THEN 1 ELSE 0
    BY <2>1, <2>2 DEF Count, Tries, Answer
  <2>4. answered'[r] = IF holmes[h].run = r THEN answered[r] + 1 ELSE answered[r]
    BY <2>1 DEF Answer, TypeOK
  <2>5. Weight(r)' <= Weight(r)
    BY <2>1, <2>2, <2>3, <2>4, MoveWeight, PartsLemma DEF Answer
  <2> QED
    BY <1>0, <2>1, <2>5, PartsLemma, PartsNext DEF Answer, Weight
<1>6. CASE \E h \in Holmes : Finish(h)
  <2>1. PICK h \in Holmes : Finish(h)
    BY <1>6
  <2>2. /\ holmes[h].run \in Run /\ holmes[h].outcome \in Final
        /\ holmes[h].outcome = "failed" => Tries(holmes[h], holmes[h].run)
    BY <2>1 DEF Finish, ServersOK, AtWork, Final, Tries
  <2>3. Moves(h, Polling) /\ Send(holmes[h].run, holmes[h].outcome) /\ answered' = answered
    BY <2>1, RestLemma DEF Finish
  <2> QED
    BY <2>2, <2>3, EndWeight
<1>7. CASE \E h \in Holmes : Heartbeat(h)
  <2>1. PICK h \in Holmes : Heartbeat(h)
    BY <1>7
  <2>2. PICK s \in Run : s = holmes[h].run
    BY <2>1 DEF Heartbeat, ServersOK, AtWork
  <2>3. Send(s, "running") /\ UNCHANGED <<holmes, answered>> /\ Worked(s)
    BY <2>1, <2>2 DEF Heartbeat, Worked
  <2>4. Cardinality(Trying(r)') = Cardinality(Trying(r)) /\ (Worked(r)' <=> Worked(r))
    BY <2>3, NoServerLemma
  <2>5. CASE r # s
    <3>1. /\ Returning(r, "running")' = Returning(r, "running") /\ Returning(r, "failed")' = Returning(r, "failed")
          /\ faults' - faults \in {0, 1}
      <4>1. faults' = faults \/ faults' = faults + 1
        BY <2>3, SendWeight
      <4>2. faults' - faults \in {0, 1}
        BY <4>1, PartsLemma
      <4>3. Returning(r, "running")' = Returning(r, "running") /\ Returning(r, "failed")' = Returning(r, "failed")
        BY <2>3, <2>5, SendWeight
      <4> QED
        BY <4>2, <4>3
    <3>2. row'[r] = row[r]
      BY <2>3, <2>5, SendLemma
    <3>3. Waiting(r)' = Waiting(r)
      BY <2>4, <3>2 DEF Waiting
    <3> QED
      BY <2>3, <2>4, <3>1, <3>3, PartsLemma, PartsNext DEF Weight
  <2>6. CASE r = s
    <3>1. CASE /\ faults' = faults /\ row'[r].status = "running"
               /\ Returning(r, "running")' = Returning(r, "running")
               /\ Returning(r, "failed")' = Returning(r, "failed")
      <4>1. Waiting(r)' = 0
        BY <2>3, <2>4, <2>6, <3>1 DEF Waiting
      <4> QED
        BY <2>3, <2>4, <3>1, <4>1, PartsLemma, PartsNext DEF Weight
    <3>2. CASE /\ faults' = faults + 1 /\ row' = row
               /\ Returning(r, "running")' + Returning(r, "failed")'
                    <= Returning(r, "running") + Returning(r, "failed") + 1
      <4>1. Waiting(r)' = Waiting(r)
        BY <2>4, <3>2 DEF Waiting
      <4> QED
        BY <2>3, <2>4, <3>2, <4>1, PartsLemma, PartsNext DEF Weight
    <3> QED
      BY <2>3, <2>6, <3>1, <3>2, SendWeight
  <2> QED
    BY <2>5, <2>6
<1>8. CASE \E h \in Holmes : Kill(h)
  <2>1. PICK h \in Holmes : Kill(h)
    BY <1>8
  <2>2. Moves(h, Off)
    BY <2>1, RestLemma DEF Kill
  <2>3. /\ Cardinality(Trying(r)') = Cardinality(Trying(r)) - Count(holmes[h], r) + Count(Off, r)
        /\ Count(Off, r) = 0 /\ Count(holmes[h], r) \in {0, 1}
    BY <2>2, ServerLemma, PollingLemma, NoneAssumption DEF Moves, Count, Tries
  <2>4. /\ Returning(r, "running")' = Returning(r, "running") /\ Returning(r, "failed")' = Returning(r, "failed")
        /\ faults' = faults + 1 /\ answered' = answered
    BY <2>1 DEF Kill, Fault, Returning
  <2> QED
    BY <2>3, <2>4, PartsLemma, PartsNext DEF Weight
<1>9. CASE \E s \in Run : Expire(s)
  <2>1. PICK s \in Run : Expire(s)
    BY <1>9
  <2>2. \A z \in Run \ {s} : row'[z] = row[z]
    BY <2>1, RowLemma DEF Expire
  <2>3. (Waiting(s) = 1 /\ faults' = faults) \/ faults' = faults + 1
    BY <2>1 DEF Expire, Fault, Waiting
  <2> QED
    BY <1>0, <2>1, <2>2, <2>3, RowWeight DEF Expire
<1>10. CASE \E s \in Run : Retry(s)
  <2>1. PICK s \in Run : Retry(s)
    BY <1>10
  <2>2. (\A z \in Run \ {s} : row'[z] = row[z]) /\ Waiting(s) = 1
    BY <2>1 DEF Retry, TypeOK, Waiting
  <2> QED
    BY <1>0, <2>1, <2>2, RowWeight DEF Retry
<1>11. CASE \E u \in late : Arrive(u)
  <2>1. PICK u \in late : Arrive(u)
    BY <1>11
  <2>2. u.run \in Run /\ u.status \in Final \union {"running"} /\ u = [run |-> u.run, status |-> u.status]
    BY DEF TypeOK, Update
  <2>3. row'[u.run].status = u.status /\ \A z \in Run \ {u.run} : row'[z] = row[z]
    BY <2>1, <2>2, RowLemma DEF Arrive
  <2>4. UNCHANGED <<holmes, answered, faults>> /\ late' = late \ {u}
    BY <2>1 DEF Arrive
  <2>5. Cardinality(Trying(r)') = Cardinality(Trying(r)) /\ (Worked(r)' <=> Worked(r))
    BY <2>4, NoServerLemma
  <2>6. \A st \in {"running", "failed"} : Returning(r, st)' <= Returning(r, st)
    BY <2>4 DEF Returning
  <2>7. CASE r # u.run
    <3>1. Waiting(r)' = Waiting(r)
      BY <2>3, <2>5, <2>7 DEF Waiting
    <3> QED
      BY <2>4, <2>5, <2>6, <3>1, PartsLemma, PartsNext DEF Weight
  <2>8. CASE r = u.run /\ u.status \in {"running", "failed"}
    <3>1. Returning(r, u.status) = 1 /\ Returning(r, u.status)' = 0
      BY <2>2, <2>4, <2>8 DEF Returning
    <3> QED
      BY <2>4, <2>5, <2>6, <2>8, <3>1, PartsLemma, PartsNext DEF Weight
  <2>9. CASE r = u.run /\ u.status \notin {"running", "failed"}
    <3>1. Waiting(r)' = 0
      BY <2>2, <2>3, <2>9 DEF Waiting, Final
    <3> QED
      BY <2>4, <2>5, <2>6, <3>1, PartsLemma, PartsNext DEF Weight
  <2> QED
    BY <2>7, <2>8, <2>9
<1>12. CASE UNCHANGED vars
  <2>1. Cardinality(Trying(r)') = Cardinality(Trying(r)) /\ (Worked(r)' <=> Worked(r))
    BY <1>12, NoServerLemma DEF vars
  <2>2. /\ Waiting(r)' = Waiting(r) /\ Returning(r, "running")' = Returning(r, "running")
        /\ Returning(r, "failed")' = Returning(r, "failed")
    BY <1>12, <2>1 DEF Waiting, Returning, vars
  <2> QED
    BY <1>12, <2>1, <2>2, PartsLemma, PartsNext DEF Weight, vars
<1> QED
  BY <1>1, <1>2, <1>3, <1>4, <1>5, <1>6, <1>7, <1>8, <1>9, <1>10, <1>11, <1>12 DEF Next, Step, Platform
-----------------------------------------------------------------------------
(* Theorems *)

LEMMA Inductive == IInv /\ [Next]_vars => IInv'
<1> SUFFICES ASSUME IInv, [Next]_vars PROVE IInv'
  OBVIOUS
<1>1. TypeOK /\ ServersOK
  BY DEF IInv, ServersOK
<1>2. TypeOK' /\ ServersOK'
  BY <1>1, TypeStep
<1>3. TrueReports'
  BY <1>1, TrueStep DEF IInv
<1>4. Weighed'
  <2> SUFFICES ASSUME NEW r \in Run PROVE Weight(r)' <= 1 + faults'
    BY DEF Weighed
  <2>1. Weight(r)' <= Weight(r) + (faults' - faults)
    BY <1>1, <1>2, WeightStep
  <2>2. Weight(r) <= 1 + faults
    BY DEF IInv, Weighed
  <2> QED
    BY <1>1, <1>2, <2>1, <2>2, PartsLemma, PartsNext DEF Weight
<1> QED
  BY <1>2, <1>3, <1>4 DEF IInv, ServersOK

LEMMA Invariant == Spec => []IInv
<1> QED
  BY InitLemma, Inductive, PTL DEF Spec

\* Every reachable state is well typed: faults and retries stay within their bounds.
THEOREM TypeCorrect == Spec => []TypeOK
<1>1. IInv => TypeOK
  BY DEF IInv
<1> QED
  BY <1>1, Invariant, PTL

\* Completed runs were answered, and runs that are not tried again have an invalid payload
\* (executor.py, _execute_scheduled_prompt and _process_next_prompt), however late the
\* reports of any number of servers arrive.
THEOREM ReportsTell == Spec => []ReportsAreTrue
<1>1. IInv => ReportsAreTrue
  BY DEF IInv, TrueReports, TrueReport, ReportsAreTrue
<1> QED
  BY <1>1, Invariant, PTL

\* A run is answered at most once more than there were faults, for any number of servers
\* and retries: what may still lead to an answer is used up by the answer.
THEOREM AnsweredAgainOnlyAfterFault == Spec => []RepeatedOnlyAfterFault
<1>1. IInv => RepeatedOnlyAfterFault
  BY PartsLemma DEF IInv, Weighed, Weight, RepeatedOnlyAfterFault
<1> QED
  BY <1>1, Invariant, PTL
=============================================================================
