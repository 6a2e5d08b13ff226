-------------------------- MODULE ScheduledChecks ---------------------------
(***************************************************************************)
(* The executions of one ScheduledHealthCheck                              *)
(* (holmes_operator/scheduler/job_executor.py).  Every firing of the cron  *)
(* job creates a HealthCheck resource, lists it in the schedule's          *)
(* status.active and leaves a watcher task behind that polls the           *)
(* HealthCheck and finally moves it from status.active to status.history.  *)
(*                                                                         *)
(* All status updates are a GET and a PATCH that carries the               *)
(* resourceVersion of the GET, so that the API server refuses a PATCH that *)
(* was overtaken.  Each await of the coroutines is a point where any other *)
(* coroutine, the HealthCheck handler, a user or the API server may act.   *)
(*                                                                         *)
(* Time is abstracted: a watcher may time out at any loop iteration after  *)
(* the first and must at the iteration MaxPolls.                           *)
(***************************************************************************)
EXTENDS Naturals, Sequences, FiniteSets

CONSTANTS
  Check,        \* HealthCheck names; _generate_healthcheck_name never repeats one
  Verdict,      \* results a check can report: CheckStatus or a part of it
  MaxHistory,   \* context.config.max_history_items
  MaxRetries,   \* max_retries of _patch_status_with_retry
  MaxPolls,     \* bound: loop iterations that fit in max_wait_seconds
  FaultKinds,   \* how a request can fail: a subset of {"refused", "lost", "delayed"}
  MaxFaults,    \* bound on failed requests
  MaxCrashes,   \* bound on operator restarts
  MaxEdits,     \* bound on writes of the schedule by others (users, kopf, conditions)
  MaxReruns     \* bound on finished checks that are run again

ASSUME VerdictAssumption == "error" \in Verdict /\ "unset" \notin Verdict
ASSUME HistoryAssumption == MaxHistory \in Nat \ {0}
ASSUME RetryAssumption == MaxRetries \in Nat \ {0}
ASSUME BoundsAssumption ==
  /\ MaxPolls \in Nat \ {0}
  /\ MaxFaults \in Nat /\ MaxCrashes \in Nat /\ MaxEdits \in Nat /\ MaxReruns \in Nat

VARIABLES
  shc,       \* the ScheduledHealthCheck object at the API server
  hc,        \* the HealthCheck objects at the API server
  task,      \* the coroutine executing and then watching each check
  seen,      \* the schedule as the GET of each coroutine about to PATCH returned it
  limbo,     \* PATCHes whose sender gave up but that may still reach the server
  recorded,  \* auxiliary: the checks ever entered in history
  budget     \* failed requests, restarts, foreign edits and reruns so far

vars == <<shc, hc, task, seen, limbo, recorded, budget>>
-----------------------------------------------------------------------------

\* A HealthCheck as its watcher tells it apart: without a final phase
\* (no status yet, Pending or Running), Completed or Failed, or deleted.
Phase == {"none", "unfinished", "finished", "gone"}

Entry == [check : Check, result : Verdict]
Histories == {h \in Seq(Entry) : Len(h) <= MaxHistory}

\* modify_fn of _add_active_check, _move_to_history, _remove_from_active
\* (called when a 404 shows the check deleted) and of the _remove_from_active
\* that _move_to_history calls when it failed.
Call == {"add", "move", "remove", "cleanup"}

Patch == [check : Check, call : Call, verdict : Verdict, rv : Nat,
          active : SUBSET Check, history : Histories]

Task == [pc : {"idle", "create", "uid", "read", "write", "poll", "done"},
         call : Call, attempt : 0..(MaxRetries - 1), polls : 0..MaxPolls,
         late : BOOLEAN, verdict : Verdict, failure : {"gone", "error"}]

NoTask == [pc |-> "idle", call |-> "add", attempt |-> 0, polls |-> 0,
           late |-> FALSE, verdict |-> "error", failure |-> "error"]

\* The part of the schedule that a GET shows to modify_fn.
Snapshot(s) == [rv |-> s.rv, active |-> s.active, history |-> s.history]
NoSnapshot == [rv |-> 0, active |-> {}, history |-> <<>>]

TypeOK ==
  /\ shc \in [exists : BOOLEAN, rv : Nat, active : SUBSET Check,
              history : Histories, lastResult : Verdict \union {"unset"}]
  /\ hc \in [Check -> [phase : Phase, result : Verdict \union {"unset"},
                       reported : SUBSET Verdict]]
  /\ task \in [Check -> Task]
  /\ seen \in [Check -> [rv : Nat, active : SUBSET Check, history : Histories]]
  /\ limbo \subseteq Patch
  /\ recorded \subseteq Check
  /\ budget \in [faults : Nat, crashes : Nat, edits : Nat, reruns : Nat]

Init ==
  /\ shc = [exists |-> TRUE, rv |-> 0, active |-> {}, history |-> <<>>,
            lastResult |-> "unset"]
  /\ hc = [c \in Check |-> [phase |-> "none", result |-> "unset", reported |-> {}]]
  /\ task = [c \in Check |-> NoTask]
  /\ seen = [c \in Check |-> NoSnapshot]
  /\ limbo = {}
  /\ recorded = {}
  /\ budget = [faults |-> 0, crashes |-> 0, edits |-> 0, reruns |-> 0]
-----------------------------------------------------------------------------
(* Status updates: what modify_fn computes and what the server does with it *)

\* Mutant: the entry is appended, the slice keeps the oldest.
PushLast(e, h) ==
  SubSeq(Append(h, e), 1, IF Len(h) < MaxHistory THEN Len(h) + 1 ELSE MaxHistory)

\* history.insert(0, e); history[:max_history]
Push(e, h) ==
  SubSeq(<<e>> \o h, 1, IF Len(h) < MaxHistory THEN Len(h) + 1 ELSE MaxHistory)

\* Mutant: the list is replaced instead of appended to.
NewActiveReplaced(call, c, act) == IF call = "add" THEN {c} ELSE act \ {c}

\* active.append(...), or the list without the check.
NewActive(call, c, act) == IF call = "add" THEN act \union {c} ELSE act \ {c}

NewHistory(call, c, r, h) ==
  IF call = "move" THEN Push([check |-> c, result |-> r], h) ELSE h

\* Mutant: the PATCH carries no resourceVersion, so that every version will do.
PatchOfUnversioned(c) ==
  LET t == task[c] IN
  [check |-> c, call |-> t.call, verdict |-> t.verdict, rv |-> shc.rv,
   active |-> NewActive(t.call, c, seen[c].active),
   history |-> NewHistory(t.call, c, t.verdict, seen[c].history)]

\* The body _patch_status_with_retry sends, computed from the coroutine's GET.
PatchOf(c) ==
  LET t == task[c] IN
  [check |-> c, call |-> t.call, verdict |-> t.verdict, rv |-> seen[c].rv,
   active |-> NewActive(t.call, c, seen[c].active),
   history |-> NewHistory(t.call, c, t.verdict, seen[c].history)]

\* The API server's optimistic-concurrency check.
Current(p) == shc.exists /\ p.rv = shc.rv

\* The merge patch: active always, history and lastResult by a move only.  A
\* patch that changes nothing leaves the version alone.
Merged(p) ==
  LET new == [shc EXCEPT !.active = p.active,
                         !.history = IF p.call = "move" THEN p.history ELSE @,
                         !.lastResult = IF p.call = "move" THEN p.verdict ELSE @]
  IN IF new = shc THEN shc ELSE [new EXCEPT !.rv = @ + 1]

Apply(p) ==
  /\ shc' = Merged(p)
  /\ recorded' = IF p.call = "move" THEN recorded \union {p.check} ELSE recorded
-----------------------------------------------------------------------------
(* Control flow of a coroutine, as functions of its local state *)

\* The coroutine ended; that it had timed out is kept for the properties.
Done(t) == [NoTask EXCEPT !.pc = "done", !.late = t.late]
StartCall(t, call) == [t EXCEPT !.pc = "read", !.call = call, !.attempt = 0]
StartWatching(t) == [NoTask EXCEPT !.pc = "poll"]
NextPoll(t) == [NoTask EXCEPT !.pc = "poll", !.polls = t.polls + 1]

\* _move_to_history re-raises after its cleanup.  The watcher's handlers look
\* at the exception, except when the timeout branch made the call: that branch
\* is outside the try and the exception ends the task.
Reraised(t) ==
  CASE t.late -> Done(t)
    [] ~t.late /\ t.failure = "gone" -> StartCall(t, "remove")
    [] ~t.late /\ t.failure = "error" -> NextPoll(t)

\* Mutant: the loop goes on after a result was recorded.
ReturnedToLoop(t) ==
  CASE t.call = "add" -> StartWatching(t)
    [] t.call = "move" -> NextPoll(t)
    [] t.call = "remove" -> Done(t)
    [] t.call = "cleanup" -> Reraised(t)
\* Mutant: no watcher is started.
ReturnedUnwatched(t) ==
  CASE t.call \in {"add", "move", "remove"} -> Done(t)
    [] t.call = "cleanup" -> Reraised(t)

\* _patch_status_with_retry returned.
Returned(t) ==
  CASE t.call = "add" -> StartWatching(t)
    [] t.call \in {"move", "remove"} -> Done(t)
    [] t.call = "cleanup" -> Reraised(t)

\* _patch_status_with_retry raised: a 404 of the schedule or any other error.
Raised(t, failure) ==
  CASE t.call = "add" -> StartWatching(t)
    [] t.call = "remove" -> Done(t)
    [] t.call = "move" -> [StartCall(t, "cleanup") EXCEPT !.failure = failure]
    [] t.call = "cleanup" -> Reraised(t)

Goto(c, t) == task' = [task EXCEPT ![c] = t]

\* A request of the given kind of fault; the budget bounds how many there are.
Fault(kind) ==
  /\ kind \in FaultKinds
  /\ budget.faults < MaxFaults
  /\ budget' = [budget EXCEPT !.faults = @ + 1]
-----------------------------------------------------------------------------
(* execute_scheduled_check *)

\* A coroutine still inside execute_scheduled_check.
Executing(c) ==
  \/ task[c].pc \in {"create", "uid"}
  \/ task[c].pc \in {"read", "write"} /\ task[c].call = "add"

\* The cron trigger fires.  max_instances=1 makes APScheduler skip a firing
\* while the previous call of the function has not returned.
Execute(c) ==
  /\ shc.exists
  /\ task[c].pc = "idle"
  /\ \A d \in Check : ~Executing(d)
  /\ Goto(c, [task[c] EXCEPT !.pc = "create"])
  /\ UNCHANGED <<shc, hc, seen, limbo, recorded, budget>>

\* create_namespaced_custom_object; an exception ends the function, also when
\* the resource was created and only the answer was lost.
CreateHealthCheck(c) ==
  /\ task[c].pc = "create"
  /\ \/ /\ hc' = [hc EXCEPT ![c].phase = "unfinished"]
        /\ Goto(c, [task[c] EXCEPT !.pc = "uid"])
        /\ UNCHANGED budget
     \/ /\ Fault("refused")
        /\ Goto(c, Done(task[c]))
        /\ UNCHANGED hc
     \/ /\ Fault("lost")
        /\ hc' = [hc EXCEPT ![c].phase = "unfinished"]
        /\ Goto(c, Done(task[c]))
  /\ UNCHANGED <<shc, seen, limbo, recorded>>

\* _add_active_check first reads the uid of the new resource; an exception
\* there is swallowed, and the watcher is started all the same.
GetUid(c) ==
  /\ task[c].pc = "uid"
  /\ \/ /\ hc[c].phase # "gone"
        /\ Goto(c, StartCall(task[c], "add"))
        /\ UNCHANGED budget
     \/ /\ hc[c].phase = "gone"
        /\ Goto(c, StartWatching(task[c]))
        /\ UNCHANGED budget
     \/ /\ Fault("refused")
        /\ Goto(c, StartWatching(task[c]))
  /\ UNCHANGED <<shc, hc, seen, limbo, recorded>>
-----------------------------------------------------------------------------
(* _patch_status_with_retry *)

ReadSchedule(c) ==
  /\ task[c].pc = "read"
  /\ \/ /\ shc.exists
        /\ seen' = [seen EXCEPT ![c] = Snapshot(shc)]
        /\ Goto(c, [task[c] EXCEPT !.pc = "write"])
        /\ UNCHANGED budget
     \/ /\ ~shc.exists
        /\ Goto(c, Raised(task[c], "gone"))
        /\ UNCHANGED <<seen, budget>>
     \/ /\ Fault("refused")
        /\ Goto(c, Raised(task[c], "error"))
        /\ UNCHANGED seen
  /\ UNCHANGED <<shc, hc, limbo, recorded>>

\* Mutant: a conflict is not retried.
ConflictedOnce(t) == Raised(t, "error")

\* 409: read again, unless this was the last attempt.
Conflicted(t) ==
  IF t.attempt + 1 = MaxRetries
  THEN Raised(t, "error")
  ELSE [t EXCEPT !.pc = "read", !.attempt = @ + 1]

WriteSchedule(c) ==
  /\ task[c].pc = "write"
  /\ \/ /\ Current(PatchOf(c))
        /\ Apply(PatchOf(c))
        /\ Goto(c, Returned(task[c]))
        /\ UNCHANGED <<limbo, budget>>
     \/ /\ shc.exists /\ ~Current(PatchOf(c))
        /\ Goto(c, Conflicted(task[c]))
        /\ UNCHANGED <<shc, recorded, limbo, budget>>
     \/ /\ ~shc.exists
        /\ Goto(c, Raised(task[c], "gone"))
        /\ UNCHANGED <<shc, recorded, limbo, budget>>
     \/ /\ Fault("refused")
        /\ Goto(c, Raised(task[c], "error"))
        /\ UNCHANGED <<shc, recorded, limbo>>
     \/ /\ Fault("lost")
        /\ Current(PatchOf(c))
        /\ Apply(PatchOf(c))
        /\ Goto(c, Raised(task[c], "error"))
        /\ UNCHANGED limbo
     \/ /\ Fault("delayed")
        /\ limbo' = limbo \union {PatchOf(c)}
        /\ Goto(c, Raised(task[c], "error"))
        /\ UNCHANGED <<shc, recorded>>
  /\ seen' = [seen EXCEPT ![c] = NoSnapshot]
  /\ UNCHANGED hc
-----------------------------------------------------------------------------
(* watch_healthcheck_completion *)

\* Mutant: the phase is not looked at.
AnyPhase(c) == hc[c].phase \in {"unfinished", "finished"}

\* phase in ["Completed", "Failed"]
HasFinished(c) == hc[c].phase = "finished"

\* status.get("result", "error")
ResultOf(c) == IF hc[c].result = "unset" THEN "error" ELSE hc[c].result

\* The GET of the HealthCheck, inside the try.
Poll(c) ==
  /\ task[c].pc = "poll"
  /\ task[c].polls < MaxPolls
  /\ \/ /\ HasFinished(c)
        /\ Goto(c, [StartCall(task[c], "move") EXCEPT !.verdict = ResultOf(c)])
        /\ UNCHANGED budget
     \/ /\ hc[c].phase = "gone"
        /\ Goto(c, StartCall(task[c], "remove"))
        /\ UNCHANGED budget
     \/ /\ hc[c].phase # "gone" /\ ~HasFinished(c)
        /\ Goto(c, NextPoll(task[c]))
        /\ UNCHANGED budget
     \/ /\ Fault("refused")
        /\ Goto(c, NextPoll(task[c]))
  /\ UNCHANGED <<shc, hc, seen, limbo, recorded>>

\* Mutant: the clock starts again at every iteration.
NeverTimeout(c) == task[c].pc = "timeout" /\ UNCHANGED vars

\* elapsed > max_wait_seconds: the check is recorded as an error, whatever it
\* is doing, and the watcher ends.
WatchTimeout(c) ==
  /\ task[c].pc = "poll"
  /\ task[c].polls >= 1
  /\ Goto(c, [StartCall(task[c], "move") EXCEPT !.verdict = "error", !.late = TRUE])
  /\ UNCHANGED <<shc, hc, seen, limbo, recorded, budget>>
-----------------------------------------------------------------------------
(* The HealthCheck resources: the actions of CheckLifecycle, which HealthChecks
   (holmes_operator/handlers/healthcheck.py) is shown to implement. *)

\* set_healthcheck_completed with the result of the API, or
\* set_healthcheck_failed on an exception, also after Completed.
CheckFinishes(c, r) ==
  /\ hc[c].phase \in {"unfinished", "finished"}
  /\ hc' = [hc EXCEPT ![c] = [phase |-> "finished", result |-> r,
                              reported |-> @.reported \union {r}]]
  /\ UNCHANGED <<shc, task, seen, limbo, recorded, budget>>

\* A retry by kopf or a rerun by a user: Pending again, with the old result.
CheckReruns(c) ==
  /\ hc[c].phase = "finished"
  /\ budget.reruns < MaxReruns
  /\ hc' = [hc EXCEPT ![c].phase = "unfinished"]
  /\ budget' = [budget EXCEPT !.reruns = @ + 1]
  /\ UNCHANGED <<shc, task, seen, limbo, recorded>>

CheckDeleted(c) ==
  /\ hc[c].phase \in {"unfinished", "finished"}
  /\ hc' = [hc EXCEPT ![c].phase = "gone"]
  /\ UNCHANGED <<shc, task, seen, limbo, recorded, budget>>
-----------------------------------------------------------------------------
(* The rest of the world *)

\* A delayed PATCH arrives: applied if still current, refused otherwise.
LimboArrives(p) ==
  /\ limbo' = limbo \ {p}
  /\ \/ Current(p) /\ Apply(p)
     \/ ~Current(p) /\ UNCHANGED <<shc, recorded>>
  /\ UNCHANGED <<hc, task, seen, budget>>

\* Any other write of the schedule: a user's edit, kopf's annotations, a condition.
EditSchedule ==
  /\ shc.exists
  /\ budget.edits < MaxEdits
  /\ shc' = [shc EXCEPT !.rv = @ + 1]
  /\ budget' = [budget EXCEPT !.edits = @ + 1]
  /\ UNCHANGED <<hc, task, seen, limbo, recorded>>

DeleteSchedule ==
  /\ shc.exists
  /\ shc' = [shc EXCEPT !.exists = FALSE]
  /\ UNCHANGED <<hc, task, seen, limbo, recorded, budget>>

\* The operator restarts: every coroutine is gone for good and nothing resumes
\* the watchers.  PATCHes already sent may still reach the server.
Crash ==
  /\ budget.crashes < MaxCrashes
  /\ \E sent \in SUBSET {c \in Check : task[c].pc = "write"} :
       limbo' = limbo \union {PatchOf(c) : c \in sent}
  /\ seen' = [c \in Check |-> NoSnapshot]
  /\ task' = [c \in Check |-> IF task[c].pc = "idle" THEN task[c] ELSE Done(task[c])]
  /\ budget' = [budget EXCEPT !.crashes = @ + 1]
  /\ UNCHANGED <<shc, hc, recorded>>
-----------------------------------------------------------------------------
\* The steps of the coroutine of check c once the cron job has fired.
Coroutine(c) ==
  \/ CreateHealthCheck(c) \/ GetUid(c)
  \/ ReadSchedule(c) \/ WriteSchedule(c)
  \/ Poll(c) \/ WatchTimeout(c)

Next ==
  \/ \E c \in Check : \/ Execute(c)
                      \/ Coroutine(c)
                      \/ CheckReruns(c) \/ CheckDeleted(c)
                      \/ \E r \in Verdict : CheckFinishes(c, r)
  \/ \E p \in limbo : LimboArrives(p)
  \/ EditSchedule \/ DeleteSchedule \/ Crash

Spec == Init /\ [][Next]_vars

\* asyncio runs every ready coroutine and every request ends, by an answer or
\* an error; nothing obliges the cron job, a check, a user or the network.
FairSpec == Spec /\ \A c \in Check : WF_vars(Coroutine(c))
-----------------------------------------------------------------------------
(* Properties *)

\* A check that has been entered in history is never listed in active again:
\* _add_active_check and the watcher of one check, overtaken or delayed
\* PATCHes and the updates of other checks cannot bring it back.
RecordedNotActive == recorded \intersect shc.active = {}

\* The status changes only as the ledger of StatusLedger does: each PATCH that
\* the server accepts adds or removes its own check and enters its own result,
\* and loses nothing another coroutine wrote since the GET.
Ledger == INSTANCE StatusLedger WITH active <- shc.active, history <- shc.history
ImplementsLedger == Ledger!Spec

\* lastResult is the result of the entry at the head of history: the fields
\* one PATCH writes together never come from two different updates.
LastResultIsHead ==
  shc.history # <<>> => shc.lastResult = shc.history[1].result

\* An entry of history is what its check really reported when it was finished,
\* or the error of a watcher that timed out: never the leftover or default
\* result of a check that is still pending or running.
ResultsAreReal ==
  \A i \in 1..Len(shc.history) :
    LET e == shc.history[i] IN
    \/ e.result \in hc[e.check].reported
    \/ e.result = "error" /\ task[e.check].late

\* A check is entered in history more than once only when a request that
\* reached the server was reported to the watcher as failed.
EnteredOnce ==
  \A c \in Check :
    Cardinality({i \in 1..Len(shc.history) : shc.history[i].check = c}) <= 1 + budget.faults

\* Without failed requests and restarts a check whose coroutine has ended is
\* not left behind in active, whatever conflicts it met on the way.
NoOrphan ==
  budget.faults = 0 /\ budget.crashes = 0
    => \A c \in shc.active : task[c].pc # "done" \/ ~shc.exists

\* An execution that has fired ends: the watcher cannot poll or retry forever.
WatchersEnd == \A c \in Check : task[c].pc = "create" ~> task[c].pc = "done"

\* Every check that was created is eventually entered in history, unless it or
\* the schedule is deleted first.
CreatedIsRecorded ==
  \A c \in Check :
    hc[c].phase = "unfinished" ~> (c \in recorded \/ hc[c].phase = "gone" \/ ~shc.exists)

=============================================================================
