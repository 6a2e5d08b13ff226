---------------------------- MODULE HealthChecks ----------------------------
(***************************************************************************)
(* The execution of one HealthCheck resource                               *)
(* (holmes_operator/handlers/healthcheck.py, utils.py and                  *)
(* client/holmes_api_client.py).  kopf calls the handler when the resource *)
(* is new, and again when its rerun annotation appears; the handler writes *)
(* Pending and Running, asks the Holmes API (three attempts), writes the   *)
(* result and a condition.  An exception leads to Failed and is re-raised, *)
(* upon which kopf calls the handler again.                                *)
(*                                                                         *)
(* Status fields are written by merge patches that keep every field they   *)
(* do not mention.  Conditions are a GET and a versioned PATCH with        *)
(* retries.  kopf remembers what it handled in an annotation of the        *)
(* resource, so a restart repeats a handler that had not returned.         *)
(***************************************************************************)
EXTENDS Naturals

CONSTANTS
  Status,        \* CheckStatus: results of the API, "error" among them
  MaxAttempts,   \* stop_after_attempt of execute_check
  MaxRetries,    \* max_retries of add_healthcheck_condition
  FaultKinds,    \* how a request can fail: a subset of {"refused", "lost"}
  MaxMishaps,    \* bound on failed requests and operator restarts
  MaxLate,       \* bound on PATCHes of a dead operator that arrive later
  MaxWrites      \* bound on writes of the resource by others

ASSUME StatusAssumption == "error" \in Status /\ "unset" \notin Status
ASSUME LimitsAssumption == MaxAttempts \in Nat \ {0} /\ MaxRetries \in Nat \ {0}
ASSUME BoundsAssumption ==
  /\ MaxMishaps \in Nat /\ MaxLate \in Nat
  /\ MaxWrites \in Nat

VARIABLES
  obj,         \* the HealthCheck at the API server
  handled,     \* the rerun annotation as kopf last handled it, or "never"
  op,          \* the handler invocation in progress
  limbo,       \* status writes of a dead operator that may still arrive
  executions,  \* auxiliary: executions started at the Holmes API
  reported,    \* auxiliary: results shown together with a final phase
  withdrawn,   \* auxiliary: a rerun was withdrawn before kopf had handled it
  budget       \* failed requests, restarts, late writes, edits and toggles so far

vars == <<obj, handled, op, limbo, executions, reported, withdrawn, budget>>
-----------------------------------------------------------------------------
Final == {"Completed", "Failed"}
Phases == {"none", "Pending", "Running"} \union Final
Conditions == {"Complete", "Failed"}
Annotation == {"absent", "rerun"}

\* The places of the handler where it awaits: status writes, the API call and
\* the GET and PATCH of a condition.
StatusWrites == {"pending", "running", "complete", "failed"}
Places == StatusWrites \union {"idle", "call", "read", "write"}

Object == [exists : BOOLEAN, rv : Nat, rerun : Annotation, phase : Phases,
           result : Status \union {"unset"}, error : BOOLEAN,
           conditions : SUBSET Conditions]

\* rerun, the annotation when kopf made the call; verdict, the answer of the
\* API; raising, in the except block; seen, what the GET of a condition returned.
Op == [pc : Places, rerun : Annotation, attempt : 0..(MaxAttempts - 1),
       retry : 0..(MaxRetries - 1), verdict : Status, raising : BOOLEAN,
       seen : [rv : Nat, conditions : SUBSET Conditions]]

Idle == [pc |-> "idle", rerun |-> "absent", attempt |-> 0, retry |-> 0,
         verdict |-> "error", raising |-> FALSE,
         seen |-> [rv |-> 0, conditions |-> {}]]

TypeOK ==
  /\ obj \in Object
  /\ handled \in {"never"} \union Annotation
  /\ op \in Op
  /\ limbo \subseteq Op
  /\ executions \in Nat
  /\ reported \subseteq Status
  /\ withdrawn \in BOOLEAN
  /\ budget \in [faults : Nat, crashes : Nat, late : Nat, edits : Nat, toggles : Nat]

Init ==
  /\ obj = [exists |-> TRUE, rv |-> 0, rerun |-> "absent", phase |-> "none",
            result |-> "unset", error |-> FALSE, conditions |-> {}]
  /\ handled = "never"
  /\ op = Idle
  /\ limbo = {}
  /\ executions = 0
  /\ reported = {}
  /\ withdrawn = FALSE
  /\ budget = [faults |-> 0, crashes |-> 0, late |-> 0, edits |-> 0, toggles |-> 0]
-----------------------------------------------------------------------------
(* What the API server does with a write *)

\* Mutant: an error is reported without the final phase.
StatusWrittenSplit(o, t) ==
  CASE t.pc = "pending"  -> [o EXCEPT !.phase = "Pending"]
    [] t.pc = "running"  -> [o EXCEPT !.phase = "Running"]
    [] t.pc = "complete" -> [o EXCEPT !.phase = IF t.verdict = "error" THEN @ ELSE "Completed",
                                      !.result = t.verdict]
    [] t.pc = "failed"   -> [o EXCEPT !.phase = "Failed", !.result = "error"]

\* update_healthcheck_status: the merge patch of each place of the handler.
\* Fields that are not given are left out of the patch and keep their value.
StatusWritten(o, t) ==
  CASE t.pc = "pending"  -> [o EXCEPT !.phase = "Pending"]
    [] t.pc = "running"  -> [o EXCEPT !.phase = "Running"]
    [] t.pc = "complete" -> [o EXCEPT !.phase = "Completed", !.result = t.verdict,
                                      !.error = @ \/ t.verdict = "error"]
    [] t.pc = "failed"   -> [o EXCEPT !.phase = "Failed", !.result = "error",
                                      !.error = TRUE]

\* CheckStatus.PASS and FAIL are Complete; an error and any exception Failed.
ConditionOf(t) == IF t.raising \/ t.verdict = "error" THEN "Failed" ELSE "Complete"

ConditionWritten(o, t) == [o EXCEPT !.conditions = t.seen.conditions \union {ConditionOf(t)}]

\* A condition is written over the version that the GET returned.
Current(t) == obj.exists /\ (t.pc = "write" => t.seen.rv = obj.rv)

Apply(t) ==
  LET o == IF t.pc = "write" THEN ConditionWritten(obj, t) ELSE StatusWritten(obj, t)
  IN /\ obj' = [o EXCEPT !.rv = @ + 1]
     /\ reported' = IF t.pc \in {"complete", "failed"} THEN reported \union {o.result}
                                                        ELSE reported
-----------------------------------------------------------------------------
(* Control flow of the handler, as functions of its local state *)

StartCondition(t) == [t EXCEPT !.pc = "read", !.retry = 0]

\* A status write returned.
Written(t) ==
  CASE t.pc = "pending" -> [t EXCEPT !.pc = "running"]
    [] t.pc = "running" -> [t EXCEPT !.pc = "call"]
    [] t.pc \in {"complete", "failed"} -> StartCondition(t)

\* An exception: before the try and in the except block it leaves the handler,
\* and kopf calls it again later; elsewhere the except block is entered.
Threw(t) ==
  IF t.pc = "pending" \/ t.raising
  THEN Idle
  ELSE [t EXCEPT !.pc = "failed", !.raising = TRUE]

\* Mutant: a conflict is an error like any other.
ConflictedOnce(t) == Threw(t)

\* 409 on a condition: read again, unless this was the last attempt.
Conflicted(t) ==
  IF t.retry + 1 = MaxRetries THEN Threw(t) ELSE [t EXCEPT !.pc = "read", !.retry = @ + 1]

\* execute_check failed: tenacity calls it again, unless this was the last attempt.
Unanswered(t) ==
  IF t.attempt + 1 = MaxAttempts THEN Threw(t) ELSE [t EXCEPT !.attempt = @ + 1]

Fault(kind) ==
  /\ kind \in FaultKinds
  /\ budget.faults + budget.crashes < MaxMishaps
  /\ budget' = [budget EXCEPT !.faults = @ + 1]
-----------------------------------------------------------------------------
(* kopf *)

\* Mutant: only new resources are handled.
InvokeNew ==
  /\ obj.exists
  /\ op.pc = "idle"
  /\ handled = "never"
  /\ op' = [op EXCEPT !.pc = "pending", !.rerun = obj.rerun]
  /\ UNCHANGED <<obj, handled, limbo, executions, reported, withdrawn, budget>>

\* The resource differs from what kopf last handled: on_healthcheck_create for
\* a new one, on_healthcheck_update otherwise, which runs the check again only
\* if the annotation has appeared.
Invoke ==
  /\ obj.exists
  /\ op.pc = "idle"
  /\ handled # obj.rerun
  /\ IF handled = "never" \/ obj.rerun = "rerun"
     THEN op' = [op EXCEPT !.pc = "pending", !.rerun = obj.rerun] /\ UNCHANGED handled
     ELSE handled' = obj.rerun /\ UNCHANGED op
  /\ UNCHANGED <<obj, limbo, executions, reported, withdrawn, budget>>

\* Mutant: the except block does not re-raise.
LeaveSwallowed(t) == op' = Idle /\ handled' = t.rerun

\* The condition is in place: the handler returns and kopf remembers the
\* resource it was called with, or the except block re-raises.
Leave(t) ==
  /\ op' = Idle
  /\ handled' = IF t.raising THEN handled ELSE t.rerun
-----------------------------------------------------------------------------
(* The handler *)

\* set_healthcheck_pending, _running, _completed and _failed
WriteStatus ==
  /\ op.pc \in StatusWrites
  /\ \/ /\ Current(op)
        /\ Apply(op)
        /\ op' = Written(op)
        /\ UNCHANGED budget
     \/ /\ ~obj.exists
        /\ op' = Threw(op)
        /\ UNCHANGED <<obj, reported, budget>>
     \/ /\ Fault("refused")
        /\ op' = Threw(op)
        /\ UNCHANGED <<obj, reported>>
     \/ /\ Fault("lost")
        /\ Current(op)
        /\ Apply(op)
        /\ op' = Threw(op)
  /\ UNCHANGED <<handled, limbo, executions, withdrawn>>

\* One attempt of HolmesAPIClient.execute_check: the API executes the check and
\* answers, executes it and the answer is lost or unusable, or never gets it.
CallApi ==
  /\ op.pc = "call"
  /\ \/ /\ \E r \in Status : op' = [op EXCEPT !.pc = "complete", !.verdict = r]
        /\ executions' = executions + 1
        /\ UNCHANGED budget
     \/ /\ Fault("lost")
        /\ op' = Unanswered(op)
        /\ executions' = executions + 1
     \/ /\ Fault("refused")
        /\ op' = Unanswered(op)
        /\ UNCHANGED executions
  /\ UNCHANGED <<obj, handled, limbo, reported, withdrawn>>

\* add_healthcheck_condition: the GET
ReadConditions ==
  /\ op.pc = "read"
  /\ \/ /\ obj.exists
        /\ op' = [op EXCEPT !.pc = "write",
                            !.seen = [rv |-> obj.rv, conditions |-> obj.conditions]]
        /\ UNCHANGED budget
     \/ /\ ~obj.exists
        /\ op' = Threw(op)
        /\ UNCHANGED budget
     \/ /\ Fault("refused")
        /\ op' = Threw(op)
  /\ UNCHANGED <<obj, handled, limbo, executions, reported, withdrawn>>

\* add_healthcheck_condition: the PATCH
WriteCondition ==
  /\ op.pc = "write"
  /\ \/ /\ Current(op)
        /\ Apply(op)
        /\ Leave(op)
        /\ UNCHANGED budget
     \/ /\ obj.exists /\ ~Current(op)
        /\ op' = Conflicted(op)
        /\ UNCHANGED <<obj, handled, reported, budget>>
     \/ /\ ~obj.exists
        /\ op' = Threw(op)
        /\ UNCHANGED <<obj, handled, reported, budget>>
     \/ /\ Fault("refused")
        /\ op' = Threw(op)
        /\ UNCHANGED <<obj, handled, reported>>
     \/ /\ Fault("lost")
        /\ Current(op)
        /\ Apply(op)
        /\ op' = Threw(op)
        /\ UNCHANGED handled
  /\ UNCHANGED <<limbo, executions, withdrawn>>
-----------------------------------------------------------------------------
(* The rest of the world *)

\* The operator restarts.  A PATCH it had in flight may still arrive.
Crash ==
  /\ budget.faults + budget.crashes < MaxMishaps
  /\ budget' = [budget EXCEPT !.crashes = @ + 1]
  /\ op' = Idle
  /\ \/ limbo' = limbo
     \/ op.pc \in StatusWrites \union {"write"} /\ limbo' = limbo \union {op}
  /\ UNCHANGED <<obj, handled, executions, reported, withdrawn>>

LateWrite(t) ==
  /\ budget.late < MaxLate
  /\ budget' = [budget EXCEPT !.late = @ + 1]
  /\ limbo' = limbo \ {t}
  /\ \/ Current(t) /\ Apply(t)
     \/ ~Current(t) /\ UNCHANGED <<obj, reported>>
  /\ UNCHANGED <<handled, op, executions, withdrawn>>

\* A user sets or takes away the rerun annotation.
Annotate ==
  /\ obj.exists
  /\ budget.toggles + budget.edits < MaxWrites
  /\ budget' = [budget EXCEPT !.toggles = @ + 1]
  /\ \E a \in Annotation \ {obj.rerun} : obj' = [obj EXCEPT !.rerun = a, !.rv = @ + 1]
  /\ withdrawn' = (withdrawn \/ (obj.rerun = "rerun" /\ handled = "absent"))
  /\ UNCHANGED <<handled, op, limbo, executions, reported>>

\* Any other write of the resource: labels, an owner reference, the spec.
Edit ==
  /\ obj.exists
  /\ budget.toggles + budget.edits < MaxWrites
  /\ budget' = [budget EXCEPT !.edits = @ + 1]
  /\ obj' = [obj EXCEPT !.rv = @ + 1]
  /\ UNCHANGED <<handled, op, limbo, executions, reported, withdrawn>>

Delete ==
  /\ obj.exists
  /\ obj' = [obj EXCEPT !.exists = FALSE]
  /\ UNCHANGED <<handled, op, limbo, executions, reported, withdrawn, budget>>
-----------------------------------------------------------------------------
Handler == Invoke \/ WriteStatus \/ CallApi \/ ReadConditions \/ WriteCondition

Next ==
  \/ Handler
  \/ Crash \/ (\E t \in limbo : LateWrite(t))
  \/ Annotate \/ Edit \/ Delete

Spec == Init /\ [][Next]_vars

\* kopf calls the handler as long as there is something to handle, asyncio runs
\* it, and every request ends, by an answer or an error.
FairSpec == Spec /\ WF_vars(Handler)
-----------------------------------------------------------------------------
(* Properties *)

Settled == op.pc = "idle" /\ handled = obj.rerun

\* When nothing is left to handle the status is final: no path through the
\* exceptions, retries and restarts makes kopf forget a check that is not
\* Completed or that lacks the condition for its result.  (Unless a PATCH of a
\* dead operator came in late, or a user withdrew a rerun that was failing.)
SettledIsFinal ==
  Settled /\ obj.exists /\ budget.late = 0 /\ ~withdrawn
    => /\ obj.phase = "Completed"
       /\ obj.result = "error" => "Failed" \in obj.conditions
       /\ obj.result # "error" => "Complete" \in obj.conditions

\* A check is not executed, nor its alerts sent, more often than its causes
\* allow: once, once for each rerun, and once for each failed request, restart
\* or full round of conflicts.
ExecutionsBounded ==
  executions <= 1 + (budget.toggles + 1) \div 2 + budget.faults + budget.crashes
                  + (budget.edits + budget.toggles + budget.late) \div MaxRetries

\* Readers see phase and result change together, as CheckLifecycle says.
ShownPhase ==
  IF ~obj.exists THEN "gone" ELSE IF obj.phase \in Final THEN "finished" ELSE "unfinished"
Lifecycle == INSTANCE CheckLifecycle WITH
               Verdict <- Status, phase <- ShownPhase, result <- obj.result
ImplementsLifecycle == Lifecycle!Spec

\* Once requests stop failing and users stop writing, the check settles for
\* good, and its status is final (with the exceptions of SettledIsFinal).
Settles ==
  <>[](\/ ~obj.exists
       \/ Settled /\ (obj.phase = "Completed" \/ budget.late > 0 \/ withdrawn))

=============================================================================
