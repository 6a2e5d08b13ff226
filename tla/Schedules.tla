----------------------------- MODULE Schedules ------------------------------
(***************************************************************************)
(* The registration of one ScheduledHealthCheck                            *)
(* (holmes_operator/scheduler/manager.py, handlers/scheduledhealthcheck.py *)
(* and the startup in context.py): when the operator starts it lists the   *)
(* resources and registers their jobs; afterwards kopf calls a handler for *)
(* every creation, change and deletion, which registers or removes the job *)
(* and writes the ScheduleRegistered condition.                            *)
(*                                                                         *)
(* Jobs live in memory only.  What kopf has handled is an annotation of    *)
(* the resource, written after the handler returned; a handler that raised *)
(* is called again as long as the resource still differs from it.  A       *)
(* finalizer, added before the first handler runs, holds back a deletion.  *)
(***************************************************************************)
EXTENDS Naturals

CONSTANTS
  Cron,         \* schedules with their query: specs that differ in them
  BadCron,      \* those whose cron expression CronTrigger rejects
  MaxFaults,    \* bound on failed requests
  MaxCrashes,   \* bound on operator restarts
  MaxWrites     \* bound on creations, edits and deletions by users

ASSUME CronAssumption == BadCron \subseteq Cron /\ "none" \notin Cron
ASSUME BoundsAssumption == MaxFaults \in Nat /\ MaxCrashes \in Nat /\ MaxWrites \in Nat

VARIABLES
  obj,        \* the ScheduledHealthCheck at the API server
  handled,    \* the spec in kopf's last-handled annotation of it
  job,        \* the job of its key in job_registry and in APScheduler
  operator,   \* "down", "listed" (between the LIST and the registration) or "up"
  listed,     \* the resource as the LIST at startup returned it
  op,         \* the handler in progress
  gaps,       \* auxiliary: the ways a user was faster than kopf's bookkeeping
  budget      \* failed requests, restarts and writes so far

vars == <<obj, handled, job, operator, listed, op, gaps, budget>>
-----------------------------------------------------------------------------
UserSpec == [cron : Cron, enabled : BOOLEAN]
NoSpec == [cron |-> "none", enabled |-> FALSE]
Specs == UserSpec \union {NoSpec}

\* A resource: each creation has its own uid.
Object == [exists : BOOLEAN, uid : Nat, spec : Specs, finalizer : BOOLEAN,
           deleting : BOOLEAN, condition : {"unset", "True", "False"}]

Good(spec) == spec.cron \notin BadCron

\* A job holds the spec and the uid it was registered with: only enabled
\* schedules with a valid cron expression have one.
NoJob == [spec |-> NoSpec, uid |-> 0]
Job == [spec : {s \in UserSpec : s.enabled /\ Good(s)}, uid : Nat] \union {NoJob}

\* After its synchronous part a handler writes a condition, unless it is about
\* to raise or to return without one; then kopf records or retries.
Op == [pc : {"idle", "condition", "return", "raise"}, spec : Specs,
       condition : {"True", "False"}, raises : BOOLEAN, deletes : BOOLEAN]
Idle == [pc |-> "idle", spec |-> NoSpec, condition |-> "False",
         raises |-> FALSE, deletes |-> FALSE]
Raising == [pc |-> "raise", spec |-> NoSpec, condition |-> "False",
            raises |-> TRUE, deletes |-> FALSE]
Returning(spec) == [pc |-> "return", spec |-> spec, condition |-> "False",
                    raises |-> FALSE, deletes |-> FALSE]

\* A change taken back before kopf recorded it; a resource disabled before kopf
\* recorded that it was enabled, so that no handler sees a difference; and
\* a resource listed or registered at startup that went without a finalizer.
Gaps == {"reverted", "disabled", "escaped"}

TypeOK ==
  /\ obj \in Object
  /\ handled \in Specs
  /\ job \in Job
  /\ operator \in {"down", "listed", "up"}
  /\ listed \in [spec : Specs, uid : Nat]
  /\ op \in Op
  /\ gaps \subseteq Gaps
  /\ budget \in [faults : Nat, crashes : Nat, writes : Nat]

Gone(uid) == [exists |-> FALSE, uid |-> uid, spec |-> NoSpec, finalizer |-> FALSE,
              deleting |-> FALSE, condition |-> "unset"]
Created(uid, spec) == [exists |-> TRUE, uid |-> uid, spec |-> spec, finalizer |-> FALSE,
                       deleting |-> FALSE, condition |-> "unset"]

Init ==
  /\ obj = Gone(0)
  /\ handled = NoSpec
  /\ job = NoJob
  /\ operator = "down"
  /\ listed = NoJob
  /\ op = Idle
  /\ gaps = {}
  /\ budget = [faults |-> 0, crashes |-> 0, writes |-> 0]

Fault ==
  /\ budget.faults < MaxFaults
  /\ budget' = [budget EXCEPT !.faults = @ + 1]

JobOf(o) == [spec |-> o.spec, uid |-> o.uid]
-----------------------------------------------------------------------------
(* Startup: SchedulerManager.start and _load_existing_schedules *)

\* An exception of the LIST ends the startup; the operator is started again.
ListSchedules ==
  /\ operator = "down"
  /\ \/ /\ operator' = "listed"
        /\ listed' = IF obj.exists THEN JobOf(obj) ELSE NoJob
        /\ UNCHANGED budget
     \/ /\ Fault
        /\ UNCHANGED <<operator, listed>>
  /\ UNCHANGED <<obj, handled, job, op, gaps>>

\* A disabled schedule is skipped; one that add_schedule rejects is logged.
LoadSchedules ==
  /\ operator = "listed"
  /\ operator' = "up"
  /\ job' = IF listed.spec.enabled /\ Good(listed.spec) THEN listed ELSE job
  /\ listed' = NoJob
  /\ UNCHANGED <<obj, handled, op, gaps, budget>>
-----------------------------------------------------------------------------
(* The handlers.  Everything up to the condition runs without an await. *)

Begin(condition, raises, deletes) ==
  op' = [pc |-> "condition", spec |-> obj.spec, condition |-> condition,
         raises |-> raises, deletes |-> deletes]

\* _register_scheduled_healthcheck: an invalid cron expression is shown in the
\* condition and re-raised.
Register ==
  IF Good(obj.spec)
  THEN job' = JobOf(obj) /\ Begin("True", FALSE, FALSE)
  ELSE UNCHANGED job /\ Begin("False", TRUE, FALSE)

\* Mutant: the job is not replaced.
UpdateKeepingJob ==
  IF Good(obj.spec)
  THEN UNCHANGED job /\ Begin("True", FALSE, FALSE)
  ELSE UNCHANGED job /\ op' = Raising

\* _update_scheduled_healthcheck: the exception leaves before anything changed.
Update ==
  IF Good(obj.spec)
  THEN job' = JobOf(obj) /\ Begin("True", FALSE, FALSE)
  ELSE UNCHANGED job /\ op' = Raising

\* Mutant: the job survives its schedule.
UnregisterKeepingJob(unschedule, deletes) ==
  UNCHANGED job /\ Begin("False", FALSE, deletes)

\* Mutant: removing a schedule that has no job raises.
UnregisterStrict(unschedule, deletes) ==
  IF unschedule /\ job = NoJob
  THEN UNCHANGED job /\ op' = Raising
  ELSE job' = (IF unschedule THEN NoJob ELSE job) /\ Begin("False", FALSE, deletes)

\* _unregister_scheduled_healthcheck
Unregister(unschedule, deletes) ==
  /\ job' = IF unschedule THEN NoJob ELSE job
  /\ Begin("False", FALSE, deletes)

\* kopf adds its finalizer before it calls any handler.
AddFinalizer ==
  /\ operator = "up" /\ op.pc = "idle"
  /\ obj.exists /\ ~obj.finalizer /\ ~obj.deleting
  /\ obj' = [obj EXCEPT !.finalizer = TRUE]
  /\ UNCHANGED <<handled, job, operator, listed, op, gaps, budget>>

\* There is something that kopf has not handled.
Called(deleting) ==
  /\ operator = "up" /\ op.pc = "idle"
  /\ obj.exists /\ obj.finalizer
  /\ obj.deleting = deleting
  /\ UNCHANGED <<obj, handled, operator, listed, gaps, budget>>

\* on_scheduledhealthcheck_create: a disabled schedule has no job to remove.
OnCreate ==
  /\ Called(FALSE)
  /\ handled = NoSpec
  /\ IF obj.spec.enabled THEN Register ELSE Unregister(FALSE, FALSE)

\* Mutant: a change of a disabled schedule is an error.
OnUpdateEnabled ==
  /\ Called(FALSE)
  /\ handled # NoSpec /\ handled # obj.spec
  /\ IF obj.spec.enabled
     THEN IF handled.enabled THEN Update ELSE Register
     ELSE IF handled.enabled
          THEN Unregister(TRUE, FALSE)
          ELSE UNCHANGED job /\ op' = Raising

\* on_scheduledhealthcheck_update, with the last handled spec as the old one.
OnUpdate ==
  /\ Called(FALSE)
  /\ handled # NoSpec /\ handled # obj.spec
  /\ IF handled.enabled # obj.spec.enabled
     THEN IF obj.spec.enabled THEN Register ELSE Unregister(TRUE, FALSE)
     ELSE IF obj.spec.enabled
          THEN Update
          ELSE UNCHANGED job /\ op' = Returning(obj.spec)

\* on_scheduledhealthcheck_delete
OnDelete ==
  /\ Called(TRUE)
  /\ Unregister(TRUE, TRUE)

AfterCondition == [op EXCEPT !.pc = IF op.raises THEN "raise" ELSE "return"]

\* _add_scheduledhealthcheck_condition: a GET and an unversioned PATCH of the
\* whole list, which holds only this condition.  All exceptions are swallowed.
WriteCondition ==
  /\ op.pc = "condition"
  /\ \/ /\ obj' = [obj EXCEPT !.condition = op.condition]
        /\ UNCHANGED budget
     \/ /\ Fault
        /\ UNCHANGED obj
  /\ op' = AfterCondition
  /\ UNCHANGED <<handled, job, operator, listed, gaps>>

\* kopf keeps a handler that raised for another call.
Raise ==
  /\ op.pc = "raise"
  /\ op' = Idle
  /\ UNCHANGED <<obj, handled, job, operator, listed, gaps, budget>>

\* kopf records the resource that the handler was called with, or takes its
\* finalizer from a resource being deleted, whereupon it is gone.
Record ==
  /\ op.pc = "return"
  /\ op' = Idle
  /\ \/ /\ IF op.deletes THEN obj' = Gone(obj.uid) /\ UNCHANGED handled
                         ELSE handled' = op.spec /\ UNCHANGED obj
        /\ UNCHANGED budget
     \/ /\ Fault
        /\ UNCHANGED <<obj, handled>>
  /\ UNCHANGED <<job, operator, listed, gaps>>
-----------------------------------------------------------------------------
(* The rest of the world *)

Crash ==
  /\ operator # "down"
  /\ budget.crashes < MaxCrashes
  /\ budget' = [budget EXCEPT !.crashes = @ + 1]
  /\ operator' = "down"
  /\ job' = NoJob /\ listed' = NoJob /\ op' = Idle
  /\ UNCHANGED <<obj, handled, gaps>>

UserWrites ==
  /\ budget.writes < MaxWrites
  /\ budget' = [budget EXCEPT !.writes = @ + 1]
  /\ UNCHANGED <<job, operator, listed, op>>

CreateSchedule ==
  /\ UserWrites
  /\ ~obj.exists
  /\ \E s \in UserSpec : obj' = Created(obj.uid + 1, s)
  /\ handled' = NoSpec
  /\ gaps' = gaps \intersect {"escaped"}

EditSchedule ==
  /\ UserWrites
  /\ obj.exists /\ ~obj.deleting
  /\ \E s \in UserSpec \ {obj.spec} :
       /\ obj' = [obj EXCEPT !.spec = s]
       /\ gaps' = gaps \union {g \in Gaps :
                      \/ g = "reverted" /\ s = handled
                      \/ g = "disabled" /\ obj.spec.enabled /\ ~s.enabled /\ ~handled.enabled}
  /\ UNCHANGED handled

\* Without a finalizer the resource is gone at once and no handler is called.
DeleteSchedule ==
  /\ UserWrites
  /\ obj.exists /\ ~obj.deleting
  /\ IF obj.finalizer
     THEN obj' = [obj EXCEPT !.deleting = TRUE] /\ UNCHANGED gaps
     ELSE /\ obj' = Gone(obj.uid)
          /\ gaps' = IF obj.uid \in {job.uid, listed.uid} THEN gaps \union {"escaped"} ELSE gaps
  /\ UNCHANGED handled
-----------------------------------------------------------------------------
Operator ==
  \/ ListSchedules \/ LoadSchedules
  \/ AddFinalizer \/ OnCreate \/ OnUpdate \/ OnDelete
  \/ WriteCondition \/ Raise \/ Record

Next == Operator \/ Crash \/ CreateSchedule \/ EditSchedule \/ DeleteSchedule

Spec == Init /\ [][Next]_vars

\* The operator is restarted when it died, kopf handles what differs, and
\* every request ends.  Users need do nothing.
FairSpec == Spec /\ WF_vars(Operator)
-----------------------------------------------------------------------------
(* Properties *)

\* Nothing is left for kopf to do with an existing resource.
Quiet ==
  /\ operator = "up" /\ op.pc = "idle"
  /\ obj.exists /\ obj.finalizer /\ ~obj.deleting
  /\ handled = obj.spec

\* No user was faster than kopf's bookkeeping.  A change taken back matters
\* only when a restart hides it from kopf, or when a handler had acted on the
\* change and kopf could not record it.
Tracked ==
  \/ gaps = {}
  \/ gaps = {"reverted"} /\ budget.crashes = 0 /\ budget.faults = 0

\* Once everything is handled the job in memory is the one of the resource:
\* registered exactly if it is enabled, with its current spec and uid, however
\* restarts, retries and edits were interleaved.
JobIsCurrent ==
  Quiet /\ Tracked
    => job = IF obj.spec.enabled /\ Good(obj.spec) THEN JobOf(obj) ELSE NoJob

\* No job survives its schedule.
NoGhostJob ==
  operator = "up" /\ ~obj.exists /\ "escaped" \notin gaps => job = NoJob

\* The operator catches up with its users, unless a cron expression stays invalid.
CatchesUp ==
  <>[](~obj.exists \/ Quiet \/ (obj.spec.enabled /\ ~Good(obj.spec)))

\* The finalizer never blocks a deletion for ever.
DeletionEnds == obj.deleting ~> ~obj.exists

=============================================================================
