-------------------------- MODULE Schedules_proofs --------------------------
(***************************************************************************)
(* Theorems about Schedules for every set of schedules, every bound on     *)
(* failures, restarts and writes, and every interleaving of them.          *)
(***************************************************************************)
EXTENDS Schedules, TLAPS

\* The job that a resource with this spec and uid should have.
JobFor(spec, uid) ==
  IF spec.enabled /\ Good(spec) THEN [spec |-> spec, uid |-> uid] ELSE NoJob

\* What is in memory when, and that a handler's resource cannot disappear.
Memory ==
  /\ operator # "listed" => listed = NoJob
  /\ operator # "up" => job = NoJob /\ op.pc = "idle"
  /\ op.pc # "idle" => obj.exists /\ obj.finalizer
  /\ obj.exists => obj.spec \in UserSpec

\* A handler of a deletion has removed the job before it awaits anything; any
\* other handler that will return has brought the job in line with its spec.
Handling ==
  /\ op.pc = "return" => ~op.raises
  /\ op.pc # "idle" /\ op.deletes => obj.deleting /\ job = NoJob
  /\ op.pc \in {"condition", "return"} /\ ~op.raises /\ ~op.deletes
        /\ gaps \subseteq {"reverted"}
       => job = JobFor(op.spec, obj.uid)

\* Jobs, registered or about to be, belong to the resource that exists.
Owned ==
  "escaped" \notin gaps
    => /\ job # NoJob => obj.exists /\ job.uid = obj.uid
       /\ listed # NoJob => obj.exists /\ listed.uid = obj.uid

\* A disabled resource that kopf never recorded as enabled has no job, which
\* is why the handlers need not remove one.
NeverEnabled ==
  gaps \subseteq {"reverted"} /\ ~handled.enabled /\ ~obj.spec.enabled
    => job = NoJob /\ ~listed.spec.enabled

Live == obj.exists /\ ~obj.deleting

\* A resource that kopf sees no change of was not changed since it was listed,
\* has no handler in progress, and has its job.
Seen ==
  gaps = {} /\ Live /\ handled = obj.spec
    => /\ op.pc = "idle"
       /\ operator = "listed" => listed = JobOf(obj)
       /\ operator = "up" => job = JobFor(obj.spec, obj.uid)

\* Without failures and restarts the job is that of the spec recorded last,
\* except while a handler that will return has yet to record its own.
Followed ==
  budget.crashes = 0 /\ budget.faults = 0 /\ gaps \subseteq {"reverted"} /\ Live
      /\ handled # NoSpec
      /\ (op.pc \in {"idle", "raise"} \/ op.raises)
    => operator = "up" /\ job = JobFor(handled, obj.uid)

IInv == TypeOK /\ Memory /\ Handling /\ Owned /\ NeverEnabled /\ Seen /\ Followed
-----------------------------------------------------------------------------
\* The records that the actions assign.
LEMMA GoneObject == \A u \in Nat : Gone(u) \in Object
  BY DEF Gone, Object, Specs

LEMMA BeginOp ==
  \A s \in Specs, c \in {"True", "False"}, r, d \in BOOLEAN :
    [pc |-> "condition", spec |-> s, condition |-> c, raises |-> r, deletes |-> d] \in Op
  BY DEF Op

LEMMA HandlerOps == Raising \in Op /\ \A s \in Specs : Returning(s) \in Op
  BY DEF Raising, Returning, Op, Specs

LEMMA InitIInv == Init => IInv
  BY CronAssumption DEF Init, IInv, TypeOK, Memory, Handling, Owned, NeverEnabled,
    Seen, Followed, Gone, NoJob, Idle, Object, Job, Op, Specs

LEMMA StepIInv == IInv /\ [Next]_vars => IInv'
<1> SUFFICES ASSUME IInv, [Next]_vars PROVE IInv'
  OBVIOUS
<1> USE CronAssumption, BoundsAssumption
<1> USE DEF IInv
<1>1. CASE ListSchedules
  <2>1. TypeOK'
    BY <1>1 DEF ListSchedules, Fault, JobOf, TypeOK, Memory, Object
  <2>2. Memory'
    BY <1>1 DEF ListSchedules, Memory
  <2>3. Handling'
    BY <1>1 DEF ListSchedules, Handling
  <2>4. Owned'
    BY <1>1 DEF ListSchedules, JobOf, Owned
  <2>5. NeverEnabled'
    BY <1>1 DEF ListSchedules, JobOf, Memory, NeverEnabled
  <2>6. Seen'
    BY <1>1 DEF ListSchedules, Seen, Live
  <2>7. Followed'
    BY <1>1 DEF ListSchedules, Fault, TypeOK, Followed, Live
  <2>8. QED  BY <2>1, <2>2, <2>3, <2>4, <2>5, <2>6, <2>7
<1>2. CASE LoadSchedules
  <2>1. TypeOK'
    BY <1>2 DEF LoadSchedules, TypeOK, Job, Specs, NoJob, NoSpec
  <2>2. Memory'
    BY <1>2 DEF LoadSchedules, Memory
  <2>3. Handling'
    BY <1>2 DEF LoadSchedules, Memory, Handling
  <2>4. Owned'
    BY <1>2 DEF LoadSchedules, Owned
  <2>5. NeverEnabled'
    BY <1>2 DEF LoadSchedules, NeverEnabled, NoJob, NoSpec
  <2>6. Seen'
    <3>1. CASE gaps = {} /\ Live /\ handled = obj.spec
      <4>1. listed = [spec |-> obj.spec, uid |-> obj.uid]
        BY <1>2, <3>1 DEF LoadSchedules, Seen, JobOf
      <4>2. listed.spec = obj.spec
        BY <4>1
      <4>3. job' = JobFor(obj.spec, obj.uid)
        BY <1>2, <4>1, <4>2 DEF LoadSchedules, Memory, JobFor
      <4> QED  BY <1>2, <3>1, <4>3 DEF LoadSchedules, Memory, Seen, Live
    <3>2. CASE ~(gaps = {} /\ Live /\ handled = obj.spec)
      BY <1>2, <3>2 DEF LoadSchedules, Seen, Live
    <3> QED  BY <3>1, <3>2
  <2>7. Followed'
    BY <1>2 DEF LoadSchedules, Followed, Live
  <2>8. QED  BY <2>1, <2>2, <2>3, <2>4, <2>5, <2>6, <2>7
<1>3. CASE AddFinalizer
  <2>1. TypeOK'
    BY <1>3 DEF AddFinalizer, TypeOK, Object
  <2>2. Memory'
    BY <1>3 DEF AddFinalizer, Memory
  <2>3. Handling'
    BY <1>3 DEF AddFinalizer, Handling
  <2>4. Owned'
    BY <1>3 DEF AddFinalizer, Owned
  <2>5. NeverEnabled'
    BY <1>3 DEF AddFinalizer, NeverEnabled
  <2>6. Seen'
    BY <1>3 DEF AddFinalizer, Seen, Live
  <2>7. Followed'
    BY <1>3 DEF AddFinalizer, Followed, Live
  <2>8. QED  BY <2>1, <2>2, <2>3, <2>4, <2>5, <2>6, <2>7
<1>4. CASE OnCreate
  <2>1. TypeOK'
    <3>1. obj.spec \in UserSpec /\ obj.uid \in Nat /\ obj.spec \in Specs
      BY <1>4 DEF OnCreate, Called, TypeOK, Memory, Object
    <3>2. job' \in Job
      BY <1>4, <3>1 DEF OnCreate, Register, Unregister, Begin, TypeOK, Job, JobOf
    <3>3. op' \in Op
      <4>1. \A c \in {"True", "False"}, r, d \in BOOLEAN : Begin(c, r, d) => op' \in Op
        BY <3>1, BeginOp DEF Begin
      <4>2. \A u, d \in BOOLEAN : Unregister(u, d) => op' \in Op
        BY <4>1 DEF Unregister
      <4>3. Register => op' \in Op
        BY <4>1 DEF Register
      <4> QED  BY <1>4, <3>1, <4>1, <4>2, <4>3, HandlerOps DEF OnCreate
    <3> QED  BY <1>4, <3>2, <3>3 DEF OnCreate, Called, TypeOK
  <2>2. Memory'
    BY <1>4 DEF OnCreate, Called, Memory
  <2>3. Handling'
    BY <1>4 DEF OnCreate, Called, Register, Unregister, Begin, JobOf, Handling,
      NeverEnabled, JobFor, NoSpec
  <2>4. Owned'
    BY <1>4 DEF OnCreate, Called, Register, Unregister, Begin, JobOf, Owned
  <2>5. NeverEnabled'
    BY <1>4 DEF OnCreate, Called, Unregister, NeverEnabled
  <2>6. Seen'
    BY <1>4 DEF OnCreate, Called, Memory, Seen, UserSpec, NoSpec
  <2>7. Followed'
    BY <1>4 DEF OnCreate, Called, Followed
  <2>8. QED  BY <2>1, <2>2, <2>3, <2>4, <2>5, <2>6, <2>7
<1>5. CASE OnUpdate
  <2>1. TypeOK'
    <3>1. obj.spec \in UserSpec /\ obj.uid \in Nat /\ obj.spec \in Specs
      BY <1>5 DEF OnUpdate, Called, TypeOK, Memory, Object
    <3>2. job' \in Job
      BY <1>5, <3>1 DEF OnUpdate, Register, Update, Unregister, Begin, TypeOK, Job,
        JobOf
    <3>3. op' \in Op
      <4>1. \A c \in {"True", "False"}, r, d \in BOOLEAN : Begin(c, r, d) => op' \in Op
        BY <3>1, BeginOp DEF Begin
      <4>2. \A u, d \in BOOLEAN : Unregister(u, d) => op' \in Op
        BY <4>1 DEF Unregister
      <4>3. Register => op' \in Op
        BY <4>1 DEF Register
      <4> QED  BY <1>5, <3>1, <4>1, <4>2, <4>3, HandlerOps DEF OnUpdate, Update
    <3> QED  BY <1>5, <3>2, <3>3 DEF OnUpdate, Called, TypeOK
  <2>2. Memory'
    BY <1>5 DEF OnUpdate, Called, Memory
  <2>3. Handling'
    BY <1>5 DEF OnUpdate, Called, Register, Update, Unregister, Begin, JobOf, Raising,
      Returning, Handling, NeverEnabled, JobFor
  <2>4. Owned'
    BY <1>5 DEF OnUpdate, Called, Register, Update, Unregister, Begin, JobOf, Owned
  <2>5. NeverEnabled'
    BY <1>5 DEF OnUpdate, Called, Unregister, NeverEnabled
  <2>6. Seen'
    BY <1>5 DEF OnUpdate, Called, Seen
  <2>7. Followed'
    BY <1>5 DEF OnUpdate, Called, Register, Update, Unregister, Begin, Followed, Live
  <2>8. QED  BY <2>1, <2>2, <2>3, <2>4, <2>5, <2>6, <2>7
<1>6. CASE OnDelete
  <2>1. TypeOK'
    BY <1>6 DEF OnDelete, Called, Unregister, Begin, TypeOK, Object, Job, Op
  <2>2. Memory'
    BY <1>6 DEF OnDelete, Called, Memory
  <2>3. Handling'
    BY <1>6 DEF OnDelete, Called, Unregister, Begin, Handling
  <2>4. Owned'
    BY <1>6 DEF OnDelete, Called, Unregister, Owned
  <2>5. NeverEnabled'
    BY <1>6 DEF OnDelete, Called, Unregister, NeverEnabled
  <2>6. Seen'
    BY <1>6 DEF OnDelete, Called, Seen, Live
  <2>7. Followed'
    BY <1>6 DEF OnDelete, Unregister, Begin, Followed
  <2>8. QED  BY <2>1, <2>2, <2>3, <2>4, <2>5, <2>6, <2>7
<1>7. CASE WriteCondition
  <2>1. TypeOK'
    <3>1. obj' \in Object
      BY <1>7 DEF WriteCondition, TypeOK, Object, Op
    <3>2. op' \in Op
      BY <1>7 DEF WriteCondition, AfterCondition, TypeOK, Op
    <3>3. budget' \in [faults : Nat, crashes : Nat, writes : Nat]
      BY <1>7 DEF WriteCondition, Fault, TypeOK
    <3> QED  BY <1>7, <3>1, <3>2, <3>3 DEF WriteCondition, TypeOK
  <2>2. Memory'
    BY <1>7 DEF WriteCondition, TypeOK, Memory, Object
  <2>3. Handling'
    BY <1>7 DEF WriteCondition, AfterCondition, TypeOK, Handling, Object
  <2>4. Owned'
    BY <1>7 DEF WriteCondition, TypeOK, Owned, Object
  <2>5. NeverEnabled'
    BY <1>7 DEF WriteCondition, TypeOK, NeverEnabled, Object
  <2>6. Seen'
    BY <1>7 DEF WriteCondition, TypeOK, Seen, Live, Object
  <2>7. Followed'
    BY <1>7 DEF WriteCondition, AfterCondition, Fault, TypeOK, Followed, Live, Object
  <2>8. QED  BY <2>1, <2>2, <2>3, <2>4, <2>5, <2>6, <2>7
<1>8. CASE Raise
  <2>1. TypeOK'
    BY <1>8 DEF Raise, TypeOK, Op, Specs, Idle
  <2>2. Memory'
    BY <1>8 DEF Raise, Memory
  <2>3. Handling'
    BY <1>8 DEF Raise, Handling, Idle
  <2>4. Owned'
    BY <1>8 DEF Raise, Owned
  <2>5. NeverEnabled'
    BY <1>8 DEF Raise, NeverEnabled
  <2>6. Seen'
    BY <1>8 DEF Raise, Seen, Live
  <2>7. Followed'
    BY <1>8 DEF Raise, Followed, Live
  <2>8. QED  BY <2>1, <2>2, <2>3, <2>4, <2>5, <2>6, <2>7
<1>9. CASE Record
  <2>1. TypeOK'
    <3>1. obj' \in Object /\ handled' \in Specs
      BY <1>9, GoneObject DEF Record, TypeOK, Object, Op
    <3>2. op' \in Op
      BY <1>9 DEF Record, Idle, Op, Specs
    <3>3. budget' \in [faults : Nat, crashes : Nat, writes : Nat]
      BY <1>9 DEF Record, Fault, TypeOK
    <3> QED  BY <1>9, <3>1, <3>2, <3>3 DEF Record, TypeOK
  <2>2. Memory'
    BY <1>9 DEF Record, Gone, Memory, Idle
  <2>3. Handling'
    BY <1>9 DEF Record, Handling, Idle
  <2>4. Owned'
    BY <1>9 DEF Record, Memory, Handling, Owned
  <2>5. NeverEnabled'
    BY <1>9 DEF Record, Memory, Handling, NeverEnabled, JobFor, NoJob, NoSpec
  <2>6. Seen'
    BY <1>9 DEF Record, Gone, Memory, Handling, Seen, Live, Idle
  <2>7. Followed'
    BY <1>9 DEF Record, Gone, Fault, TypeOK, Memory, Handling, Followed, Live
  <2>8. QED  BY <2>1, <2>2, <2>3, <2>4, <2>5, <2>6, <2>7
<1>10. CASE Crash
  <2>1. TypeOK'
    BY <1>10 DEF Crash, TypeOK, Job, Op, Specs, NoJob, Idle
  <2>2. Memory'
    BY <1>10 DEF Crash, Memory, Idle
  <2>3. Handling'
    BY <1>10 DEF Crash, Handling, Idle
  <2>4. Owned'
    BY <1>10 DEF Crash, Owned
  <2>5. NeverEnabled'
    BY <1>10 DEF Crash, NeverEnabled, NoJob, NoSpec
  <2>6. Seen'
    BY <1>10 DEF Crash, Seen, Idle
  <2>7. Followed'
    BY <1>10 DEF Crash, TypeOK, Followed
  <2>8. QED  BY <2>1, <2>2, <2>3, <2>4, <2>5, <2>6, <2>7
<1>11. CASE CreateSchedule
  <2>1. TypeOK'
    BY <1>11 DEF CreateSchedule, UserWrites, Created, TypeOK, Object, Specs
  <2>2. Memory'
    BY <1>11 DEF CreateSchedule, UserWrites, Created, Memory
  <2>3. Handling'
    BY <1>11 DEF CreateSchedule, UserWrites, Memory, Handling
  <2>4. Owned'
    BY <1>11 DEF CreateSchedule, UserWrites, Owned
  <2>5. NeverEnabled'
    BY <1>11 DEF CreateSchedule, UserWrites, Owned, NeverEnabled, NoJob
  <2>6. Seen'
    BY <1>11 DEF CreateSchedule, Created, Seen, UserSpec, NoSpec
  <2>7. Followed'
    BY <1>11 DEF CreateSchedule, Followed
  <2>8. QED  BY <2>1, <2>2, <2>3, <2>4, <2>5, <2>6, <2>7
<1>12. CASE EditSchedule
  <2>1. TypeOK'
    BY <1>12 DEF EditSchedule, UserWrites, TypeOK, Object, Specs
  <2>2. Memory'
    BY <1>12 DEF EditSchedule, UserWrites, Memory
  <2>3. Handling'
    BY <1>12 DEF EditSchedule, UserWrites, Handling
  <2>4. Owned'
    BY <1>12 DEF EditSchedule, UserWrites, Owned
  <2>5. NeverEnabled'
    BY <1>12 DEF EditSchedule, UserWrites, NeverEnabled, Gaps
  <2>6. Seen'
    BY <1>12 DEF EditSchedule, Seen, Gaps
  <2>7. Followed'
    BY <1>12 DEF EditSchedule, UserWrites, Followed, Live
  <2>8. QED  BY <2>1, <2>2, <2>3, <2>4, <2>5, <2>6, <2>7
<1>13. CASE DeleteSchedule
  <2>1. TypeOK'
    <3>1. obj' \in Object
      <4>1. CASE obj.finalizer
        BY <1>13, <4>1 DEF DeleteSchedule, TypeOK, Object
      <4>2. CASE ~obj.finalizer
        <5>1. obj.uid \in Nat
          BY DEF TypeOK, Object
        <5> QED  BY <1>13, <4>2, <5>1, GoneObject DEF DeleteSchedule
      <4> QED  BY <4>1, <4>2
    <3>2. gaps' \subseteq Gaps
      BY <1>13 DEF DeleteSchedule, TypeOK, Gaps
    <3>3. budget' \in [faults : Nat, crashes : Nat, writes : Nat]
      BY <1>13 DEF DeleteSchedule, UserWrites, TypeOK
    <3> QED  BY <1>13, <3>1, <3>2, <3>3 DEF DeleteSchedule, UserWrites, TypeOK
  <2>2. Memory'
    BY <1>13 DEF DeleteSchedule, UserWrites, Gone, TypeOK, Memory, Object
  <2>3. Handling'
    BY <1>13 DEF DeleteSchedule, UserWrites, Gone, TypeOK, Handling, Object
  <2>4. Owned'
    BY <1>13 DEF DeleteSchedule, UserWrites, TypeOK, Owned, Object
  <2>5. NeverEnabled'
    BY <1>13 DEF DeleteSchedule, UserWrites, Gone, TypeOK, Owned, NeverEnabled,
      Object, NoJob
  <2>6. Seen'
    BY <1>13 DEF DeleteSchedule, Gone, TypeOK, Seen, Live, Object
  <2>7. Followed'
    BY <1>13 DEF DeleteSchedule, Gone, TypeOK, Followed, Live, Object
  <2>8. QED  BY <2>1, <2>2, <2>3, <2>4, <2>5, <2>6, <2>7
<1>14. CASE UNCHANGED vars
  BY <1>14 DEF vars, TypeOK, Memory, Handling, Owned, NeverEnabled, Seen, Followed, Live
<1>15. QED
  BY <1>1, <1>2, <1>3, <1>4, <1>5, <1>6, <1>7, <1>8, <1>9, <1>10, <1>11, <1>12, <1>13, <1>14 DEF
    Next, Operator

THEOREM Invariant == Spec => []IInv
  BY InitIInv, StepIInv, PTL DEF Spec

\* The variables keep their types, and every job in memory is that of an
\* enabled schedule with a valid cron expression (SchedulerManager.add_schedule
\* and its callers).
THEOREM TypeCorrect == Spec => []TypeOK
<1>1. IInv => TypeOK
  BY DEF IInv
<1> QED  BY <1>1, Invariant, PTL

\* No job survives its schedule (remove_schedule, called by the delete handler)
\* unless it was registered by the startup and deleted before kopf had added
\* its finalizer.
THEOREM NoGhosts == Spec => []NoGhostJob
<1>1. IInv => NoGhostJob
  BY DEF IInv, Owned, NoGhostJob
<1> QED  BY <1>1, Invariant, PTL

\* Once kopf has nothing left to handle, the job in memory is the one that the
\* resource asks for, whatever restarts, failed requests and retries went
\* before (the handlers, add_schedule, remove_schedule, _load_existing_schedules).
THEOREM JobsFollow == Spec => []JobIsCurrent
<1>1. IInv => JobIsCurrent
  <2> SUFFICES ASSUME IInv, Quiet, Tracked
               PROVE  job = JobFor(obj.spec, obj.uid)
    BY DEF JobIsCurrent, JobFor, JobOf
  <2>1. CASE gaps = {}
    BY <2>1 DEF IInv, Seen, Quiet, Live
  <2>2. CASE gaps = {"reverted"} /\ budget.crashes = 0 /\ budget.faults = 0
    <3>1. handled # NoSpec
      BY CronAssumption DEF IInv, Memory, Quiet, UserSpec, NoSpec
    <3> QED  BY <2>2, <3>1 DEF IInv, Followed, Quiet, Live
  <2> QED  BY <2>1, <2>2 DEF Tracked
<1> QED  BY <1>1, Invariant, PTL
=============================================================================
