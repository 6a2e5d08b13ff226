------------------------- MODULE HealthChecks_proofs ------------------------
(***************************************************************************)
(* Proofs about HealthChecks for every set of results and every limit:     *)
(* type correctness, that kopf never takes an unfinished check for         *)
(* handled, that readers see the lifecycle of CheckLifecycle, on which the *)
(* watchers of ScheduledChecks rely, and that a check is executed no more  *)
(* often than its causes allow.                                            *)
(***************************************************************************)
EXTENDS HealthChecks, TLAPS

Budget == [faults : Nat, crashes : Nat, late : Nat, edits : Nat, toggles : Nat]

\* The status is what a handler that returned has left.
FinalNow ==
  /\ obj.phase = "Completed"
  /\ obj.result = "error" => "Failed" \in obj.conditions
  /\ obj.result # "error" => "Complete" \in obj.conditions

\* No PATCH of a dead operator has come in and no rerun was withdrawn.
Undisturbed == budget.late = 0 /\ ~withdrawn

\* kopf calls the handler only for what it has not handled, and a check that
\* stops being different meanwhile is a withdrawn rerun.
RunningUnhandled ==
  op.pc # "idle" => /\ handled # "rerun"
                    /\ handled = "absent" => obj.rerun = "rerun" \/ withdrawn

\* The condition that is being written belongs to the status that was written.
ConditionOfStatus ==
  op.pc \in {"read", "write"} /\ ~op.raising /\ budget.late = 0
    => obj.phase = "Completed" /\ obj.result = op.verdict

\* What kopf has handled and is not handling again is final.
HandledFinal ==
  op.pc = "idle" /\ (handled = "rerun" \/ handled = obj.rerun) /\ Undisturbed => FinalNow

Writes == StatusWrites \union {"write"}

IInv ==
  /\ TypeOK
  /\ \A t \in limbo : t.pc \in Writes
  /\ op.pc = "failed" => op.raising
  /\ RunningUnhandled
  /\ ConditionOfStatus
  /\ HandledFinal
-----------------------------------------------------------------------------
\* The local state of a handler that is not running is well typed.
LEMMA IdleLemma == Idle \in Op /\ Idle.pc = "idle"
<1>1. 0 \in 0..(MaxAttempts - 1) /\ 0 \in 0..(MaxRetries - 1) /\ "error" \in Status
  BY LimitsAssumption, StatusAssumption
<1> DEFINE none == [rv |-> 0, conditions |-> {}]
<1>2. none \in [rv : Nat, conditions : SUBSET Conditions]
  OBVIOUS
<1> HIDE DEF none
<1>3. [pc |-> "idle", rerun |-> "absent", attempt |-> 0, retry |-> 0,
       verdict |-> "error", raising |-> FALSE, seen |-> none] \in Op
  BY <1>1, <1>2 DEF Op, Places, StatusWrites, Annotation
<1> QED
  BY <1>3 DEF Idle, none

\* What the control flow functions return from each place.
LEMMA FlowLemma ==
  ASSUME NEW t \in Op
  PROVE  /\ t.pc \in StatusWrites => Written(t) \in Op
         /\ t.pc = "pending" => Written(t).pc = "running"
         /\ t.pc = "running" => Written(t).pc = "call"
         /\ t.pc \in {"complete", "failed"}
              => /\ Written(t).pc = "read" /\ Written(t).raising = t.raising
                 /\ Written(t).verdict = t.verdict
         /\ Threw(t) \in Op
         /\ Threw(t).pc \in {"idle", "failed"}
         /\ Threw(t).pc = "failed" => Threw(t).raising
         /\ Conflicted(t) \in Op
         /\ Conflicted(t).pc = "read" \/ Conflicted(t) = Threw(t)
         /\ Conflicted(t).pc = "read"
              => /\ Conflicted(t).raising = t.raising
                 /\ Conflicted(t).verdict = t.verdict
         /\ Unanswered(t) \in Op
         /\ Unanswered(t) = Threw(t) \/ Unanswered(t).pc = t.pc
<1>1. 0 \in 0..(MaxRetries - 1)
  BY LimitsAssumption
<1>2. /\ t.pc \in StatusWrites => Written(t) \in Op
      /\ t.pc = "pending" => Written(t).pc = "running"
      /\ t.pc = "running" => Written(t).pc = "call"
      /\ t.pc \in {"complete", "failed"}
           => /\ Written(t).pc = "read" /\ Written(t).raising = t.raising
              /\ Written(t).verdict = t.verdict
  <2>1. CASE t.pc = "pending"
    BY <2>1 DEF Written, Op, Places, StatusWrites
  <2>2. CASE t.pc = "running"
    BY <2>2 DEF Written, Op, Places, StatusWrites
  <2>3. CASE t.pc \in {"complete", "failed"}
    BY <1>1, <2>3 DEF Written, StartCondition, Op, Places, StatusWrites
  <2> QED
    BY <2>1, <2>2, <2>3 DEF StatusWrites
<1>3. /\ Threw(t) \in Op
      /\ Threw(t).pc \in {"idle", "failed"}
      /\ Threw(t).pc = "failed" => Threw(t).raising
  <2>1. CASE t.pc = "pending" \/ t.raising
    BY <2>1, IdleLemma DEF Threw
  <2>2. CASE ~(t.pc = "pending" \/ t.raising)
    <3>1. PICK yes \in BOOLEAN : yes = TRUE
      OBVIOUS
    <3>2. Threw(t) = [t EXCEPT !.pc = "failed", !.raising = yes]
      BY <2>2, <3>1 DEF Threw
    <3> QED
      BY <3>1, <3>2 DEF Op, Places, StatusWrites
  <2> QED
    BY <2>1, <2>2
<1>4. /\ Conflicted(t) \in Op
      /\ Conflicted(t).pc = "read" \/ Conflicted(t) = Threw(t)
      /\ Conflicted(t).pc = "read"
           => /\ Conflicted(t).raising = t.raising
              /\ Conflicted(t).verdict = t.verdict
  <2>1. CASE t.retry + 1 = MaxRetries
    BY <1>3, <2>1 DEF Conflicted
  <2>2. CASE t.retry + 1 # MaxRetries
    <3>1. PICK n \in 0..(MaxRetries - 1) : n = t.retry + 1
      BY <2>2, LimitsAssumption DEF Op
    <3>2. Conflicted(t) = [t EXCEPT !.pc = "read", !.retry = n]
      BY <2>2, <3>1 DEF Conflicted
    <3> QED
      BY <3>2 DEF Op, Places, StatusWrites
  <2> QED
    BY <2>1, <2>2
<1>5. /\ Unanswered(t) \in Op
      /\ Unanswered(t) = Threw(t) \/ Unanswered(t).pc = t.pc
  <2>1. CASE t.attempt + 1 = MaxAttempts
    BY <1>3, <2>1 DEF Unanswered
  <2>2. CASE t.attempt + 1 # MaxAttempts
    <3>1. PICK n \in 0..(MaxAttempts - 1) : n = t.attempt + 1
      BY <2>2, LimitsAssumption DEF Op
    <3>2. Unanswered(t) = [t EXCEPT !.attempt = n]
      BY <2>2, <3>1 DEF Unanswered
    <3> QED
      BY <3>2 DEF Op
  <2> QED
    BY <2>1, <2>2
<1> QED
  BY <1>2, <1>3, <1>4, <1>5

\* What a write that the server accepts does to the resource.
LEMMA ApplyLemma ==
  ASSUME obj \in Object, reported \subseteq Status,
         NEW t \in Op, t.pc \in Writes, Current(t), Apply(t)
  PROVE  /\ obj' \in Object /\ reported' \subseteq Status
         /\ obj'.exists = obj.exists /\ obj'.rerun = obj.rerun /\ obj.exists
         /\ t.pc = "complete" => obj'.phase = "Completed" /\ obj'.result = t.verdict
         /\ t.pc = "write" => /\ obj'.phase = obj.phase /\ obj'.result = obj.result
                              /\ ConditionOf(t) \in obj'.conditions
         /\ [Lifecycle!Next]_(Lifecycle!shown)
<1> DEFINE next == IF t.pc = "write" THEN ConditionWritten(obj, t) ELSE StatusWritten(obj, t)
<1>1. /\ obj' = [next EXCEPT !.rv = @ + 1]
      /\ reported' = IF t.pc \in {"complete", "failed"} THEN reported \union {next.result}
                                                         ELSE reported
      /\ obj.exists
  BY DEF Apply, Current
<1>2. /\ next \in Object
      /\ next.exists = obj.exists /\ next.rerun = obj.rerun
      /\ t.pc = "pending" => next.phase = "Pending" /\ next.result = obj.result
      /\ t.pc = "running" => next.phase = "Running" /\ next.result = obj.result
      /\ t.pc = "complete" => next.phase = "Completed" /\ next.result = t.verdict
      /\ t.pc = "failed" => next.phase = "Failed" /\ next.result = "error"
      /\ t.pc = "write" => /\ next.phase = obj.phase /\ next.result = obj.result
                           /\ ConditionOf(t) \in next.conditions
  <2> USE DEF Object, Phases, Final
  <2>1. CASE t.pc = "pending"
    BY <2>1 DEF StatusWritten
  <2>2. CASE t.pc = "running"
    BY <2>2 DEF StatusWritten
  <2>3. CASE t.pc = "complete"
    <3>1. PICK e \in BOOLEAN : e = (obj.error \/ t.verdict = "error")
      OBVIOUS
    <3>2. next = [obj EXCEPT !.phase = "Completed", !.result = t.verdict, !.error = e]
      BY <2>3, <3>1 DEF StatusWritten
    <3>3. t.verdict \in Status
      BY DEF Op
    <3> HIDE DEF next
    <3> QED
      BY <2>3, <3>2, <3>3
  <2>4. CASE t.pc = "failed"
    <3>1. PICK e \in BOOLEAN : e = TRUE
      OBVIOUS
    <3>2. next = [obj EXCEPT !.phase = "Failed", !.result = "error", !.error = e]
      BY <2>4, <3>1 DEF StatusWritten
    <3> HIDE DEF next
    <3> QED
      BY <2>4, <3>2, StatusAssumption
  <2>5. CASE t.pc = "write"
    <3>1. PICK cs \in SUBSET Conditions : cs = t.seen.conditions \union {ConditionOf(t)}
      BY DEF Op, Conditions, ConditionOf
    <3>2. next = [obj EXCEPT !.conditions = cs]
      BY <2>5, <3>1 DEF ConditionWritten
    <3> HIDE DEF next
    <3> QED
      BY <2>5, <3>1, <3>2
  <2> QED
    BY <2>1, <2>2, <2>3, <2>4, <2>5 DEF Writes, StatusWrites
<1> HIDE DEF next
<1>3. /\ obj' \in Object
      /\ obj'.exists = next.exists /\ obj'.rerun = next.rerun /\ obj'.phase = next.phase
      /\ obj'.result = next.result /\ obj'.conditions = next.conditions
  <2>1. PICK n \in Nat : n = next.rv + 1
    BY <1>2 DEF Object
  <2> QED
    BY <1>1, <1>2, <2>1 DEF Object
<1>4. reported' \subseteq Status
  BY <1>1, <1>2, StatusAssumption DEF Op
<1>5. [Lifecycle!Next]_(Lifecycle!shown)
  <2> USE DEF ShownPhase, Lifecycle!shown, Final
  <2>1. ASSUME NEW r \in Status, t.pc \in {"complete", "failed"}, next.result = r
        PROVE  Lifecycle!Next
    <3>1. Lifecycle!Finish(r)
      BY <1>1, <1>2, <1>3, <2>1 DEF Lifecycle!Finish
    <3> QED
      BY <3>1 DEF Lifecycle!Next
  <2>2. CASE t.pc \in {"pending", "running"} /\ obj.phase \in Final
    <3>1. Lifecycle!Rerun
      BY <1>1, <1>2, <1>3, <2>2 DEF Lifecycle!Rerun
    <3> QED
      BY <3>1 DEF Lifecycle!Next
  <2>3. CASE t.pc \in {"pending", "running"} /\ obj.phase \notin Final
    BY <1>1, <1>2, <1>3, <2>3
  <2>4. CASE t.pc = "write"
    BY <1>1, <1>2, <1>3, <2>4
  <2>5. CASE t.pc \in {"complete", "failed"}
    BY <1>2, <2>1, <2>5, StatusAssumption DEF Op
  <2> QED
    BY <2>2, <2>3, <2>4, <2>5 DEF Writes, StatusWrites
<1> QED
  BY <1>1, <1>2, <1>3, <1>4, <1>5
-----------------------------------------------------------------------------
(* The steps *)

\* A failed request is counted.
LEMMA FaultLemma ==
  ASSUME budget \in Budget, NEW kind, Fault(kind)
  PROVE  budget' \in Budget /\ budget'.late = budget.late
<1>1. PICK n \in Nat : n = budget.faults + 1
  BY DEF Budget
<1>2. budget' = [budget EXCEPT !.faults = n]
  BY <1>1 DEF Fault
<1> QED
  BY <1>2 DEF Budget

\* A handler that stops without returning leaves nothing handled.
LEMMA StopLemma ==
  ASSUME IInv, op.pc # "idle", UNCHANGED <<handled, withdrawn>>, obj'.rerun = obj.rerun
  PROVE  HandledFinal'
<1>1. handled # "rerun" /\ (handled = "absent" => obj.rerun = "rerun" \/ withdrawn)
  BY DEF IInv, RunningUnhandled
<1>2. obj.rerun \in {"absent", "rerun"}
  BY DEF IInv, TypeOK, Object, Annotation
<1> QED
  BY <1>1, <1>2 DEF HandledFinal, Undisturbed

\* The handler threw: what it leaves behind is not mistaken for handled.
LEMMA ThrewStep ==
  ASSUME IInv, op.pc # "idle", UNCHANGED <<handled, limbo, withdrawn>>,
         \/ op' = Threw(op)
         \/ (op' = Unanswered(op) /\ op.pc = "call")
         \/ (op' = Conflicted(op) /\ op.pc = "write" /\ UNCHANGED obj),
         obj' \in Object, obj'.rerun = obj.rerun, executions' \in Nat,
         reported' \subseteq Status, budget' \in Budget, budget'.late = budget.late
  PROVE  IInv'
<1>1. op' \in Op /\ (op'.pc = "failed" => op'.raising)
  BY FlowLemma DEF IInv, TypeOK
<1>2. \/ op'.pc \in {"idle", "failed", "call"}
      \/ (op'.pc = "read" /\ op' = Conflicted(op) /\ op.pc = "write" /\ UNCHANGED obj)
  BY FlowLemma DEF IInv, TypeOK
<1>3. TypeOK'
  BY <1>1 DEF IInv, TypeOK, Budget
<1>4. RunningUnhandled' /\ HandledFinal'
  BY StopLemma DEF IInv, RunningUnhandled
<1>5. ConditionOfStatus'
  BY <1>2, FlowLemma DEF IInv, TypeOK, ConditionOfStatus
<1> QED
  BY <1>1, <1>3, <1>4, <1>5 DEF IInv

\* The handler went on to the next place.
LEMMA GoneOnStep ==
  ASSUME IInv, op.pc # "idle", op' \in Op, op'.pc # "idle",
         op'.pc = "failed" => op'.raising,
         op'.pc \in {"read", "write"} /\ ~op'.raising /\ budget.late = 0
           => obj'.phase = "Completed" /\ obj'.result = op'.verdict,
         UNCHANGED <<handled, limbo, withdrawn, budget>>,
         obj' \in Object, obj'.rerun = obj.rerun, executions' \in Nat,
         reported' \subseteq Status
  PROVE  IInv'
<1>1. TypeOK'
  BY DEF IInv, TypeOK
<1>2. RunningUnhandled' /\ HandledFinal' /\ ConditionOfStatus'
  BY DEF IInv, RunningUnhandled, HandledFinal, ConditionOfStatus
<1> QED
  BY <1>1, <1>2 DEF IInv

\* The initial state satisfies the invariant.
LEMMA InitInv == Init => IInv
<1> SUFFICES ASSUME Init PROVE IInv
  OBVIOUS
<1>1. TypeOK
  <2>1. obj \in Object
    BY DEF Init, Object, Phases, Annotation
  <2>2. budget \in Budget
    BY DEF Init, Budget
  <2>3. op \in Op
    BY IdleLemma DEF Init
  <2> QED
    BY <2>1, <2>2, <2>3 DEF Init, TypeOK, Budget
<1> QED
  BY <1>1, IdleLemma
     DEF Init, IInv, RunningUnhandled, ConditionOfStatus, HandledFinal, Annotation

\* kopf calls the handler, or notes a change that asks for nothing.
LEMMA InvokeStep == ASSUME IInv, Invoke PROVE IInv'
<1>1. /\ obj \in Object /\ op \in Op /\ op.pc = "idle" /\ handled # obj.rerun
      /\ handled \in {"never"} \union Annotation /\ obj.rerun \in Annotation
      /\ UNCHANGED <<obj, limbo, executions, reported, withdrawn, budget>>
  BY DEF IInv, TypeOK, Invoke, Object
<1>2. CASE /\ handled = "never" \/ obj.rerun = "rerun"
           /\ op' = [op EXCEPT !.pc = "pending", !.rerun = obj.rerun]
           /\ UNCHANGED handled
  <2>1. op' \in Op /\ op'.pc = "pending"
    BY <1>1, <1>2 DEF Op, Places, StatusWrites
  <2>2. TypeOK'
    BY <1>1, <1>2, <2>1 DEF IInv, TypeOK
  <2>3. RunningUnhandled' /\ ConditionOfStatus' /\ HandledFinal'
    BY <1>1, <1>2, <2>1 DEF RunningUnhandled, ConditionOfStatus, HandledFinal
  <2> QED
    BY <1>1, <2>1, <2>2, <2>3 DEF IInv
<1>3. CASE /\ ~(handled = "never" \/ obj.rerun = "rerun")
           /\ handled' = obj.rerun /\ UNCHANGED op
  <2>1. handled = "rerun" /\ obj.rerun = "absent"
    BY <1>1, <1>3 DEF Annotation
  <2> QED
    BY <1>1, <1>3, <2>1
       DEF IInv, TypeOK, RunningUnhandled, ConditionOfStatus, HandledFinal, Undisturbed, FinalNow
<1> QED
  BY <1>2, <1>3 DEF Invoke

\* A status write and the ways it fails.
LEMMA WriteStatusStep == ASSUME IInv, WriteStatus PROVE IInv'
<1>1. /\ obj \in Object /\ op \in Op /\ budget \in Budget /\ reported \subseteq Status
      /\ executions \in Nat /\ op.pc \in StatusWrites /\ op.pc # "idle" /\ op.pc \in Writes
      /\ UNCHANGED <<handled, limbo, executions, withdrawn>>
  BY DEF IInv, TypeOK, WriteStatus, StatusWrites, Writes, Budget
<1>2. CASE Current(op) /\ Apply(op) /\ op' = Written(op) /\ UNCHANGED budget
  <2>1. /\ obj' \in Object /\ reported' \subseteq Status /\ obj'.rerun = obj.rerun
        /\ op.pc = "complete" => obj'.phase = "Completed" /\ obj'.result = op.verdict
    BY <1>1, <1>2, ApplyLemma
  <2>2. op' \in Op /\ op'.pc \in {"running", "call", "read"}
    BY <1>1, <1>2, FlowLemma DEF StatusWrites
  <2>3. op'.pc \in {"read", "write"} /\ ~op'.raising
          => op.pc = "complete" /\ op'.verdict = op.verdict
    BY <1>1, <1>2, FlowLemma DEF StatusWrites, IInv
  <2> QED
    BY <1>1, <1>2, <2>1, <2>2, <2>3, GoneOnStep
<1>3. CASE op' = Threw(op) /\ UNCHANGED <<obj, reported>> /\ UNCHANGED budget
  BY <1>1, <1>3, ThrewStep
<1>4. CASE op' = Threw(op) /\ UNCHANGED <<obj, reported>> /\ Fault("refused")
  BY <1>1, <1>4, FaultLemma, ThrewStep
<1>5. CASE op' = Threw(op) /\ Current(op) /\ Apply(op) /\ Fault("lost")
  BY <1>1, <1>5, FaultLemma, ApplyLemma, ThrewStep
<1> QED
  BY <1>2, <1>3, <1>4, <1>5 DEF WriteStatus

\* An attempt at the API.
LEMMA CallApiStep == ASSUME IInv, CallApi PROVE IInv'
<1>1. /\ obj \in Object /\ op \in Op /\ budget \in Budget /\ reported \subseteq Status
      /\ executions \in Nat /\ op.pc = "call"
      /\ executions' = executions \/ executions' = executions + 1
      /\ UNCHANGED <<obj, handled, limbo, reported, withdrawn>>
  BY DEF IInv, TypeOK, CallApi, Budget
<1>a. executions' \in Nat
  BY <1>1
<1>2. CASE \E r \in Status : op' = [op EXCEPT !.pc = "complete", !.verdict = r]
                             /\ UNCHANGED budget
  <2>0. PICK r \in Status : op' = [op EXCEPT !.pc = "complete", !.verdict = r]
    BY <1>2
  <2>1. op' \in Op /\ op'.pc = "complete"
    BY <1>1, <2>0 DEF Op, Places, StatusWrites
  <2> QED
    BY <1>1, <1>a, <1>2, <2>1, GoneOnStep
<1>3. CASE op' = Unanswered(op) /\ (Fault("lost") \/ Fault("refused"))
  BY <1>1, <1>a, <1>3, FaultLemma, ThrewStep
<1> QED
  BY <1>2, <1>3 DEF CallApi

\* The GET of a condition.
LEMMA ReadStep == ASSUME IInv, ReadConditions PROVE IInv'
<1>1. /\ obj \in Object /\ op \in Op /\ budget \in Budget /\ reported \subseteq Status
      /\ executions \in Nat /\ op.pc = "read"
      /\ UNCHANGED <<obj, handled, limbo, executions, reported, withdrawn>>
  BY DEF IInv, TypeOK, ReadConditions, Budget
<1>2. CASE /\ op' = [op EXCEPT !.pc = "write",
                               !.seen = [rv |-> obj.rv, conditions |-> obj.conditions]]
           /\ UNCHANGED budget
  <2>1. PICK got \in [rv : Nat, conditions : SUBSET Conditions] :
               got = [rv |-> obj.rv, conditions |-> obj.conditions]
    BY <1>1 DEF Object
  <2>2. op' = [op EXCEPT !.pc = "write", !.seen = got]
    BY <1>2, <2>1
  <2>3. op' \in Op /\ op'.pc = "write" /\ op'.raising = op.raising /\ op'.verdict = op.verdict
    BY <1>1, <2>2 DEF Op, Places
  <2>4. op'.pc \in {"read", "write"} /\ ~op'.raising /\ budget.late = 0
          => obj'.phase = "Completed" /\ obj'.result = op'.verdict
    BY <1>1, <2>3 DEF IInv, ConditionOfStatus
  <2> QED
    BY <1>1, <1>2, <2>3, <2>4, GoneOnStep
<1>3. CASE op' = Threw(op) /\ UNCHANGED budget
  BY <1>1, <1>3, ThrewStep
<1>4. CASE op' = Threw(op) /\ Fault("refused")
  BY <1>1, <1>4, FaultLemma, ThrewStep
<1> QED
  BY <1>2, <1>3, <1>4 DEF ReadConditions

\* The PATCH of a condition: here the handler may return.
LEMMA WriteConditionStep == ASSUME IInv, WriteCondition PROVE IInv'
<1>1. /\ obj \in Object /\ op \in Op /\ budget \in Budget /\ reported \subseteq Status
      /\ executions \in Nat /\ op.pc = "write" /\ op.pc \in Writes
      /\ handled \in {"never"} \union Annotation
      /\ UNCHANGED <<limbo, executions, withdrawn>>
  BY DEF IInv, TypeOK, WriteCondition, Budget, Writes
<1>2. CASE Current(op) /\ Apply(op) /\ Leave(op) /\ UNCHANGED budget
  <2>1. /\ obj' \in Object /\ reported' \subseteq Status /\ obj'.rerun = obj.rerun
        /\ obj'.phase = obj.phase /\ obj'.result = obj.result
        /\ ConditionOf(op) \in obj'.conditions
    BY <1>1, <1>2, ApplyLemma
  <2>2. op' = Idle /\ op' \in Op /\ op'.pc = "idle"
    BY <1>2, IdleLemma DEF Leave
  <2>3. handled' \in {"never"} \union Annotation
    BY <1>1, <1>2 DEF Leave, Op
  <2>4. TypeOK'
    BY <1>1, <1>2, <2>1, <2>2, <2>3 DEF IInv, TypeOK
  <2>5. HandledFinal'
    <3>1. CASE op.raising
      BY <1>1, <1>2, <2>1, <3>1, StopLemma DEF Leave
    <3>2. CASE ~op.raising /\ budget.late = 0
      BY <1>1, <2>1, <3>2 DEF IInv, ConditionOfStatus, ConditionOf, HandledFinal, FinalNow
    <3>3. CASE budget.late # 0
      BY <1>2, <3>3 DEF HandledFinal, Undisturbed
    <3> QED
      BY <3>1, <3>2, <3>3
  <2>6. RunningUnhandled' /\ ConditionOfStatus'
    BY <2>2 DEF RunningUnhandled, ConditionOfStatus
  <2> QED
    BY <1>1, <2>2, <2>4, <2>5, <2>6 DEF IInv
<1>3. CASE /\ op' = Threw(op) \/ op' = Conflicted(op)
           /\ UNCHANGED <<obj, handled, reported, budget>>
  BY <1>1, <1>3, ThrewStep
<1>4. CASE op' = Threw(op) /\ UNCHANGED <<obj, handled, reported>> /\ Fault("refused")
  BY <1>1, <1>4, FaultLemma, ThrewStep
<1>5. CASE op' = Threw(op) /\ UNCHANGED handled /\ Current(op) /\ Apply(op) /\ Fault("lost")
  BY <1>1, <1>5, FaultLemma, ApplyLemma, ThrewStep
<1> QED
  BY <1>2, <1>3, <1>4, <1>5 DEF WriteCondition

\* A restart forgets the handler, not what is left to handle.
LEMMA CrashStep == ASSUME IInv, Crash PROVE IInv'
<1>1. /\ op' = Idle /\ op' \in Op /\ op'.pc = "idle"
      /\ UNCHANGED <<obj, handled, executions, reported, withdrawn>>
  BY IdleLemma DEF Crash
<1>2. budget' \in Budget /\ budget'.late = budget.late
  <2>1. PICK n \in Nat : n = budget.crashes + 1
    BY DEF IInv, TypeOK
  <2>2. budget' = [budget EXCEPT !.crashes = n] /\ budget \in Budget
    BY <2>1 DEF Crash, IInv, TypeOK, Budget
  <2> QED
    BY <2>2 DEF Budget
<1>3. limbo' \subseteq Op /\ \A t \in limbo' : t.pc \in Writes
  BY DEF Crash, IInv, TypeOK, Writes
<1>4. TypeOK'
  BY <1>1, <1>2, <1>3 DEF IInv, TypeOK, Budget
<1>5. RunningUnhandled' /\ ConditionOfStatus'
  BY <1>1 DEF RunningUnhandled, ConditionOfStatus
<1>6. HandledFinal'
  <2>1. CASE op.pc = "idle"
    BY <1>1, <1>2, <2>1 DEF IInv, HandledFinal, Undisturbed, FinalNow
  <2>2. CASE op.pc # "idle"
    BY <1>1, <2>2, StopLemma
  <2> QED
    BY <2>1, <2>2
<1> QED
  BY <1>1, <1>3, <1>4, <1>5, <1>6 DEF IInv

\* A late PATCH of a dead operator ends what the invariant says of the status.
LEMMA LateStep == ASSUME IInv, NEW t \in limbo, LateWrite(t) PROVE IInv'
<1>1. /\ t \in Op /\ t.pc \in Writes /\ obj \in Object /\ reported \subseteq Status
      /\ limbo' = limbo \ {t} /\ UNCHANGED <<handled, op, executions, withdrawn>>
  BY DEF IInv, TypeOK, LateWrite
<1>2. budget' \in Budget /\ budget'.late # 0
  <2>1. PICK n \in Nat : n = budget.late + 1 /\ n # 0
    BY DEF IInv, TypeOK
  <2>2. budget' = [budget EXCEPT !.late = n] /\ budget \in Budget
    BY <2>1 DEF LateWrite, IInv, TypeOK, Budget
  <2> QED
    BY <2>1, <2>2 DEF Budget
<1>3. obj' \in Object /\ reported' \subseteq Status /\ obj'.rerun = obj.rerun
  <2>1. CASE Current(t) /\ Apply(t)
    BY <1>1, <2>1, ApplyLemma
  <2>2. CASE UNCHANGED <<obj, reported>>
    BY <1>1, <2>2
  <2> QED
    BY <2>1, <2>2 DEF LateWrite
<1>4. TypeOK'
  BY <1>1, <1>2, <1>3 DEF IInv, TypeOK, Budget
<1>5. RunningUnhandled' /\ ConditionOfStatus' /\ HandledFinal'
  BY <1>1, <1>2, <1>3 DEF IInv, RunningUnhandled, ConditionOfStatus, HandledFinal, Undisturbed
<1> QED
  BY <1>1, <1>4, <1>5 DEF IInv

\* Users change the annotation, anything else, or delete the resource.
LEMMA WorldStep == ASSUME IInv, Annotate \/ Edit \/ Delete PROVE IInv'
<1>1. /\ obj \in Object /\ budget \in Budget
      /\ UNCHANGED <<handled, op, limbo, executions, reported>>
  BY DEF IInv, TypeOK, Budget, Annotate, Edit, Delete
<1>2. PICK n \in Nat, b \in Nat, d \in Nat, no \in BOOLEAN :
             n = obj.rv + 1 /\ b = budget.toggles + 1 /\ d = budget.edits + 1 /\ no = FALSE
  <2>1. obj.rv + 1 \in Nat /\ budget.toggles + 1 \in Nat /\ budget.edits + 1 \in Nat
    BY <1>1 DEF Object, Budget
  <2> QED
    BY <2>1
<1>3. CASE Annotate
  <2>1. PICK a \in Annotation \ {obj.rerun} : obj' = [obj EXCEPT !.rerun = a, !.rv = n]
    BY <1>2, <1>3 DEF Annotate
  <2>2. budget' = [budget EXCEPT !.toggles = b]
    BY <1>2, <1>3 DEF Annotate
  <2>3. /\ obj' \in Object /\ obj'.rerun = a /\ obj'.phase = obj.phase
        /\ obj'.result = obj.result /\ obj'.conditions = obj.conditions
    BY <1>1, <2>1 DEF Object
  <2>4. budget' \in Budget /\ budget'.late = budget.late
    BY <1>1, <2>2 DEF Budget
  <2>5. withdrawn' = (withdrawn \/ (obj.rerun = "rerun" /\ handled = "absent"))
    BY <1>3 DEF Annotate
  <2>6. withdrawn' \in BOOLEAN
    BY <2>5
  <2>7. TypeOK'
    BY <1>1, <2>3, <2>4, <2>6 DEF IInv, TypeOK, Budget
  <2>8. obj.rerun \in {"absent", "rerun"} /\ a \in {"absent", "rerun"} /\ a # obj.rerun
    BY <1>1, <2>1 DEF Object, Annotation
  <2>9. RunningUnhandled'
    BY <1>1, <2>3, <2>5, <2>8 DEF IInv, RunningUnhandled
  <2>10. ConditionOfStatus'
    BY <1>1, <2>3, <2>4 DEF IInv, ConditionOfStatus
  <2>11. HandledFinal'
    BY <1>1, <2>3, <2>4, <2>5, <2>8 DEF IInv, TypeOK, Annotation, HandledFinal, Undisturbed, FinalNow
  <2> QED
    BY <1>1, <2>7, <2>9, <2>10, <2>11 DEF IInv
<1>4. CASE Edit \/ Delete
  <2>1. /\ obj' = [obj EXCEPT !.rv = n] \/ obj' = [obj EXCEPT !.exists = no]
        /\ budget' = [budget EXCEPT !.edits = d] \/ budget' = budget
        /\ UNCHANGED withdrawn
    BY <1>2, <1>4 DEF Edit, Delete
  <2>2. /\ obj' \in Object /\ obj'.rerun = obj.rerun /\ obj'.phase = obj.phase
        /\ obj'.result = obj.result /\ obj'.conditions = obj.conditions
    BY <1>1, <2>1 DEF Object
  <2>3. budget' \in Budget /\ budget'.late = budget.late
    BY <1>1, <2>1 DEF Budget
  <2>4. TypeOK'
    BY <1>1, <2>1, <2>2, <2>3 DEF IInv, TypeOK, Budget
  <2>5. RunningUnhandled' /\ ConditionOfStatus' /\ HandledFinal'
    BY <1>1, <2>1, <2>2, <2>3
       DEF IInv, RunningUnhandled, ConditionOfStatus, HandledFinal, Undisturbed, FinalNow
  <2> QED
    BY <1>1, <2>4, <2>5 DEF IInv
<1> QED
  BY <1>3, <1>4
-----------------------------------------------------------------------------
(* The theorems *)

\* Every step preserves the invariant.
LEMMA NextInv == IInv /\ [Next]_vars => IInv'
<1> SUFFICES ASSUME IInv, [Next]_vars PROVE IInv'
  OBVIOUS
<1>1. CASE Handler
  BY <1>1, InvokeStep, WriteStatusStep, CallApiStep, ReadStep, WriteConditionStep DEF Handler
<1>2. CASE Crash
  BY <1>2, CrashStep
<1>3. CASE \E t \in limbo : LateWrite(t)
  BY <1>3, LateStep
<1>4. CASE Annotate \/ Edit \/ Delete
  BY <1>4, WorldStep
<1>5. CASE UNCHANGED vars
  BY <1>5 DEF vars, IInv, TypeOK, RunningUnhandled, ConditionOfStatus, HandledFinal,
              Undisturbed, FinalNow
<1> QED
  BY <1>1, <1>2, <1>3, <1>4, <1>5 DEF Next

\* The invariant holds in every reachable state.
LEMMA Inductive == Spec => []IInv
BY InitInv, NextInv, PTL DEF Spec

\* Every step is a step of the lifecycle or does not show.
LEMMA LifecycleStep == IInv /\ [Next]_vars => [Lifecycle!Next]_(Lifecycle!shown)
<1> SUFFICES ASSUME IInv, [Next]_vars PROVE [Lifecycle!Next]_(Lifecycle!shown)
  OBVIOUS
<1>1. obj \in Object /\ op \in Op /\ reported \subseteq Status /\ limbo \subseteq Op
      /\ \A t \in limbo : t.pc \in Writes
  BY DEF IInv, TypeOK
<1>2. ASSUME NEW t \in Op, t.pc \in Writes, Current(t), Apply(t)
      PROVE  [Lifecycle!Next]_(Lifecycle!shown)
  BY <1>1, <1>2, ApplyLemma
<1>3. ASSUME obj'.exists = obj.exists, obj'.phase = obj.phase, obj'.result = obj.result,
             reported' = reported
      PROVE  [Lifecycle!Next]_(Lifecycle!shown)
  BY <1>3 DEF Lifecycle!shown, ShownPhase
<1>4. CASE WriteStatus \/ WriteCondition
  BY <1>1, <1>2, <1>3, <1>4 DEF WriteStatus, WriteCondition, Writes
<1>5. CASE Invoke \/ CallApi \/ ReadConditions \/ Crash \/ UNCHANGED vars
  BY <1>3, <1>5 DEF Invoke, CallApi, ReadConditions, Crash, vars
<1>6. CASE \E t \in limbo : LateWrite(t)
  BY <1>1, <1>2, <1>3, <1>6 DEF LateWrite
<1>7. CASE Annotate \/ Edit
  <2>1. /\ obj'.exists = obj.exists /\ obj'.phase = obj.phase /\ obj'.result = obj.result
        /\ reported' = reported
    BY <1>1, <1>7 DEF Annotate, Edit, Object
  <2> QED
    BY <2>1, <1>3
<1>8. CASE Delete
  <2>1. PICK no \in BOOLEAN : no = FALSE
    OBVIOUS
  <2>2. obj' = [obj EXCEPT !.exists = no] /\ obj.exists /\ reported' = reported
    BY <1>8, <2>1 DEF Delete
  <2>3. ~obj'.exists /\ obj'.result = obj.result
    BY <1>1, <2>1, <2>2 DEF Object
  <2>4. Lifecycle!Delete
    BY <2>2, <2>3 DEF Lifecycle!Delete, ShownPhase
  <2> QED
    BY <2>4 DEF Lifecycle!Next
<1> QED
  BY <1>4, <1>5, <1>6, <1>7, <1>8 DEF Next, Handler

\* The variables keep their types: attempts and retries stay below their limits.
THEOREM TypeCorrect == Spec => []TypeOK
<1>1. IInv => TypeOK
  BY DEF IInv
<1> QED
  BY <1>1, Inductive, PTL

\* kopf never takes a check for handled whose status is not final or whose
\* condition does not fit its result.
THEOREM HandledIsFinal == Spec => []SettledIsFinal
<1>1. IInv => SettledIsFinal
  BY DEF IInv, HandledFinal, Undisturbed, FinalNow, SettledIsFinal, Settled
<1> QED
  BY <1>1, Inductive, PTL

\* Whatever fails, is retried or restarted, readers see a CheckLifecycle.
THEOREM Refinement == Spec => ImplementsLifecycle
<1>1. Init => Lifecycle!Init
  BY DEF Init, Lifecycle!Init, ShownPhase, Final
<1> QED
  BY <1>1, LifecycleStep, Inductive, PTL DEF Spec, ImplementsLifecycle, Lifecycle!Spec
-----------------------------------------------------------------------------
(* Executions and their causes *)

One(b) == IF b THEN 1 ELSE 0

\* kopf would have the check run if it had handled h.
Unhandled(h) == obj.exists /\ (h = "never" \/ (h = "absent" /\ obj.rerun = "rerun"))

\* The handler is going to ask for an execution; it will be called again after it.
Running == op.pc \in {"pending", "running", "call"}
Awaited == Unhandled(IF op.pc = "idle" \/ op.raising THEN handled ELSE op.rerun)

\* Executions that have been and that will be even if nothing happens any more, and what
\* can have caused them apart from conflicts.
Owed == executions + One(Running) + One(Awaited)
Reruns == (budget.toggles + 1) \div 2
Causes == 1 + Reruns + budget.faults + budget.crashes

\* Writes of others, and how many of them this round of attempts has met.
Others == budget.edits + budget.toggles + budget.late
Conflicts == (IF op.pc \in {"read", "write"} THEN op.retry ELSE 0)
               + One(op.pc = "write" /\ op.seen.rv # obj.rv)

\* Whatever is owed beyond the causes was brought about by rounds of conflicts, each of
\* which took MaxRetries writes of others that no other round has met.
Balanced(owed, causes, conflicts, others) ==
  \E rounds \in Nat : owed <= causes + rounds /\ rounds * MaxRetries + conflicts <= others

CauseInv ==
  /\ budget.toggles % 2 = One(obj.rerun = "rerun")
  /\ op.pc = "idle" => ~op.raising
  /\ Balanced(Owed, Causes, Conflicts, Others)

LEMMA TimesLemma ==
  ASSUME NEW a \in Nat, NEW b \in Nat
  PROVE  (a + 1) * b = a * b + b /\ a * b \in Nat
OBVIOUS

LEMMA MonotonicLemma ==
  ASSUME NEW a \in Nat, NEW b \in Nat, NEW c \in Nat, a <= c
  PROVE  a * b <= c * b
<1>1. PICK d \in Nat : c = a + d
  OBVIOUS
<1>2. c * b = a * b + d * b
  BY <1>1
<1>3. a * b \in Nat /\ d * b \in Nat
  OBVIOUS
<1> QED
  BY <1>2, <1>3

\* Division by a constant that is not known.
LEMMA DivLemma ==
  ASSUME NEW n \in Nat, NEW b \in Nat \ {0}, NEW a \in Nat, a * b <= n
  PROVE  a <= n \div b
<1>1. n \div b \in Nat /\ n < (n \div b) * b + b
  OBVIOUS
<1>2. PICK q \in Nat : q = n \div b
  BY <1>1
<1>3. n < (q + 1) * b
  BY <1>1, <1>2, TimesLemma
<1>4. SUFFICES ASSUME a >= q + 1 PROVE FALSE
  BY <1>2
<1>5. (q + 1) * b <= a * b /\ a * b \in Nat /\ (q + 1) * b \in Nat
  BY <1>4, MonotonicLemma, TimesLemma
<1> QED
  BY <1>3, <1>5

\* A user who sets the annotation and takes it away in turns sets it every other time.
LEMMA HalfLemma ==
  ASSUME NEW n \in Nat
  PROVE  /\ (n + 1) \div 2 \in Nat
         /\ n % 2 = 0 => (n + 2) \div 2 = (n + 1) \div 2 + 1 /\ (n + 1) % 2 = 1
         /\ n % 2 = 1 => (n + 2) \div 2 = (n + 1) \div 2 /\ (n + 1) % 2 = 0
OBVIOUS

LEMMA SumLemma ==
  ASSUME NEW a \in Nat, NEW b \in Nat, NEW c \in Nat, NEW d \in Nat,
         c <= a \/ d = b + 1, c <= a + 1, d = b \/ d = b + 1
  PROVE  c + b <= a + d
OBVIOUS

\* A step that adds no more than its cause.
LEMMA CausedLemma ==
  ASSUME NEW o \in Nat, NEW c \in Nat, NEW k \in Nat, NEW w \in Nat, Balanced(o, c, k, w),
         NEW o2 \in Nat, NEW c2 \in Nat, NEW k2 \in Nat, NEW w2 \in Nat,
         o2 + c <= o + c2, k2 + w <= k + w2
  PROVE  Balanced(o2, c2, k2, w2)
<1>1. PICK rounds \in Nat : o <= c + rounds /\ rounds * MaxRetries + k <= w
  BY DEF Balanced
<1>2. PICK m \in Nat : m = rounds * MaxRetries
  BY TimesLemma, LimitsAssumption
<1>3. o2 <= c2 + rounds /\ m + k2 <= w2
  BY <1>1, <1>2
<1> QED
  BY <1>2, <1>3 DEF Balanced

\* A step that ends a round of conflicts.
LEMMA RoundLemma ==
  ASSUME NEW o \in Nat, NEW c \in Nat, NEW k \in Nat, NEW w \in Nat, Balanced(o, c, k, w),
         NEW o2 \in Nat, o2 <= o + 1, k = MaxRetries
  PROVE  Balanced(o2, c, 0, w)
<1>1. PICK rounds \in Nat : o <= c + rounds /\ rounds * MaxRetries + k <= w
  BY DEF Balanced
<1>2. (rounds + 1) * MaxRetries = rounds * MaxRetries + MaxRetries
      /\ rounds * MaxRetries \in Nat /\ MaxRetries \in Nat
  BY TimesLemma, LimitsAssumption
<1>3. PICK next \in Nat : next = rounds + 1
  OBVIOUS
<1>4. o2 <= c + next /\ next * MaxRetries + 0 <= w
  BY <1>1, <1>2, <1>3
<1> QED
  BY <1>4 DEF Balanced

LEMMA CountsLemma ==
  ASSUME IInv
  PROVE  /\ Owed \in Nat /\ Reruns \in Nat /\ Causes \in Nat /\ Conflicts \in Nat /\ Others \in Nat
         /\ executions \in Nat /\ op \in Op /\ op.retry \in Nat /\ obj \in Object /\ budget \in Budget
         /\ op.pc \notin {"read", "write"} => Conflicts = 0
         /\ op.pc = "read" => Conflicts = op.retry
<1>1. /\ op \in Op /\ obj \in Object /\ budget \in Budget /\ executions \in Nat
  BY DEF IInv, TypeOK, Budget
<1>2. budget.toggles \in Nat /\ budget.faults \in Nat /\ budget.crashes \in Nat
      /\ budget.edits \in Nat /\ budget.late \in Nat
  BY <1>1 DEF Budget
<1>3. Reruns \in Nat
  BY <1>2, HalfLemma DEF Reruns
<1>4. op.retry \in Nat
  BY <1>1, LimitsAssumption DEF Op
<1>5. Owed \in Nat
  BY <1>1 DEF Owed, One
<1>6. Conflicts \in Nat
  BY <1>4 DEF Conflicts, One
<1>7. op.pc \notin {"read", "write"} => Conflicts = 0
  BY DEF Conflicts, One
<1>8. op.pc = "read" => Conflicts = op.retry
  BY <1>4 DEF Conflicts, One
<1> QED
  BY <1>1, <1>2, <1>3, <1>4, <1>5, <1>6, <1>7, <1>8 DEF Causes, Others

\* The same after a step.
Counts ==
  /\ Owed \in Nat /\ Causes \in Nat /\ Conflicts \in Nat /\ Others \in Nat
  /\ executions \in Nat /\ op.retry \in Nat /\ budget \in Budget
  /\ op.pc \notin {"read", "write"} => Conflicts = 0
  /\ op.pc = "read" => Conflicts = op.retry

LEMMA CountsNext == IInv' => Counts'
<1>1. IInv => Counts
  BY CountsLemma DEF Counts
<1> QED
  BY <1>1, PTL

LEMMA CountsLater ==
  ASSUME IInv'
  PROVE  /\ Owed' \in Nat /\ Causes' \in Nat /\ Conflicts' \in Nat /\ Others' \in Nat
         /\ executions' \in Nat /\ budget' \in Budget
         /\ op'.pc \notin {"read", "write"} => Conflicts' = 0
         /\ op'.pc = "read" => Conflicts' = op'.retry
BY CountsNext DEF Counts

\* A failed request is a cause.
LEMMA FaultCauses ==
  ASSUME IInv, NEW kind, Fault(kind)
  PROVE  Causes' = Causes + 1 /\ Others' = Others /\ UNCHANGED budget.toggles
<1>1. budget \in Budget
  BY DEF IInv, TypeOK, Budget
<1>2. PICK n \in Nat : n = budget.faults + 1
  BY <1>1 DEF Budget
<1>3. budget' = [budget EXCEPT !.faults = n]
  BY <1>2 DEF Fault
<1>4. /\ budget'.faults = budget.faults + 1 /\ budget'.crashes = budget.crashes
      /\ budget'.toggles = budget.toggles /\ budget'.edits = budget.edits
      /\ budget'.late = budget.late
  BY <1>1, <1>2, <1>3 DEF Budget
<1>5. Reruns' = Reruns /\ Reruns \in Nat
  BY <1>4, CountsLemma DEF Reruns
<1> QED
  BY <1>1, <1>4, <1>5 DEF Causes, Others, Budget

LEMMA ThrewLemma ==
  ASSUME NEW t \in Op
  PROVE  Threw(t).pc \in {"idle", "failed"} /\ (Threw(t).pc = "idle" <=> ~Threw(t).raising)
BY IdleLemma DEF Threw, Idle, Op

\* The handler stops, and what it was called for has to be done again: with a cause, or
\* because of a round of conflicts, or the resource is gone.
LEMMA StopCauses ==
  ASSUME IInv, CauseInv, IInv', op'.pc \in {"idle", "failed"}, op'.pc = "idle" <=> ~op'.raising,
         obj'.exists = obj.exists, obj'.rerun = obj.rerun, UNCHANGED handled,
         UNCHANGED budget.toggles, Others' = Others,
         executions' <= executions + One(Running),
         \/ Causes' = Causes + 1
         \/ Causes' = Causes /\ ~obj.exists
         \/ Causes' = Causes /\ Conflicts = MaxRetries
  PROVE  CauseInv'
<1>1. /\ Owed \in Nat /\ Causes \in Nat /\ Conflicts \in Nat /\ Others \in Nat
      /\ Owed' \in Nat /\ Causes' \in Nat /\ Others' \in Nat
      /\ executions \in Nat /\ executions' \in Nat
  BY CountsLemma, CountsLater
<1>2. Conflicts' = 0
  BY CountsLemma, CountsLater
<1>3. /\ Owed' = executions' + One(Awaited')
      /\ Owed = executions + One(Running) + One(Awaited)
  BY <1>1 DEF Owed, Running, One
<1>4. One(Running) \in {0, 1} /\ One(Awaited) \in {0, 1} /\ One(Awaited') \in {0, 1}
  BY DEF One
<1>5. Owed' <= Owed + 1
  BY <1>1, <1>3, <1>4
<1>6. Balanced(Owed', Causes', 0, Others')
  <2>1. CASE Causes' = Causes + 1
    BY <1>1, <1>5, <2>1, CausedLemma DEF CauseInv
  <2>2. CASE Causes' = Causes /\ ~obj.exists
    <3>1. One(Awaited') = 0
      BY <2>2 DEF Awaited, Unhandled, One
    <3>2. Owed' <= Owed
      BY <1>1, <1>3, <1>4, <3>1
    <3> QED
      BY <1>1, <2>2, <3>2, CausedLemma DEF CauseInv
  <2>3. CASE Causes' = Causes /\ Conflicts = MaxRetries
    BY <1>1, <1>5, <2>3, RoundLemma DEF CauseInv
  <2> QED
    BY <2>1, <2>2, <2>3
<1>7. budget'.toggles % 2 = One(obj'.rerun = "rerun")
  BY DEF CauseInv
<1> QED
  BY <1>2, <1>6, <1>7 DEF CauseInv

\* The handler goes on, or returns, and nothing is owed that was not owed before.
LEMMA GoneOnCauses ==
  ASSUME IInv, CauseInv, IInv', op'.pc = "idle" => ~op'.raising,
         obj'.rerun = obj.rerun, UNCHANGED budget.toggles,
         Owed' + Causes <= Owed + Causes', Conflicts' + Others <= Conflicts + Others'
  PROVE  CauseInv'
<1>1. /\ Owed \in Nat /\ Causes \in Nat /\ Conflicts \in Nat /\ Others \in Nat
      /\ Owed' \in Nat /\ Causes' \in Nat /\ Conflicts' \in Nat /\ Others' \in Nat
  BY CountsLemma, CountsLater
<1>2. Balanced(Owed', Causes', Conflicts', Others')
  BY <1>1, CausedLemma DEF CauseInv
<1>3. budget'.toggles % 2 = One(obj'.rerun = "rerun")
  BY DEF CauseInv
<1> QED
  BY <1>2, <1>3 DEF CauseInv

LEMMA InitCauses == Init => CauseInv
<1> SUFFICES ASSUME Init PROVE CauseInv
  OBVIOUS
<1>1. op = Idle /\ Idle.pc = "idle" /\ ~Idle.raising
  BY DEF Init, Idle
<1>2. Owed <= 1 /\ Owed \in Nat
  BY <1>1 DEF Init, Owed, Running, One
<1>3. Reruns = 0
  BY DEF Init, Reruns
<1>4. Causes = 1 /\ Others = 0
  BY <1>3 DEF Init, Causes, Others
<1>5. Conflicts = 0
  BY <1>1 DEF Conflicts, One
<1>6. Balanced(Owed, 1, 0, 0)
  <2>1. 0 * MaxRetries = 0
    BY LimitsAssumption
  <2> QED
    BY <1>2, <2>1 DEF Balanced
<1>7. budget.toggles % 2 = One(obj.rerun = "rerun")
  BY DEF Init, One
<1> QED
  BY <1>1, <1>4, <1>5, <1>6, <1>7 DEF CauseInv

LEMMA InvokeCauses == ASSUME IInv, CauseInv, IInv', Invoke PROVE CauseInv'
<1>1. /\ obj \in Object /\ op \in Op /\ op.pc = "idle" /\ ~op.raising /\ handled # obj.rerun
      /\ obj.exists /\ obj.rerun \in {"absent", "rerun"} /\ handled \in {"never", "absent", "rerun"}
      /\ UNCHANGED <<obj, limbo, executions, reported, withdrawn, budget>>
  BY DEF IInv, TypeOK, Invoke, Object, Annotation, CauseInv
<1>2. Causes' = Causes /\ Others' = Others /\ UNCHANGED budget.toggles
  BY <1>1 DEF Causes, Reruns, Others
<1>3. Owed = executions + One(Unhandled(handled)) /\ Conflicts = 0 /\ executions \in Nat
  BY <1>1, CountsLemma, CountsLater DEF Owed, Running, Awaited, One
<1>4. CASE /\ handled = "never" \/ obj.rerun = "rerun"
           /\ op' = [op EXCEPT !.pc = "pending", !.rerun = obj.rerun]
           /\ UNCHANGED handled
  <2>1. op'.pc = "pending" /\ op'.rerun = obj.rerun /\ ~op'.raising
    BY <1>1, <1>4 DEF Op
  <2>2. Unhandled(handled) /\ ~Unhandled(obj.rerun)
    BY <1>1, <1>4 DEF Unhandled
  <2>3. ~Awaited' /\ Running'
    BY <1>1, <2>1, <2>2 DEF Awaited, Running, Unhandled
  <2>4. Owed' = executions + 1 /\ Owed = executions + 1
    BY <1>1, <1>3, <2>2, <2>3 DEF Owed, One
  <2>5. Conflicts' = 0
    BY <2>1 DEF Conflicts, One
  <2> QED
    BY <1>1, <1>2, <1>3, <2>1, <2>4, <2>5, CountsLemma, CountsLater, GoneOnCauses
<1>5. CASE ~(handled = "never" \/ obj.rerun = "rerun") /\ handled' = obj.rerun /\ UNCHANGED op
  <2>1. ~Awaited' /\ ~Running'
    BY <1>1, <1>5 DEF Awaited, Running, Unhandled
  <2>2. Owed' = executions
    BY <1>1, <1>3, <2>1 DEF Owed, One
  <2>3. Conflicts' = 0
    BY <1>1, <1>5 DEF Conflicts, One
  <2>4. One(Unhandled(handled)) \in {0, 1}
    BY DEF One
  <2>5. Owed' <= Owed
    BY <1>3, <2>2, <2>4
  <2> QED
    BY <1>1, <1>2, <1>3, <1>5, <2>3, <2>5, CountsLemma, CountsLater, GoneOnCauses
<1> QED
  BY <1>4, <1>5 DEF Invoke

LEMMA ApplyKeeps ==
  ASSUME IInv, NEW t \in Op, t.pc \in Writes, Current(t), Apply(t)
  PROVE  obj'.exists = obj.exists /\ obj'.rerun = obj.rerun
BY ApplyLemma DEF IInv, TypeOK

\* A request that failed, or one for what is gone.
LEMMA FailCauses ==
  ASSUME IInv, CauseInv, IInv', op.pc # "idle", op' = Threw(op), UNCHANGED <<handled, executions>>,
         obj'.exists = obj.exists, obj'.rerun = obj.rerun,
         (UNCHANGED budget /\ ~obj.exists) \/ \E kind \in {"refused", "lost"} : Fault(kind)
  PROVE  CauseInv'
<1>1. op'.pc \in {"idle", "failed"} /\ (op'.pc = "idle" <=> ~op'.raising)
  BY CountsLemma, CountsLater, ThrewLemma
<1>2. executions' <= executions + One(Running)
  BY CountsLemma, CountsLater DEF One
<1>3. CASE UNCHANGED budget /\ ~obj.exists
  <2>1. Causes' = Causes /\ Others' = Others /\ UNCHANGED budget.toggles
    BY <1>3 DEF Causes, Reruns, Others
  <2> QED
    BY <1>1, <1>2, <1>3, <2>1, StopCauses
<1>4. CASE \E kind \in {"refused", "lost"} : Fault(kind)
  BY <1>1, <1>2, <1>4, FaultCauses, StopCauses
<1> QED
  BY <1>3, <1>4

LEMMA WriteStatusCauses == ASSUME IInv, CauseInv, IInv', WriteStatus PROVE CauseInv'
<1>1. /\ op \in Op /\ op.pc \in StatusWrites /\ op.pc # "idle" /\ op.pc \in Writes
      /\ UNCHANGED <<handled, limbo, executions, withdrawn>>
  BY DEF IInv, TypeOK, WriteStatus, StatusWrites, Writes
<1>2. CASE Current(op) /\ Apply(op) /\ op' = Written(op) /\ UNCHANGED budget
  <2>1. obj'.exists = obj.exists /\ obj'.rerun = obj.rerun
    BY <1>1, <1>2, ApplyKeeps
  <2>2. /\ op'.pc \in {"running", "call", "read"} /\ op'.raising = op.raising /\ op'.rerun = op.rerun
        /\ op'.pc \in {"running", "call"} => op.pc \in {"pending", "running"}
        /\ op'.pc = "read" => op'.retry = 0
    <3>1. CASE op.pc = "pending"
      BY <1>1, <1>2, <3>1 DEF Written, Op
    <3>2. CASE op.pc = "running"
      BY <1>1, <1>2, <3>2 DEF Written, Op
    <3>3. CASE op.pc \in {"complete", "failed"}
      BY <1>1, <1>2, <3>3 DEF Written, StartCondition, Op
    <3> QED
      BY <1>1, <3>1, <3>2, <3>3 DEF StatusWrites
  <2>3. Awaited' <=> Awaited
    BY <1>1, <2>1, <2>2 DEF Awaited, Unhandled
  <2>4. Running' => Running
    BY <2>2 DEF Running
  <2>5. Owed' <= Owed
    BY <1>1, <2>3, <2>4, CountsLemma, CountsLater DEF Owed, One
  <2>6. Conflicts' = 0
    BY <2>2 DEF Conflicts, One
  <2>7. Causes' = Causes /\ Others' = Others /\ UNCHANGED budget.toggles
    BY <1>2 DEF Causes, Reruns, Others
  <2> QED
    BY <2>1, <2>2, <2>5, <2>6, <2>7, CountsLemma, CountsLater, GoneOnCauses
<1>3. CASE op' = Threw(op) /\ UNCHANGED <<obj, reported, budget>> /\ ~obj.exists
  BY <1>1, <1>3, FailCauses
<1>4. CASE op' = Threw(op) /\ UNCHANGED <<obj, reported>> /\ Fault("refused")
  BY <1>1, <1>4, FailCauses
<1>5. CASE op' = Threw(op) /\ Current(op) /\ Apply(op) /\ Fault("lost")
  BY <1>1, <1>5, FailCauses, ApplyKeeps
<1> QED
  BY <1>2, <1>3, <1>4, <1>5 DEF WriteStatus

LEMMA CallApiCauses == ASSUME IInv, CauseInv, IInv', CallApi PROVE CauseInv'
<1>1. /\ op \in Op /\ op.pc = "call" /\ executions \in Nat
      /\ UNCHANGED <<obj, handled, limbo, reported, withdrawn>>
  BY DEF IInv, TypeOK, CallApi
<1>2. CASE /\ \E r \in Status : op' = [op EXCEPT !.pc = "complete", !.verdict = r]
           /\ executions' = executions + 1 /\ UNCHANGED budget
  <2>1. op'.pc = "complete" /\ op'.raising = op.raising /\ op'.rerun = op.rerun
    BY <1>1, <1>2 DEF Op
  <2>2. Awaited' <=> Awaited
    BY <1>1, <2>1 DEF Awaited, Unhandled
  <2>3. Running /\ ~Running'
    BY <1>1, <2>1 DEF Running
  <2>4. Owed' = Owed
    BY <1>1, <1>2, <2>2, <2>3 DEF Owed, One
  <2>5. Conflicts' = 0
    BY <2>1 DEF Conflicts, One
  <2>6. Causes' = Causes /\ Others' = Others /\ UNCHANGED budget.toggles
    BY <1>2 DEF Causes, Reruns, Others
  <2> QED
    BY <1>1, <2>1, <2>4, <2>5, <2>6, CountsLemma, CountsLater, GoneOnCauses
<1>3. CASE /\ op' = Unanswered(op) /\ (Fault("lost") \/ Fault("refused"))
           /\ executions' = executions \/ executions' = executions + 1
  <2>1. Causes' = Causes + 1 /\ Others' = Others /\ UNCHANGED budget.toggles
    BY <1>3, FaultCauses
  <2>2. CASE op.attempt + 1 = MaxAttempts
    <3>1. op' = Threw(op)
      BY <1>3, <2>2 DEF Unanswered
    <3>2. op'.pc \in {"idle", "failed"} /\ (op'.pc = "idle" <=> ~op'.raising)
      BY <1>1, <3>1, ThrewLemma
    <3>3. executions' <= executions + One(Running)
      BY <1>1, <1>3 DEF One, Running
    <3> QED
      BY <1>1, <2>1, <3>2, <3>3, StopCauses
  <2>3. CASE op.attempt + 1 # MaxAttempts
    <3>1. op' = [op EXCEPT !.attempt = @ + 1]
      BY <1>3, <2>3 DEF Unanswered
    <3>2. op'.pc = "call" /\ op'.raising = op.raising /\ op'.rerun = op.rerun
      BY <1>1, <3>1 DEF Op
    <3>3. Awaited' <=> Awaited
      BY <1>1, <3>2 DEF Awaited, Unhandled
    <3>4. Running /\ Running'
      BY <1>1, <3>2 DEF Running
    <3>5. Owed' <= Owed + 1
      BY <1>1, <1>3, <3>3, <3>4 DEF Owed, One
    <3>6. Conflicts' = 0
      BY <3>2 DEF Conflicts, One
    <3> QED
      BY <1>1, <2>1, <3>2, <3>5, <3>6, CountsLemma, CountsLater, GoneOnCauses
  <2> QED
    BY <2>2, <2>3
<1> QED
  BY <1>2, <1>3 DEF CallApi

LEMMA ReadCauses == ASSUME IInv, CauseInv, IInv', ReadConditions PROVE CauseInv'
<1>1. /\ op \in Op /\ op.pc = "read"
      /\ UNCHANGED <<obj, handled, limbo, executions, reported, withdrawn>>
  BY DEF IInv, TypeOK, ReadConditions
<1>2. CASE /\ op' = [op EXCEPT !.pc = "write",
                               !.seen = [rv |-> obj.rv, conditions |-> obj.conditions]]
           /\ UNCHANGED budget
  <2>1. /\ op'.pc = "write" /\ op'.raising = op.raising /\ op'.rerun = op.rerun
        /\ op'.retry = op.retry /\ op'.seen.rv = obj.rv
    BY <1>1, <1>2 DEF Op
  <2>2. Awaited' <=> Awaited
    BY <1>1, <2>1 DEF Awaited, Unhandled
  <2>3. ~Running' /\ ~Running
    BY <1>1, <2>1 DEF Running
  <2>4. Owed' = Owed
    BY <1>1, <2>2, <2>3 DEF Owed, One
  <2>5. Conflicts' = op.retry
    BY <1>1, <2>1, CountsLemma, CountsLater DEF Conflicts, One
  <2>6. Causes' = Causes /\ Others' = Others /\ UNCHANGED budget.toggles
    BY <1>2 DEF Causes, Reruns, Others
  <2> QED
    BY <1>1, <2>1, <2>4, <2>5, <2>6, CountsLemma, CountsLater, GoneOnCauses
<1>3. CASE op' = Threw(op) /\ UNCHANGED budget /\ ~obj.exists
  BY <1>1, <1>3, FailCauses
<1>4. CASE op' = Threw(op) /\ Fault("refused")
  BY <1>1, <1>4, FailCauses
<1> QED
  BY <1>2, <1>3, <1>4 DEF ReadConditions

LEMMA WriteConditionCauses == ASSUME IInv, CauseInv, IInv', WriteCondition PROVE CauseInv'
<1>1. /\ op \in Op /\ op.pc = "write" /\ op.pc \in Writes /\ op.retry \in Nat
      /\ UNCHANGED <<limbo, executions, withdrawn>>
  BY CountsLemma, CountsLater DEF WriteCondition, Writes
<1>2. CASE Current(op) /\ Apply(op) /\ Leave(op) /\ UNCHANGED budget
  <2>1. obj'.exists = obj.exists /\ obj'.rerun = obj.rerun
    BY <1>1, <1>2, ApplyKeeps
  <2>2. op'.pc = "idle" /\ ~op'.raising /\ handled' = IF op.raising THEN handled ELSE op.rerun
    BY <1>2 DEF Leave, Idle
  <2>3. Awaited' <=> Awaited
    BY <1>1, <2>1, <2>2 DEF Awaited, Unhandled
  <2>4. ~Running' /\ ~Running
    BY <1>1, <2>2 DEF Running
  <2>5. Owed' = Owed
    BY <1>1, <2>3, <2>4 DEF Owed, One
  <2>6. Conflicts' = 0
    BY <2>2 DEF Conflicts, One
  <2>7. Causes' = Causes /\ Others' = Others /\ UNCHANGED budget.toggles
    BY <1>2 DEF Causes, Reruns, Others
  <2> QED
    BY <2>1, <2>2, <2>5, <2>6, <2>7, CountsLemma, CountsLater, GoneOnCauses
<1>3. CASE /\ obj.exists /\ ~Current(op) /\ op' = Conflicted(op)
           /\ UNCHANGED <<obj, handled, reported, budget>>
  <2>1. Causes' = Causes /\ Others' = Others /\ UNCHANGED budget.toggles
    BY <1>3 DEF Causes, Reruns, Others
  <2>2. Conflicts = op.retry + 1
    BY <1>1, <1>3 DEF Conflicts, Current, One
  <2>3. CASE op.retry + 1 = MaxRetries
    <3>1. op' = Threw(op)
      BY <1>3, <2>3 DEF Conflicted
    <3>2. op'.pc \in {"idle", "failed"} /\ (op'.pc = "idle" <=> ~op'.raising)
      BY <1>1, <3>1, ThrewLemma
    <3>3. executions' <= executions + One(Running)
      BY <1>1, CountsLemma, CountsLater DEF One
    <3> QED
      BY <1>3, <2>1, <2>2, <2>3, <3>2, <3>3, StopCauses
  <2>4. CASE op.retry + 1 # MaxRetries
    <3>1. PICK n \in Nat : n = op.retry + 1
      BY <1>1
    <3>2. op' = [op EXCEPT !.pc = "read", !.retry = n]
      BY <1>3, <2>4, <3>1 DEF Conflicted
    <3>3. op'.pc = "read" /\ op'.retry = n /\ op'.raising = op.raising /\ op'.rerun = op.rerun
      BY <1>1, <3>2 DEF Op
    <3>4. Awaited' <=> Awaited
      BY <1>1, <1>3, <3>3 DEF Awaited, Unhandled
    <3>5. ~Running' /\ ~Running
      BY <1>1, <3>3 DEF Running
    <3>6. Owed' = Owed
      BY <1>1, <3>4, <3>5 DEF Owed, One
    <3>7. Conflicts' = op.retry + 1
      BY <3>1, <3>3, CountsLemma, CountsLater
    <3> QED
      BY <1>3, <2>1, <2>2, <3>3, <3>6, <3>7, CountsLemma, CountsLater, GoneOnCauses
  <2> QED
    BY <2>3, <2>4
<1>4. CASE op' = Threw(op) /\ UNCHANGED <<obj, handled, reported, budget>> /\ ~obj.exists
  BY <1>1, <1>4, FailCauses
<1>5. CASE op' = Threw(op) /\ UNCHANGED <<obj, handled, reported>> /\ Fault("refused")
  BY <1>1, <1>5, FailCauses
<1>6. CASE op' = Threw(op) /\ UNCHANGED handled /\ Current(op) /\ Apply(op) /\ Fault("lost")
  BY <1>1, <1>6, FailCauses, ApplyKeeps
<1> QED
  BY <1>2, <1>3, <1>4, <1>5, <1>6 DEF WriteCondition

LEMMA CrashCauses == ASSUME IInv, CauseInv, IInv', Crash PROVE CauseInv'
<1>1. /\ op' = Idle /\ UNCHANGED <<obj, handled, executions, reported, withdrawn>>
  BY DEF Crash
<1>2. op'.pc = "idle" /\ ~op'.raising
  BY <1>1 DEF Idle
<1>3. PICK n \in Nat : n = budget.crashes + 1
  BY DEF IInv, TypeOK
<1>4. budget' = [budget EXCEPT !.crashes = n] /\ budget \in Budget
  BY <1>3, CountsLemma, CountsLater DEF Crash
<1>5. /\ budget'.crashes = budget.crashes + 1 /\ budget'.faults = budget.faults
      /\ budget'.toggles = budget.toggles /\ budget'.edits = budget.edits /\ budget'.late = budget.late
  BY <1>3, <1>4 DEF Budget
<1>6. Reruns' = Reruns /\ Reruns \in Nat
  BY <1>5, CountsLemma, CountsLater DEF Reruns
<1>7. Causes' = Causes + 1 /\ Others' = Others
  BY <1>4, <1>5, <1>6 DEF Causes, Others, Budget
<1>8. executions' <= executions + One(Running)
  BY <1>1, CountsLemma, CountsLater DEF One
<1> QED
  BY <1>1, <1>2, <1>5, <1>7, <1>8, StopCauses

\* Others write the resource: a PATCH that is under way conflicts from then on.
LEMMA OutsideCauses ==
  ASSUME IInv, CauseInv, IInv', (\E t \in limbo : LateWrite(t)) \/ Edit \/ Delete
  PROVE  CauseInv'
<1>1. UNCHANGED <<handled, op, executions>> /\ obj \in Object /\ budget \in Budget
      /\ op.retry \in Nat /\ executions \in Nat
  BY CountsLemma, CountsLater DEF LateWrite, Edit, Delete
<1>2. obj'.rerun = obj.rerun /\ (obj'.exists => obj.exists)
  <2>1. ASSUME NEW t \in limbo, LateWrite(t) PROVE obj'.rerun = obj.rerun /\ obj'.exists = obj.exists
    <3>1. t \in Op /\ t.pc \in Writes
      BY DEF IInv, TypeOK
    <3> QED
      BY <2>1, <3>1, ApplyKeeps DEF LateWrite
  <2>2. CASE Edit \/ Delete
    BY <1>1, <2>2 DEF Edit, Delete, Object
  <2> QED
    BY <2>1, <2>2
<1>3. /\ budget'.faults = budget.faults /\ budget'.crashes = budget.crashes
      /\ budget'.toggles = budget.toggles
      /\ \/ budget'.edits + budget'.late = budget.edits + budget.late + 1
         \/ budget' = budget /\ obj'.rv = obj.rv
  <2>1. PICK late \in Nat, edits \in Nat : late = budget.late + 1 /\ edits = budget.edits + 1
    BY <1>1 DEF Budget
  <2>2. \/ budget' = [budget EXCEPT !.late = late] \/ budget' = [budget EXCEPT !.edits = edits]
        \/ budget' = budget /\ obj' = [obj EXCEPT !.exists = FALSE]
    BY <2>1 DEF LateWrite, Edit, Delete
  <2>3. CASE budget' = [budget EXCEPT !.late = late] \/ budget' = [budget EXCEPT !.edits = edits]
    BY <1>1, <2>1, <2>3 DEF Budget
  <2>4. CASE budget' = budget /\ obj' = [obj EXCEPT !.exists = FALSE]
    BY <1>1, <2>4 DEF Object
  <2> QED
    BY <2>2, <2>3, <2>4
<1>4. Reruns' = Reruns /\ Reruns \in Nat
  BY <1>3, CountsLemma, CountsLater DEF Reruns
<1>5. Causes' = Causes
  BY <1>3, <1>4 DEF Causes
<1>6. Awaited' => Awaited
  BY <1>1, <1>2 DEF Awaited, Unhandled
<1>7. Running' <=> Running
  BY <1>1 DEF Running
<1>8. Owed' <= Owed
  BY <1>1, <1>6, <1>7 DEF Owed, One
<1>9. Conflicts' + Others <= Conflicts + Others'
  <2>1. Others \in Nat /\ Others' \in Nat /\ Conflicts \in Nat /\ Conflicts' \in Nat /\ budget' \in Budget
    BY CountsLemma, CountsLater
  <2>2. CASE budget'.edits + budget'.late = budget.edits + budget.late + 1
    <3>1. Others' = Others + 1
      BY <1>1, <1>3, <2>1, <2>2 DEF Others, Budget
    <3>2. Conflicts' <= Conflicts + 1
      BY <1>1 DEF Conflicts, One
    <3> QED
      BY <2>1, <3>1, <3>2, SumLemma
  <2>3. CASE budget' = budget /\ obj'.rv = obj.rv
    <3>1. Others' = Others /\ Conflicts' = Conflicts
      BY <1>1, <2>3 DEF Others, Conflicts
    <3> QED
      BY <2>1, <3>1
  <2> QED
    BY <1>3, <2>2, <2>3
<1>10. op'.pc = "idle" => ~op'.raising
  BY <1>1 DEF CauseInv
<1> QED
  BY <1>2, <1>3, <1>5, <1>8, <1>9, <1>10, CountsLemma, CountsLater, GoneOnCauses

\* The annotation appears, which is a cause, or goes away.
LEMMA AnnotateCauses == ASSUME IInv, CauseInv, IInv', Annotate PROVE CauseInv'
<1>1. UNCHANGED <<handled, op, executions>> /\ obj \in Object /\ budget \in Budget
      /\ op.retry \in Nat /\ executions \in Nat
  BY CountsLemma, CountsLater DEF Annotate
<1>2. PICK a \in Annotation \ {obj.rerun} : obj' = [obj EXCEPT !.rerun = a, !.rv = @ + 1]
  BY DEF Annotate
<1>3. /\ obj'.rerun = a /\ obj'.exists = obj.exists
      /\ obj.rerun \in {"absent", "rerun"} /\ a \in {"absent", "rerun"} /\ a # obj.rerun
  BY <1>1, <1>2 DEF Object, Annotation
<1>4. PICK n \in Nat : n = budget.toggles + 1
  BY <1>1 DEF Budget
<1>5. budget' = [budget EXCEPT !.toggles = n]
  BY <1>4 DEF Annotate
<1>6. /\ budget'.faults = budget.faults /\ budget'.crashes = budget.crashes
      /\ budget'.toggles = budget.toggles + 1
      /\ budget'.edits = budget.edits /\ budget'.late = budget.late
  BY <1>1, <1>4, <1>5 DEF Budget
<1>7. PICK toggles \in Nat : toggles = budget.toggles
  BY <1>1 DEF Budget
<1>8. /\ Reruns = (toggles + 1) \div 2 /\ Reruns' = (toggles + 2) \div 2
      /\ Reruns \in Nat /\ Reruns' \in Nat
  <2>1. Reruns = (toggles + 1) \div 2 /\ Reruns' = ((toggles + 1) + 1) \div 2
    BY <1>6, <1>7 DEF Reruns
  <2>2. (toggles + 1) + 1 = toggles + 2
    OBVIOUS
  <2> QED
    BY <2>1, <2>2, CountsLemma, CountsLater
<1>9. toggles % 2 = One(obj.rerun = "rerun")
  BY <1>7 DEF CauseInv
<1>10. /\ obj.rerun = "absent" => Reruns' = Reruns + 1 /\ (toggles + 1) % 2 = 1
       /\ obj.rerun = "rerun" => Reruns' = Reruns /\ (toggles + 1) % 2 = 0
  BY <1>8, <1>9, HalfLemma DEF One
<1>11. budget'.toggles % 2 = One(obj'.rerun = "rerun")
  BY <1>3, <1>6, <1>7, <1>10 DEF One
<1>12. /\ obj.rerun = "absent" => Causes' = Causes + 1
       /\ obj.rerun = "rerun" => Causes' = Causes
  BY <1>1, <1>6, <1>8, <1>10 DEF Causes, Budget
<1>13. Running' <=> Running
  BY <1>1 DEF Running
<1>14. obj.rerun = "rerun" => (Awaited' => Awaited)
  BY <1>1, <1>3 DEF Awaited, Unhandled
<1>15. Owed' <= Owed + 1 /\ (obj.rerun = "rerun" => Owed' <= Owed)
  BY <1>1, <1>13, <1>14 DEF Owed, One
<1>16. Others' = Others + 1
  BY <1>1, <1>6 DEF Others, Budget
<1>17. Conflicts' <= Conflicts + 1
  BY <1>1 DEF Conflicts, One
<1>18. /\ Owed \in Nat /\ Causes \in Nat /\ Conflicts \in Nat /\ Others \in Nat
       /\ Owed' \in Nat /\ Causes' \in Nat /\ Conflicts' \in Nat /\ Others' \in Nat
  BY CountsLemma, CountsLater
<1>19. Owed' + Causes <= Owed + Causes' /\ Conflicts' + Others <= Conflicts + Others'
  <2>1. Conflicts' + Others <= Conflicts + Others'
    BY <1>16, <1>17, <1>18, SumLemma
  <2>2. (Owed' <= Owed \/ Causes' = Causes + 1) /\ (Causes' = Causes \/ Causes' = Causes + 1)
    BY <1>3, <1>12, <1>15
  <2>3. Owed' + Causes <= Owed + Causes'
    BY <1>15, <1>18, <2>2, SumLemma
  <2> QED
    BY <2>1, <2>3
<1>20. Balanced(Owed', Causes', Conflicts', Others')
  BY <1>18, <1>19, CausedLemma DEF CauseInv
<1> QED
  BY <1>1, <1>11, <1>20 DEF CauseInv

LEMMA NextCauses == IInv /\ CauseInv /\ [Next]_vars => CauseInv'
<1> SUFFICES ASSUME IInv, CauseInv, [Next]_vars PROVE CauseInv'
  OBVIOUS
<1>1. IInv'
  BY NextInv
<1>2. CASE Handler
  BY <1>1, <1>2, InvokeCauses, WriteStatusCauses, CallApiCauses, ReadCauses, WriteConditionCauses
     DEF Handler
<1>3. CASE Crash
  BY <1>1, <1>3, CrashCauses
<1>4. CASE (\E t \in limbo : LateWrite(t)) \/ Edit \/ Delete
  BY <1>1, <1>4, OutsideCauses
<1>5. CASE Annotate
  BY <1>1, <1>5, AnnotateCauses
<1>6. CASE UNCHANGED vars
  <2>1. UNCHANGED <<obj, handled, op, executions, budget>>
    BY <1>6 DEF vars
  <2>2. Owed' = Owed /\ Causes' = Causes /\ Conflicts' = Conflicts /\ Others' = Others
    BY <2>1 DEF Owed, Running, Awaited, Unhandled, Causes, Reruns, Conflicts, Others
  <2> QED
    BY <2>1, <2>2 DEF CauseInv
<1> QED
  BY <1>2, <1>3, <1>4, <1>5, <1>6 DEF Next

\* A check is executed once, once for each time its annotation was set, and once for each
\* failed request, restart and full round of conflicts: no retry, of tenacity, of the
\* condition or of kopf, multiplies another.
THEOREM ExecutionsHaveCauses == Spec => []ExecutionsBounded
<1>1. IInv /\ CauseInv => ExecutionsBounded
  <2> SUFFICES ASSUME IInv, CauseInv PROVE ExecutionsBounded
    OBVIOUS
  <2>1. PICK rounds \in Nat : Owed <= Causes + rounds /\ rounds * MaxRetries + Conflicts <= Others
    BY DEF CauseInv, Balanced
  <2>2. /\ Owed \in Nat /\ Causes \in Nat /\ Conflicts \in Nat /\ Others \in Nat /\ executions \in Nat
    BY CountsLemma, CountsLater
  <2>3. PICK limit \in Nat \ {0} : limit = MaxRetries
    BY LimitsAssumption
  <2>4. rounds * limit \in Nat
    BY TimesLemma
  <2>5. rounds <= Others \div limit /\ Others \div limit \in Nat
    <3>1. rounds * limit <= Others
      BY <2>1, <2>2, <2>3, <2>4
    <3> QED
      BY <2>2, <3>1, DivLemma
  <2>6. executions <= Owed
    BY <2>2 DEF Owed, One
  <2>7. executions <= Causes + Others \div limit
    BY <2>1, <2>2, <2>5, <2>6
  <2>8. Causes + Others \div limit
          = 1 + (budget.toggles + 1) \div 2 + budget.faults + budget.crashes + Others \div limit
    BY DEF Causes, Reruns
  <2>9. Others = budget.edits + budget.toggles + budget.late
    BY DEF Others
  <2> QED
    BY <2>3, <2>7, <2>8, <2>9, Zenon DEF ExecutionsBounded
<1> QED
  BY <1>1, Inductive, InitInv, InitCauses, NextInv, NextCauses, PTL DEF Spec
=============================================================================
