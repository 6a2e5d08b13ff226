---------------------------- MODULE StatusLedger ----------------------------
(***************************************************************************)
(* What the status of one ScheduledHealthCheck promises its readers: a     *)
(* ledger of the checks the schedule created.  A check is announced in     *)
(* active, and its outcome is entered once at the head of a bounded        *)
(* history, in one step that also takes it out of active.  Every step      *)
(* starts from the latest status: no update is lost or applied twice to    *)
(* the same version.  ScheduledChecks, where each step is a GET followed   *)
(* by a PATCH that other writers can overtake, is shown to implement it.   *)
(***************************************************************************)
EXTENDS Naturals, Sequences

CONSTANTS
  Check,       \* names of HealthCheck resources, each used by one execution
  Verdict,     \* results an execution can have
  MaxHistory   \* OperatorConfig.max_history_items

VARIABLES
  active,      \* checks listed in status.active
  history,     \* status.history, newest first
  recorded     \* checks that have ever been entered in history

ledger == <<active, history, recorded>>

Init ==
  /\ active = {}
  /\ history = <<>>
  /\ recorded = {}

\* A check is announced; never again once its outcome is known.
Announce(c) ==
  /\ c \notin recorded
  /\ active' = active \union {c}
  /\ UNCHANGED <<history, recorded>>

\* An outcome is entered at the head; the oldest entry beyond the limit goes.
Enter(c, r) ==
  /\ active' = active \ {c}
  /\ recorded' = recorded \union {c}
  /\ Len(history') = IF Len(history) < MaxHistory THEN Len(history) + 1
                                                  ELSE Len(history)
  /\ history'[1] = [check |-> c, result |-> r]
  /\ \A i \in 2..Len(history') : history'[i] = history[i - 1]

\* A check is struck off without an outcome.
Strike(c) ==
  /\ active' = active \ {c}
  /\ UNCHANGED <<history, recorded>>

Next == \E c \in Check :
          \/ Announce(c)
          \/ \E r \in Verdict : Enter(c, r)
          \/ Strike(c)

Spec == Init /\ [][Next]_ledger
=============================================================================
