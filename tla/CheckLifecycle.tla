--------------------------- MODULE CheckLifecycle ---------------------------
(***************************************************************************)
(* What a HealthCheck resource shows to those who only read it, above all  *)
(* to the watchers of ScheduledChecks: it is unfinished until a step makes *)
(* it finished and writes its result, both at once; it may finish again    *)
(* with another result, or be unfinished again while the old result stays; *)
(* and it may be deleted.  The actions are those of ScheduledChecks on one *)
(* element of hc.  HealthChecks, where the status is written by a handler  *)
(* that fails, is retried and restarts, is shown to implement it.          *)
(***************************************************************************)
CONSTANT Verdict      \* results a check can report

VARIABLES
  phase,      \* "unfinished", "finished" or "gone"
  result,     \* the last result written, "unset" before the first
  reported    \* every result ever shown together with a final phase

shown == <<phase, result, reported>>

Init == phase = "unfinished" /\ result = "unset" /\ reported = {}

\* ScheduledChecks!CheckFinishes
Finish(r) ==
  /\ phase # "gone"
  /\ phase' = "finished"
  /\ result' = r
  /\ reported' = reported \union {r}

\* ScheduledChecks!CheckReruns
Rerun ==
  /\ phase = "finished"
  /\ phase' = "unfinished"
  /\ UNCHANGED <<result, reported>>

\* ScheduledChecks!CheckDeleted
Delete ==
  /\ phase # "gone"
  /\ phase' = "gone"
  /\ UNCHANGED <<result, reported>>

Next == (\E r \in Verdict : Finish(r)) \/ Rerun \/ Delete

Spec == Init /\ [][Next]_shown
=============================================================================
