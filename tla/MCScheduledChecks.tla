------------------------- MODULE MCScheduledChecks -------------------------
(* Instances of ScheduledChecks for TLC. *)
EXTENDS ScheduledChecks, TLC

CONSTANT MaxMishaps

\* The checks of a schedule differ in nothing but their names.
Symmetry == Permutations(Check)

\* Bound: failed requests, restarts, reruns and deletions of the schedule in
\* one behaviour.
FewMishaps ==
  budget.faults + budget.crashes + budget.reruns + (IF shc.exists THEN 0 ELSE 1)
    <= MaxMishaps
=============================================================================
