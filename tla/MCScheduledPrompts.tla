------------------------- MODULE MCScheduledPrompts -------------------------
(* Instances of ScheduledPrompts for TLC. *)
EXTENDS ScheduledPrompts
=============================================================================
