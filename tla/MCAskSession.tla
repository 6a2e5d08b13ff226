---------------------------- MODULE MCAskSession ----------------------------
(* Instances of AskSession for TLC. *)
EXTENDS AskSession
=============================================================================
