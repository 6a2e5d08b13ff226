-------------------------- MODULE MCServerToolsets --------------------------
(* Instances of ServerToolsets for TLC. *)
EXTENDS ServerToolsets
=============================================================================
