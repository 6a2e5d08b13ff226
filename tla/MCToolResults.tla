--------------------------- MODULE MCToolResults ----------------------------
(* An instance of ToolResults for TLC: every tool, every reply to three exchanges, *)
(* and three calls: two together or one after another, with one of two filters or none. *)
EXTENDS ToolResults, TLC

MCExchange == 1..3
MCReply == AnyReply
Symmetric == Permutations(Filter)
=============================================================================
