--------------------------- MODULE MCContextWindow --------------------------
(* An instance of ContextWindow for TLC: a window of 24 tokens, in which a batch of *)
(* three results may be less than a part, more than the threshold, or more than the *)
(* whole.                                                                            *)
EXTENDS ContextWindow

MCQuestions == {1, 20}
MCOutputs == {2, 9}
MCCompletions == {1}
MCSummaries == {1, 6}
MCPerToken == {1, 4}
=============================================================================
