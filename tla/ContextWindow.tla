---------------------------- MODULE ContextWindow ---------------------------
(***************************************************************************)
(* What the agent does before each call of the model to keep the           *)
(* conversation inside the model's context window                          *)
(* (holmes/core/truncation): it asks the model for a summary in place of   *)
(* the conversation, and cuts the results of tools when that does not      *)
(* help.  Sizes are counted in tokens.                                     *)
(***************************************************************************)
EXTENDS Integers, SequencesExt

CONSTANTS
  Window,       \* get_context_window_size
  MaxOutput,    \* get_maximum_output_token
  Reservation,  \* MAX_OUTPUT_TOKEN_RESERVATION
  ThresholdPct, \* CONTEXT_WINDOW_COMPACTION_THRESHOLD_PCT
  Definitions,  \* the size of the definitions of the tools
  Note,         \* the size of the system prompt, of compaction's instructions and of its note
  Questions,    \* the sizes of questions,
  Outputs,      \*   of results of tools, each below the limit of one tool or approved,
  Completions,  \*   of answers of the model,
  Summaries,    \*   and of the summaries it writes
  PerToken,     \* the characters a token may stand for
  MaxBatch,     \* bound: tool calls of one answer
  MaxSteps,     \* max_steps
  MaxQuestions  \* bound: questions of the conversation

ASSUME SizesAssumption ==
  /\ {Window, MaxOutput, Reservation, Definitions, Note} \subseteq Nat
  /\ Questions \union Outputs \union Completions \union Summaries \subseteq Nat
  /\ PerToken \subseteq Nat \ {0}
ASSUME WindowBoundsAssumption ==
  {ThresholdPct, MaxBatch, MaxSteps, MaxQuestions} \subseteq Nat \ {0}

VARIABLES
  compaction,   \* ENABLE_CONVERSATION_HISTORY_COMPACTION
  conversation, \* messages: each its role, its size, the question it belongs to, its first size
  pc,           \* what the loop does next: ask, compact, cut, send; or failed
  step,         \* the calls of the model for this question
  question,     \* the number of the question
  allotted      \* auxiliary: the space of the results when they were last cut, by place

windowVars == <<compaction, conversation, pc, step, question, allotted>>

Message(role, size, of) == [role |-> role, size |-> size, of |-> of, written |-> size]

Sum(sizes) == FoldLeft(LAMBDA m, n : m + n, 0, sizes)

Total(ms) == Sum([i \in DOMAIN ms |-> ms[i].size])

\* On the last step the model gets no tools.
Tools == IF step = MaxSteps THEN 0 ELSE Definitions

MinOf(a, b) == IF a < b THEN a ELSE b

WindowInit ==
  /\ compaction \in BOOLEAN
  /\ conversation = <<Message("system", Note, 0)>>
  /\ pc = "ask" /\ step = 0 /\ question = 0 /\ allotted = <<>>

Question ==
  /\ pc = "ask" /\ question < MaxQuestions
  /\ \E size \in Questions :
       conversation' = Append(conversation, Message("user", size, question + 1))
  /\ question' = question + 1 /\ step' = 1 /\ pc' = "compact"
  /\ UNCHANGED <<compaction, allotted>>
-----------------------------------------------------------------------------
(* limit_input_context_window *)

\* The conversation with the tools, and room for the answer, pass a part of the window.
Passes(pct) == 100 * (Total(conversation) + Tools + MaxOutput) > pct * Window

Fail ==
  /\ pc' = "failed"
  /\ UNCHANGED <<compaction, conversation, step, question, allotted>>

\* Mutant: the first question of the conversation is taken for the last one.
CompactedToFirst(size) ==
  <<conversation[1], conversation[SelectInSeq(conversation, LAMBDA m : m.role = "user")],
    Message("assistant", size, question), Message("note", Note, question)>>

\* compact_conversation_history: the system prompt, the last question, the summary, a note.
Compacted(size) ==
  <<conversation[1], conversation[SelectLastInSeq(conversation, LAMBDA m : m.role = "user")],
    Message("assistant", size, question), Message("note", Note, question)>>

\* The conversation that is to be summarised has to fit too: instructions take the place
\* of the system prompt.
Summarizable == Total(Tail(conversation)) + Note <= Window

CompactHistory ==
  /\ pc = "compact"
  /\ \/ ~(compaction /\ Passes(ThresholdPct)) /\ UNCHANGED conversation
     \/ /\ compaction /\ Passes(ThresholdPct) /\ Summarizable
        /\ \/ UNCHANGED conversation \* no answer
           \/ \E size \in Summaries :
                conversation' = IF Total(Compacted(size)) < Total(conversation)
                                THEN Compacted(size) ELSE conversation
  /\ pc' = "cut"
  /\ UNCHANGED <<compaction, step, question, allotted>>

CompactTooLong ==
  /\ pc = "compact" /\ compaction /\ Passes(ThresholdPct) /\ ~Summarizable
  /\ Fail

(* truncate_messages_to_fit_context: the definitions of the tools are not counted *)

ToolMessages == {i \in DOMAIN conversation : conversation[i].role = "tool"}

\* The conversation's size without the results of tools.
Prompts ==
  Sum([i \in DOMAIN conversation |-> IF i \in ToolMessages THEN 0 ELSE conversation[i].size])

Reserved == MinOf(MaxOutput, Reservation)

\* Mutant: the room for the answer is given away.
AvailableUnreserved == Window - Prompts

Available == Window - Prompts - Reserved

Smaller(i, j) ==
  \/ conversation[i].size < conversation[j].size
  \/ conversation[i].size = conversation[j].size /\ i < j

\* Mutant: the results are not sorted.
LastWritten(results) == CHOOSE i \in results : \A j \in results \ {i} : j < i

\* The last of these results when they are sorted by size.
Largest(results) == CHOOSE i \in results : \A j \in results \ {i} : Smaller(j, i)

\* One result more: it gets what it needs, and no more than its share of what is left.
Give(i, given) ==
  LET share == given.left \div given.tools
      space == MinOf(conversation[i].size, share)
  IN [left |-> given.left - space, tools |-> given.tools - 1,
      space |-> [given.space EXCEPT ![i] = space]]

\* The space of each result, by its place in the conversation: small ones come first, as
\* the fold takes the largest of a set after the rest of it.
Allotment ==
  MapThenFoldSet(Give,
                 [left |-> Available, tools |-> Cardinality(ToolMessages),
                  space |-> [i \in ToolMessages |-> 0]],
                 LAMBDA i : i, Largest, ToolMessages).space

\* _truncate_tool_message: the space is counted in tokens, the text is cut to as many
\* characters.
Shortened(m, space, per) ==
  IF m.size > space THEN [m EXCEPT !.size = (space + per - 1) \div per] ELSE m

Cut ==
  /\ pc = "cut" /\ Passes(100) /\ Prompts < Window - Reserved
  /\ \E space \in {Allotment}, per \in PerToken :
       /\ allotted' =
            [i \in ToolMessages |-> [needed |-> conversation[i].size, space |-> space[i]]]
       /\ conversation' = [i \in DOMAIN conversation |->
            IF i \in ToolMessages THEN Shortened(conversation[i], space[i], per)
            ELSE conversation[i]]
  /\ pc' = "send"
  /\ UNCHANGED <<compaction, step, question>>

PromptsTooLong ==
  /\ pc = "cut" /\ Passes(100) /\ Prompts >= Window - Reserved
  /\ Fail

Fits ==
  /\ pc = "cut" /\ ~Passes(100)
  /\ pc' = "send" /\ allotted' = <<>>
  /\ UNCHANGED <<compaction, conversation, step, question>>
-----------------------------------------------------------------------------
(* The model: what is longer than its window is refused *)

Accepts == Total(conversation) + Tools <= Window

Refuse ==
  /\ pc = "send" /\ ~Accepts
  /\ Fail

Answer ==
  /\ pc = "send" /\ Accepts
  /\ \E size \in Completions :
       conversation' = Append(conversation, Message("assistant", size, question))
  /\ pc' = "ask"
  /\ UNCHANGED <<compaction, step, question, allotted>>

CallTools ==
  /\ pc = "send" /\ Accepts /\ step < MaxSteps
  /\ \E size \in Completions, n \in 1..MaxBatch : \E results \in [1..n -> Outputs] :
       conversation' = Append(conversation, Message("assistant", size, question))
                         \o [i \in 1..n |-> Message("tool", results[i], question)]
  /\ step' = step + 1 /\ pc' = "compact"
  /\ UNCHANGED <<compaction, question, allotted>>

WindowNext ==
  \/ Question \/ CompactHistory \/ CompactTooLong \/ Cut \/ PromptsTooLong \/ Fits
  \/ Refuse \/ Answer \/ CallTools

WindowSpec == WindowInit /\ [][WindowNext]_windowVars
-----------------------------------------------------------------------------
(* Properties *)

\* Whatever was summarised and cut, and whatever the batches brought: a conversation that
\* is sent leaves the room that is reserved for the answer.
SentFits == pc = "send" => Total(conversation) + Reserved <= Window

\* The results share what the prompts leave: one that was cut got no less than any other
\* but for rounding, and nothing is left over when something was cut.
SpaceIsShared ==
  pc = "send" =>
    \A i \in DOMAIN allotted : allotted[i].space < allotted[i].needed =>
      /\ \A j \in DOMAIN allotted : allotted[j].space <= allotted[i].space + 1
      /\ Sum([j \in DOMAIN conversation |->
                IF j \in DOMAIN allotted THEN allotted[j].space ELSE 0]) = Available

\* The system prompt and the question that is open are in every conversation that is sent,
\* as they were written, after any number of summaries; and the results of a call follow
\* the message that asked for them.
PromptsSurvive ==
  pc = "send" =>
    /\ conversation[1] = Message("system", Note, 0)
    /\ \E i \in DOMAIN conversation :
         /\ conversation[i].role = "user" /\ conversation[i].of = question
         /\ conversation[i].size = conversation[i].written
    /\ \A i \in ToolMessages : /\ conversation[i - 1].role \in {"assistant", "tool"}
                               /\ conversation[i - 1].of = conversation[i].of
=============================================================================
