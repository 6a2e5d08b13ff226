----------------------------- MODULE AskSession -----------------------------
(***************************************************************************)
(* An interactive terminal session: the loop that reads questions          *)
(* (holmes/interactive.py) and the agent loop that answers them            *)
(* (ToolCallingLLM.call, holmes/core/tool_calling_llm.py).                 *)
(*                                                                         *)
(* A question runs in a thread of its own, which calls the LLM, runs the   *)
(* tool calls of a response in a pool of workers, asks the user to approve *)
(* some of them, and appends everything to a list of messages that it      *)
(* shares with the terminal.  Escape sets an event the thread looks at now *)
(* and then; the terminal waits two seconds, goes back to a copy of the    *)
(* list and reads the next question, while the old thread may still run.   *)
(*                                                                         *)
(* Lists are objects in a heap, so that aliasing is explicit.  A message   *)
(* is abstracted to its role, the turn (question, step) it belongs to, and *)
(* the number and outcome of tool calls.                                   *)
(***************************************************************************)
EXTENDS Naturals, Sequences, FiniteSets

CONSTANTS
  Kind,            \* tools the LLM may call: a subset of Kinds
  MaxSteps,        \* config.max_steps: LLM calls for one question
  PoolSize,        \* max_workers of the ThreadPoolExecutor
  MaxQuestions,    \* bound on questions in a session
  MaxCalls,        \* bound on tool calls in a session
  MaxCompactions,  \* bound on compactions of the history
  MaxAborts        \* bound on exceptions in the middle of a batch of tool calls

\* A tool that needs no approval; bash with a command whose prefix may be saved;
\* bash with a compound command, or one that cannot be parsed, which needs an
\* approval every time; a tool matched by the approval_required_tools of its
\* toolset; fetch_runbook.
Kinds == {"plain", "bash", "compound", "listed", "runbook"}

ASSUME KindAssumption == Kind \subseteq Kinds
ASSUME LimitsAssumption == MaxSteps \in Nat \ {0} /\ PoolSize \in Nat \ {0}
ASSUME BoundsAssumption ==
  /\ MaxQuestions \in Nat /\ MaxCalls \in Nat /\ MaxCompactions \in Nat
  /\ MaxAborts \in Nat

VARIABLES
  heap,        \* every list of messages ever made
  main,        \* the terminal: where it is, its list, its snapshot, its question
  thread,      \* the thread of each question
  worker,      \* the tool calls of its current batch
  runbook,     \* ai._runbook_in_use
  saved,       \* the user chose not to be asked again for the bash command
  active,      \* approval_active events that are set, by the question that made them
  history,     \* auxiliary: asked, the list as the last question began;
               \* ran, calls whose tool ran; approved, calls the user approved;
               \* outlived, questions still running when each one began
  budget       \* tool calls, compactions and aborts so far

vars == <<heap, main, thread, worker, runbook, saved, active, history, budget>>
-----------------------------------------------------------------------------
Question == 1..MaxQuestions
Step == 0..MaxSteps
Width == 0..MaxCalls
Outcome == {"ok", "error", "denied", "approval"}

\* turn, the question and the step; size, the tool calls of an assistant's
\* message or the place of a tool's answer among them.
Message == [role : {"system", "user", "assistant", "tool"},
            turn : Question \X Step, size : Width, outcome : Outcome]

User(q) == [role |-> "user", turn |-> <<q, 0>>, size |-> 0, outcome |-> "ok"]
Assistant(q, i, n) == [role |-> "assistant", turn |-> <<q, i>>, size |-> n, outcome |-> "ok"]
Answered(q, i, k, o) == [role |-> "tool", turn |-> <<q, i>>, size |-> k, outcome |-> o]
Notice(q, i) == [role |-> "system", turn |-> <<q, i>>, size |-> 0, outcome |-> "ok"]

CallId == Question \X Step \X Width

WorkerState == {"queued", "running", "taken", "cancelled", "raised"} \union Outcome

\* step, the LLM calls made; list, its messages in the heap; restricted, whether
\* restricted tools are offered; call, the approval in progress; approves, whether
\* the user approved it; via, the question whose callback it uses; end, how it ended.
Thread == [pc : {"idle", "step", "llm", "collect", "approve", "asking", "invoke",
                 "drain", "done"},
           step : Step, list : Nat, restricted : BOOLEAN, call : Width,
           approves : BOOLEAN, via : Question \union {0}, cancel : BOOLEAN,
           end : {"none", "answer", "interrupted", "error", "eof"}]

Idle == [pc |-> "idle", step |-> 0, list |-> 0, restricted |-> FALSE, call |-> 0,
         approves |-> FALSE, via |-> 0, cancel |-> FALSE, end |-> "none"]

\* A tool call: what it calls and how far it is.
Worker == [kind : Kinds, state : WorkerState]

TypeOK ==
  /\ heap \in Seq(Seq(Message))
  /\ main \in [pc : {"prompt", "waiting", "escaped", "exited"}, list : 0..Len(heap),
               snapshot : 0..Len(heap), q : Question \union {0}, back : BOOLEAN]
  /\ thread \in [Question -> Thread]
  /\ \A q \in Question : thread[q].list <= Len(heap)
  /\ worker \in [Question -> Seq(Worker)]
  /\ runbook \in BOOLEAN /\ saved \in BOOLEAN
  /\ active \subseteq Question
  /\ history \in [asked : Seq(Message), ran : SUBSET (CallId \X Kinds),
                  approved : SUBSET CallId, outlived : [Question -> SUBSET Question]]
  /\ budget \in [calls : 0..MaxCalls, compactions : 0..MaxCompactions, aborts : 0..MaxAborts]

Init ==
  /\ heap = <<>>
  /\ main = [pc |-> "prompt", list |-> 0, snapshot |-> 0, q |-> 0, back |-> FALSE]
  /\ thread = [q \in Question |-> Idle]
  /\ worker = [q \in Question |-> <<>>]
  /\ runbook = FALSE
  /\ saved = FALSE
  /\ active = {}
  /\ history = [asked |-> <<>>, ran |-> {}, approved |-> {},
                outlived |-> [q \in Question |-> {}]]
  /\ budget = [calls |-> 0, compactions |-> 0, aborts |-> 0]
-----------------------------------------------------------------------------
Alive(q) == thread[q].pc \notin {"idle", "done"}

Goto(q, t) == thread' = [thread EXCEPT ![q] = t]
Ended(t, how) == [Idle EXCEPT !.pc = "done", !.list = t.list, !.end = how]

Extend(r, m) == heap' = [heap EXCEPT ![r] = Append(@, m)]
-----------------------------------------------------------------------------
(* The terminal: run_interactive_loop *)

\* Mutant: the list itself is kept, not a copy.
SnapshotAlias(r, list) == <<>>

\* list(messages): a list of its own that holds the same messages.
Snapshot(r, list) == <<list>>

\* Mutant: the runbook of the question before stays in use.
ResetForgotten(flag) == flag

\* ai.reset_interaction_state()
Reset(flag) == FALSE

\* A question: reset, append it to the list or begin one, take the snapshot and
\* start the thread, which reads the flag when it fetches the tools.
Ask ==
  LET q == main.q + 1
      r == IF main.list = 0 THEN Len(heap) + 1 ELSE main.list
      list == IF main.list = 0 THEN <<User(q)>> ELSE Append(heap[r], User(q))
      held == IF main.list = 0 THEN Append(heap, list) ELSE [heap EXCEPT ![r] = list]
  IN
  /\ main.pc = "prompt"
  /\ q \in Question
  /\ heap' = held \o Snapshot(r, list)
  /\ main' = [pc |-> "waiting", list |-> r, q |-> q, back |-> FALSE,
              snapshot |-> IF Snapshot(r, list) = <<>> THEN r ELSE Len(held) + 1]
  /\ runbook' = Reset(runbook)
  /\ Goto(q, [Idle EXCEPT !.pc = "step", !.list = r, !.restricted = runbook'])
  /\ history' = [history EXCEPT !.asked = list,
                                !.outlived[q] = {z \in Question : Alive(z)}]
  /\ UNCHANGED <<worker, saved, active, budget>>

\* Escape, read while no approval is shown.
Escape ==
  /\ main.pc = "waiting"
  /\ main.q \notin active
  /\ main' = [main EXCEPT !.pc = "escaped"]
  /\ Goto(main.q, [thread[main.q] EXCEPT !.cancel = TRUE])
  /\ UNCHANGED <<heap, worker, runbook, saved, active, history, budget>>

\* thread.join(timeout=2.0) returned, with the thread ended or not.
Rollback ==
  /\ main.pc = "escaped"
  /\ main' = [main EXCEPT !.pc = "prompt", !.list = main.snapshot, !.back = TRUE]
  /\ UNCHANGED <<heap, thread, worker, runbook, saved, active, history, budget>>

\* The thread has ended.  After an exception the terminal keeps its list as the
\* thread has left it; an EOFError, caught by the loop, ends the session.
Finish ==
  /\ main.pc = "waiting"
  /\ ~Alive(main.q)
  /\ LET t == thread[main.q] IN
     main' = [main EXCEPT !.pc = IF t.end = "eof" THEN "exited" ELSE "prompt",
                          !.list = IF t.end = "answer" THEN t.list ELSE @]
  /\ UNCHANGED <<heap, thread, worker, runbook, saved, active, history, budget>>

\* /clear
Clear ==
  /\ main.pc = "prompt" /\ main.list # 0
  /\ main' = [main EXCEPT !.list = 0, !.back = FALSE]
  /\ runbook' = FALSE
  /\ UNCHANGED <<heap, thread, worker, saved, active, history, budget>>
-----------------------------------------------------------------------------
(* The agent loop: call *)

\* while i < max_steps
More(t) == t.step < MaxSteps

\* i += 1
NextStep(t) == [t EXCEPT !.pc = "llm", !.step = @ + 1]

\* The loop begins: the event is looked at, the history compacted if it is long.
Send(q) ==
  LET t == thread[q] IN
  /\ t.pc = "step" /\ More(t)
  /\ \/ t.cancel
        /\ Goto(q, Ended(t, "interrupted"))
        /\ UNCHANGED <<heap, budget>>
     \/ ~t.cancel
        /\ Goto(q, NextStep(t))
        /\ UNCHANGED <<heap, budget>>
     \/ ~t.cancel
        /\ budget.compactions < MaxCompactions
        /\ budget' = [budget EXCEPT !.compactions = @ + 1]
        /\ heap' = Append(heap, <<User(q), Assistant(q, t.step, 0), Notice(q, t.step)>>)
        /\ Goto(q, [NextStep(t) EXCEPT !.list = Len(heap) + 1])
  /\ UNCHANGED <<main, worker, runbook, saved, active, history>>

\* The loop ends without an answer.
TooManyCalls(q) ==
  /\ thread[q].pc = "step" /\ ~More(thread[q])
  /\ Goto(q, Ended(thread[q], "error"))
  /\ UNCHANGED <<heap, main, worker, runbook, saved, active, history, budget>>

\* The limiter or the completion raises, or the event was set meanwhile.
Fail(q) ==
  /\ thread[q].pc = "llm"
  /\ Goto(q, Ended(thread[q], IF thread[q].cancel THEN "interrupted" ELSE "error"))
  /\ UNCHANGED <<heap, main, worker, runbook, saved, active, history, budget>>

\* A response without tool calls.
Answer(q) ==
  LET t == thread[q] IN
  /\ t.pc = "llm" /\ ~t.cancel
  /\ Extend(t.list, Assistant(q, t.step, 0))
  /\ Goto(q, Ended(t, "answer"))
  /\ UNCHANGED <<main, worker, runbook, saved, active, history, budget>>

\* A response with tool calls, each submitted to the pool.  The last call to
\* the LLM offers no tools, which does not stop every model.
Request(q) ==
  LET t == thread[q] IN
  /\ t.pc = "llm" /\ ~t.cancel
  /\ \E n \in 1..(MaxCalls - budget.calls) : \E kinds \in [1..n -> Kind] :
       /\ Extend(t.list, Assistant(q, t.step, n))
       /\ worker' = [worker EXCEPT ![q] =
                       [k \in 1..n |-> [kind |-> kinds[k], state |-> "queued"]]]
       /\ budget' = [budget EXCEPT !.calls = @ + n]
  /\ Goto(q, [t EXCEPT !.pc = "collect"])
  /\ UNCHANGED <<main, runbook, saved, active, history>>
-----------------------------------------------------------------------------
(* Tool calls: _invoke_llm_tool_call and what it calls *)

\* A pattern of the toolset, or the tool's own rule: bash allows the prefixes
\* that the user has saved.
NeedsApproval(kind) == kind \in {"listed", "compound"} \/ (kind = "bash" /\ ~saved)

\* Mutant: the tool runs before it asks.
OutcomesEager(kind, approved) ==
  IF ~approved /\ NeedsApproval(kind)
  THEN {<<"approval", TRUE>>}
  ELSE {<<"ok", TRUE>>, <<"error", TRUE>>}

\* What invoking a tool can return, and whether it may have run: a tool that
\* needs an approval returns without running.  An error is the tool's own, or a
\* refusal: of the safeguards, of a toolset that fails to start, of an unknown name.
Outcomes(kind, approved) ==
  IF ~approved /\ NeedsApproval(kind)
  THEN {<<"approval", FALSE>>}
  ELSE {<<"ok", TRUE>>, <<"error", TRUE>>}

\* The second invocation.  The first one has replaced the prefixes of the call
\* by those that an approval would save; a compound command has none, and
\* without prefixes nothing asks for an approval and bash refuses to run.
OutcomesAgain(kind, approved) ==
  IF kind = "compound" /\ ~approved THEN {<<"error", FALSE>>} ELSE Outcomes(kind, approved)

\* The effects of an invocation beyond its result.
Invoked(c, kind, o) ==
  /\ runbook' = (runbook \/ (kind = "runbook" /\ o = <<"ok", TRUE>>))
  /\ history' = [history EXCEPT !.ran = IF o[2] THEN @ \union {<<c, kind>>} ELSE @]

SetWorker(q, k, s) == worker' = [worker EXCEPT ![q][k].state = s]

StartTool(q, k) ==
  /\ worker[q][k].state = "queued"
  /\ Cardinality({j \in DOMAIN worker[q] : worker[q][j].state = "running"}) < PoolSize
  /\ SetWorker(q, k, "running")
  /\ UNCHANGED <<heap, main, thread, runbook, saved, active, history, budget>>

\* The tool returns; or an exception, for instance of the tokenizer, gets out.
EndTool(q, k) ==
  /\ worker[q][k].state = "running"
  /\ \/ \E o \in Outcomes(worker[q][k].kind, FALSE) :
          /\ SetWorker(q, k, o[1])
          /\ Invoked(<<q, thread[q].step, k>>, worker[q][k].kind, o)
          /\ UNCHANGED budget
     \/ /\ budget.aborts < MaxAborts
        /\ budget' = [budget EXCEPT !.aborts = @ + 1]
        /\ SetWorker(q, k, "raised")
        /\ UNCHANGED <<runbook, history>>
  /\ UNCHANGED <<heap, main, thread, saved, active>>

\* Mutant: the first result ends the batch.
BatchOverEarly(q, k) == TRUE
\* Mutant: it is never seen that the last result was taken.
BatchNeverOver(q, k) == \A j \in DOMAIN worker[q] : worker[q][j].state = "taken"

\* Every other future has been collected.
BatchOver(q, k) == \A j \in DOMAIN worker[q] \ {k} : worker[q][j].state = "taken"

\* The result of call k goes to the list; after the last one the tools are
\* fetched again if a runbook is in use.
TakeResult(q, k, o) ==
  LET t == thread[q] IN
  /\ Extend(t.list, Answered(q, t.step, k, o))
  /\ worker' = [worker EXCEPT ![q] = IF BatchOver(q, k) THEN <<>>
                                     ELSE [@ EXCEPT ![k].state = "taken"]]
  /\ Goto(q, [t EXCEPT !.pc = IF BatchOver(q, k) THEN "step" ELSE "collect",
                       !.restricted = @ \/ (BatchOver(q, k) /\ runbook),
                       !.call = 0, !.approves = FALSE, !.via = 0])

\* The next future that as_completed yields.
Collect(q, k) ==
  LET t == thread[q]  s == worker[q][k].state IN
  /\ t.pc = "collect"
  /\ s \in Outcome \union {"raised"}
  /\ \/ /\ t.cancel
        /\ worker' = [worker EXCEPT ![q] =
                        [j \in DOMAIN @ |-> IF @[j].state = "queued"
                                            THEN [@[j] EXCEPT !.state = "cancelled"]
                                            ELSE @[j]]]
        /\ Goto(q, [t EXCEPT !.pc = "drain", !.end = "interrupted"])
        /\ UNCHANGED heap
     \/ /\ ~t.cancel /\ s = "raised"
        /\ Goto(q, [t EXCEPT !.pc = "drain", !.end = "error"])
        /\ UNCHANGED <<heap, worker>>
     \/ /\ ~t.cancel /\ s = "approval"
        /\ Goto(q, [t EXCEPT !.pc = "approve", !.call = k])
        /\ UNCHANGED <<heap, worker>>
     \/ /\ ~t.cancel /\ s \in Outcome \ {"approval"}
        /\ TakeResult(q, k, s)
  /\ UNCHANGED <<main, runbook, saved, active, history, budget>>
-----------------------------------------------------------------------------
(* Approvals: _handle_tool_call_approval and handle_tool_approval *)

\* _is_tool_call_already_approved asks the tool, which knows nothing of the
\* patterns of its toolset, and which asks for nothing when there is no prefix.
NoLongerNeeded(kind) == kind \in {"listed", "compound"} \/ saved

\* Invoke at once, or show the menu through the callback now installed, which
\* is that of the question the terminal waits for.
Approve(q) ==
  LET t == thread[q] IN
  /\ t.pc = "approve"
  /\ \/ /\ NoLongerNeeded(worker[q][t.call].kind)
        /\ Goto(q, [t EXCEPT !.pc = "invoke", !.approves = FALSE])
        /\ UNCHANGED active
     \/ /\ ~NoLongerNeeded(worker[q][t.call].kind)
        /\ LET via == IF main.pc \in {"waiting", "escaped"} THEN main.q ELSE 0 IN
           /\ Goto(q, [t EXCEPT !.pc = "asking", !.via = via])
           /\ active' = active \union ({via} \ {0})
  /\ UNCHANGED <<heap, main, worker, runbook, saved, history, budget>>

\* The menu: yes; yes and don't ask again; no; or Ctrl+C and Ctrl+D at the
\* prompt for feedback, which end the thread in the middle of its batch.
Reply(q) ==
  LET t == thread[q]  c == <<q, t.step, t.call>> IN
  /\ t.pc = "asking"
  /\ active' = active \ {t.via}
  /\ \/ /\ saved' \in {saved, TRUE}
        /\ history' = [history EXCEPT !.approved = @ \union {c}]
        /\ Goto(q, [t EXCEPT !.pc = "invoke", !.approves = TRUE, !.via = 0])
        /\ UNCHANGED <<heap, worker, budget>>
     \/ /\ TakeResult(q, t.call, "denied")
        /\ UNCHANGED <<saved, history, budget>>
     \/ /\ budget.aborts < MaxAborts
        /\ budget' = [budget EXCEPT !.aborts = @ + 1]
        /\ \E how \in {"error", "eof"} : Goto(q, [t EXCEPT !.pc = "drain", !.end = how, !.via = 0])
        /\ UNCHANGED <<heap, worker, saved, history>>
  /\ UNCHANGED <<main, runbook>>

\* _directly_invoke_tool_call, in the thread itself.
Invoke(q) ==
  LET t == thread[q]  kind == worker[q][t.call].kind IN
  /\ t.pc = "invoke"
  /\ \E o \in OutcomesAgain(kind, t.approves) :
       /\ TakeResult(q, t.call, o[1])
       /\ Invoked(<<q, t.step, t.call>>, kind, o)
  /\ UNCHANGED <<main, saved, active, budget>>

\* Leaving the with block waits for the tools that still run or are queued.
Drained(q) ==
  /\ thread[q].pc = "drain"
  /\ \A k \in DOMAIN worker[q] : worker[q][k].state \notin {"queued", "running"}
  /\ Goto(q, Ended(thread[q], thread[q].end))
  /\ worker' = [worker EXCEPT ![q] = <<>>]
  /\ UNCHANGED <<heap, main, runbook, saved, active, history, budget>>
-----------------------------------------------------------------------------
Tool(q) == \E k \in DOMAIN worker[q] : StartTool(q, k) \/ EndTool(q, k)

Call(q) ==
  \/ Send(q) \/ TooManyCalls(q) \/ Fail(q) \/ Answer(q) \/ Request(q)
  \/ \E k \in DOMAIN worker[q] : Collect(q, k)
  \/ Approve(q) \/ Reply(q) \/ Invoke(q) \/ Drained(q)

Terminal == Ask \/ Escape \/ Rollback \/ Finish \/ Clear

Next == Terminal \/ \E q \in Question : Call(q) \/ Tool(q)

Spec == Init /\ [][Next]_vars

\* Threads and workers run, the LLM and the tools answer or fail, and a user
\* who is asked replies.  Nobody has to ask, escape or clear.
FairSpec ==
  /\ Spec
  /\ WF_vars(Rollback) /\ WF_vars(Finish)
  /\ \A q \in Question : WF_vars(Call(q)) /\ WF_vars(Tool(q))
-----------------------------------------------------------------------------
(* Properties *)

\* Every assistant message with tool calls is followed by one answer to each.
Complete(s) ==
  \A i \in DOMAIN s :
    LET n == s[i].size
        block == {j \in DOMAIN s : i < j /\ j <= i + n}
    IN s[i].role = "assistant" =>
         /\ i + n <= Len(s)
         /\ \A j \in block : s[j].role = "tool" /\ s[j].turn = s[i].turn
         /\ {s[j].size : j \in block} = 1..n

\* ... and every answer follows the message that asked for it.
Called(s) ==
  \A j \in DOMAIN s :
    s[j].role = "tool" =>
      \E i \in 1..(j - 1) : /\ s[i].role = "assistant" /\ s[i].turn = s[j].turn
                            /\ s[j].size <= s[i].size

WellFormed(s) == Complete(s) /\ Called(s)

\* "It is expected that the tool call result directly follows the tool call
\* request from the LLM" (tool_calling_llm.py:383): so are the messages sent,
\* whatever was interrupted, denied, compacted or failed before.
SentWellFormed ==
  \A q \in Question : thread[q].pc = "llm" => WellFormed(heap[thread[q].list])

\* It holds as long as no exception leaves a batch halfway.
SentWellFormedUnlessAborted == budget.aborts = 0 => SentWellFormed

\* After Escape the conversation is and stays what it was when the question was
\* asked, whatever the interrupted thread and its tools still do.
RolledBack == main.pc = "prompt" /\ main.back => heap[main.list] = history.asked

\* A call that ran had the approval it needed: its own or, for bash, that of its prefix.
Approved(e) ==
  e[2] \in {"bash", "compound", "listed"} => e[1] \in history.approved \/ (e[2] = "bash" /\ saved)

\* An answer says what happened: "ok" stands for a tool that ran, with the approval that
\* it needs, and a call that was denied never runs, nor one that was cancelled.
AnswersAreTrue ==
  \A r \in DOMAIN heap : \A j \in DOMAIN heap[r] :
    LET m == heap[r][j]
        runs == {e \in history.ran : e[1] = <<m.turn[1], m.turn[2], m.size>>}
    IN m.role = "tool" => /\ m.outcome = "ok" => \E e \in runs : Approved(e)
                          /\ m.outcome = "denied" => runs = {}

\* "restricted tools become available for the rest of the current request"
\* (tool_calling_llm.py:703): a question is offered them because of a runbook it
\* fetched, or one that a question it has outlived fetched under its feet.
RestrictedNeedsRunbook ==
  \A q \in Question : thread[q].pc = "llm" /\ thread[q].restricted =>
    \E e \in history.ran : /\ e[2] = "runbook"
                           /\ e[1][1] \in {q} \union history.outlived[q]

\* A question ends and the terminal comes back to its user, also when a batch
\* is cut short; an interrupted thread does not run for ever.
QuestionEnds ==
  \A q \in Question :
    Alive(q) ~> ~Alive(q) /\ (main.q # q \/ main.pc \in {"prompt", "exited"})
=============================================================================
