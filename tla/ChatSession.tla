----------------------------- MODULE ChatSession ----------------------------
(***************************************************************************)
(* A chat over HTTP: POST /api/chat with stream=true (server.py), answered *)
(* by ToolCallingLLM.call_stream (holmes/core/tool_calling_llm.py).        *)
(*                                                                         *)
(* The server keeps nothing between requests.  The client sends back the   *)
(* conversation of the last response, with a question and its decisions on *)
(* the tool calls that wait for an approval: these are marked in the       *)
(* assistant's message that asked for them.  A request runs the approved   *)
(* calls, answers the others as denied, and goes on with the agent loop    *)
(* until an answer or until new calls need an approval.                    *)
(*                                                                         *)
(* A client may give up on a request, and send another while the first is  *)
(* still served.  A message is abstracted to its role, the turn (request,  *)
(* step) it belongs to, its tool calls, those of them that are pending,    *)
(* and the outcome of a tool's answer.                                     *)
(***************************************************************************)
EXTENDS Naturals, Sequences, FiniteSets

CONSTANTS
  Kind,            \* tools the LLM may call: a subset of {"plain", "bash"}
  Approvals,       \* values of enable_tool_approval that the client uses
  MaxSteps,        \* config.max_steps: LLM calls of one request
  MaxRequests,     \* bound on requests
  MaxCalls,        \* bound on tool calls
  MaxCompactions,  \* bound on compactions of the history
  MaxFaults        \* bound on requests that fail or that the client gives up

ASSUME KindAssumption == Kind \subseteq {"plain", "bash"}
ASSUME ApprovalsAssumption == Approvals \subseteq BOOLEAN
ASSUME LimitsAssumption == MaxSteps \in Nat \ {0}
ASSUME BoundsAssumption ==
  /\ MaxRequests \in Nat /\ MaxCalls \in Nat /\ MaxCompactions \in Nat
  /\ MaxFaults \in Nat

VARIABLES
  client,    \* whether it waits for the request it sent last, and its conversation
  request,   \* the requests at the server
  ran,       \* auxiliary: the calls whose tool ran, and the request that ran each
  budget     \* tool calls, compactions and faults so far

vars == <<client, request, ran, budget>>
-----------------------------------------------------------------------------
Request == 1..MaxRequests
Place == 1..MaxCalls
Turn == Request \X (0..MaxSteps)
CallId == Turn \X Place

\* calls and pending of an assistant's message; place, outcome and remember (the
\* prefixes of an approval that is not to be asked for again) of a tool's.  The
\* outcome tells what a tool returned, its errors included, from the answers
\* that stand for a tool that did not run.
Message == [role : {"system", "user", "assistant", "tool"}, turn : Turn,
            calls : Seq(Kind), pending : SUBSET Place, place : Place \union {0},
            outcome : {"none", "result", "refused", "denied"}, remember : BOOLEAN]

Plain(role, turn) == [role |-> role, turn |-> turn, calls |-> <<>>, pending |-> {},
                      place |-> 0, outcome |-> "none", remember |-> FALSE]
Calling(turn, kinds) == [Plain("assistant", turn) EXCEPT !.calls = kinds]
Answered(turn, k, o, remember) ==
  [Plain("tool", turn) EXCEPT !.place = k, !.outcome = o, !.remember = remember]

\* The tool calls of a request's current step: "held" back for an approval.
WorkerState == {"running", "result", "approval", "raised", "taken", "held"}

\* decides, approve and save are the tool_decisions; enable, enable_tool_approval;
\* gone, the client has given up; end, how the request ended.
Served == [pc : {"none", "sent", "decide", "step", "llm", "tools", "drain", "done"},
           list : Seq(Message), step : 0..MaxSteps,
           decides : BOOLEAN, approve : SUBSET CallId, save : SUBSET CallId,
           enable : BOOLEAN, worker : Seq([kind : Kind, state : WorkerState]),
           gone : BOOLEAN, end : {"none", "answer", "approval", "error"}]

Unsent == [pc |-> "none", list |-> <<>>, step |-> 0, decides |-> FALSE, approve |-> {},
           save |-> {}, enable |-> FALSE, worker |-> <<>>, gone |-> FALSE, end |-> "none"]

TypeOK ==
  /\ client \in [waiting : BOOLEAN, sent : 0..MaxRequests, history : Seq(Message)]
  /\ request \in [Request -> Served]
  /\ ran \subseteq [call : CallId, kind : Kind, by : Request]
  /\ budget \in [calls : 0..MaxCalls, compactions : 0..MaxCompactions, faults : 0..MaxFaults]

Init ==
  /\ client = [waiting |-> FALSE, sent |-> 0, history |-> <<>>]
  /\ request = [q \in Request |-> Unsent]
  /\ ran = {}
  /\ budget = [calls |-> 0, compactions |-> 0, faults |-> 0]
-----------------------------------------------------------------------------
(* Pending calls in a list of messages *)

\* The places of the calls marked pending_approval, and their ids.
Pending(s) == {p \in (DOMAIN s) \X Place : p[2] \in s[p[1]].pending}
IdOf(s, p) == <<s[p[1]].turn, p[2]>>
PendingIds(s) == {IdOf(s, p) : p \in Pending(s)}

\* The order of pending_tool_calls: later messages first, then as called.
FirstPending(s) ==
  {p \in Pending(s) :
     \A o \in Pending(s) : o[1] < p[1] \/ (o[1] = p[1] /\ p[2] <= o[2])}

\* Mutant: the answer goes to the end.
DecidedAppended(s, p, m) == Append([s EXCEPT ![p[1]].pending = @ \ {p[2]}], m)

\* The mark is taken away and the answer inserted right after the message that
\* asked, before those that are there already.
Decided(s, p, m) ==
  LET t == [s EXCEPT ![p[1]].pending = @ \ {p[2]}] IN
  SubSeq(t, 1, p[1]) \o <<m>> \o SubSeq(t, p[1] + 1, Len(t))

\* Mutant: all calls of the message are marked.
MarkedAll(s, turn, held) ==
  [i \in DOMAIN s |-> IF s[i].role = "assistant" /\ s[i].turn = turn
                      THEN [s[i] EXCEPT !.pending = DOMAIN s[i].calls] ELSE s[i]]
\* Mutant: the first of several calls is marked.
MarkedOne(s, turn, held) ==
  [i \in DOMAIN s |-> IF s[i].role = "assistant" /\ s[i].turn = turn
                      THEN [s[i] EXCEPT !.pending = {k \in held : \A j \in held : k <= j}]
                      ELSE s[i]]

\* tool_call["pending_approval"] = True for the calls held back.
Marked(s, turn, held) ==
  [i \in DOMAIN s |-> IF s[i].role = "assistant" /\ s[i].turn = turn
                      THEN [s[i] EXCEPT !.pending = held] ELSE s[i]]

\* Mutant: only the last answer is searched.
RememberedLast(s) == s # <<>> /\ s[Len(s)].remember

\* extract_bash_session_prefixes: some answer in the list carries the prefix.
Remembered(s) == \E i \in DOMAIN s : s[i].remember
-----------------------------------------------------------------------------
(* The client *)

\* A question, or the decisions on what is pending; missing ones are denials.
Submit ==
  LET q == client.sent + 1 IN
  /\ ~client.waiting
  /\ q \in Request
  /\ \E decides \in BOOLEAN, enable \in Approvals :
     \E approve \in SUBSET PendingIds(client.history) : \E save \in {{}, approve} :
       /\ ~decides => approve = {}
       /\ request' = [request EXCEPT ![q] =
            [Unsent EXCEPT !.pc = "sent", !.decides = decides, !.enable = enable,
                           !.approve = approve, !.save = save,
                           !.list = Append(client.history, Plain("user", <<q, 0>>))]]
  /\ client' = [client EXCEPT !.waiting = TRUE, !.sent = q]
  /\ UNCHANGED <<ran, budget>>

Fault ==
  /\ budget.faults < MaxFaults
  /\ budget' = [budget EXCEPT !.faults = @ + 1]

\* The client gives up; the server notices when it yields, or never.
GiveUp ==
  /\ client.waiting
  /\ Fault
  /\ request' = [request EXCEPT ![client.sent].gone = TRUE]
  /\ client' = [client EXCEPT !.waiting = FALSE]
  /\ UNCHANGED ran

Set(q, t) == request' = [request EXCEPT ![q] = t]

\* The last event of a stream.  After an error the client has what it had.
End(q, t, how, s) ==
  /\ Set(q, [t EXCEPT !.pc = "done", !.end = how, !.list = s, !.worker = <<>>])
  /\ IF t.gone THEN UNCHANGED client
     ELSE client' = [client EXCEPT !.waiting = FALSE,
                                   !.history = IF how = "error" THEN @ ELSE s]
-----------------------------------------------------------------------------
(* The decisions: process_tool_decisions *)

\* Decisions without anything pending are an error.
Begin(q) ==
  LET t == request[q] IN
  /\ t.pc = "sent"
  /\ \/ /\ t.decides /\ Pending(t.list) = {}
        /\ End(q, t, "error", t.list)
        /\ UNCHANGED budget
     \/ /\ Fault
        /\ End(q, t, "error", t.list)
     \/ /\ ~(t.decides /\ Pending(t.list) = {})
        /\ Set(q, [t EXCEPT !.pc = IF t.decides THEN "decide" ELSE "step"])
        /\ UNCHANGED <<client, budget>>
  /\ UNCHANGED ran

\* Mutant: a decision that is missing counts as an approval.
ApprovesUnlessDenied(t, c) == t.approve = {} \/ c \in t.approve

\* decision and decision.approved
Approves(t, c) == c \in t.approve

\* One pending call: an approved one runs, or an exception gets out of it.
Decide(q) == \E p \in FirstPending(request[q].list) :
  LET t == request[q]
      c == IdOf(t.list, p)
      run == [call |-> c, kind |-> t.list[p[1]].calls[p[2]], by |-> q]
      After(o) == LET s == Decided(t.list, p, Answered(c[1], c[2], o, c \in t.save))
                  IN [t EXCEPT !.list = s, !.pc = IF Pending(s) = {} THEN "step" ELSE @]
  IN
  /\ t.pc = "decide"
  /\ \/ /\ Approves(t, c)
        /\ Set(q, After("result"))
        /\ ran' = ran \union {run}
        /\ UNCHANGED <<client, budget>>
     \/ /\ ~Approves(t, c)
        /\ Set(q, After("denied"))
        /\ UNCHANGED <<client, ran, budget>>
     \/ /\ Approves(t, c)
        /\ Fault
        /\ End(q, t, "error", t.list)
        /\ ran' = ran \union {run}
-----------------------------------------------------------------------------
(* The agent loop: call_stream *)

\* while i < max_steps
More(t) == t.step < MaxSteps

LastQuestion(s) ==
  {s[i] : i \in {j \in DOMAIN s : /\ s[j].role = "user"
                                 /\ \A k \in DOMAIN s : s[k].role = "user" => k <= j}}

\* What compaction leaves of the list: the last question and a summary.
Compacted(m, turn) == <<m, Plain("assistant", turn), Plain("system", turn)>>

Send(q) ==
  LET t == request[q]  next == [t EXCEPT !.pc = "llm", !.step = @ + 1] IN
  /\ t.pc = "step" /\ More(t)
  /\ \/ /\ Set(q, next)
        /\ UNCHANGED budget
     \/ /\ budget.compactions < MaxCompactions
        /\ budget' = [budget EXCEPT !.compactions = @ + 1]
        /\ \E m \in LastQuestion(t.list) :
             Set(q, [next EXCEPT !.list = Compacted(m, <<q, t.step>>)])
  /\ UNCHANGED <<client, ran>>

TooManyCalls(q) ==
  /\ request[q].pc = "step" /\ ~More(request[q])
  /\ End(q, request[q], "error", request[q].list)
  /\ UNCHANGED <<ran, budget>>

\* The completion raises.
Fail(q) ==
  /\ request[q].pc = "llm"
  /\ Fault
  /\ End(q, request[q], "error", request[q].list)
  /\ UNCHANGED ran

\* A response without tool calls.
Answer(q) ==
  LET t == request[q] IN
  /\ t.pc = "llm"
  /\ End(q, t, "answer", Append(t.list, Plain("assistant", <<q, t.step>>)))
  /\ UNCHANGED <<ran, budget>>

\* A response with tool calls, submitted to the pool.
Respond(q) ==
  LET t == request[q] IN
  /\ t.pc = "llm"
  /\ \E n \in 1..(MaxCalls - budget.calls) : \E kinds \in [1..n -> Kind] :
       /\ Set(q, [t EXCEPT !.pc = "tools",
                           !.list = Append(@, Calling(<<q, t.step>>, kinds)),
                           !.worker = [k \in 1..n |-> [kind |-> kinds[k], state |-> "running"]]])
       /\ budget' = [budget EXCEPT !.calls = @ + n]
  /\ UNCHANGED <<client, ran>>

\* Mutant: the tool runs before it asks.
InvokedEagerly(kind, s) ==
  IF kind = "bash" /\ ~Remembered(s) THEN [state |-> "approval", runs |-> TRUE]
                                     ELSE [state |-> "result", runs |-> TRUE]

\* What invoking a tool without an approval returns, and whether it runs.
Invoked(kind, s) ==
  IF kind = "bash" /\ ~Remembered(s) THEN [state |-> "approval", runs |-> FALSE]
                                     ELSE [state |-> "result", runs |-> TRUE]

\* A tool returns, or an exception gets out of it.
EndTool(q, k) ==
  LET t == request[q]
      kind == t.worker[k].kind
      o == Invoked(kind, t.list)
      run == [call |-> <<<<q, t.step>>, k>>, kind |-> kind, by |-> q]
  IN
  /\ t.worker[k].state = "running"
  /\ \/ /\ Set(q, [t EXCEPT !.worker[k].state = o.state])
        /\ ran' = IF o.runs THEN ran \union {run} ELSE ran
        /\ UNCHANGED budget
     \/ /\ Fault
        /\ Set(q, [t EXCEPT !.worker[k].state = "raised"])
        /\ UNCHANGED ran
  /\ UNCHANGED client

\* Every future has been collected.
BatchOver(w) == \A j \in DOMAIN w : w[j].state \in {"taken", "held"}

\* The list and the workers with the result of call k collected: an answer, or
\* the call held back.
Collected(q, t, k) ==
  LET o == t.worker[k].state
      \* "rejected for security reasons": the client cannot approve.
      shown == IF o = "approval" THEN "refused" ELSE o
  IN IF o = "approval" /\ t.enable
     THEN [t EXCEPT !.worker[k].state = "held"]
     ELSE [t EXCEPT !.worker[k].state = "taken",
                    !.list = Append(@, Answered(<<q, t.step>>, k, shown, FALSE))]

\* The next future that as_completed yields.  After the last one the stream ends
\* if calls were held back.
Collect(q, k) ==
  LET t == request[q]
      u == Collected(q, t, k)
      held == {j \in DOMAIN u.worker : u.worker[j].state = "held"}
  IN
  /\ t.pc = "tools"
  /\ t.worker[k].state \in {"result", "approval", "raised"}
  /\ \/ /\ t.worker[k].state = "raised"
        /\ Set(q, [t EXCEPT !.pc = "drain"])
        /\ UNCHANGED client
     \/ /\ t.worker[k].state # "raised" /\ ~BatchOver(u.worker)
        /\ Set(q, u)
        /\ UNCHANGED client
     \/ /\ t.worker[k].state # "raised" /\ BatchOver(u.worker) /\ held = {}
        /\ Set(q, [u EXCEPT !.pc = "step", !.worker = <<>>])
        /\ UNCHANGED client
     \/ /\ t.worker[k].state # "raised" /\ BatchOver(u.worker) /\ held # {}
        /\ End(q, u, "approval", Marked(u.list, <<q, t.step>>, held))
  /\ UNCHANGED <<ran, budget>>

\* The generator of a client that has given up is closed at a yield: after the
\* decisions, a response or a result.
Close(q) ==
  LET t == request[q] IN
  /\ t.gone
  /\ \/ /\ t.pc \in {"step", "llm"} /\ (t.step > 0 \/ t.decides)
        /\ End(q, t, "error", t.list)
     \/ /\ t.pc = "tools"
        /\ Set(q, [t EXCEPT !.pc = "drain"])
        /\ UNCHANGED client
  /\ UNCHANGED <<ran, budget>>

\* Leaving the with block waits for the tools that still run.
Drained(q) ==
  LET t == request[q] IN
  /\ t.pc = "drain"
  /\ \A k \in DOMAIN t.worker : t.worker[k].state # "running"
  /\ End(q, t, "error", t.list)
  /\ UNCHANGED <<ran, budget>>
-----------------------------------------------------------------------------
Serve(q) ==
  \/ Begin(q) \/ Decide(q) \/ Send(q) \/ TooManyCalls(q) \/ Fail(q) \/ Answer(q)
  \/ Respond(q) \/ Close(q) \/ Drained(q)
  \/ \E k \in DOMAIN request[q].worker : Collect(q, k) \/ EndTool(q, k)

Next == Submit \/ GiveUp \/ \E q \in Request : Serve(q)

Spec == Init /\ [][Next]_vars
-----------------------------------------------------------------------------
(* Properties *)

Calls(s) == {c \in (DOMAIN s) \X Place : c[2] \in DOMAIN s[c[1]].calls}
AnswersTo(s, c) ==
  {j \in DOMAIN s : s[j].role = "tool" /\ s[j].turn = s[c[1]].turn /\ s[j].place = c[2]}

\* Each call has one answer, or is pending and has none.
Continues(s) ==
  \A c \in Calls(s) : Cardinality(AnswersTo(s, c)) = (IF c \in Pending(s) THEN 0 ELSE 1)

\* The answers of a message follow it, and everything else follows them.
Ordered(s) ==
  \A c \in Calls(s) : \A j \in AnswersTo(s, c) :
    c[1] < j /\ j <= c[1] + Len(s[c[1]].calls)

\* Whatever the client sends, decides or ignores, and whichever requests fail or
\* are given up, the conversation it has can be continued: no call is lost, none
\* is answered twice, and none is pending that has been answered.
ClientCanContinue == Continues(client.history)

\* "they need to be inserted right after the llm's message requesting tool calls"
\* (tool_calling_llm.py:385): what the LLM gets is well formed, also with several
\* messages that had calls pending, unless the client ignored some.
SentWellFormed ==
  \A q \in Request :
    LET s == request[q].list IN
    request[q].pc = "llm" /\ Pending(s) = {} => Continues(s) /\ Ordered(s)

Delivered(q) == request[q].end \in {"answer", "approval"} /\ ~request[q].gone

\* A call runs once, as far as the client can know: two requests that both ran it
\* never both delivered their messages.  (A client that sends an approval again
\* because the answer was lost has the tool run again.)
RunsOnce ==
  \A e, f \in ran :
    e.call = f.call /\ e.by # f.by => ~Delivered(e.by) \/ ~Delivered(f.by)

\* bash runs only in a request that approves the call, or after one that approved
\* its prefix for the session.
RanApproved ==
  \A e \in ran : e.kind = "bash" =>
    \/ e.call \in request[e.by].approve
    \/ \E q \in 1..e.by : request[q].save # {}

\* What the conversation says of a call is what happened to it in the requests
\* that led to it: a result is that of a run, a call denied or refused did not run.
AnswersAreTrue ==
  \A j \in DOMAIN client.history :
    LET m == client.history[j]
        by == {e.by : e \in {f \in ran : f.call = <<m.turn, m.place>>}}
    IN m.role = "tool" => /\ m.outcome = "result" => by # {}
                          /\ m.outcome # "result" => \A q \in by : ~Delivered(q)

\* "Prefixes to remember for session" (models.py:193): nothing is pending after
\* an answer that remembers the prefix, as long as that answer is kept.
RememberedIsNotAsked ==
  \A i, j \in DOMAIN client.history :
    client.history[i].remember /\ i < j => client.history[j].pending = {}
=============================================================================
