------------------------- MODULE AskSession_proofs -------------------------
(***************************************************************************)
(* Proofs about AskSession for any number of questions, steps, calls,      *)
(* compactions and exceptions: type correctness, that Escape takes the     *)
(* conversation back, that restricted tools need a runbook, that answers   *)
(* say what happened, and that the LLM gets well-formed messages.          *)
(*                                                                         *)
(* Any number of interrupted threads may run on.  The inductive invariant  *)
(* says of each what it can still touch: its own list (WorldShape), which  *)
(* nobody else holds (OwnedOK), and the flags; whoever is not interrupted  *)
(* is the thread that the terminal waits for (Quest).  A step of a thread  *)
(* has first a coarse description, CallShape, and then, for the proofs     *)
(* about messages, one of five kinds (Kinded).                             *)
(***************************************************************************)
EXTENDS AskSession, FiniteSetTheorems, SequenceTheorems, TLAPS

\* A thread that works on a batch of tool calls, and one that has to finish with it.
Asking == {"approve", "asking", "invoke"}
Batch == {"collect"} \union Asking
Working == Batch \union {"drain"}

Busy(t) == t.pc \notin {"idle", "done"}

MainSet == [pc : {"prompt", "waiting", "escaped", "exited"}, list : Nat, snapshot : Nat,
            q : Question \union {0}, back : BOOLEAN]
HistorySet == [asked : Seq(Message), ran : SUBSET (CallId \X Kinds),
               approved : SUBSET CallId, outlived : [Question -> SUBSET Question]]
BudgetSet == [calls : 0..MaxCalls, compactions : 0..MaxCompactions, aborts : 0..MaxAborts]

\* A tool call waits for an approval only if its tool may need one, and is denied only
\* when it is taken.
Permits(w) ==
  \A k \in DOMAIN w :
    /\ w[k].state # "denied"
    /\ w[k].state = "approval" => w[k].kind \in {"bash", "compound", "listed"}

\* Question q with its thread t and tool calls w, when the terminal is at m: the thread
\* that nobody has interrupted is the one that the terminal waits for.
Quest(q, t, w, m) ==
  /\ q > m.q => t = Idle /\ w = <<>>
  /\ Busy(t) => t.list # 0
  /\ Busy(t) /\ ~t.cancel => m.pc = "waiting" /\ m.q = q
  /\ w # <<>> => t.pc \in Working
  /\ t.pc \in Asking => t.call \in DOMAIN w /\ w[t.call].state = "approval"
  /\ Len(w) <= MaxCalls
  /\ Permits(w)

\* The terminal has a question and its lists while it waits; a question that still runs and
\* is not its own is one that it has outlived.
MainOK ==
  /\ main.pc \in {"waiting", "escaped"} => main.q # 0 /\ main.list # 0 /\ main.snapshot # 0
  /\ main.pc = "waiting" => ~thread[main.q].cancel /\ ~main.back
  /\ main.pc = "prompt" /\ main.back => main.list # 0
  /\ \A q \in Question : Alive(q) /\ q # main.q => main.q # 0 /\ q \in history.outlived[main.q]

\* The inductive invariant that the others rest on.
IInv ==
  /\ TypeOK
  /\ \A q \in Question : Quest(q, thread[q], worker[q], main)
  /\ MainOK
-----------------------------------------------------------------------------
(* Types *)

TypeParts ==
  /\ heap \in Seq(Seq(Message))
  /\ main \in MainSet /\ main.list <= Len(heap) /\ main.snapshot <= Len(heap)
  /\ thread \in [Question -> Thread]
  /\ \A q \in Question : thread[q].list <= Len(heap)
  /\ worker \in [Question -> Seq(Worker)]
  /\ runbook \in BOOLEAN /\ saved \in BOOLEAN
  /\ active \subseteq Question
  /\ history \in HistorySet
  /\ budget \in BudgetSet

LEMMA TypeLemma == TypeOK <=> TypeParts
<1>1. heap \in Seq(Seq(Message)) => Len(heap) \in Nat
  OBVIOUS
<1>2. ASSUME Len(heap) \in Nat
      PROVE  main \in [pc : {"prompt", "waiting", "escaped", "exited"}, list : 0..Len(heap),
                       snapshot : 0..Len(heap), q : Question \union {0}, back : BOOLEAN]
               <=> main \in MainSet /\ main.list <= Len(heap) /\ main.snapshot <= Len(heap)
  BY <1>2 DEF MainSet
<1> QED
  BY <1>1, <1>2 DEF TypeOK, TypeParts, HistorySet, BudgetSet

LEMMA IdleLemma == Idle \in Thread /\ Idle.pc = "idle" /\ ~Idle.cancel /\ Idle.list = 0 /\ ~Busy(Idle)
BY LimitsAssumption, BoundsAssumption DEF Idle, Thread, Step, Width, Busy

\* What is counted.
LEMMA BudgetLemma ==
  ASSUME NEW b \in BudgetSet
  PROVE  /\ b.calls \in 0..MaxCalls /\ b.compactions \in 0..MaxCompactions /\ b.aborts \in 0..MaxAborts
         /\ \A n \in 0..MaxCalls : [b EXCEPT !.calls = n] \in BudgetSet
         /\ \A n \in 0..MaxCompactions : [b EXCEPT !.compactions = n] \in BudgetSet
         /\ \A n \in 0..MaxAborts : [b EXCEPT !.aborts = n] \in BudgetSet
BY DEF BudgetSet

\* How a thread that ends leaves its record.
LEMMA EndedLemma ==
  ASSUME NEW t \in Thread, NEW how \in {"none", "answer", "interrupted", "error", "eof"}
  PROVE  LET n == Ended(t, how) IN
           /\ n \in Thread /\ n.pc = "done" /\ n.list = t.list /\ n.end = how
           /\ ~n.cancel /\ ~Busy(n) /\ ~n.restricted
BY LimitsAssumption, BoundsAssumption, IdleLemma DEF Ended, Idle, Thread, Step, Width, Busy

LEMMA MessageLemma ==
  ASSUME NEW q \in Question, NEW i \in Step, NEW n \in Width, NEW o \in Outcome
  PROVE  /\ User(q) \in Message /\ Assistant(q, i, n) \in Message
         /\ Notice(q, i) \in Message /\ Answered(q, i, n, o) \in Message
BY LimitsAssumption, BoundsAssumption
   DEF User, Assistant, Notice, Answered, Message, Step, Width, Outcome

LEMMA AppendLemma ==
  ASSUME NEW S, NEW s \in Seq(S), NEW m \in S
  PROVE  /\ Append(s, m) \in Seq(S) /\ Len(Append(s, m)) = Len(s) + 1
         /\ \A i \in 1..Len(s) : Append(s, m)[i] = s[i]
         /\ Append(s, m)[Len(s) + 1] = m
OBVIOUS

\* One list of the heap gets a message; or a new list comes to it.
LEMMA ExtendLemma ==
  ASSUME heap \in Seq(Seq(Message)), NEW r \in 1..Len(heap), NEW m \in Message, Extend(r, m)
  PROVE  /\ heap' \in Seq(Seq(Message)) /\ Len(heap') = Len(heap)
         /\ heap'[r] = Append(heap[r], m)
         /\ \A z \in 1..Len(heap) : z # r => heap'[z] = heap[z]
<1>1. heap[r] \in Seq(Message) /\ heap' = [heap EXCEPT ![r] = Append(heap[r], m)]
  BY DEF Extend
<1>2. Append(heap[r], m) \in Seq(Message)
  BY <1>1, AppendLemma
<1> HIDE DEF Extend
<1> QED
  BY <1>1, <1>2
-----------------------------------------------------------------------------
(* What a step of question q does to the rest *)

\* What it does to everything but its thread and calls: only its own list is written to.
WorldShape(q) ==
  /\ Alive(q) /\ main' = main
  /\ heap' \in Seq(Seq(Message)) /\ Len(heap) <= Len(heap')
  /\ \A r \in 1..Len(heap) : r # thread[q].list => heap'[r] = heap[r]
  /\ runbook' \in BOOLEAN /\ saved' \in BOOLEAN /\ active' \subseteq Question
  /\ history' \in HistorySet /\ budget' \in BudgetSet
  /\ history'.outlived = history.outlived /\ history'.asked = history.asked
  /\ history.ran \subseteq history'.ran
  /\ runbook' => runbook \/ \E e \in history'.ran : e[2] = "runbook" /\ e[1][1] = q

\* What becomes of its thread t, which is n then, and of its calls.
Follows(q, t, n, w) ==
  /\ n.pc # "idle"
  /\ Quest(q, n, w, main)
  /\ n.list = t.list \/ (Busy(n) /\ n.list = Len(heap) + 1)
  /\ n.list <= Len(heap')
  /\ n.cancel => t.cancel
  /\ Busy(n) /\ n.restricted => t.restricted \/ runbook
  /\ n.pc = "llm" => ~t.cancel

ThreadShape(q) ==
  \E n \in Thread : \E w \in Seq(Worker) :
    /\ thread' = [thread EXCEPT ![q] = n] /\ worker' = [worker EXCEPT ![q] = w]
    /\ Follows(q, thread[q], n, w)

CallShape(q) == WorldShape(q) /\ ThreadShape(q)

LEMMA ThreadStep ==
  ASSUME NEW q \in Question, NEW n \in Thread, NEW w \in Seq(Worker), Goto(q, n),
         worker' = [worker EXCEPT ![q] = w], Follows(q, thread[q], n, w)
  PROVE  ThreadShape(q)
<1>1. thread' = [thread EXCEPT ![q] = n]
  BY DEF Goto
<1> QED
  BY <1>1 DEF ThreadShape

\* The parts of the state, with their types.
LEMMA PartsLemma ==
  ASSUME IInv
  PROVE  /\ heap \in Seq(Seq(Message)) /\ Len(heap) \in Nat
         /\ main \in MainSet /\ main.list <= Len(heap) /\ main.snapshot <= Len(heap)
         /\ thread \in [Question -> Thread] /\ worker \in [Question -> Seq(Worker)]
         /\ runbook \in BOOLEAN /\ saved \in BOOLEAN /\ active \subseteq Question
         /\ history \in HistorySet /\ budget \in BudgetSet
         /\ \A q \in Question :
              /\ thread[q] \in Thread /\ thread[q].list \in Nat /\ thread[q].list <= Len(heap)
              /\ worker[q] \in Seq(Worker) /\ Quest(q, thread[q], worker[q], main)
<1>1. TypeOK
  BY DEF IInv
<1>2. \A q \in Question : Quest(q, thread[q], worker[q], main)
  BY DEF IInv
<1>3. Len(heap) \in Nat
  BY <1>1, TypeLemma DEF TypeParts
<1>4. \A q \in Question : thread[q] \in Thread /\ worker[q] \in Seq(Worker) /\ thread[q].list <= Len(heap)
  BY <1>1, TypeLemma DEF TypeParts
<1>5. \A t \in Thread : t.list \in Nat
  BY DEF Thread
<1> QED
  BY <1>1, <1>2, <1>3, <1>4, <1>5, TypeLemma DEF TypeParts

\* A thread that is at work, its list and the terminal.
LEMMA BusyLemma ==
  ASSUME IInv, NEW q \in Question, Alive(q)
  PROVE  /\ q <= main.q /\ thread[q].list \in 1..Len(heap)
         /\ heap[thread[q].list] \in Seq(Message)
<1>1. thread[q].pc # "idle" /\ thread[q].pc # "done" /\ Busy(thread[q])
  BY DEF Alive, Busy
<1>2. thread[q] # Idle
  BY <1>1, IdleLemma
<1>3. q \in Nat /\ main.q \in Nat
  BY PartsLemma, BoundsAssumption DEF MainSet, Question
<1>4. Quest(q, thread[q], worker[q], main) /\ thread[q].list \in Nat /\ thread[q].list <= Len(heap)
  BY PartsLemma
<1>5. thread[q].list \in 1..Len(heap)
  BY <1>1, <1>4, PartsLemma DEF Quest
<1> QED
  BY <1>2, <1>3, <1>4, <1>5, PartsLemma DEF Quest

LEMMA QuietWorld ==
  ASSUME IInv, NEW q \in Question, Alive(q), UNCHANGED <<heap, main, runbook, saved, active, history, budget>>
  PROVE  WorldShape(q)
<1>1. \A r \in 1..Len(heap) : heap'[r] = heap[r]
  OBVIOUS
<1> QED
  BY <1>1, PartsLemma DEF WorldShape

\* A step of a thread.
LEMMA CallInv ==
  ASSUME IInv, NEW q \in Question, CallShape(q)
  PROVE  IInv'
<1> PICK n \in Thread, w \in Seq(Worker) :
      /\ thread' = [thread EXCEPT ![q] = n] /\ worker' = [worker EXCEPT ![q] = w]
      /\ Follows(q, thread[q], n, w)
  BY DEF CallShape, ThreadShape
<1>1. WorldShape(q)
  BY DEF CallShape
<1>2. /\ thread' \in [Question -> Thread] /\ worker' \in [Question -> Seq(Worker)]
      /\ thread'[q] = n /\ worker'[q] = w
      /\ \A z \in Question : z # q => thread'[z] = thread[z] /\ worker'[z] = worker[z]
  BY PartsLemma
<1>3. \A z \in Question : thread'[z].list <= Len(heap')
  <2>1. \A z \in Question : thread[z].list \in Nat /\ thread[z].list <= Len(heap)
    BY PartsLemma
  <2>2. Len(heap) \in Nat /\ Len(heap') \in Nat /\ Len(heap) <= Len(heap')
    BY <1>1, PartsLemma DEF WorldShape
  <2> QED
    BY <1>2, <2>1, <2>2 DEF Follows
<1>4. main'.list <= Len(heap') /\ main'.snapshot <= Len(heap')
  BY <1>1, PartsLemma DEF WorldShape, MainSet
<1>5. TypeOK'
  <2>1. main' \in MainSet
    BY <1>1, PartsLemma DEF WorldShape
  <2>2. TypeParts'
    BY <1>1, <1>2, <1>3, <1>4, <2>1 DEF TypeParts, WorldShape
  <2> QED
    BY <2>2, TypeLemma, PTL
<1>6. \A z \in Question : Quest(z, thread'[z], worker'[z], main')
  BY <1>1, <1>2, PartsLemma DEF Follows, WorldShape
<1>7. MainOK'
  <2>1. MainOK
    BY DEF IInv
  <2>2. main' = main /\ history'.outlived = history.outlived /\ Alive(q)
    BY <1>1 DEF WorldShape
  <2>3. main.pc = "waiting" => ~thread'[main.q].cancel /\ ~main.back
    BY <1>2, <2>1, PartsLemma DEF MainOK, Follows, MainSet
  <2>4. \A z \in Question : Alive(z)' => Alive(z)
    BY <1>2, <2>2 DEF Alive
  <2> QED
    BY <2>1, <2>2, <2>3, <2>4 DEF MainOK
<1> QED
  BY <1>5, <1>6, <1>7 DEF IInv
-----------------------------------------------------------------------------
(* The agent loop *)

\* A thread that ends.
LEMMA EndingThread ==
  ASSUME IInv, NEW q \in Question, Alive(q), Len(heap) <= Len(heap'), heap' \in Seq(Seq(Message)),
         NEW how \in {"none", "answer", "interrupted", "error", "eof"},
         Goto(q, Ended(thread[q], how)), worker' = [worker EXCEPT ![q] = <<>>]
  PROVE  ThreadShape(q)
<1> PICK n : n = Ended(thread[q], how)
  OBVIOUS
<1>1. /\ n \in Thread /\ n.pc = "done" /\ n.list = thread[q].list
      /\ ~n.cancel /\ ~Busy(n)
  BY EndedLemma, PartsLemma
<1> DEFINE w == <<>>
<1>2. w \in Seq(Worker) /\ w = <<>> /\ Len(w) = 0 /\ DOMAIN w = {}
  OBVIOUS
<1> HIDE DEF w
<1>3. q <= main.q /\ q \in Nat /\ main.q \in Nat
  BY BusyLemma, PartsLemma, BoundsAssumption DEF MainSet, Question
<1>4. n.list <= Len(heap')
  BY <1>1, PartsLemma
<1>5. Quest(q, n, w, main)
  BY <1>1, <1>2, <1>3, BoundsAssumption DEF Quest, Asking, Permits
<1>6. Follows(q, thread[q], n, w)
  BY <1>1, <1>4, <1>5 DEF Follows
<1> QED
  BY <1>1, <1>2, <1>6, ThreadStep

\* Between batches there are no calls.
LEMMA IdleCalls ==
  ASSUME IInv, NEW q \in Question, thread[q].pc \in {"step", "llm"}
  PROVE  worker[q] = <<>> /\ worker = [worker EXCEPT ![q] = <<>>]
<1>1. worker[q] = <<>>
  BY PartsLemma DEF Quest, Working, Batch, Asking
<1> QED
  BY <1>1, PartsLemma

LEMMA FailStep == ASSUME IInv, NEW q \in Question, TooManyCalls(q) \/ Fail(q) PROVE CallShape(q)
<1>1. Alive(q) /\ thread[q].pc \in {"step", "llm"}
  BY DEF TooManyCalls, Fail, Alive
<1>2. UNCHANGED <<heap, main, runbook, saved, active, history, budget>> /\ worker' = worker
  BY DEF TooManyCalls, Fail
<1>3. PICK how \in {"interrupted", "error"} : Goto(q, Ended(thread[q], how))
  BY DEF TooManyCalls, Fail
<1>4. worker' = [worker EXCEPT ![q] = <<>>]
  BY <1>1, <1>2, IdleCalls
<1>5. Len(heap) <= Len(heap') /\ heap' \in Seq(Seq(Message))
  BY <1>2, PartsLemma
<1> QED
  BY <1>1, <1>2, <1>3, <1>4, <1>5, EndingThread, QuietWorld DEF CallShape

\* A message appended to the thread's list.
LEMMA AppendWorld ==
  ASSUME IInv, NEW q \in Question, Alive(q), NEW m \in Message, Extend(thread[q].list, m), main' = main
  PROVE  /\ heap' \in Seq(Seq(Message)) /\ Len(heap') = Len(heap)
         /\ heap'[thread[q].list] = Append(heap[thread[q].list], m)
         /\ \A r \in 1..Len(heap) : r # thread[q].list => heap'[r] = heap[r]
BY BusyLemma, PartsLemma, ExtendLemma

LEMMA AnswerStep == ASSUME IInv, NEW q \in Question, Answer(q) PROVE CallShape(q)
<1>1. Alive(q) /\ thread[q].pc = "llm"
  BY DEF Answer, Alive
<1>2. /\ UNCHANGED <<main, worker, runbook, saved, active, history, budget>>
      /\ Goto(q, Ended(thread[q], "answer")) /\ Extend(thread[q].list, Assistant(q, thread[q].step, 0))
  BY DEF Answer
<1>3. Assistant(q, thread[q].step, 0) \in Message
  <2>1. thread[q].step \in Step /\ 0 \in Width /\ "ok" \in Outcome
    BY PartsLemma, BoundsAssumption DEF Thread, Width, Outcome
  <2> QED
    BY <2>1, MessageLemma
<1>4. /\ heap' \in Seq(Seq(Message)) /\ Len(heap') = Len(heap)
      /\ \A r \in 1..Len(heap) : r # thread[q].list => heap'[r] = heap[r]
  BY <1>1, <1>2, <1>3, AppendWorld
<1>5. Len(heap) <= Len(heap')
  BY <1>4, PartsLemma
<1>6. WorldShape(q)
  BY <1>1, <1>2, <1>4, <1>5, PartsLemma DEF WorldShape
<1>7. worker' = [worker EXCEPT ![q] = <<>>]
  BY <1>1, <1>2, IdleCalls
<1>8. ThreadShape(q)
  BY <1>1, <1>2, <1>4, <1>5, <1>7, EndingThread
<1> QED
  BY <1>6, <1>8 DEF CallShape

LEMMA DrainedStep == ASSUME IInv, NEW q \in Question, Drained(q) PROVE CallShape(q)
<1>1. Alive(q)
  BY DEF Drained, Alive
<1>2. /\ UNCHANGED <<heap, main, runbook, saved, active, history, budget>>
      /\ Goto(q, Ended(thread[q], thread[q].end)) /\ worker' = [worker EXCEPT ![q] = <<>>]
  BY DEF Drained
<1>3. thread[q].end \in {"none", "answer", "interrupted", "error", "eof"}
  BY PartsLemma DEF Thread
<1>4. Len(heap) <= Len(heap') /\ heap' \in Seq(Seq(Message))
  BY <1>2, PartsLemma
<1> QED
  BY <1>1, <1>2, <1>3, <1>4, EndingThread, QuietWorld DEF CallShape

\* The thread goes to the LLM, with the list r.
LEMMA SendingLemma ==
  ASSUME NEW t \in Thread, More(t)
  PROVE  /\ NextStep(t) \in Thread /\ NextStep(t).pc = "llm" /\ NextStep(t).step = t.step + 1
         /\ NextStep(t).list = t.list /\ NextStep(t).cancel = t.cancel
         /\ NextStep(t).restricted = t.restricted
         /\ \A r \in Nat : \A n : n = [NextStep(t) EXCEPT !.list = r] =>
              /\ n \in Thread /\ n.pc = "llm" /\ n.step = t.step + 1 /\ n.list = r
              /\ n.cancel = t.cancel /\ n.restricted = t.restricted
<1>1. t.step \in 0..MaxSteps /\ t.step + 1 \in 0..MaxSteps
  BY LimitsAssumption DEF More, Thread, Step
<1>2. PICK s : s = NextStep(t)
  OBVIOUS
<1>3. /\ s \in Thread /\ s.pc = "llm" /\ s.step = t.step + 1
      /\ s.list = t.list /\ s.cancel = t.cancel /\ s.restricted = t.restricted
  BY <1>1, <1>2 DEF NextStep, Thread, Step
<1>4. ASSUME NEW r \in Nat, NEW n, n = [s EXCEPT !.list = r]
      PROVE  /\ n \in Thread /\ n.pc = "llm" /\ n.step = t.step + 1 /\ n.list = r
             /\ n.cancel = t.cancel /\ n.restricted = t.restricted
  BY <1>3, <1>4 DEF Thread
<1> QED
  BY <1>2, <1>3, <1>4

\* The list that a compaction leaves.
CompactedList(q, i) == <<User(q), Assistant(q, i, 0), Notice(q, i)>>

LEMMA SendStep == ASSUME IInv, NEW q \in Question, Send(q) PROVE CallShape(q)
<1> DEFINE t == thread[q]
<1>1. Alive(q) /\ t.pc = "step" /\ More(t)
  BY DEF Send, Alive
<1>2. UNCHANGED <<main, runbook, saved, active, history>> /\ worker' = worker
  BY DEF Send
<1>3. worker[q] = <<>> /\ worker' = [worker EXCEPT ![q] = <<>>]
  BY <1>1, <1>2, IdleCalls
<1>4. CASE t.cancel /\ Goto(q, Ended(t, "interrupted")) /\ UNCHANGED <<heap, budget>>
  <2>1. Len(heap) <= Len(heap') /\ heap' \in Seq(Seq(Message))
    BY <1>4, PartsLemma
  <2> QED
    BY <1>1, <1>2, <1>3, <1>4, <2>1, EndingThread, QuietWorld DEF CallShape
<1>5. ASSUME NEW n \in Thread, n.pc = "llm", n.list \in 1..Len(heap'), ~t.cancel,
             n.cancel = t.cancel, n.restricted = t.restricted, Goto(q, n),
             n.list = t.list \/ n.list = Len(heap) + 1
      PROVE  ThreadShape(q)
  <2>1. Quest(q, t, worker[q], main) /\ q <= main.q /\ q \in Nat /\ main.q \in Nat
    BY <1>1, BusyLemma, PartsLemma, BoundsAssumption DEF MainSet, Question
  <2>2. main.pc = "waiting" /\ main.q = q
    BY <1>1, <1>5, <2>1 DEF Quest, Busy
  <2> DEFINE w == <<>>
  <2>3. w \in Seq(Worker) /\ w = <<>> /\ Len(w) = 0 /\ DOMAIN w = {}
    OBVIOUS
  <2> HIDE DEF w
  <2>4. Quest(q, n, w, main)
    BY <1>5, <2>1, <2>2, <2>3, BoundsAssumption DEF Quest, Asking, Permits, Busy
  <2>5. Follows(q, t, n, w)
    BY <1>5, <2>4 DEF Follows, Busy
  <2> QED
    BY <1>3, <1>5, <2>3, <2>5, ThreadStep
<1>6. CASE ~t.cancel /\ Goto(q, NextStep(t)) /\ UNCHANGED <<heap, budget>>
  <2>1. PICK n : n = NextStep(t)
    OBVIOUS
  <2>2. n \in Thread /\ n.pc = "llm" /\ n.list = t.list /\ n.cancel = t.cancel /\ n.restricted = t.restricted
    BY <1>1, <2>1, SendingLemma, PartsLemma
  <2>3. n.list \in 1..Len(heap')
    BY <1>1, <1>6, <2>2, BusyLemma
  <2>4. ThreadShape(q)
    BY <1>5, <1>6, <2>1, <2>2, <2>3
  <2> QED
    BY <1>1, <1>2, <1>6, <2>4, QuietWorld DEF CallShape
<1>7. CASE /\ ~t.cancel /\ budget.compactions < MaxCompactions
           /\ budget' = [budget EXCEPT !.compactions = @ + 1]
           /\ heap' = Append(heap, CompactedList(q, t.step))
           /\ Goto(q, [NextStep(t) EXCEPT !.list = Len(heap) + 1])
  <2>1. PICK n : n = [NextStep(t) EXCEPT !.list = Len(heap) + 1]
    OBVIOUS
  <2>2. Len(heap) + 1 \in Nat
    BY PartsLemma
  <2>3. /\ n \in Thread /\ n.pc = "llm" /\ n.list = Len(heap) + 1
        /\ n.cancel = t.cancel /\ n.restricted = t.restricted
    BY <1>1, <2>1, <2>2, SendingLemma, PartsLemma
  <2>4. CompactedList(q, t.step) \in Seq(Message)
    <3>1. t.step \in Step /\ 0 \in Width /\ "ok" \in Outcome
      BY PartsLemma, BoundsAssumption DEF Thread, Width, Outcome
    <3> QED
      BY <3>1, MessageLemma DEF CompactedList
  <2>5. /\ heap' \in Seq(Seq(Message)) /\ Len(heap') = Len(heap) + 1
        /\ \A r \in 1..Len(heap) : heap'[r] = heap[r]
    BY <1>7, <2>4, PartsLemma, AppendLemma
  <2>6. n.list \in 1..Len(heap') /\ Len(heap) <= Len(heap')
    BY <2>3, <2>5, PartsLemma
  <2>7. budget' \in BudgetSet
    <3>1. budget.compactions + 1 \in 0..MaxCompactions
      BY <1>7, PartsLemma, BudgetLemma, BoundsAssumption
    <3> QED
      BY <1>7, <3>1, PartsLemma, BudgetLemma
  <2>8. WorldShape(q)
    BY <1>1, <1>2, <2>5, <2>6, <2>7, PartsLemma DEF WorldShape
  <2>9. ThreadShape(q)
    BY <1>5, <1>7, <2>1, <2>3, <2>6
  <2> QED
    BY <2>8, <2>9 DEF CallShape
<1> QED
  BY <1>4, <1>6, <1>7 DEF Send, CompactedList
-----------------------------------------------------------------------------
(* Tool calls *)

\* It stays with its list in the same batch, or comes to the end of it.
LEMMA WithinStep ==
  ASSUME IInv, NEW q \in Question, thread[q].pc \in Working, Len(heap') = Len(heap),
         NEW n \in Thread, NEW w \in Seq(Worker), Goto(q, n), worker' = [worker EXCEPT ![q] = w],
         n.pc \in Working \/ (n.pc = "step" /\ w = <<>>),
         n.list = thread[q].list, n.cancel = thread[q].cancel,
         n.restricted => thread[q].restricted \/ runbook,
         n.pc \in Asking => n.call \in DOMAIN w /\ w[n.call].state = "approval",
         Len(w) <= Len(worker[q]), Permits(w)
  PROVE  ThreadShape(q)
<1> DEFINE t == thread[q]
<1>1. Quest(q, t, worker[q], main) /\ Len(worker[q]) \in Nat /\ Len(w) \in Nat
  BY PartsLemma
<1>2. q <= main.q /\ q \in Nat /\ main.q \in Nat /\ t.list \in 1..Len(heap)
  <2>1. Alive(q)
    BY DEF Alive, Working, Batch, Asking
  <2> QED
    BY <2>1, BusyLemma, PartsLemma, BoundsAssumption DEF MainSet, Question
<1>3. Busy(t) /\ Busy(n) /\ n.pc # "idle" /\ n.pc # "llm"
  BY DEF Busy, Working, Batch, Asking
<1>4. Quest(q, n, w, main)
  BY <1>1, <1>2, <1>3, BoundsAssumption DEF Quest
<1>5. Follows(q, t, n, w)
  BY <1>2, <1>3, <1>4 DEF Follows
<1> QED
  BY <1>5, ThreadStep

LEMMA RequestStep == ASSUME IInv, NEW q \in Question, Request(q) PROVE CallShape(q)
<1> DEFINE t == thread[q]
<1>1. Alive(q) /\ t.pc = "llm" /\ ~t.cancel /\ UNCHANGED <<main, runbook, saved, active, history>>
  BY DEF Request, Alive
<1>2. PICK n \in 1..(MaxCalls - budget.calls) : \E kinds \in [1..n -> Kind] :
        /\ Extend(t.list, Assistant(q, t.step, n))
        /\ worker' = [worker EXCEPT ![q] = [k \in 1..n |-> [kind |-> kinds[k], state |-> "queued"]]]
        /\ budget' = [budget EXCEPT !.calls = @ + n]
  BY DEF Request
<1>3. PICK kinds \in [1..n -> Kind] :
        /\ Extend(t.list, Assistant(q, t.step, n))
        /\ worker' = [worker EXCEPT ![q] = [k \in 1..n |-> [kind |-> kinds[k], state |-> "queued"]]]
        /\ budget' = [budget EXCEPT !.calls = @ + n]
  BY <1>2
<1>4. n \in Nat /\ n >= 1 /\ budget.calls + n \in 0..MaxCalls /\ n \in Width
  BY PartsLemma, BudgetLemma, BoundsAssumption DEF Width
<1>5. Assistant(q, t.step, n) \in Message
  <2>1. t.step \in Step /\ "ok" \in Outcome
    BY PartsLemma DEF Thread, Outcome
  <2> QED
    BY <1>4, <2>1, MessageLemma
<1>6. /\ heap' \in Seq(Seq(Message)) /\ Len(heap') = Len(heap)
      /\ \A r \in 1..Len(heap) : r # t.list => heap'[r] = heap[r]
  BY <1>1, <1>3, <1>5, AppendWorld
<1>7. budget' \in BudgetSet
  BY <1>3, <1>4, PartsLemma, BudgetLemma
<1>8. WorldShape(q)
  BY <1>1, <1>6, <1>7, PartsLemma DEF WorldShape
<1> DEFINE w == [k \in 1..n |-> [kind |-> kinds[k], state |-> "queued"]]
<1>9. /\ w \in Seq(Worker) /\ Len(w) = n /\ DOMAIN w = 1..n
      /\ \A k \in 1..n : w[k].state = "queued"
  <2>1. \A k \in 1..n : [kind |-> kinds[k], state |-> "queued"] \in Worker
    BY KindAssumption DEF Worker, WorkerState
  <2> QED
    BY <1>4, <2>1
<1> HIDE DEF w
<1>10. PICK m : m = [t EXCEPT !.pc = "collect"]
  OBVIOUS
<1>11. /\ m \in Thread /\ m.pc = "collect" /\ m.list = t.list /\ m.cancel = t.cancel
       /\ m.restricted = t.restricted
  BY <1>10, PartsLemma DEF Thread
<1>12. Quest(q, t, worker[q], main) /\ q <= main.q /\ q \in Nat /\ main.q \in Nat
       /\ t.list \in 1..Len(heap)
  BY <1>1, BusyLemma, PartsLemma, BoundsAssumption DEF MainSet, Question
<1>13. main.pc = "waiting" /\ main.q = q
  BY <1>1, <1>12 DEF Quest, Busy
<1>14. Quest(q, m, w, main)
  <2>1. Permits(w)
    BY <1>9 DEF Permits
  <2> QED
    BY <1>4, <1>9, <1>11, <1>12, <1>13, <2>1, BoundsAssumption
    DEF Quest, Working, Batch, Asking, Width
<1>15. Follows(q, t, m, w)
  BY <1>6, <1>11, <1>12, <1>14 DEF Follows
<1>16. Goto(q, m)
  BY <1>10 DEF Request
<1>17. worker' = [worker EXCEPT ![q] = w]
  BY <1>3 DEF w
<1> QED
  BY <1>8, <1>9, <1>11, <1>15, <1>16, <1>17, ThreadStep DEF CallShape

\* The result of call k goes to the list.
LEMMA TakeWorld ==
  ASSUME IInv, NEW q \in Question, thread[q].pc \in Batch, NEW k \in DOMAIN worker[q], NEW o \in Outcome,
         TakeResult(q, k, o), main' = main
  PROVE  /\ heap' \in Seq(Seq(Message)) /\ Len(heap') = Len(heap)
         /\ heap'[thread[q].list] = Append(heap[thread[q].list], Answered(q, thread[q].step, k, o))
         /\ \A r \in 1..Len(heap) : r # thread[q].list => heap'[r] = heap[r]
<1>1. Alive(q) /\ thread[q].step \in Step
  BY PartsLemma DEF Alive, Batch, Asking, Thread
<1>2. k \in Width
  BY PartsLemma, BoundsAssumption DEF Quest, Width
<1>3. Answered(q, thread[q].step, k, o) \in Message
  BY <1>1, <1>2, MessageLemma
<1> QED
  BY <1>1, <1>3, AppendWorld DEF TakeResult

\* One tool call changes its state.
LEMMA WorkerLemma ==
  ASSUME NEW w \in Seq(Worker), NEW k \in DOMAIN w, NEW s \in WorkerState,
         NEW v, v = [w EXCEPT ![k].state = s]
  PROVE  /\ v \in Seq(Worker) /\ Len(v) = Len(w) /\ DOMAIN v = DOMAIN w
         /\ v[k].state = s /\ v[k].kind = w[k].kind
         /\ \A j \in DOMAIN w : j # k => v[j] = w[j]
<1>1. PICK c : c = [w[k] EXCEPT !.state = s]
  OBVIOUS
<1>2. w[k] \in Worker
  OBVIOUS
<1>3. c \in Worker /\ c.state = s /\ c.kind = w[k].kind
  BY <1>1, <1>2 DEF Worker
<1>4. v = [w EXCEPT ![k] = c]
  BY <1>1
<1> QED
  BY <1>3, <1>4

LEMMA PermitsLemma ==
  ASSUME NEW w \in Seq(Worker), NEW k \in DOMAIN w, NEW s \in WorkerState \ {"denied"},
         NEW v, v = [w EXCEPT ![k].state = s], Permits(w),
         s = "approval" => w[k].kind \in {"bash", "compound", "listed"}
  PROVE  Permits(v)
BY WorkerLemma DEF Permits

\* What becomes of the thread and its calls when the result of call k is taken.
Taking(q, k, n, w) ==
  /\ n.step = thread[q].step /\ n.list = thread[q].list /\ n.cancel = thread[q].cancel
  /\ IF BatchOver(q, k)
     THEN n.pc = "step" /\ w = <<>> /\ n.restricted = (thread[q].restricted \/ runbook)
     ELSE /\ n.pc = "collect" /\ n.restricted = thread[q].restricted
          /\ w = [worker[q] EXCEPT ![k].state = "taken"]

LEMMA TakeLemma ==
  ASSUME IInv, NEW q \in Question, NEW k \in DOMAIN worker[q], NEW o, TakeResult(q, k, o)
  PROVE  \E n \in Thread : \E w \in Seq(Worker) :
           Goto(q, n) /\ worker' = [worker EXCEPT ![q] = w] /\ Taking(q, k, n, w)
<1> DEFINE t == thread[q]
           over == BatchOver(q, k)
<1>1. PICK n : n = [t EXCEPT !.pc = IF over THEN "step" ELSE "collect",
                             !.restricted = @ \/ (over /\ runbook),
                             !.call = 0, !.approves = FALSE, !.via = 0]
  OBVIOUS
<1>2. PICK w : w = IF over THEN <<>> ELSE [worker[q] EXCEPT ![k].state = "taken"]
  OBVIOUS
<1>3. Goto(q, n) /\ worker' = [worker EXCEPT ![q] = w]
  BY <1>1, <1>2 DEF TakeResult
<1>4. t \in Thread /\ over \in BOOLEAN /\ runbook \in BOOLEAN /\ 0 \in Width
  BY PartsLemma, BoundsAssumption DEF BatchOver, Width
<1> HIDE DEF over, t
<1>5. /\ n \in Thread /\ n.step = t.step /\ n.list = t.list /\ n.cancel = t.cancel
      /\ n.pc = (IF over THEN "step" ELSE "collect") /\ n.restricted = (t.restricted \/ (over /\ runbook))
  BY <1>1, <1>4 DEF Thread
<1>6. w \in Seq(Worker)
  <2>1. worker[q] \in Seq(Worker) /\ "taken" \in WorkerState
    BY PartsLemma DEF WorkerState
  <2>2. CASE over
    BY <1>2, <2>2
  <2>3. CASE ~over
    <3>1. w = [worker[q] EXCEPT ![k].state = "taken"]
      BY <1>2, <2>3
    <3> QED
      BY <2>1, <3>1, WorkerLemma
  <2> QED
    BY <2>2, <2>3
<1>7. Taking(q, k, n, w)
  BY <1>2, <1>4, <1>5 DEF Taking, over, t, Thread
<1> QED
  BY <1>3, <1>5, <1>6, <1>7

LEMMA TakeThread ==
  ASSUME IInv, NEW q \in Question, thread[q].pc \in Batch, NEW k \in DOMAIN worker[q], NEW o,
         TakeResult(q, k, o), Len(heap') = Len(heap)
  PROVE  ThreadShape(q)
<1>1. PICK n \in Thread, w \in Seq(Worker) :
        Goto(q, n) /\ worker' = [worker EXCEPT ![q] = w] /\ Taking(q, k, n, w)
  BY TakeLemma
<1>2. worker[q] \in Seq(Worker) /\ Len(worker[q]) \in Nat /\ Permits(worker[q])
  BY PartsLemma DEF Quest
<1>3. Len(w) <= Len(worker[q]) /\ Permits(w)
  <2>1. CASE BatchOver(q, k)
    BY <1>1, <1>2, <2>1 DEF Taking, Permits
  <2>2. CASE ~BatchOver(q, k)
    <3>1. w = [worker[q] EXCEPT ![k].state = "taken"]
      BY <1>1, <2>2 DEF Taking
    <3>2. "taken" \in WorkerState \ {"denied"} /\ "taken" \in WorkerState
      BY DEF WorkerState, Outcome
    <3>3. Len(w) = Len(worker[q])
      BY <1>2, <3>1, <3>2, WorkerLemma
    <3>4. Permits(w)
      BY <1>2, <3>1, <3>2, PermitsLemma
    <3> QED
      BY <1>2, <3>3, <3>4
  <2> QED
    BY <2>1, <2>2
<1>4. /\ n.pc \in Working \/ (n.pc = "step" /\ w = <<>>)
      /\ n.list = thread[q].list /\ n.cancel = thread[q].cancel
      /\ n.restricted => thread[q].restricted \/ runbook
      /\ n.pc \notin Asking
  BY <1>1 DEF Taking, Working, Batch, Asking
<1>5. thread[q].pc \in Working
  BY DEF Working
<1> QED
  BY <1>1, <1>3, <1>4, <1>5, WithinStep

\* When the rest does not change but for the list, the budget and what concerns approvals.
LEMMA WithinWorld ==
  ASSUME IInv, NEW q \in Question, Alive(q), UNCHANGED <<main, runbook>>,
         saved' \in BOOLEAN, active' \subseteq Question, budget' \in BudgetSet,
         heap' \in Seq(Seq(Message)), Len(heap') = Len(heap),
         \A r \in 1..Len(heap) : r # thread[q].list => heap'[r] = heap[r],
         history' \in HistorySet, history'.outlived = history.outlived,
         history'.asked = history.asked, history'.ran = history.ran
  PROVE  WorldShape(q)
BY PartsLemma DEF WorldShape

LEMMA WithinCall ==
  ASSUME IInv, NEW q \in Question, thread[q].pc \in Working, 
         UNCHANGED <<heap, main, runbook, saved, active, history, budget>>,
         NEW n \in Thread, n.pc \in Working, n.list = thread[q].list, n.cancel = thread[q].cancel,
         n.restricted = thread[q].restricted, Goto(q, n),
         NEW w \in Seq(Worker), worker' = [worker EXCEPT ![q] = w],
         Len(w) <= Len(worker[q]), Permits(w),
         n.pc \in Asking => n.call \in DOMAIN w /\ w[n.call].state = "approval"
  PROVE  CallShape(q)
<1>1. ThreadShape(q)
  BY WithinStep
<1>2. Alive(q)
  BY DEF Alive, Working, Batch, Asking
<1> QED
  BY <1>1, <1>2, QuietWorld DEF CallShape

LEMMA CollectStep ==
  ASSUME IInv, NEW q \in Question, NEW k \in DOMAIN worker[q], Collect(q, k) PROVE CallShape(q)
<1> DEFINE t == thread[q]
           s == worker[q][k].state
<1>1. /\ t.pc = "collect" /\ t.pc \in Batch /\ t.pc \in Working /\ Alive(q)
      /\ UNCHANGED <<main, runbook, saved, active, history, budget>>
  BY DEF Collect, Batch, Working, Alive
<1>2. /\ t \in Thread /\ worker[q] \in Seq(Worker) /\ Len(worker[q]) \in Nat /\ Permits(worker[q])
      /\ k \in Width /\ s \in WorkerState
  <2>1. k \in 1..Len(worker[q]) /\ Len(worker[q]) <= MaxCalls
    BY PartsLemma DEF Quest
  <2>2. worker[q] \in Seq(Worker)
    BY PartsLemma
  <2>3. worker[q][k] \in Worker
    BY <2>2
  <2>4. s \in WorkerState
    BY <2>3 DEF Worker
  <2> QED
    BY <2>1, <2>2, <2>4, PartsLemma, BoundsAssumption DEF Width, Quest
<1>5. CASE /\ t.cancel
           /\ worker' = [worker EXCEPT ![q] = [j \in DOMAIN @ |-> IF @[j].state = "queued"
                                                  THEN [@[j] EXCEPT !.state = "cancelled"] ELSE @[j]]]
           /\ Goto(q, [t EXCEPT !.pc = "drain", !.end = "interrupted"]) /\ UNCHANGED heap
  <2> DEFINE w == [j \in DOMAIN worker[q] |-> IF worker[q][j].state = "queued"
                      THEN [worker[q][j] EXCEPT !.state = "cancelled"] ELSE worker[q][j]]
  <2>1. worker' = [worker EXCEPT ![q] = w]
    BY <1>5, PartsLemma
  <2>2. \A j \in DOMAIN worker[q] : w[j] \in Worker /\ w[j].kind = worker[q][j].kind
                                    /\ w[j].state \in {"cancelled", worker[q][j].state}
    <3> TAKE j \in DOMAIN worker[q]
    <3>1. worker[q][j] \in Worker
      BY <1>2
    <3>2. PICK c : c = [worker[q][j] EXCEPT !.state = "cancelled"]
      OBVIOUS
    <3>3. c \in Worker /\ c.kind = worker[q][j].kind /\ c.state = "cancelled"
      BY <3>1, <3>2 DEF Worker, WorkerState
    <3>4. w[j] = IF worker[q][j].state = "queued" THEN c ELSE worker[q][j]
      BY <3>2
    <3> HIDE DEF w
    <3> QED
      BY <3>1, <3>3, <3>4
  <2>3. w \in Seq(Worker) /\ Len(w) = Len(worker[q]) /\ DOMAIN w = DOMAIN worker[q]
    <3>1. DOMAIN w = 1..Len(worker[q]) /\ w = [j \in 1..Len(worker[q]) |-> w[j]]
      BY <1>2
    <3> HIDE DEF w
    <3>2. \A j \in 1..Len(worker[q]) : w[j] \in Worker
      BY <1>2, <2>2
    <3>3. w \in [1..Len(worker[q]) -> Worker]
      BY <3>1, <3>2
    <3> QED
      BY <1>2, <3>1, <3>3
  <2> HIDE DEF w
  <2>4. Permits(w)
    BY <1>2, <2>2, <2>3 DEF Permits
  <2>5. PICK n : n = [t EXCEPT !.pc = "drain", !.end = "interrupted"]
    OBVIOUS
  <2>6. /\ n \in Thread /\ n.pc = "drain" /\ n.list = t.list /\ n.cancel = t.cancel
        /\ n.restricted = t.restricted
    BY <1>2, <2>5 DEF Thread
  <2>7. n.pc \in Working /\ n.pc \notin Asking /\ Goto(q, n)
    BY <1>5, <2>5, <2>6 DEF Working, Batch, Asking
  <2>8. UNCHANGED <<heap, main, runbook, saved, active, history, budget>>
    BY <1>1, <1>5
  <2>9. thread[q].pc \in Working /\ worker[q] \in Seq(Worker) /\ Len(worker[q]) <= Len(worker[q]) /\ Permits(worker[q])
    BY <1>1, <1>2
  <2> QED
    BY <1>5, <2>1, <2>3, <2>4, <2>6, <2>7, <2>8, <2>9, WithinCall
<1>6. CASE s = "raised" /\ Goto(q, [t EXCEPT !.pc = "drain", !.end = "error"]) /\ UNCHANGED <<heap, worker>>
  <2>1. PICK n : n = [t EXCEPT !.pc = "drain", !.end = "error"]
    OBVIOUS
  <2>2. /\ n \in Thread /\ n.pc = "drain" /\ n.list = t.list /\ n.cancel = t.cancel
        /\ n.restricted = t.restricted
    BY <1>2, <2>1 DEF Thread
  <2>3. n.pc \in Working /\ n.pc \notin Asking /\ Goto(q, n)
    BY <1>6, <2>1, <2>2 DEF Working, Batch, Asking
  <2>4. worker' = [worker EXCEPT ![q] = worker[q]]
    BY <1>6, PartsLemma
  <2>8. UNCHANGED <<heap, main, runbook, saved, active, history, budget>>
    BY <1>1, <1>6
  <2>9. thread[q].pc \in Working /\ worker[q] \in Seq(Worker) /\ Len(worker[q]) <= Len(worker[q]) /\ Permits(worker[q])
    BY <1>1, <1>2
  <2> QED
    BY <1>6, <2>2, <2>3, <2>4, <2>8, <2>9, WithinCall
<1>7. CASE s = "approval" /\ Goto(q, [t EXCEPT !.pc = "approve", !.call = k]) /\ UNCHANGED <<heap, worker>>
  <2>1. PICK n : n = [t EXCEPT !.pc = "approve", !.call = k]
    OBVIOUS
  <2>2. /\ n \in Thread /\ n.pc = "approve" /\ n.list = t.list /\ n.cancel = t.cancel
        /\ n.restricted = t.restricted /\ n.call = k
    BY <1>2, <2>1 DEF Thread
  <2>3. n.pc \in Working /\ Goto(q, n)
    BY <1>7, <2>1, <2>2 DEF Working, Batch, Asking
  <2>4. worker' = [worker EXCEPT ![q] = worker[q]]
    BY <1>7, PartsLemma
  <2>8. UNCHANGED <<heap, main, runbook, saved, active, history, budget>>
    BY <1>1, <1>7
  <2>9. thread[q].pc \in Working /\ worker[q] \in Seq(Worker) /\ Len(worker[q]) <= Len(worker[q]) /\ Permits(worker[q])
    BY <1>1, <1>2
  <2> QED
    BY <1>7, <2>2, <2>3, <2>4, <2>8, <2>9, WithinCall
<1>8. CASE s \in Outcome \ {"approval"} /\ TakeResult(q, k, s)
  <2>1. /\ heap' \in Seq(Seq(Message)) /\ Len(heap') = Len(heap)
        /\ \A r \in 1..Len(heap) : r # t.list => heap'[r] = heap[r]
    BY <1>1, <1>8, TakeWorld
  <2>2. WorldShape(q)
    BY <1>1, <2>1, WithinWorld, PartsLemma
  <2>3. ThreadShape(q)
    BY <1>1, <1>8, <2>1, TakeThread
  <2> QED
    BY <2>2, <2>3 DEF CallShape
<1> QED
  BY <1>5, <1>6, <1>7, <1>8 DEF Collect

\* What an invocation may return.
Returns == {<<"approval", FALSE>>, <<"ok", TRUE>>, <<"error", TRUE>>, <<"error", FALSE>>}

LEMMA ReturnsLemma ==
  \A o \in Returns :
    /\ o[1] \in {"approval", "ok", "error"} /\ o[2] \in BOOLEAN
    /\ o[1] = "ok" => o = <<"ok", TRUE>>
    /\ o = <<"ok", TRUE>> => o[2] = TRUE
    /\ o[2] = TRUE => o[1] \in {"ok", "error"}
<1> TAKE o \in Returns
<1>1. CASE o = <<"approval", FALSE>>
  BY <1>1
<1>2. CASE o = <<"ok", TRUE>>
  BY <1>2
<1>3. CASE o = <<"error", TRUE>>
  BY <1>3
<1>4. CASE o = <<"error", FALSE>>
  BY <1>4
<1> QED
  BY <1>1, <1>2, <1>3, <1>4 DEF Returns

\* What an invocation changes beside the call.
LEMMA InvokedLemma ==
  ASSUME IInv, NEW q \in Question, NEW k \in DOMAIN worker[q],
         NEW o \in Returns,
         Invoked(<<q, thread[q].step, k>>, worker[q][k].kind, o)
  PROVE  /\ o[1] \in {"approval", "ok", "error"} /\ o[2] \in BOOLEAN
         /\ <<q, thread[q].step, k>> \in CallId /\ worker[q][k].kind \in Kinds
         /\ history' \in HistorySet /\ runbook' \in BOOLEAN
         /\ history'.outlived = history.outlived /\ history'.asked = history.asked
         /\ history'.approved = history.approved
         /\ history.ran \subseteq history'.ran
         /\ history'.ran = history.ran \union (IF o[2] THEN {<<<<q, thread[q].step, k>>, worker[q][k].kind>>} ELSE {})
         /\ runbook' => runbook \/ \E e \in history'.ran : e[2] = "runbook" /\ e[1][1] = q
<1> DEFINE c == <<q, thread[q].step, k>>
           kind == worker[q][k].kind
<1>1. o[1] \in {"approval", "ok", "error"} /\ o[2] \in BOOLEAN /\ (o = <<"ok", TRUE>> => o[2] = TRUE)
  BY ReturnsLemma
<1>2. c \in CallId /\ kind \in Kinds
  <2>1. worker[q] \in Seq(Worker) /\ Len(worker[q]) <= MaxCalls /\ thread[q].step \in Step
    BY PartsLemma DEF Quest, Thread
  <2>2. k \in Width /\ worker[q][k] \in Worker
    BY <2>1, BoundsAssumption DEF Width
  <2> QED
    BY <2>1, <2>2 DEF CallId, Worker
<1>3. <<c, kind>> \in CallId \X Kinds /\ <<c, kind>>[1] = c /\ <<c, kind>>[2] = kind /\ c[1] = q
  BY <1>2
<1>4. PICK R : R = history.ran \union (IF o[2] THEN {<<c, kind>>} ELSE {})
  OBVIOUS
<1>5. /\ runbook' = (runbook \/ (kind = "runbook" /\ o = <<"ok", TRUE>>))
      /\ history' = [history EXCEPT !.ran = R]
  BY <1>1, <1>4 DEF Invoked
<1>6. history \in HistorySet /\ history.ran \in SUBSET (CallId \X Kinds)
  BY PartsLemma DEF HistorySet
<1> HIDE DEF c, kind
<1>7. R \in SUBSET (CallId \X Kinds) /\ history.ran \subseteq R
  BY <1>3, <1>4, <1>6
<1>8. /\ history' \in HistorySet /\ history'.outlived = history.outlived /\ history'.asked = history.asked
      /\ history'.approved = history.approved /\ history'.ran = R
  BY <1>5, <1>6, <1>7 DEF HistorySet
<1>9. runbook' => runbook \/ \E e \in history'.ran : e[2] = "runbook" /\ e[1][1] = q
  <2>1. ASSUME kind = "runbook", o = <<"ok", TRUE>>
        PROVE  <<c, kind>> \in R /\ <<c, kind>>[2] = "runbook" /\ <<c, kind>>[1][1] = q
    BY <1>1, <1>3, <1>4, <2>1
  <2> QED
    BY <1>5, <1>8, <2>1
<1>10. runbook' \in BOOLEAN
  BY <1>5, PartsLemma
<1> QED
  BY <1>1, <1>2, <1>4, <1>7, <1>8, <1>9, <1>10 DEF c, kind

LEMMA OutcomesLemma ==
  \A kind, approved :
    /\ \A o \in OutcomesAgain(kind, approved) \union Outcomes(kind, approved) :
         o \in Returns
    /\ \A o \in Outcomes(kind, approved) :
         o[1] = "approval" => ~approved /\ kind \in {"bash", "compound", "listed"}
<1> TAKE kind, approved
<1>1. CASE ~approved /\ NeedsApproval(kind)
  <2>1. Outcomes(kind, approved) = {<<"approval", FALSE>>} /\ kind \in {"bash", "compound", "listed"}
    BY <1>1 DEF Outcomes, NeedsApproval
  <2>2. OutcomesAgain(kind, approved) \in {{<<"error", FALSE>>}, {<<"approval", FALSE>>}}
    BY <2>1 DEF OutcomesAgain
  <2> QED
    BY <1>1, <2>1, <2>2 DEF Returns
<1>2. CASE ~(~approved /\ NeedsApproval(kind))
  <2>1. Outcomes(kind, approved) = {<<"ok", TRUE>>, <<"error", TRUE>>}
    BY <1>2 DEF Outcomes
  <2>2. OutcomesAgain(kind, approved) \in {{<<"error", FALSE>>}, {<<"ok", TRUE>>, <<"error", TRUE>>}}
    BY <2>1 DEF OutcomesAgain
  <2>3. \A o : o = <<"ok", TRUE>> \/ o = <<"error", TRUE>> => o[1] # "approval"
    <3>1. <<"ok", TRUE>>[1] = "ok" /\ <<"error", TRUE>>[1] = "error"
      OBVIOUS
    <3> QED
      BY <3>1
  <2> QED
    BY <2>1, <2>2, <2>3 DEF Returns
<1> QED
  BY <1>1, <1>2

LEMMA ApproveStep == ASSUME IInv, NEW q \in Question, Approve(q) PROVE CallShape(q)
<1> DEFINE t == thread[q]
<1>1. /\ t.pc = "approve" /\ t.pc \in Working /\ t.pc \in Asking /\ Alive(q)
      /\ UNCHANGED <<heap, main, worker, runbook, saved, history, budget>>
  BY DEF Approve, Asking, Batch, Working, Alive
<1>2. /\ t \in Thread /\ worker[q] \in Seq(Worker) /\ Len(worker[q]) \in Nat /\ Permits(worker[q])
      /\ t.call \in DOMAIN worker[q] /\ worker[q][t.call].state = "approval"
  BY <1>1, PartsLemma DEF Quest
<1>3. worker' = [worker EXCEPT ![q] = worker[q]]
  BY <1>1, PartsLemma
<1>4. PICK n : /\ Goto(q, n) /\ n \in Thread /\ n.pc \in Asking /\ n.list = t.list /\ n.cancel = t.cancel
               /\ n.restricted = t.restricted /\ n.call = t.call
               /\ active' \subseteq Question
  <2>1. CASE UNCHANGED active /\ Goto(q, [t EXCEPT !.pc = "invoke", !.approves = FALSE])
    <3>1. PICK n : n = [t EXCEPT !.pc = "invoke", !.approves = FALSE]
      OBVIOUS
    <3>2. /\ n \in Thread /\ n.pc = "invoke" /\ n.list = t.list /\ n.cancel = t.cancel
          /\ n.restricted = t.restricted /\ n.call = t.call
      BY <1>2, <3>1 DEF Thread
    <3> QED
      BY <2>1, <3>1, <3>2, PartsLemma DEF Asking
  <2>2. ASSUME NEW via \in Question \union {0}, active' = active \union ({via} \ {0}),
               Goto(q, [t EXCEPT !.pc = "asking", !.via = via])
        PROVE  \E n : /\ Goto(q, n) /\ n \in Thread /\ n.pc \in Asking /\ n.list = t.list
                      /\ n.cancel = t.cancel /\ n.restricted = t.restricted /\ n.call = t.call
                      /\ active' \subseteq Question
    <3>1. PICK n : n = [t EXCEPT !.pc = "asking", !.via = via]
      OBVIOUS
    <3>2. /\ n \in Thread /\ n.pc = "asking" /\ n.list = t.list /\ n.cancel = t.cancel
          /\ n.restricted = t.restricted /\ n.call = t.call
      BY <1>2, <2>2, <3>1 DEF Thread
    <3> QED
      BY <2>2, <3>1, <3>2, PartsLemma DEF Asking
  <2>3. main.q \in Question \union {0}
    BY PartsLemma DEF MainSet
  <2> QED
    BY <2>1, <2>2, <2>3 DEF Approve
<1>5. ThreadShape(q)
  <2>1. n.pc \in Working /\ Len(heap') = Len(heap) /\ Len(worker[q]) <= Len(worker[q])
    BY <1>1, <1>2, <1>4 DEF Working, Batch
  <2> QED
    BY <1>1, <1>2, <1>3, <1>4, <2>1, WithinStep
<1>6. WorldShape(q)
  BY <1>1, <1>4, WithinWorld, PartsLemma
<1> QED
  BY <1>5, <1>6 DEF CallShape

LEMMA ReplyStep == ASSUME IInv, NEW q \in Question, Reply(q) PROVE CallShape(q)
<1> DEFINE t == thread[q]
           c == <<q, t.step, t.call>>
<1>1. /\ t.pc = "asking" /\ t.pc \in Batch /\ t.pc \in Working /\ t.pc \in Asking /\ Alive(q)
      /\ UNCHANGED <<main, runbook>> /\ active' = active \ {t.via}
  BY DEF Reply, Asking, Batch, Working, Alive
<1>2. /\ t \in Thread /\ worker[q] \in Seq(Worker) /\ Len(worker[q]) \in Nat /\ Permits(worker[q])
      /\ t.call \in DOMAIN worker[q] /\ worker[q][t.call].state = "approval"
  BY <1>1, PartsLemma DEF Quest
<1>3. active' \subseteq Question
  BY <1>1, PartsLemma
<1>4. CASE /\ saved' \in {saved, TRUE} /\ history' = [history EXCEPT !.approved = @ \union {c}]
           /\ Goto(q, [t EXCEPT !.pc = "invoke", !.approves = TRUE, !.via = 0])
           /\ UNCHANGED <<heap, worker, budget>>
  <2>1. PICK n : n = [t EXCEPT !.pc = "invoke", !.approves = TRUE, !.via = 0]
    OBVIOUS
  <2>2. /\ n \in Thread /\ n.pc = "invoke" /\ n.list = t.list /\ n.cancel = t.cancel
        /\ n.restricted = t.restricted /\ n.call = t.call
    BY <1>2, <2>1 DEF Thread
  <2>3. c \in CallId
    BY <1>2 DEF CallId, Thread
  <2>4. PICK A : A = history.approved \union {c}
    OBVIOUS
  <2>5. history \in HistorySet /\ A \subseteq CallId /\ history' = [history EXCEPT !.approved = A]
    BY <1>4, <2>3, <2>4, PartsLemma DEF HistorySet
  <2>6. /\ history' \in HistorySet /\ history'.outlived = history.outlived
        /\ history'.asked = history.asked /\ history'.ran = history.ran
    BY <2>5 DEF HistorySet
  <2>7. saved' \in BOOLEAN /\ budget' \in BudgetSet /\ heap' = heap /\ heap' \in Seq(Seq(Message))
    BY <1>4, PartsLemma
  <2>8. WorldShape(q)
    BY <1>1, <1>3, <2>6, <2>7, WithinWorld
  <2>9. ThreadShape(q)
    <3>1. worker' = [worker EXCEPT ![q] = worker[q]] /\ Goto(q, n)
      BY <1>4, <2>1, PartsLemma
    <3>2. n.pc \in Working /\ Len(heap') = Len(heap) /\ Len(worker[q]) <= Len(worker[q])
      BY <1>2, <2>2, <2>7 DEF Working, Batch, Asking
    <3> QED
      BY <1>1, <1>2, <2>2, <3>1, <3>2, WithinStep
  <2> QED
    BY <2>8, <2>9 DEF CallShape
<1>5. CASE TakeResult(q, t.call, "denied") /\ UNCHANGED <<saved, history, budget>>
  <2>1. "denied" \in Outcome
    BY DEF Outcome
  <2>2. /\ heap' \in Seq(Seq(Message)) /\ Len(heap') = Len(heap)
        /\ \A r \in 1..Len(heap) : r # t.list => heap'[r] = heap[r]
    BY <1>1, <1>2, <1>5, <2>1, TakeWorld
  <2>3. WorldShape(q)
    BY <1>1, <1>3, <1>5, <2>2, WithinWorld, PartsLemma
  <2>4. ThreadShape(q)
    BY <1>1, <1>2, <1>5, <2>2, TakeThread
  <2> QED
    BY <2>3, <2>4 DEF CallShape
<1>6. CASE /\ budget.aborts < MaxAborts /\ budget' = [budget EXCEPT !.aborts = @ + 1]
           /\ \E how \in {"error", "eof"} : Goto(q, [t EXCEPT !.pc = "drain", !.end = how, !.via = 0])
           /\ UNCHANGED <<heap, worker, saved, history>>
  <2>1. PICK how \in {"error", "eof"} : Goto(q, [t EXCEPT !.pc = "drain", !.end = how, !.via = 0])
    BY <1>6
  <2>2. PICK n : n = [t EXCEPT !.pc = "drain", !.end = how, !.via = 0]
    OBVIOUS
  <2>3. /\ n \in Thread /\ n.pc = "drain" /\ n.list = t.list /\ n.cancel = t.cancel
        /\ n.restricted = t.restricted
    BY <1>2, <2>2 DEF Thread
  <2>4. budget' \in BudgetSet
    <3>1. budget.aborts + 1 \in 0..MaxAborts
      BY <1>6, PartsLemma, BudgetLemma, BoundsAssumption
    <3> QED
      BY <1>6, <3>1, PartsLemma, BudgetLemma
  <2>5. heap' = heap /\ saved' = saved /\ history' = history
    BY <1>6
  <2>6. WorldShape(q)
    BY <1>1, <1>3, <2>4, <2>5, WithinWorld, PartsLemma
  <2>7. ThreadShape(q)
    <3>1. worker' = [worker EXCEPT ![q] = worker[q]] /\ Goto(q, n)
      BY <1>6, <2>1, <2>2, PartsLemma
    <3>2. n.pc \in Working /\ n.pc \notin Asking /\ Len(heap') = Len(heap) /\ Len(worker[q]) <= Len(worker[q])
      BY <1>2, <2>3, <2>5 DEF Working, Batch, Asking
    <3> QED
      BY <1>1, <1>2, <2>3, <3>1, <3>2, WithinStep
  <2> QED
    BY <2>6, <2>7 DEF CallShape
<1> QED
  BY <1>4, <1>5, <1>6 DEF Reply

LEMMA InvokeStep == ASSUME IInv, NEW q \in Question, Invoke(q) PROVE CallShape(q)
<1> DEFINE t == thread[q]
           kind == worker[q][t.call].kind
<1>1. /\ t.pc = "invoke" /\ t.pc \in Batch /\ t.pc \in Working /\ t.pc \in Asking /\ Alive(q)
      /\ UNCHANGED <<main, saved, active, budget>>
  BY DEF Invoke, Asking, Batch, Working, Alive
<1>2. PICK o \in OutcomesAgain(kind, t.approves) :
        TakeResult(q, t.call, o[1]) /\ Invoked(<<q, t.step, t.call>>, kind, o)
  BY DEF Invoke
<1>3. t.call \in DOMAIN worker[q]
  BY <1>1, PartsLemma DEF Quest
<1>4. o \in Returns
  BY OutcomesLemma
<1>5. /\ o[1] \in Outcome /\ history' \in HistorySet /\ runbook' \in BOOLEAN
      /\ history'.outlived = history.outlived /\ history'.asked = history.asked
      /\ history.ran \subseteq history'.ran
      /\ runbook' => runbook \/ \E e \in history'.ran : e[2] = "runbook" /\ e[1][1] = q
  <2>1. Invoked(<<q, thread[q].step, t.call>>, worker[q][t.call].kind, o)
    BY <1>2
  <2>2. {"approval", "ok", "error"} \subseteq Outcome
    BY DEF Outcome
  <2> HIDE DEF t, kind
  <2> QED
    BY <1>3, <1>4, <2>1, <2>2, InvokedLemma
<1>6. /\ heap' \in Seq(Seq(Message)) /\ Len(heap') = Len(heap)
      /\ \A r \in 1..Len(heap) : r # t.list => heap'[r] = heap[r]
  BY <1>1, <1>2, <1>3, <1>5, TakeWorld
<1>7. WorldShape(q)
  <2>1. Len(heap) <= Len(heap') /\ saved' \in BOOLEAN /\ active' \subseteq Question /\ budget' \in BudgetSet
    BY <1>1, <1>6, PartsLemma
  <2>2. Alive(q) /\ main' = main
    BY <1>1
  <2>3. \A r \in 1..Len(heap) : r # thread[q].list => heap'[r] = heap[r]
    BY <1>6
  <2>4. heap' \in Seq(Seq(Message))
    BY <1>6
  <2> HIDE DEF t, kind
  <2> QED
    BY <1>5, <2>1, <2>2, <2>3, <2>4 DEF WorldShape
<1>8. ThreadShape(q)
  BY <1>1, <1>2, <1>3, <1>6, TakeThread
<1> QED
  BY <1>7, <1>8 DEF CallShape

\* A step of a tool leaves the thread where it is.
LEMMA ToolThread ==
  ASSUME IInv, NEW q \in Question, NEW k \in DOMAIN worker[q], UNCHANGED <<heap, thread>>,
         worker[q][k].state \in {"queued", "running"}, NEW s \in WorkerState \ {"denied"}, SetWorker(q, k, s),
         s = "approval" => worker[q][k].kind \in {"bash", "compound", "listed"}
  PROVE  /\ ThreadShape(q) /\ Alive(q)
         /\ \E w \in Seq(Worker) : /\ w = [worker[q] EXCEPT ![k].state = s]
                                   /\ worker' = [worker EXCEPT ![q] = w]
<1> DEFINE t == thread[q]
<1>1. /\ t \in Thread /\ worker[q] \in Seq(Worker) /\ Quest(q, t, worker[q], main)
      /\ Len(worker[q]) \in Nat /\ s \in WorkerState
  BY PartsLemma
<1>2. worker[q] # <<>>
  BY <1>1
<1>3. t.pc \in Working /\ t.pc \notin {"idle", "done", "step", "llm"}
  BY <1>1, <1>2 DEF Quest, Working, Batch, Asking
<1>4. PICK w : w = [worker[q] EXCEPT ![k].state = s]
  OBVIOUS
<1>5. /\ w \in Seq(Worker) /\ Len(w) = Len(worker[q]) /\ DOMAIN w = DOMAIN worker[q]
      /\ \A j \in DOMAIN w : j # k => w[j] = worker[q][j]
  BY <1>1, <1>4, WorkerLemma
<1>6. Permits(w)
  BY <1>1, <1>4, PermitsLemma DEF Quest
<1>7. worker' = [worker EXCEPT ![q] = w]
  BY <1>4, PartsLemma DEF SetWorker
<1>8. Goto(q, t)
  BY PartsLemma DEF Goto
<1>9. t.pc \in Asking => t.call \in DOMAIN w /\ w[t.call].state = "approval"
  BY <1>1, <1>5 DEF Quest
<1>10. Len(heap') = Len(heap) /\ Len(w) <= Len(worker[q])
  BY <1>1, <1>5
<1>11. ThreadShape(q)
  BY <1>1, <1>3, <1>5, <1>6, <1>7, <1>8, <1>9, <1>10, WithinStep
<1> QED
  BY <1>3, <1>4, <1>5, <1>7, <1>11 DEF Alive

LEMMA ToolStep ==
  ASSUME IInv, NEW q \in Question, NEW k \in DOMAIN worker[q], StartTool(q, k) \/ EndTool(q, k)
  PROVE  CallShape(q)
<1>2. CASE StartTool(q, k)
  <2>1. "running" \in WorkerState \ {"denied"}
    BY DEF WorkerState, Outcome
  <2> QED
    BY <1>2, <2>1, ToolThread, QuietWorld DEF StartTool, CallShape
<1>3. CASE EndTool(q, k)
  <2>1. worker[q][k].state = "running" /\ UNCHANGED <<heap, main, thread, saved, active>>
    BY <1>3 DEF EndTool
  <2>2. ASSUME NEW o \in Outcomes(worker[q][k].kind, FALSE), SetWorker(q, k, o[1]),
               Invoked(<<q, thread[q].step, k>>, worker[q][k].kind, o), UNCHANGED budget
        PROVE  CallShape(q)
    <3>1. o \in Returns /\ (o[1] = "approval" => worker[q][k].kind \in {"bash", "compound", "listed"})
      BY OutcomesLemma
    <3>2. /\ o[1] \in WorkerState \ {"denied"} /\ history' \in HistorySet /\ runbook' \in BOOLEAN
          /\ history'.outlived = history.outlived /\ history'.asked = history.asked
          /\ history.ran \subseteq history'.ran
          /\ runbook' => runbook \/ \E e \in history'.ran : e[2] = "runbook" /\ e[1][1] = q
      <4>1. {"approval", "ok", "error"} \subseteq WorkerState \ {"denied"}
        BY DEF WorkerState, Outcome
      <4> QED
        BY <2>2, <3>1, <4>1, InvokedLemma
    <3>3. ThreadShape(q) /\ Alive(q)
      BY <2>1, <2>2, <3>1, <3>2, ToolThread
    <3>4. WorldShape(q)
      BY <2>1, <2>2, <3>2, <3>3, PartsLemma DEF WorldShape
    <3> QED
      BY <3>3, <3>4 DEF CallShape
  <2>3. CASE /\ budget.aborts < MaxAborts /\ budget' = [budget EXCEPT !.aborts = @ + 1]
             /\ SetWorker(q, k, "raised") /\ UNCHANGED <<runbook, history>>
    <3>1. "raised" \in WorkerState \ {"denied"}
      BY DEF WorkerState, Outcome
    <3>2. ThreadShape(q) /\ Alive(q)
      BY <2>1, <2>3, <3>1, ToolThread
    <3>3. budget' \in BudgetSet
      <4>1. budget.aborts + 1 \in 0..MaxAborts
        BY <2>3, PartsLemma, BudgetLemma, BoundsAssumption
      <4> QED
        BY <2>3, <4>1, PartsLemma, BudgetLemma
    <3>4. WorldShape(q)
      BY <2>1, <2>3, <3>2, <3>3, WithinWorld, PartsLemma
    <3> QED
      BY <3>2, <3>4 DEF CallShape
  <2> QED
    BY <1>3, <2>2, <2>3 DEF EndTool
<1> QED
  BY <1>2, <1>3

LEMMA CallStep == ASSUME IInv, NEW q \in Question, Call(q) \/ Tool(q) PROVE CallShape(q)
BY SendStep, FailStep, AnswerStep, RequestStep, CollectStep, ApproveStep, ReplyStep,
   InvokeStep, DrainedStep, ToolStep
   DEF Call, Tool
-----------------------------------------------------------------------------
(* The terminal *)

\* The question that is asked, its thread n, and the lists: its own is r.
AskShape(q, n, r, list) ==
  /\ q = main.q + 1 /\ q \in Question /\ main.pc = "prompt"
  /\ thread[q] = Idle /\ worker[q] = <<>>
  /\ n \in Thread /\ n.pc = "step" /\ n.step = 0 /\ n.list = r /\ ~n.cancel /\ ~n.restricted
  /\ thread' = [thread EXCEPT ![q] = n] /\ UNCHANGED <<worker, saved, active, budget>>
  /\ list \in Seq(Message)
  /\ list = IF main.list = 0 THEN <<User(q)>> ELSE Append(heap[main.list], User(q))
  /\ r = IF main.list = 0 THEN Len(heap) + 1 ELSE main.list
  /\ heap' \in Seq(Seq(Message)) /\ Len(heap') > Len(heap) /\ Len(heap') # r /\ r \in 1..Len(heap')
  /\ heap'[r] = list /\ heap'[Len(heap')] = list
  /\ \A z \in 1..Len(heap) : z # r => heap'[z] = heap[z]
  /\ \A z \in 1..Len(heap') : z \in 1..Len(heap) \/ heap'[z] = list
  /\ main' = [pc |-> "waiting", list |-> r, q |-> q, back |-> FALSE, snapshot |-> Len(heap')]
  /\ ~runbook'
  /\ history' \in HistorySet /\ history'.asked = list /\ history'.ran = history.ran
  /\ history'.approved = history.approved
  /\ history'.outlived = [history.outlived EXCEPT ![q] = {z \in Question : Alive(z)}]

LEMMA AskLemma == ASSUME IInv, Ask PROVE \E q, n, r, list : AskShape(q, n, r, list)
<1> DEFINE q == main.q + 1
           r == IF main.list = 0 THEN Len(heap) + 1 ELSE main.list
           list == IF main.list = 0 THEN <<User(q)>> ELSE Append(heap[r], User(q))
           held == IF main.list = 0 THEN Append(heap, list) ELSE [heap EXCEPT ![r] = list]
<1>1. main.pc = "prompt" /\ q \in Question /\ UNCHANGED <<worker, saved, active, budget>>
  BY DEF Ask
<1>2. main.q \in Nat /\ main.list \in Nat /\ main.list <= Len(heap) /\ Len(heap) \in Nat
  BY PartsLemma, BoundsAssumption DEF MainSet, Question
<1>3. thread[q] = Idle /\ worker[q] = <<>>
  BY <1>1, <1>2, PartsLemma DEF Quest
<1>4. r \in Nat /\ r >= 1 /\ r <= Len(heap) + 1 /\ (main.list # 0 => r = main.list /\ r \in 1..Len(heap))
  BY <1>2
<1>5. User(q) \in Message
  <2>1. 0 \in Step /\ 0 \in Width /\ "ok" \in Outcome
    BY LimitsAssumption, BoundsAssumption DEF Step, Width, Outcome
  <2> QED
    BY <1>1, <2>1, MessageLemma
<1>6. list \in Seq(Message) /\ list = IF main.list = 0 THEN <<User(q)>> ELSE Append(heap[main.list], User(q))
  BY <1>4, <1>5, PartsLemma
<1> PICK u : u = list
  OBVIOUS
<1> HIDE DEF list
<1>7. /\ held \in Seq(Seq(Message)) /\ Len(held) >= Len(heap) /\ Len(held) >= r /\ Len(held) \in Nat
      /\ held[r] = u
      /\ \A z \in 1..Len(heap) : z # r => held[z] = heap[z]
      /\ \A z \in 1..Len(held) : z \in 1..Len(heap) \/ z = r
  <2>1. heap \in Seq(Seq(Message)) /\ list = u
    BY PartsLemma
  <2>2. CASE main.list = 0
    BY <1>2, <1>6, <2>1, <2>2, AppendLemma
  <2>3. CASE main.list # 0
    BY <1>2, <1>4, <1>6, <2>1, <2>3
  <2> QED
    BY <2>2, <2>3
<1>8. PICK h : h = held
  OBVIOUS
<1>9. heap' = Append(h, u) /\ main' = [pc |-> "waiting", list |-> r, q |-> q, back |-> FALSE, snapshot |-> Len(h) + 1]
  <2>1. Snapshot(r, list) = <<u>> /\ <<u>> # <<>>
    BY DEF Snapshot
  <2>2. heap' = h \o <<u>>
    BY <1>8, <2>1 DEF Ask, list
  <2>3. main' = [pc |-> "waiting", list |-> r, q |-> q, back |-> FALSE, snapshot |-> Len(h) + 1]
    BY <1>8, <2>1 DEF Ask, list
  <2> QED
    BY <1>7, <1>8, <2>2, <2>3
<1> HIDE DEF held
<1>10. /\ heap' \in Seq(Seq(Message)) /\ Len(heap') = Len(h) + 1 /\ heap'[Len(heap')] = u
       /\ \A z \in 1..Len(h) : heap'[z] = h[z]
  <2>1. h \in Seq(Seq(Message)) /\ u \in Seq(Message)
    BY <1>6, <1>7, <1>8
  <2>2. heap' = Append(h, u)
    BY <1>9
  <2> QED
    BY <2>1, <2>2, AppendLemma
<1>11. PICK n : n = [Idle EXCEPT !.pc = "step", !.list = r, !.restricted = FALSE]
  OBVIOUS
<1>12. runbook' = FALSE /\ thread' = [thread EXCEPT ![q] = n]
  BY <1>11 DEF Ask, Reset, Goto
<1>13. n \in Thread /\ n.pc = "step" /\ n.step = 0 /\ n.list = r /\ ~n.cancel /\ ~n.restricted
  BY <1>4, <1>11, IdleLemma DEF Idle, Thread
<1>14. PICK O : O = [history.outlived EXCEPT ![q] = {z \in Question : Alive(z)}]
  OBVIOUS
<1>15. history' = [history EXCEPT !.asked = u, !.outlived = O]
  BY <1>14 DEF Ask, list
<1>16. /\ history' \in HistorySet /\ history'.asked = u /\ history'.ran = history.ran
       /\ history'.approved = history.approved /\ history'.outlived = O
  <2>1. history \in HistorySet /\ history.outlived \in [Question -> SUBSET Question]
    BY PartsLemma DEF HistorySet
  <2>2. O \in [Question -> SUBSET Question]
    BY <1>14, <2>1
  <2> QED
    BY <1>6, <1>15, <2>1, <2>2 DEF HistorySet
<1> HIDE DEF r, q
<1>17. /\ Len(heap') > Len(heap) /\ Len(heap') # r /\ r \in 1..Len(heap') /\ heap'[r] = u
       /\ \A z \in 1..Len(heap) : z # r => heap'[z] = heap[z]
  <2>1. Len(h) \in Nat /\ Len(h) >= Len(heap) /\ Len(h) >= r /\ h[r] = u
        /\ \A z \in 1..Len(heap) : z # r => h[z] = heap[z]
    BY <1>7, <1>8
  <2>2. Len(heap') > Len(heap) /\ Len(heap') # r /\ r \in 1..Len(heap') /\ r \in 1..Len(h)
    BY <1>2, <1>4, <1>10, <2>1
  <2>3. \A z \in 1..Len(heap) : z \in 1..Len(h)
    BY <1>2, <2>1
  <2> QED
    BY <1>10, <2>1, <2>2, <2>3
<1>18. \A z \in 1..Len(heap') : z \in 1..Len(heap) \/ heap'[z] = u
  <2>1. \A z \in 1..Len(h) : z \in 1..Len(heap) \/ z = r
    BY <1>7, <1>8
  <2>2. ASSUME NEW z \in 1..Len(heap') PROVE z \in 1..Len(h) \/ heap'[z] = u
    <3>1. Len(h) \in Nat /\ Len(heap') = Len(h) + 1
      BY <1>7, <1>8, <1>10
    <3> QED
      BY <1>10, <2>2, <3>1
  <2>3. \A z \in 1..Len(h) : z = r => heap'[z] = u
    BY <1>17
  <2> QED
    BY <2>1, <2>2, <2>3
<1>19. AskShape(q, n, r, u)
  <2>1. q = main.q + 1
    BY DEF q
  <2>2. r = IF main.list = 0 THEN Len(heap) + 1 ELSE main.list
    BY DEF r
  <2> QED
    BY <1>1, <1>3, <1>6, <1>9, <1>10, <1>12, <1>13, <1>14, <1>16, <1>17, <1>18, <2>1, <2>2 DEF AskShape
<1> QED
  BY <1>19

LEMMA AskStep == ASSUME IInv, Ask PROVE IInv'
<1> PICK q, n, r, list : AskShape(q, n, r, list)
  BY AskLemma
<1>1. /\ q = main.q + 1 /\ q \in Question /\ q \in Nat /\ main.q \in Nat
      /\ n \in Thread /\ n.pc = "step" /\ n.list = r /\ r \in 1..Len(heap') /\ ~n.cancel
      /\ Len(heap) \in Nat /\ Len(heap') \in Nat /\ Len(heap') > Len(heap)
      /\ worker[q] = <<>> /\ thread[q] = Idle
  <2>1. /\ q = main.q + 1 /\ q \in Question /\ n \in Thread /\ n.pc = "step" /\ n.list = r
        /\ r \in 1..Len(heap') /\ ~n.cancel /\ Len(heap') > Len(heap)
        /\ worker[q] = <<>> /\ thread[q] = Idle /\ heap' \in Seq(Seq(Message))
    BY DEF AskShape
  <2>2. heap \in Seq(Seq(Message)) /\ main \in MainSet
    BY PartsLemma
  <2>3. Len(heap) \in Nat /\ Len(heap') \in Nat
    BY <2>1, <2>2
  <2>4. q \in Nat /\ main.q \in Nat
    BY <2>1, <2>2, BoundsAssumption DEF MainSet, Question
  <2> QED
    BY <2>1, <2>3, <2>4
<1>2. /\ thread' \in [Question -> Thread] /\ thread'[q] = n
      /\ \A z \in Question : z # q => thread'[z] = thread[z]
  BY PartsLemma DEF AskShape
<1>3. /\ main' \in MainSet /\ main'.list = r /\ main'.snapshot = Len(heap') /\ main'.q = q
      /\ main'.pc = "waiting" /\ ~main'.back
  BY <1>1 DEF AskShape, MainSet
<1>4. TypeOK'
  <2>1. \A z \in Question : thread'[z].list <= Len(heap')
    <3>1. r <= Len(heap') /\ \A z \in Question : thread[z].list \in Nat /\ thread[z].list <= Len(heap)
      BY <1>1, PartsLemma
    <3> QED
      BY <1>1, <1>2, <3>1
  <2>2. UNCHANGED <<worker, saved, active, budget>> /\ ~runbook' /\ runbook' \in BOOLEAN
    BY DEF Ask, AskShape, Reset
  <2>3. main'.list <= Len(heap') /\ main'.snapshot <= Len(heap')
    BY <1>1, <1>3
  <2>4. heap' \in Seq(Seq(Message)) /\ history' \in HistorySet
    BY DEF AskShape
  <2>5. TypeParts'
    BY <1>2, <1>3, <2>1, <2>2, <2>3, <2>4, PartsLemma DEF TypeParts
  <2> QED
    BY <2>5, TypeLemma, PTL
<1>5. \A z \in Question : Quest(z, thread'[z], worker'[z], main')
  <2> TAKE z \in Question
  <2>1. worker' = worker /\ Quest(z, thread[z], worker[z], main) /\ z \in Nat /\ main.pc = "prompt"
    BY PartsLemma, BoundsAssumption DEF AskShape, Question
  <2>2. CASE z = q
    BY <1>1, <1>2, <1>3, <2>1, <2>2, BoundsAssumption DEF Quest, Busy, Working, Batch, Asking, Permits
  <2>3. CASE z # q
    BY <1>1, <1>2, <1>3, <2>1, <2>3 DEF Quest
  <2> QED
    BY <2>2, <2>3
<1>6. MainOK'
  <2>1. history'.outlived[q] = {z \in Question : Alive(z)}
    BY <1>1, PartsLemma DEF AskShape, HistorySet
  <2>2. \A z \in Question : z # q /\ Alive(z)' => Alive(z)
    BY <1>2 DEF Alive
  <2>3. q # 0
    BY <1>1
  <2> QED
    BY <1>1, <1>2, <1>3, <2>1, <2>2, <2>3 DEF MainOK
<1> QED
  BY <1>4, <1>5, <1>6 DEF IInv

LEMMA EscapeStep == ASSUME IInv, Escape PROVE IInv'
<1>1. /\ main.pc = "waiting" /\ UNCHANGED <<heap, worker, runbook, saved, active, history, budget>>
      /\ main.q \in Question /\ main \in MainSet /\ main.list # 0 /\ main.snapshot # 0
  BY PartsLemma DEF Escape, IInv, MainOK, MainSet
<1>2. PICK n : n = [thread[main.q] EXCEPT !.cancel = TRUE]
  OBVIOUS
<1>3. PICK m : m = [main EXCEPT !.pc = "escaped"]
  OBVIOUS
<1>4. main' = m /\ thread' = [thread EXCEPT ![main.q] = n]
  BY <1>2, <1>3 DEF Escape, Goto
<1>5. /\ n \in Thread /\ n.cancel /\ n.pc = thread[main.q].pc /\ n.list = thread[main.q].list
      /\ n.call = thread[main.q].call /\ n.step = thread[main.q].step
  BY <1>1, <1>2, PartsLemma DEF Thread
<1>6. /\ m \in MainSet /\ m.pc = "escaped" /\ m.list = main.list /\ m.snapshot = main.snapshot
      /\ m.q = main.q /\ m.back = main.back
  BY <1>1, <1>3 DEF MainSet
<1>7. /\ thread' \in [Question -> Thread] /\ thread'[main.q] = n
      /\ \A z \in Question : z # main.q => thread'[z] = thread[z]
  BY <1>1, <1>4, <1>5, PartsLemma
<1>8. TypeParts'
  <2>1. \A z \in Question : thread'[z].list <= Len(heap)
    BY <1>5, <1>7, PartsLemma
  <2> QED
    BY <1>1, <1>4, <1>6, <1>7, <2>1, PartsLemma DEF TypeParts
<1>9. TypeOK'
  BY <1>8, TypeLemma, PTL
<1>10. \A z \in Question : Quest(z, thread'[z], worker'[z], main')
  <2> TAKE z \in Question
  <2>1. worker' = worker /\ Quest(z, thread[z], worker[z], main) /\ z \in Nat /\ main.q \in Nat
    BY <1>1, PartsLemma, BoundsAssumption DEF Question
  <2>2. CASE z = main.q
    BY <1>4, <1>5, <1>6, <1>7, <2>1, <2>2 DEF Quest, Busy
  <2>3. CASE z # main.q
    BY <1>4, <1>6, <1>7, <2>1, <2>3 DEF Quest
  <2> QED
    BY <2>2, <2>3
<1>11. MainOK'
  <2>1. \A z \in Question : Alive(z)' => Alive(z)
    BY <1>1, <1>5, <1>7 DEF Alive
  <2> QED
    BY <1>1, <1>4, <1>6, <2>1 DEF MainOK, IInv
<1> QED
  BY <1>9, <1>10, <1>11 DEF IInv

\* Only the terminal's record changes, and the flag perhaps.
LEMMA TerminalStep ==
  ASSUME IInv, UNCHANGED <<heap, thread, worker, saved, active, history, budget>>, runbook' \in BOOLEAN,
         main' \in MainSet, main'.list <= Len(heap), main'.snapshot <= Len(heap), main'.q = main.q,
         main'.pc \in {"prompt", "exited"},
         main'.pc = "prompt" /\ main'.back => main'.list # 0,
         \A q \in Question : Alive(q) => thread[q].cancel
  PROVE  IInv'
<1>1. TypeParts'
  BY PartsLemma DEF TypeParts
<1>2. TypeOK'
  BY <1>1, TypeLemma, PTL
<1>3. \A q \in Question : Quest(q, thread'[q], worker'[q], main')
  BY PartsLemma DEF Quest, Alive, Busy
<1>4. MainOK'
  BY DEF MainOK, IInv, Alive
<1> QED
  BY <1>2, <1>3, <1>4 DEF IInv

\* Where the terminal does not wait for it, a thread that runs is interrupted.
LEMMA OthersCancelled ==
  ASSUME IInv, NEW q \in Question, Alive(q), main.pc # "waiting" \/ main.q # q
  PROVE  thread[q].cancel
BY PartsLemma DEF Quest, Alive, Busy, Thread

LEMMA RollbackStep == ASSUME IInv, Rollback PROVE IInv'
<1>1. main \in MainSet /\ main.pc = "escaped" /\ main.snapshot # 0 /\ main.snapshot <= Len(heap)
  BY PartsLemma DEF Rollback, IInv, MainOK
<1>2. PICK m : m = [main EXCEPT !.pc = "prompt", !.list = main.snapshot, !.back = TRUE]
  OBVIOUS
<1>3. m \in MainSet /\ m.pc = "prompt" /\ m.list = main.snapshot /\ m.snapshot = main.snapshot
      /\ m.q = main.q /\ m.back = TRUE
  BY <1>1, <1>2 DEF MainSet
<1>4. main' = m /\ UNCHANGED <<heap, thread, worker, runbook, saved, active, history, budget>>
  BY <1>2 DEF Rollback
<1>5. \A q \in Question : Alive(q) => thread[q].cancel
  BY <1>1, OthersCancelled
<1> QED
  BY <1>1, <1>3, <1>4, <1>5, TerminalStep, PartsLemma

LEMMA FinishStep == ASSUME IInv, Finish PROVE IInv'
<1>1. /\ main \in MainSet /\ main.pc = "waiting" /\ main.list <= Len(heap) /\ ~main.back
      /\ main.snapshot <= Len(heap) /\ main.q \in Question /\ ~Alive(main.q)
      /\ thread[main.q].list \in Nat /\ thread[main.q].list <= Len(heap)
  BY PartsLemma DEF Finish, IInv, MainOK, MainSet
<1>2. PICK l : l = IF thread[main.q].end = "answer" THEN thread[main.q].list ELSE main.list
  OBVIOUS
<1>3. PICK pc : pc = IF thread[main.q].end = "eof" THEN "exited" ELSE "prompt"
  OBVIOUS
<1>4. main' = [main EXCEPT !.pc = pc, !.list = l]
      /\ UNCHANGED <<heap, thread, worker, runbook, saved, active, history, budget>>
  BY <1>2, <1>3 DEF Finish
<1>5. l \in Nat /\ l <= Len(heap) /\ pc \in {"exited", "prompt"}
  BY <1>1, <1>2, <1>3 DEF MainSet
<1>6. main' \in MainSet /\ main'.pc = pc /\ main'.list = l /\ main'.snapshot = main.snapshot
      /\ main'.q = main.q /\ ~main'.back
  BY <1>1, <1>4, <1>5 DEF MainSet
<1>7. \A q \in Question : Alive(q) => thread[q].cancel
  BY <1>1, OthersCancelled
<1> QED
  BY <1>1, <1>4, <1>5, <1>6, <1>7, TerminalStep, PartsLemma

LEMMA ClearStep == ASSUME IInv, Clear PROVE IInv'
<1>1. main \in MainSet /\ main.pc = "prompt"
  BY PartsLemma DEF Clear
<1>2. PICK m : m = [main EXCEPT !.list = 0, !.back = FALSE]
  OBVIOUS
<1>3. m \in MainSet /\ m.pc = "prompt" /\ m.list = 0 /\ m.snapshot = main.snapshot
      /\ m.q = main.q /\ ~m.back
  BY <1>1, <1>2 DEF MainSet
<1>4. main' = m /\ ~runbook' /\ runbook' \in BOOLEAN
      /\ UNCHANGED <<heap, thread, worker, saved, active, history, budget>>
  BY <1>2 DEF Clear
<1>5. \A q \in Question : Alive(q) => thread[q].cancel
  BY <1>1, OthersCancelled
<1>6. 0 <= Len(heap)
  BY PartsLemma
<1> QED
  BY <1>3, <1>4, <1>5, <1>6, TerminalStep, PartsLemma

LEMMA InitInv == Init => IInv
<1> SUFFICES ASSUME Init PROVE IInv
  OBVIOUS
<1>1. TypeParts
  <2>1. heap \in Seq(Seq(Message)) /\ Len(heap) = 0
    BY DEF Init
  <2>2. main \in MainSet /\ main.list = 0 /\ main.snapshot = 0
    BY DEF Init, MainSet
  <2>3. thread \in [Question -> Thread] /\ \A q \in Question : thread[q].list = 0
    BY IdleLemma DEF Init
  <2>4. worker \in [Question -> Seq(Worker)]
    BY DEF Init
  <2>5. history \in HistorySet
    BY DEF Init, HistorySet
  <2>6. budget \in BudgetSet
    BY BoundsAssumption DEF Init, BudgetSet
  <2>7. runbook \in BOOLEAN /\ saved \in BOOLEAN /\ active \subseteq Question
    BY DEF Init
  <2> QED
    BY <2>1, <2>2, <2>3, <2>4, <2>5, <2>6, <2>7 DEF TypeParts
<1>2. \A q \in Question : Quest(q, thread[q], worker[q], main)
  BY IdleLemma, BoundsAssumption DEF Init, Quest, Asking, Working, Batch, Permits, Busy
<1>3. MainOK
  BY IdleLemma DEF Init, MainOK, Alive
<1> QED
  BY <1>1, <1>2, <1>3, TypeLemma DEF IInv

LEMMA StutterInv == ASSUME IInv, UNCHANGED vars PROVE IInv'
<1>1. TypeOK'
  BY DEF IInv, TypeOK, vars
<1>2. \A q \in Question : Quest(q, thread'[q], worker'[q], main')
  BY DEF IInv, vars
<1>3. MainOK'
  BY DEF IInv, MainOK, Alive, vars
<1> QED
  BY <1>1, <1>2, <1>3 DEF IInv

LEMMA NextInv == IInv /\ [Next]_vars => IInv'
BY AskStep, EscapeStep, RollbackStep, FinishStep, ClearStep, CallStep, CallInv, StutterInv
   DEF Next, Terminal

LEMMA Inductive == Spec => []IInv
BY InitInv, NextInv, PTL DEF Spec

\* The variables keep their types: a question makes at most max_steps calls of the LLM,
\* and every list that is referred to exists.
THEOREM TypeCorrect == Spec => []TypeOK
<1>1. IInv => TypeOK
  BY DEF IInv
<1> QED
  BY <1>1, Inductive, PTL
-----------------------------------------------------------------------------
(* Who holds which list *)

\* A list is held by one thread at most; not even the list of the thread that the
\* terminal waits for, when it has ended, is held by another.
Separate ==
  \A q, z \in Question :
    Alive(q) /\ (Alive(z) \/ (z = main.q /\ main.pc = "waiting")) /\ thread[q].list = thread[z].list
      => q = z

\* Nobody but the thread that the terminal waits for holds the terminal's list, and nobody
\* the snapshot.
OwnedOK ==
  /\ Separate
  /\ main.pc = "prompt" => \A q \in Question : Alive(q) => thread[q].list # main.list
  /\ main.pc \in {"waiting", "escaped"} =>
       /\ heap[main.snapshot] = history.asked /\ main.snapshot # main.list
       /\ \A q \in Question : Alive(q) => thread[q].list # main.snapshot
       /\ \A q \in Question : Alive(q) /\ thread[q].list = main.list => q = main.q
  /\ RolledBack

LEMMA OwnedInit == Init => OwnedOK
BY IdleLemma DEF Init, OwnedOK, Separate, RolledBack, Alive

LEMMA OwnedCall ==
  ASSUME IInv, OwnedOK, NEW q \in Question, CallShape(q)
  PROVE  OwnedOK'
<1> PICK n \in Thread, w \in Seq(Worker) :
      /\ thread' = [thread EXCEPT ![q] = n] /\ worker' = [worker EXCEPT ![q] = w]
      /\ Follows(q, thread[q], n, w)
  BY DEF CallShape, ThreadShape
<1>1. /\ WorldShape(q) /\ Alive(q) /\ main' = main /\ history'.asked = history.asked
      /\ \A r \in 1..Len(heap) : r # thread[q].list => heap'[r] = heap[r]
  BY DEF CallShape, WorldShape
<1>2. /\ thread'[q] = n /\ \A z \in Question : z # q => thread'[z] = thread[z]
  BY PartsLemma
<1>3. n.list = thread[q].list \/ (Busy(n) /\ n.list = Len(heap) + 1)
  BY DEF Follows
<1>4. \A z \in Question : Alive(z)' => Alive(z)
  BY <1>1, <1>2 DEF Alive
<1>5. \A z \in Question : thread[z].list \in Nat /\ thread[z].list <= Len(heap)
  BY PartsLemma
<1>6. main.list \in Nat /\ main.snapshot \in Nat /\ Len(heap) \in Nat
      /\ main.list <= Len(heap) /\ main.snapshot <= Len(heap)
  BY PartsLemma DEF MainSet
<1>7. Separate'
  <2>1. ASSUME NEW x \in Question, NEW z \in Question, Alive(x)', x # z,
               Alive(z)' \/ (z = main.q /\ main.pc = "waiting"), thread'[x].list = thread'[z].list
        PROVE  FALSE
    <3>1. Alive(x) /\ (Alive(z) \/ (z = main.q /\ main.pc = "waiting"))
      BY <1>4, <2>1
    <3>2. thread[x].list # thread[z].list
      BY <2>1, <3>1 DEF OwnedOK, Separate
    <3>3. thread'[x].list = thread[x].list \/ (x = q /\ thread'[x].list = Len(heap) + 1)
      BY <1>2, <1>3
    <3>4. thread'[z].list = thread[z].list \/ (z = q /\ thread'[z].list = Len(heap) + 1)
      BY <1>2, <1>3
    <3> QED
      BY <1>5, <1>6, <2>1, <3>2, <3>3, <3>4
  <2> QED
    BY <1>1, <2>1 DEF Separate
<1>8. \A z \in Question : Alive(z)' /\ thread'[z].list <= Len(heap) => thread'[z].list = thread[z].list
  BY <1>2, <1>3, <1>6
<1>9. main.pc \in {"waiting", "escaped"} =>
        /\ heap'[main.snapshot] = history'.asked /\ main.snapshot # main.list
        /\ \A z \in Question : Alive(z)' => thread'[z].list # main.snapshot
        /\ \A z \in Question : Alive(z)' /\ thread'[z].list = main.list => z = main.q
  <2> SUFFICES ASSUME main.pc \in {"waiting", "escaped"}
               PROVE  /\ heap'[main.snapshot] = history'.asked /\ main.snapshot # main.list
                      /\ \A z \in Question : Alive(z)' => thread'[z].list # main.snapshot
                      /\ \A z \in Question : Alive(z)' /\ thread'[z].list = main.list => z = main.q
    OBVIOUS
  <2>1. main.snapshot \in 1..Len(heap) /\ thread[q].list # main.snapshot
    BY <1>1, <1>6 DEF OwnedOK, IInv, MainOK
  <2>2. heap'[main.snapshot] = history'.asked /\ main.snapshot # main.list
    BY <1>1, <2>1 DEF OwnedOK
  <2>3. \A z \in Question : Alive(z)' => thread'[z].list # main.snapshot
    BY <1>4, <1>6, <1>8 DEF OwnedOK
  <2>4. \A z \in Question : Alive(z)' /\ thread'[z].list = main.list => z = main.q
    BY <1>4, <1>6, <1>8 DEF OwnedOK
  <2> QED
    BY <2>2, <2>3, <2>4
<1>10. main.pc = "prompt" => \A z \in Question : Alive(z)' => thread'[z].list # main.list
  BY <1>4, <1>6, <1>8 DEF OwnedOK
<1>11. RolledBack'
  <2> SUFFICES ASSUME main.pc = "prompt", main.back PROVE heap'[main.list] = history'.asked
    BY <1>1 DEF RolledBack
  <2>1. heap[main.list] = history.asked /\ thread[q].list # main.list /\ main.list \in 1..Len(heap)
    BY <1>1, <1>6 DEF OwnedOK, RolledBack, IInv, MainOK
  <2> QED
    BY <1>1, <2>1
<1> QED
  BY <1>1, <1>7, <1>9, <1>10, <1>11 DEF OwnedOK

LEMMA OwnedAsk == ASSUME IInv, OwnedOK, Ask PROVE OwnedOK'
<1> PICK q, n, r, list : AskShape(q, n, r, list)
  BY AskLemma
<1>1. /\ q = main.q + 1 /\ q \in Question /\ main.pc = "prompt"
      /\ n.list = r /\ thread' = [thread EXCEPT ![q] = n]
      /\ main' = [pc |-> "waiting", list |-> r, q |-> q, back |-> FALSE, snapshot |-> Len(heap')]
      /\ heap'[Len(heap')] = list /\ history'.asked = list
      /\ Len(heap') > Len(heap) /\ Len(heap') # r /\ thread[q] = Idle
      /\ r = IF main.list = 0 THEN Len(heap) + 1 ELSE main.list
  BY DEF AskShape
<1>2. heap' \in Seq(Seq(Message)) /\ heap \in Seq(Seq(Message))
  BY PartsLemma DEF AskShape
<1>3. Len(heap) \in Nat /\ Len(heap') \in Nat
  BY <1>2
<1>4. /\ thread'[q] = n /\ \A z \in Question : z # q => thread'[z] = thread[z]
  BY <1>1, PartsLemma
<1>5. \A z \in Question : Alive(z) => thread[z].list \in 1..Len(heap) /\ thread[z].list # main.list
  BY <1>1, BusyLemma DEF OwnedOK
<1>6. \A z \in Question : Alive(z)' /\ z # q =>
        Alive(z) /\ thread'[z].list = thread[z].list /\ thread'[z].list # r /\ thread'[z].list # Len(heap')
  BY <1>1, <1>3, <1>4, <1>5 DEF Alive
<1>7. \A x, z \in Question : Alive(x) /\ Alive(z) /\ thread[x].list = thread[z].list => x = z
  BY DEF OwnedOK, Separate
<1>8. main'.pc = "waiting" /\ main'.list = r /\ main'.q = q /\ ~main'.back /\ main'.snapshot = Len(heap')
  BY <1>1
<1>9. Separate'
  <2>1. ASSUME NEW x \in Question, NEW z \in Question, Alive(x)', Alive(z)' \/ z = q,
               thread'[x].list = thread'[z].list
        PROVE  x = z
    BY <1>1, <1>4, <1>6, <1>7, <2>1
  <2> QED
    BY <1>8, <2>1 DEF Separate
<1> QED
  BY <1>1, <1>4, <1>6, <1>8, <1>9 DEF OwnedOK, RolledBack

\* Only the terminal moves.
LEMMA OwnedTerminal == ASSUME IInv, OwnedOK, Escape \/ Rollback \/ Finish \/ Clear PROVE OwnedOK'
<1>1. /\ heap' = heap /\ history' = history /\ main \in MainSet
  BY PartsLemma DEF Escape, Rollback, Finish, Clear
<1>2. CASE Escape
  <2>1. main.pc = "waiting" /\ main.q \in Question /\ thread \in [Question -> Thread]
    BY <1>2, PartsLemma DEF Escape, IInv, MainOK, MainSet
  <2>2. PICK n : n = [thread[main.q] EXCEPT !.cancel = TRUE]
    OBVIOUS
  <2>3. n.pc = thread[main.q].pc /\ n.list = thread[main.q].list
    BY <2>1, <2>2 DEF Thread
  <2>4. thread' = [thread EXCEPT ![main.q] = n] /\ main' = [main EXCEPT !.pc = "escaped"]
    BY <1>2, <2>2 DEF Escape, Goto
  <2>5. \A z \in Question : thread'[z].pc = thread[z].pc /\ thread'[z].list = thread[z].list
    BY <2>1, <2>3, <2>4
  <2>6. main'.pc = "escaped" /\ main'.list = main.list /\ main'.snapshot = main.snapshot /\ main'.q = main.q
    BY <1>1, <2>4 DEF MainSet
  <2>7. \A z \in Question : Alive(z)' = Alive(z)
    BY <2>5 DEF Alive
  <2>8. Separate'
    BY <2>5, <2>6, <2>7 DEF OwnedOK, Separate
  <2> QED
    BY <1>1, <2>1, <2>5, <2>6, <2>7, <2>8 DEF OwnedOK, RolledBack
<1>3. ASSUME thread' = thread, main'.pc \in {"prompt", "exited"},
             main'.pc = "prompt" => \A z \in Question : Alive(z) => thread[z].list # main'.list,
             main'.pc = "prompt" /\ main'.back => heap[main'.list] = history.asked
      PROVE  OwnedOK'
  <2>1. \A z \in Question : Alive(z)' = Alive(z)
    BY <1>3 DEF Alive
  <2>2. Separate'
    BY <1>3, <2>1 DEF OwnedOK, Separate
  <2> QED
    BY <1>1, <1>3, <2>1, <2>2 DEF OwnedOK, RolledBack
<1>4. CASE Rollback
  <2>1. main.pc = "escaped" /\ thread' = thread
        /\ main' = [main EXCEPT !.pc = "prompt", !.list = main.snapshot, !.back = TRUE]
    BY <1>4 DEF Rollback
  <2>2. main'.pc = "prompt" /\ main'.list = main.snapshot
    BY <1>1, <2>1 DEF MainSet
  <2> QED
    BY <1>3, <2>1, <2>2 DEF OwnedOK
<1>5. CASE Finish
  <2>1. /\ main.pc = "waiting" /\ thread' = thread /\ ~Alive(main.q) /\ main.q \in Question /\ ~main.back
        /\ main' = [main EXCEPT !.pc = IF thread[main.q].end = "eof" THEN "exited" ELSE "prompt",
                                !.list = IF thread[main.q].end = "answer" THEN thread[main.q].list ELSE @]
    BY <1>5, PartsLemma DEF Finish, IInv, MainOK, MainSet
  <2>2. /\ main'.pc \in {"prompt", "exited"} /\ ~main'.back
        /\ main'.list \in {thread[main.q].list, main.list}
    BY <1>1, <2>1 DEF MainSet
  <2>3. \A z \in Question : Alive(z) => thread[z].list # thread[main.q].list /\ thread[z].list # main.list
    BY <2>1 DEF OwnedOK, Separate
  <2> QED
    BY <1>3, <2>1, <2>2, <2>3
<1>6. CASE Clear
  <2>1. thread' = thread /\ main' = [main EXCEPT !.list = 0, !.back = FALSE] /\ main.pc = "prompt"
    BY <1>6 DEF Clear
  <2>2. main'.pc = "prompt" /\ main'.list = 0 /\ ~main'.back
    BY <1>1, <2>1 DEF MainSet
  <2>3. \A z \in Question : Alive(z) => thread[z].list # 0
    BY BusyLemma
  <2> QED
    BY <1>3, <2>1, <2>2, <2>3
<1> QED
  BY <1>2, <1>4, <1>5, <1>6

LEMMA OwnedNext == IInv /\ OwnedOK /\ [Next]_vars => OwnedOK'
<1> SUFFICES ASSUME IInv, OwnedOK, [Next]_vars PROVE OwnedOK'
  OBVIOUS
<1>1. CASE UNCHANGED vars
  BY <1>1 DEF vars, OwnedOK, Separate, RolledBack, Alive
<1> QED
  BY <1>1, OwnedAsk, OwnedTerminal, OwnedCall, CallStep DEF Next, Terminal

LEMMA Owned == Spec => [](IInv /\ OwnedOK)
<1>1. Init => IInv /\ OwnedOK
  BY InitInv, OwnedInit
<1>2. IInv /\ OwnedOK /\ [Next]_vars => (IInv /\ OwnedOK)'
  BY NextInv, OwnedNext
<1> QED
  BY <1>1, <1>2, PTL DEF Spec

\* After Escape the conversation stays what it was when the question was asked, however
\* many interrupted threads still run and whatever they do (the snapshot that
\* run_interactive_loop takes is a list of its own).
THEOREM RollsBack == Spec => []RolledBack
<1>1. IInv /\ OwnedOK => RolledBack
  BY DEF OwnedOK
<1> QED
  BY <1>1, Owned, PTL
-----------------------------------------------------------------------------
(* The kinds of steps of a question *)

\* A message goes to the thread's list.
Extended(q, m) ==
  /\ heap' \in Seq(Seq(Message)) /\ Len(heap') = Len(heap) /\ m \in Message
  /\ thread[q].list \in 1..Len(heap) /\ heap[thread[q].list] \in Seq(Message)
  /\ heap'[thread[q].list] = Append(heap[thread[q].list], m)
  /\ \A r \in 1..Len(heap) : r # thread[q].list => heap'[r] = heap[r]

Unmoved == UNCHANGED <<main, saved, history>> /\ budget'.aborts = budget.aborts

\* It ends, with an answer or without one.
Ending(q) ==
  /\ Unmoved /\ thread[q].pc \in {"step", "llm", "drain"}
  /\ thread'[q].pc = "done" /\ thread'[q].list = thread[q].list /\ worker'[q] = <<>>
  /\ \/ heap' = heap /\ (thread'[q].end = "answer" => thread[q].pc = "drain")
     \/ thread[q].pc = "llm" /\ Extended(q, Assistant(q, thread[q].step, 0))

\* It goes to the LLM with the list it has, or a new one.
Sending(q) ==
  /\ Unmoved /\ thread[q].pc = "step" /\ ~thread[q].cancel
  /\ thread'[q].pc = "llm" /\ thread'[q].step = thread[q].step + 1 /\ worker'[q] = <<>>
  /\ \/ heap' = heap /\ thread'[q].list = thread[q].list
     \/ heap' = Append(heap, CompactedList(q, thread[q].step)) /\ thread'[q].list = Len(heap) + 1

\* The LLM calls tools.
Requesting(q) ==
  /\ Unmoved /\ thread[q].pc = "llm"
  /\ thread'[q].pc = "collect" /\ thread'[q].step = thread[q].step /\ thread'[q].list = thread[q].list
  /\ Extended(q, Assistant(q, thread[q].step, Len(worker'[q])))
  /\ Len(worker'[q]) >= 1 /\ \A k \in DOMAIN worker'[q] : worker'[q][k].state = "queued"

Ran(e, q, k) == e[1] = <<q, thread[q].step, k>>

\* The result o of call k goes to the list.
Takes(q, k, o) ==
  /\ UNCHANGED <<main, saved>> /\ budget'.aborts = budget.aborts /\ thread[q].pc \in Batch
  /\ k \in DOMAIN worker[q] /\ o \in Outcome /\ worker[q][k].state \in Outcome
  /\ Taking(q, k, thread'[q], worker'[q])
  /\ Extended(q, Answered(q, thread[q].step, k, o))
  /\ history'.approved = history.approved /\ history.ran \subseteq history'.ran
  /\ \A e \in history'.ran :
       e \in history.ran \/ (Ran(e, q, k) /\ worker[q][k].state = "approval" /\ o # "denied")
  /\ o = "ok" => worker[q][k].state = "ok" \/ \E e \in history'.ran : Ran(e, q, k) /\ Approved(e)'
  /\ o = "denied" => worker[q][k].state = "approval"

\* It goes on with its batch, or one of its tools does.
Staying(q) ==
  /\ UNCHANGED <<main, heap>> /\ thread[q].pc \in Working /\ thread'[q].pc \in Working
  /\ thread'[q].step = thread[q].step /\ thread'[q].list = thread[q].list
  /\ thread[q].pc = "drain" => thread'[q].pc = "drain"
  /\ worker'[q] \in Seq(Worker) /\ Len(worker'[q]) = Len(worker[q])
  /\ \A k \in DOMAIN worker[q] :
       /\ worker[q][k].state \in Outcome \union {"taken"} => worker'[q][k].state = worker[q][k].state
       /\ worker'[q][k].state = "taken" => worker[q][k].state = "taken"
       /\ worker'[q][k].state = "ok" =>
            worker[q][k].state = "ok" \/ \E e \in history'.ran : Ran(e, q, k) /\ Approved(e)'
  /\ saved => saved'
  /\ history.approved \subseteq history'.approved /\ history.ran \subseteq history'.ran
  /\ \A e \in history'.ran :
       e \in history.ran
         \/ \E k \in DOMAIN worker[q] : /\ Ran(e, q, k) /\ worker[q][k].state = "running"
                                        /\ worker'[q][k].state \in {"ok", "error"}
  /\ thread'[q].pc = "invoke" /\ thread'[q].approves =>
       \/ <<q, thread'[q].step, thread'[q].call>> \in history'.approved
       \/ thread[q].pc = "invoke" /\ thread[q].approves /\ thread'[q].call = thread[q].call
  /\ budget'.aborts = 0 =>
       /\ budget.aborts = 0
       /\ thread'[q].pc = "drain" =>
            \/ thread[q].pc = "drain" \/ thread[q].cancel
            \/ \E k \in DOMAIN worker[q] : worker[q][k].state = "raised"
       /\ \A k \in DOMAIN worker[q] : worker'[q][k].state = "raised" => worker[q][k].state = "raised"

LEMMA PointLemma ==
  ASSUME IInv, NEW q \in Question
  PROVE  /\ \A n : Goto(q, n) => thread'[q] = n
         /\ \A w : worker' = [worker EXCEPT ![q] = w] => worker'[q] = w
BY PartsLemma DEF Goto

LEMMA ExtendedLemma ==
  ASSUME IInv, NEW q \in Question, Alive(q), NEW m \in Message, Extend(thread[q].list, m), main' = main
  PROVE  Extended(q, m)
BY AppendWorld, BusyLemma DEF Extended

LEMMA EndKind ==
  ASSUME IInv, NEW q \in Question, TooManyCalls(q) \/ Fail(q) \/ Answer(q) \/ Drained(q)
  PROVE  Ending(q)
<1>1. Alive(q) /\ thread[q] \in Thread /\ thread[q].step \in Step
      /\ thread[q].end \in {"none", "answer", "interrupted", "error", "eof"}
  BY PartsLemma DEF TooManyCalls, Fail, Answer, Drained, Alive, Thread
<1>2. ASSUME NEW h \in {"none", "answer", "interrupted", "error", "eof"}, Goto(q, Ended(thread[q], h))
      PROVE  thread'[q].pc = "done" /\ thread'[q].list = thread[q].list /\ thread'[q].end = h
  BY <1>1, <1>2, PointLemma, EndedLemma
<1>3. CASE TooManyCalls(q) \/ Fail(q)
  <2>1. thread[q].pc \in {"step", "llm"} /\ UNCHANGED <<heap, main, worker, saved, history, budget>>
    BY <1>3 DEF TooManyCalls, Fail
  <2>2. PICK h \in {"interrupted", "error"} : Goto(q, Ended(thread[q], h))
    BY <1>3 DEF TooManyCalls, Fail
  <2>3. worker'[q] = <<>>
    BY <2>1, IdleCalls
  <2> QED
    BY <1>2, <2>1, <2>2, <2>3 DEF Ending, Unmoved
<1>4. CASE Answer(q)
  <2>1. /\ thread[q].pc = "llm" /\ UNCHANGED <<main, worker, saved, history, budget>>
        /\ Goto(q, Ended(thread[q], "answer")) /\ Extend(thread[q].list, Assistant(q, thread[q].step, 0))
    BY <1>4 DEF Answer
  <2>2. worker'[q] = <<>>
    BY <2>1, IdleCalls
  <2>3. Assistant(q, thread[q].step, 0) \in Message
    <3>1. 0 \in Width /\ "ok" \in Outcome
      BY BoundsAssumption DEF Width, Outcome
    <3> QED
      BY <1>1, <3>1, MessageLemma
  <2>4. Extended(q, Assistant(q, thread[q].step, 0))
    BY <1>1, <2>1, <2>3, ExtendedLemma
  <2> QED
    BY <1>2, <2>1, <2>2, <2>4 DEF Ending, Unmoved
<1>5. CASE Drained(q)
  <2>1. /\ thread[q].pc = "drain" /\ UNCHANGED <<heap, main, saved, history, budget>>
        /\ Goto(q, Ended(thread[q], thread[q].end)) /\ worker' = [worker EXCEPT ![q] = <<>>]
    BY <1>5 DEF Drained
  <2> QED
    BY <1>1, <1>2, <2>1, PointLemma DEF Ending, Unmoved
<1> QED
  BY <1>3, <1>4, <1>5

LEMMA SendKind == ASSUME IInv, NEW q \in Question, Send(q) PROVE Ending(q) \/ Sending(q)
<1> DEFINE t == thread[q]
<1>1. /\ t.pc = "step" /\ More(t) /\ t \in Thread /\ UNCHANGED <<main, worker, saved, history>>
  BY PartsLemma DEF Send
<1>2. worker'[q] = <<>>
  BY <1>1, IdleCalls
<1>3. CASE t.cancel /\ Goto(q, Ended(t, "interrupted")) /\ UNCHANGED <<heap, budget>>
  <2>1. thread'[q].pc = "done" /\ thread'[q].list = thread[q].list /\ thread'[q].end = "interrupted"
    BY <1>1, <1>3, PointLemma, EndedLemma
  <2> QED
    BY <1>1, <1>2, <1>3, <2>1 DEF Ending, Unmoved
<1>4. CASE ~t.cancel /\ Goto(q, NextStep(t)) /\ UNCHANGED <<heap, budget>>
  <2>1. thread'[q].pc = "llm" /\ thread'[q].step = t.step + 1 /\ thread'[q].list = t.list
    BY <1>1, <1>4, PointLemma, SendingLemma
  <2> QED
    BY <1>1, <1>2, <1>4, <2>1 DEF Sending, Unmoved
<1>5. CASE /\ ~t.cancel /\ budget' = [budget EXCEPT !.compactions = @ + 1]
           /\ heap' = Append(heap, CompactedList(q, t.step))
           /\ Goto(q, [NextStep(t) EXCEPT !.list = Len(heap) + 1])
  <2>1. Len(heap) + 1 \in Nat
    BY PartsLemma
  <2>2. thread'[q].pc = "llm" /\ thread'[q].step = t.step + 1 /\ thread'[q].list = Len(heap) + 1
    BY <1>1, <1>5, <2>1, PointLemma, SendingLemma
  <2>3. budget'.aborts = budget.aborts
    BY <1>5, PartsLemma DEF BudgetSet
  <2> QED
    BY <1>1, <1>2, <1>5, <2>2, <2>3 DEF Sending, Unmoved
<1> QED
  BY <1>3, <1>4, <1>5 DEF Send, CompactedList

LEMMA RequestKind == ASSUME IInv, NEW q \in Question, Request(q) PROVE Requesting(q)
<1> DEFINE t == thread[q]
<1>1. /\ Alive(q) /\ t.pc = "llm" /\ t \in Thread /\ UNCHANGED <<main, saved, history>>
      /\ Goto(q, [t EXCEPT !.pc = "collect"])
  BY PartsLemma DEF Request, Alive
<1>2. PICK n \in 1..(MaxCalls - budget.calls) : \E kinds \in [1..n -> Kind] :
        /\ Extend(t.list, Assistant(q, t.step, n))
        /\ worker' = [worker EXCEPT ![q] = [k \in 1..n |-> [kind |-> kinds[k], state |-> "queued"]]]
        /\ budget' = [budget EXCEPT !.calls = @ + n]
  BY DEF Request
<1>3. PICK kinds \in [1..n -> Kind] :
        /\ Extend(t.list, Assistant(q, t.step, n))
        /\ worker' = [worker EXCEPT ![q] = [k \in 1..n |-> [kind |-> kinds[k], state |-> "queued"]]]
        /\ budget' = [budget EXCEPT !.calls = @ + n]
  BY <1>2
<1>4. n \in Nat /\ n >= 1 /\ n \in Width
  BY PartsLemma, BudgetLemma, BoundsAssumption DEF Width
<1>5. Extended(q, Assistant(q, t.step, n))
  <2>1. t.step \in Step /\ "ok" \in Outcome
    BY <1>1 DEF Thread, Outcome
  <2>2. Assistant(q, t.step, n) \in Message
    BY <1>4, <2>1, MessageLemma
  <2> QED
    BY <1>1, <1>3, <2>2, ExtendedLemma
<1>6. worker'[q] = [k \in 1..n |-> [kind |-> kinds[k], state |-> "queued"]]
  BY <1>3, PointLemma
<1>7. Len(worker'[q]) = n /\ \A k \in DOMAIN worker'[q] : worker'[q][k].state = "queued"
  BY <1>4, <1>6
<1>8. thread'[q].pc = "collect" /\ thread'[q].step = t.step /\ thread'[q].list = t.list
  <2>1. PICK m : m = [t EXCEPT !.pc = "collect"]
    OBVIOUS
  <2>2. m.pc = "collect" /\ m.step = t.step /\ m.list = t.list
    BY <1>1, <2>1 DEF Thread
  <2>3. thread'[q] = m
    BY <1>1, <2>1, PointLemma
  <2> QED
    BY <2>2, <2>3
<1>9. budget'.aborts = budget.aborts
  BY <1>3, PartsLemma DEF BudgetSet
<1> QED
  BY <1>1, <1>4, <1>5, <1>7, <1>8, <1>9 DEF Requesting, Unmoved

\* The part that all takes have in common.
LEMMA TakePart ==
  ASSUME IInv, NEW q \in Question, thread[q].pc \in Batch, NEW k \in DOMAIN worker[q], NEW o \in Outcome,
         TakeResult(q, k, o), main' = main
  PROVE  /\ Taking(q, k, thread'[q], worker'[q])
         /\ Extended(q, Answered(q, thread[q].step, k, o))
<1>1. Taking(q, k, thread'[q], worker'[q])
  <2>1. PICK n \in Thread, w \in Seq(Worker) :
          Goto(q, n) /\ worker' = [worker EXCEPT ![q] = w] /\ Taking(q, k, n, w)
    BY TakeLemma
  <2> QED
    BY <2>1, PointLemma
<1>2. Alive(q) /\ thread[q].step \in Step
  BY PartsLemma DEF Alive, Batch, Asking, Thread
<1>3. k \in Width
  BY PartsLemma, BoundsAssumption DEF Quest, Width
<1>4. Answered(q, thread[q].step, k, o) \in Message
  BY <1>2, <1>3, MessageLemma
<1>5. Extend(thread[q].list, Answered(q, thread[q].step, k, o))
  BY DEF TakeResult
<1> QED
  BY <1>1, <1>2, <1>4, <1>5, ExtendedLemma

\* The part that all steps within a batch have in common.
LEMMA StayPart ==
  ASSUME IInv, NEW q \in Question, thread[q].pc \in Working, NEW n, n.pc \in Working,
         n.step = thread[q].step, n.list = thread[q].list, Goto(q, n),
         thread[q].pc = "drain" => n.pc = "drain",
         UNCHANGED <<main, heap, worker>>, history.ran = history'.ran,
         saved => saved', history.approved \subseteq history'.approved,
         n.pc = "invoke" /\ n.approves => <<q, n.step, n.call>> \in history'.approved,
         budget'.aborts = 0 =>
           /\ budget.aborts = 0
           /\ n.pc = "drain" =>
                \/ thread[q].pc = "drain" \/ thread[q].cancel
                \/ \E k \in DOMAIN worker[q] : worker[q][k].state = "raised"
  PROVE  Staying(q)
<1>1. thread'[q] = n /\ worker'[q] = worker[q] /\ worker[q] \in Seq(Worker)
  BY PointLemma, PartsLemma
<1> QED
  BY <1>1 DEF Staying

LEMMA ApproveKind == ASSUME IInv, NEW q \in Question, Approve(q) PROVE Staying(q)
<1> DEFINE t == thread[q]
<1>1. /\ t.pc = "approve" /\ t.pc \in Working /\ t \in Thread
      /\ UNCHANGED <<heap, main, worker, saved, history, budget>>
  BY PartsLemma DEF Approve, Asking, Batch, Working
<1>2. PICK n : /\ Goto(q, n) /\ n.pc \in {"invoke", "asking"} /\ n.step = t.step /\ n.list = t.list
               /\ (n.pc = "invoke" => ~n.approves)
  <2>1. CASE Goto(q, [t EXCEPT !.pc = "invoke", !.approves = FALSE])
    <3>1. PICK n : n = [t EXCEPT !.pc = "invoke", !.approves = FALSE]
      OBVIOUS
    <3>2. n.pc = "invoke" /\ n.step = t.step /\ n.list = t.list /\ ~n.approves
      BY <1>1, <3>1 DEF Thread
    <3> QED
      BY <2>1, <3>1, <3>2
  <2>2. ASSUME NEW via, Goto(q, [t EXCEPT !.pc = "asking", !.via = via])
        PROVE  \E n : /\ Goto(q, n) /\ n.pc \in {"invoke", "asking"} /\ n.step = t.step /\ n.list = t.list
                      /\ (n.pc = "invoke" => ~n.approves)
    <3>1. PICK n : n = [t EXCEPT !.pc = "asking", !.via = via]
      OBVIOUS
    <3>2. n.pc = "asking" /\ n.step = t.step /\ n.list = t.list
      BY <1>1, <3>1 DEF Thread
    <3> QED
      BY <2>2, <3>1, <3>2
  <2> QED
    BY <2>1, <2>2 DEF Approve
<1>3. n.pc \in Working
  BY <1>2 DEF Working, Batch, Asking
<1> QED
  BY <1>1, <1>2, <1>3, StayPart

LEMMA ReplyKind == ASSUME IInv, NEW q \in Question, Reply(q) PROVE Staying(q) \/ \E k, o : Takes(q, k, o)
<1> DEFINE t == thread[q]
           c == <<q, t.step, t.call>>
<1>1. /\ t.pc = "asking" /\ t.pc \in Batch /\ t.pc \in Working /\ t.pc \in Asking /\ t \in Thread
      /\ UNCHANGED <<main, runbook>>
  BY PartsLemma DEF Reply, Asking, Batch, Working
<1>2. t.call \in DOMAIN worker[q] /\ worker[q][t.call].state = "approval"
  BY <1>1, PartsLemma DEF Quest
<1>3. CASE /\ saved' \in {saved, TRUE} /\ history' = [history EXCEPT !.approved = @ \union {c}]
           /\ Goto(q, [t EXCEPT !.pc = "invoke", !.approves = TRUE, !.via = 0])
           /\ UNCHANGED <<heap, worker, budget>>
  <2>1. PICK n : n = [t EXCEPT !.pc = "invoke", !.approves = TRUE, !.via = 0]
    OBVIOUS
  <2>2. n.pc = "invoke" /\ n.step = t.step /\ n.list = t.list /\ n.call = t.call
    BY <1>1, <2>1 DEF Thread
  <2>3. history'.ran = history.ran /\ history'.approved = history.approved \union {c}
    BY <1>3, PartsLemma DEF HistorySet
  <2>4. c \in history'.approved /\ history.approved \subseteq history'.approved
    BY <2>3
  <2>5. n.pc \in Working /\ Goto(q, n)
    BY <1>3, <2>1, <2>2 DEF Working, Batch, Asking
  <2>6. saved => saved'
    BY <1>3
  <2> QED
    BY <1>1, <1>3, <2>2, <2>3, <2>4, <2>5, <2>6, StayPart
<1>4. CASE TakeResult(q, t.call, "denied") /\ UNCHANGED <<saved, history, budget>>
  <2>1. "denied" \in Outcome /\ "approval" \in Outcome
    BY DEF Outcome
  <2>2. /\ Taking(q, t.call, thread'[q], worker'[q])
        /\ Extended(q, Answered(q, t.step, t.call, "denied"))
    BY <1>1, <1>2, <1>4, <2>1, TakePart
  <2>3. Takes(q, t.call, "denied")
    BY <1>1, <1>2, <1>4, <2>1, <2>2 DEF Takes
  <2> QED
    BY <2>3
<1>5. CASE /\ budget.aborts < MaxAborts /\ budget' = [budget EXCEPT !.aborts = @ + 1]
           /\ \E how \in {"error", "eof"} : Goto(q, [t EXCEPT !.pc = "drain", !.end = how, !.via = 0])
           /\ UNCHANGED <<heap, worker, saved, history>>
  <2>1. PICK how \in {"error", "eof"} : Goto(q, [t EXCEPT !.pc = "drain", !.end = how, !.via = 0])
    BY <1>5
  <2>2. PICK n : n = [t EXCEPT !.pc = "drain", !.end = how, !.via = 0]
    OBVIOUS
  <2>3. n.pc = "drain" /\ n.step = t.step /\ n.list = t.list
    BY <1>1, <2>2 DEF Thread
  <2>4. budget'.aborts # 0
    <3>1. budget.aborts \in Nat
      BY PartsLemma, BudgetLemma, BoundsAssumption
    <3>2. budget'.aborts = budget.aborts + 1
      BY <1>5, PartsLemma DEF BudgetSet
    <3> QED
      BY <3>1, <3>2
  <2>5. n.pc \in Working /\ Goto(q, n)
    BY <2>1, <2>2, <2>3 DEF Working, Batch, Asking
  <2> QED
    BY <1>1, <1>5, <2>3, <2>4, <2>5, StayPart
<1> QED
  BY <1>3, <1>4, <1>5 DEF Reply

LEMMA InvokeKind == ASSUME IInv, NEW q \in Question, 
    thread[q].pc = "invoke" /\ thread[q].approves => <<q, thread[q].step, thread[q].call>> \in history.approved,
    Invoke(q)
  PROVE \E k, o : Takes(q, k, o)
<1> DEFINE t == thread[q]
           k == t.call
           kind == worker[q][k].kind
           c == <<q, t.step, k>>
<1>1. /\ t.pc = "invoke" /\ t.pc \in Batch /\ t.pc \in Working /\ t.pc \in Asking
      /\ UNCHANGED <<main, saved, budget>>
  BY DEF Invoke, Asking, Batch, Working
<1>2. PICK o \in OutcomesAgain(kind, t.approves) : TakeResult(q, k, o[1]) /\ Invoked(c, kind, o)
  BY DEF Invoke
<1>3. k \in DOMAIN worker[q] /\ worker[q][k].state = "approval"
  BY <1>1, PartsLemma DEF Quest
<1>4. o \in Returns
  BY OutcomesLemma
<1>5. /\ o[1] \in {"approval", "ok", "error"} /\ o[2] \in BOOLEAN
      /\ history'.approved = history.approved /\ history.ran \subseteq history'.ran
      /\ history'.ran = history.ran \union (IF o[2] THEN {<<c, kind>>} ELSE {})
      /\ kind \in Kinds
  <2>1. Invoked(<<q, thread[q].step, k>>, worker[q][k].kind, o)
    BY <1>2
  <2> QED
    BY <1>3, <1>4, <2>1, InvokedLemma
<1>6. o[1] \in Outcome /\ "approval" \in Outcome
  BY <1>5 DEF Outcome
<1>7. Taking(q, k, thread'[q], worker'[q]) /\ Extended(q, Answered(q, t.step, k, o[1]))
  BY <1>1, <1>2, <1>3, <1>6, TakePart
<1>8. \A e \in history'.ran : e \in history.ran \/ Ran(e, q, k)
  BY <1>5 DEF Ran
<1>9. ASSUME o[1] = "ok" PROVE \E e \in history'.ran : Ran(e, q, k) /\ Approved(e)'
  <2>1. o = <<"ok", TRUE>> /\ o[2] = TRUE
    BY <1>4, <1>9, ReturnsLemma
  <2>2. PICK e : e = <<c, kind>>
    OBVIOUS
  <2>3. e \in history'.ran /\ e[1] = c /\ e[2] = kind
    BY <1>5, <2>1, <2>2
  <2>4. c \in history'.approved \/ (kind \in {"bash", "compound", "listed"} => kind = "bash" /\ saved')
    <3>1. CASE t.approves
      BY <1>1, <1>5, <3>1
    <3>2. CASE ~t.approves
      <4>1. ~NeedsApproval(kind)
        BY <2>1, <3>2 DEF OutcomesAgain, Outcomes
      <4> QED
        BY <1>1, <4>1 DEF NeedsApproval
    <3> QED
      BY <3>1, <3>2
  <2> HIDE DEF c, kind
  <2>5. Approved(e)'
    BY <2>3, <2>4 DEF Approved
  <2>6. Ran(e, q, k)
    BY <2>3 DEF Ran, c
  <2> QED
    BY <2>3, <2>5, <2>6
<1>10. o[1] # "denied"
  BY <1>5
<1>11. Takes(q, k, o[1])
  <2> HIDE DEF kind, c, k
  <2>1. UNCHANGED <<main, saved>> /\ budget'.aborts = budget.aborts
    BY <1>1
  <2> QED
    BY <1>1, <1>3, <1>5, <1>6, <1>7, <1>8, <1>9, <1>10, <2>1 DEF Takes
<1> QED
  BY <1>11

LEMMA CollectKind ==
  ASSUME IInv, NEW q \in Question, NEW k \in DOMAIN worker[q], Collect(q, k)
  PROVE  Staying(q) \/ \E o : Takes(q, k, o)
<1> DEFINE t == thread[q]
           s == worker[q][k].state
<1>1. /\ t.pc = "collect" /\ t.pc \in Batch /\ t.pc \in Working /\ t \in Thread
      /\ UNCHANGED <<main, runbook, saved, active, history, budget>>
  BY PartsLemma DEF Collect, Batch, Working
<1>2. worker[q] \in Seq(Worker) /\ Len(worker[q]) \in Nat /\ Permits(worker[q])
  BY PartsLemma DEF Quest
<1>3. CASE /\ t.cancel
           /\ worker' = [worker EXCEPT ![q] = [j \in DOMAIN @ |-> IF @[j].state = "queued"
                                                  THEN [@[j] EXCEPT !.state = "cancelled"] ELSE @[j]]]
           /\ Goto(q, [t EXCEPT !.pc = "drain", !.end = "interrupted"]) /\ UNCHANGED heap
  <2>1. PICK w : w = [j \in DOMAIN worker[q] |-> IF worker[q][j].state = "queued"
                      THEN [worker[q][j] EXCEPT !.state = "cancelled"] ELSE worker[q][j]]
    OBVIOUS
  <2>2. worker'[q] = w
    <3>1. worker' = [worker EXCEPT ![q] = w]
      BY <1>3, <2>1, PartsLemma
    <3> QED
      BY <3>1, PointLemma
  <2>3. \A j \in DOMAIN worker[q] :
          /\ w[j] \in Worker
          /\ IF worker[q][j].state = "queued" THEN w[j].state = "cancelled" ELSE w[j] = worker[q][j]
    <3> TAKE j \in DOMAIN worker[q]
    <3>1. worker[q][j] \in Worker
      BY <1>2
    <3>2. PICK c : c = [worker[q][j] EXCEPT !.state = "cancelled"]
      OBVIOUS
    <3>3. c \in Worker /\ c.state = "cancelled"
      BY <3>1, <3>2 DEF Worker, WorkerState
    <3>4. w[j] = IF worker[q][j].state = "queued" THEN c ELSE worker[q][j]
      BY <2>1, <3>2
    <3> QED
      BY <3>1, <3>3, <3>4
  <2>4. w \in Seq(Worker) /\ Len(w) = Len(worker[q])
    <3>1. DOMAIN w = 1..Len(worker[q]) /\ w = [j \in 1..Len(worker[q]) |-> w[j]]
      BY <1>2, <2>1
    <3>2. \A j \in 1..Len(worker[q]) : w[j] \in Worker
      BY <1>2, <2>3
    <3>3. w \in [1..Len(worker[q]) -> Worker]
      BY <3>1, <3>2
    <3> QED
      BY <1>2, <3>1, <3>3
  <2>5. PICK n : n = [t EXCEPT !.pc = "drain", !.end = "interrupted"]
    OBVIOUS
  <2>6. n.pc = "drain" /\ n.pc \in Working /\ n.step = t.step /\ n.list = t.list
    BY <1>1, <2>5 DEF Thread, Working
  <2>7. thread'[q] = n
    BY <1>3, <2>5, PointLemma
  <2>8. \A j \in DOMAIN worker[q] :
          /\ worker[q][j].state \in Outcome \union {"taken"} => w[j].state = worker[q][j].state
          /\ w[j].state = "taken" => worker[q][j].state = "taken"
          /\ w[j].state = "ok" => worker[q][j].state = "ok"
          /\ w[j].state = "raised" => worker[q][j].state = "raised"
    BY <2>3 DEF Outcome
  <2>9. Staying(q)
    BY <1>1, <1>3, <2>2, <2>4, <2>6, <2>7, <2>8 DEF Staying
  <2> QED
    BY <2>9
<1>4. CASE s = "raised" /\ Goto(q, [t EXCEPT !.pc = "drain", !.end = "error"]) /\ UNCHANGED <<heap, worker>>
  <2>1. PICK n : n = [t EXCEPT !.pc = "drain", !.end = "error"]
    OBVIOUS
  <2>2. n.pc = "drain" /\ n.pc \in Working /\ n.step = t.step /\ n.list = t.list
    BY <1>1, <2>1 DEF Thread, Working
  <2>3. Goto(q, n) /\ \E j \in DOMAIN worker[q] : worker[q][j].state = "raised"
    BY <1>4, <2>1
  <2> QED
    BY <1>1, <1>4, <2>2, <2>3, StayPart
<1>5. CASE s = "approval" /\ Goto(q, [t EXCEPT !.pc = "approve", !.call = k]) /\ UNCHANGED <<heap, worker>>
  <2>1. PICK n : n = [t EXCEPT !.pc = "approve", !.call = k]
    OBVIOUS
  <2>2. n.pc = "approve" /\ n.pc \in Working /\ n.step = t.step /\ n.list = t.list
    BY <1>1, <2>1 DEF Thread, Working, Batch, Asking
  <2>3. Goto(q, n)
    BY <1>5, <2>1
  <2> QED
    BY <1>1, <1>5, <2>2, <2>3, StayPart
<1>6. CASE s \in Outcome \ {"approval"} /\ TakeResult(q, k, s)
  <2>1. s # "denied"
    BY <1>2 DEF Permits
  <2>2. Taking(q, k, thread'[q], worker'[q]) /\ Extended(q, Answered(q, t.step, k, s))
    BY <1>1, <1>6, TakePart
  <2>3. Takes(q, k, s)
    BY <1>1, <1>6, <2>1, <2>2 DEF Takes
  <2> QED
    BY <2>3
<1> QED
  BY <1>3, <1>4, <1>5, <1>6 DEF Collect

LEMMA ToolKind ==
  ASSUME IInv, NEW q \in Question, NEW k \in DOMAIN worker[q], StartTool(q, k) \/ EndTool(q, k)
  PROVE  Staying(q)
<1> DEFINE t == thread[q]
           v == worker[q]
<1>1. /\ t \in Thread /\ v \in Seq(Worker) /\ Quest(q, t, v, main) /\ Len(v) \in Nat
      /\ thread' = thread /\ UNCHANGED <<heap, main, saved>> /\ v[k].state \in {"queued", "running"}
  <2>1. thread' = thread /\ UNCHANGED <<heap, main, saved>>
    BY DEF StartTool, EndTool
  <2>2. v[k].state \in {"queued", "running"}
    BY DEF StartTool, EndTool
  <2> QED
    BY <2>1, <2>2, PartsLemma
<1>2. v # <<>>
  BY <1>1
<1>3. t.pc \in Working
  BY <1>1, <1>2 DEF Quest
\* The call gets the state s.
<1>4. ASSUME NEW s \in WorkerState \ {"taken"}, SetWorker(q, k, s),
             history.ran \subseteq history'.ran, history.approved \subseteq history'.approved,
             s = "ok" => \E e \in history'.ran : Ran(e, q, k) /\ Approved(e)',
             \A e \in history'.ran :
               e \in history.ran \/ (Ran(e, q, k) /\ v[k].state = "running" /\ s \in {"ok", "error"}),
             budget'.aborts = 0 => budget.aborts = 0 /\ s # "raised"
      PROVE  Staying(q)
  <2>1. PICK w : w = [v EXCEPT ![k].state = s]
    OBVIOUS
  <2>2. /\ w \in Seq(Worker) /\ Len(w) = Len(v) /\ w[k].state = s
        /\ \A j \in DOMAIN v : j # k => w[j] = v[j]
    BY <1>1, <1>4, <2>1, WorkerLemma
  <2>3. worker'[q] = w
    <3>1. worker' = [worker EXCEPT ![q] = w]
      BY <1>4, <2>1, PartsLemma DEF SetWorker
    <3> QED
      BY <3>1, PointLemma
  <2>4. \A j \in DOMAIN v :
       /\ v[j].state \in Outcome \union {"taken"} => w[j].state = v[j].state
       /\ w[j].state = "taken" => v[j].state = "taken"
       /\ w[j].state = "ok" =>
            v[j].state = "ok" \/ \E e \in history'.ran : Ran(e, q, j) /\ Approved(e)'
       /\ budget'.aborts = 0 /\ w[j].state = "raised" => v[j].state = "raised"
    <3> TAKE j \in DOMAIN v
    <3>1. CASE j = k
      BY <1>1, <1>4, <2>2, <3>1 DEF Outcome
    <3>2. CASE j # k
      BY <2>2, <3>2
    <3> QED
      BY <3>1, <3>2
  <2>5. \A e \in history'.ran :
          e \in history.ran
            \/ \E j \in DOMAIN v : /\ Ran(e, q, j) /\ v[j].state = "running"
                                   /\ w[j].state \in {"ok", "error"}
    BY <1>4, <2>2
  <2>6. thread'[q] = t /\ (t.pc = "invoke" /\ t.approves => thread[q].pc = "invoke" /\ thread[q].approves)
    BY <1>1
  <2> HIDE DEF t, v
  <2>7. t = thread[q] /\ v = worker[q]
    BY DEF t, v
  <2> QED
    BY <1>1, <1>3, <1>4, <2>2, <2>3, <2>4, <2>5, <2>6, <2>7 DEF Staying
<1>5. CASE StartTool(q, k)
  <2>1. SetWorker(q, k, "running") /\ UNCHANGED <<history, budget>>
    BY <1>5 DEF StartTool
  <2>2. "running" \in WorkerState \ {"taken"}
    BY DEF WorkerState
  <2> QED
    BY <1>4, <2>1, <2>2
<1>6. CASE EndTool(q, k)
  <2>1. v[k].state = "running"
    BY <1>6 DEF EndTool
  <2>2. ASSUME NEW o \in Outcomes(v[k].kind, FALSE), SetWorker(q, k, o[1]),
               Invoked(<<q, t.step, k>>, v[k].kind, o), UNCHANGED budget
        PROVE  Staying(q)
    <3>1. o \in Returns
      BY OutcomesLemma
    <3>2. /\ o[1] \in {"approval", "ok", "error"} /\ o[2] \in BOOLEAN
          /\ history'.approved = history.approved /\ history.ran \subseteq history'.ran
          /\ history'.ran = history.ran \union (IF o[2] THEN {<<<<q, t.step, k>>, v[k].kind>>} ELSE {})
      BY <2>2, <3>1, InvokedLemma
    <3>3. o[2] = TRUE => o[1] \in {"ok", "error"}
      BY <3>1, ReturnsLemma
    <3>4. \A e \in history'.ran : e \in history.ran \/ (Ran(e, q, k) /\ o[1] \in {"ok", "error"})
      BY <3>2, <3>3 DEF Ran
    <3>5. ASSUME o[1] = "ok" PROVE \E e \in history'.ran : Ran(e, q, k) /\ Approved(e)'
      <4>1. o = <<"ok", TRUE>> /\ o[2] = TRUE
        BY <3>1, <3>5, ReturnsLemma
      <4>2. PICK e : e = <<<<q, t.step, k>>, v[k].kind>>
        OBVIOUS
      <4>3. e \in history'.ran /\ e[1] = <<q, t.step, k>> /\ e[2] = v[k].kind
        BY <3>2, <4>1, <4>2
      <4>4. ~NeedsApproval(v[k].kind)
        BY <2>2, <4>1 DEF Outcomes
      <4>5. e[2] \in {"bash", "compound", "listed"} => e[2] = "bash" /\ saved'
        BY <1>1, <4>3, <4>4 DEF NeedsApproval
      <4>6. Approved(e)'
        BY <4>5 DEF Approved
      <4>7. Ran(e, q, k)
        BY <4>3 DEF Ran
      <4> QED
        BY <4>3, <4>6, <4>7
    <3>6. o[1] \in WorkerState \ {"taken"} /\ o[1] # "raised"
      BY <3>2 DEF WorkerState, Outcome
    <3> QED
      BY <1>4, <2>1, <2>2, <3>2, <3>4, <3>5, <3>6
  <2>3. CASE /\ budget' = [budget EXCEPT !.aborts = @ + 1]
             /\ SetWorker(q, k, "raised") /\ UNCHANGED <<runbook, history>>
    <3>1. budget'.aborts # 0
      <4>1. budget.aborts \in Nat
        BY PartsLemma, BudgetLemma, BoundsAssumption
      <4>2. budget'.aborts = budget.aborts + 1
        BY <2>3, PartsLemma DEF BudgetSet
      <4> QED
        BY <4>1, <4>2
    <3>2. "raised" \in WorkerState \ {"taken"}
      BY DEF WorkerState, Outcome
    <3> QED
      BY <1>4, <2>3, <3>1, <3>2
  <2> QED
    BY <1>6, <2>2, <2>3 DEF EndTool
<1> QED
  BY <1>5, <1>6

\* What a step of question q is, when approvals are known.
Kinded(q) == Ending(q) \/ Sending(q) \/ Requesting(q) \/ Staying(q) \/ \E k, o : Takes(q, k, o)

LEMMA CallKind ==
  ASSUME IInv, NEW q \in Question, Call(q) \/ Tool(q),
         thread[q].pc = "invoke" /\ thread[q].approves
           => <<q, thread[q].step, thread[q].call>> \in history.approved
  PROVE  Kinded(q)
BY EndKind, SendKind, RequestKind, CollectKind, ApproveKind, ReplyKind, InvokeKind, ToolKind
   DEF Call, Tool, Kinded
-----------------------------------------------------------------------------
(* What ran, and what is said of it *)

Over == {"ok", "error", "taken"}

\* Question q has got to call k of its step i and beyond: the call is in one of the states S,
\* or the step is over.
Reached(q, i, k, S) ==
  \/ i < thread[q].step
  \/ /\ i = thread[q].step
     /\ thread[q].pc = "step" \/ (k \in DOMAIN worker[q] /\ worker[q][k].state \in S)

Id(m) == <<m.turn[1], m.turn[2], m.size>>

\* m is in some list.
Said(m) == \E r \in DOMAIN heap : \E j \in DOMAIN heap[r] : heap[r][j] = m

\* An answer is of a call whose result was taken, ...
Given(m) ==
  /\ m.turn[1] <= main.q
  /\ Alive(m.turn[1]) => Reached(m.turn[1], m.turn[2], m.size, {"taken"})

\* ... and says what happened.
Honest(m) ==
  /\ m.outcome = "ok" => \E e \in history.ran : e[1] = Id(m) /\ Approved(e)
  /\ m.outcome = "denied" => \A e \in history.ran : e[1] # Id(m)

\* What has run is over; so is a call that succeeded, and a user who approved did so.
RanOver ==
  \A e \in history.ran :
    /\ e[1][1] <= main.q
    /\ Alive(e[1][1]) => Reached(e[1][1], e[1][2], e[1][3], Over)

Results(q) ==
  /\ \A k \in DOMAIN worker[q] :
       worker[q][k].state = "ok" => \E e \in history.ran : Ran(e, q, k) /\ Approved(e)
  /\ thread[q].pc = "invoke" /\ thread[q].approves
       => <<q, thread[q].step, thread[q].call>> \in history.approved

TruthOK ==
  /\ RanOver
  /\ \A m \in Message : Said(m) /\ m.role = "tool" => Given(m) /\ Honest(m)
  /\ \A q \in Question : Results(q)

LEMMA TakingLemma ==
  ASSUME IInv, NEW q \in Question, NEW k, NEW o, Takes(q, k, o)
  PROVE  /\ thread'[q].step = thread[q].step /\ thread'[q].list = thread[q].list
         /\ \/ thread'[q].pc = "step" /\ worker'[q] = <<>> /\ BatchOver(q, k)
            \/ /\ thread'[q].pc = "collect" /\ ~BatchOver(q, k)
               /\ worker'[q] \in Seq(Worker) /\ DOMAIN worker'[q] = DOMAIN worker[q]
               /\ Len(worker'[q]) = Len(worker[q]) /\ worker'[q][k].state = "taken"
               /\ \A j \in DOMAIN worker[q] : j # k => worker'[q][j] = worker[q][j]
<1>1. Taking(q, k, thread'[q], worker'[q]) /\ k \in DOMAIN worker[q]
  BY DEF Takes
<1>2. worker[q] \in Seq(Worker) /\ "taken" \in WorkerState
  BY PartsLemma DEF WorkerState
<1>3. CASE BatchOver(q, k)
  BY <1>1, <1>3 DEF Taking
<1>4. CASE ~BatchOver(q, k)
  <2>1. PICK w : w = [worker[q] EXCEPT ![k].state = "taken"]
    OBVIOUS
  <2>2. w \in Seq(Worker) /\ Len(w) = Len(worker[q]) /\ DOMAIN w = DOMAIN worker[q]
        /\ w[k].state = "taken" /\ \A j \in DOMAIN worker[q] : j # k => w[j] = worker[q][j]
    BY <1>1, <1>2, <2>1, WorkerLemma
  <2>3. worker'[q] = w /\ thread'[q].pc = "collect"
    BY <1>1, <1>4, <2>1 DEF Taking
  <2> QED
    BY <1>1, <1>4, <2>2, <2>3 DEF Taking
<1> QED
  BY <1>3, <1>4

\* What a question has reached stays behind it.
LEMMA ReachedLemma ==
  ASSUME IInv, NEW q \in Question, Kinded(q), Alive(q)', NEW i \in Nat, NEW k,
         NEW S \in {{"taken"}, Over}, Reached(q, i, k, S)
  PROVE  Reached(q, i, k, S)'
<1>1. thread[q].step \in Nat /\ worker[q] \in Seq(Worker)
  BY PartsLemma, LimitsAssumption DEF Thread, Step
<1>2. ~Ending(q)
  BY DEF Ending, Alive
<1>3. CASE Sending(q)
  <2>1. thread[q].pc = "step" /\ thread'[q].step = thread[q].step + 1
    BY <1>3 DEF Sending
  <2>2. i < thread'[q].step
    BY <1>1, <2>1 DEF Reached
  <2> QED
    BY <2>2 DEF Reached
<1>4. CASE Requesting(q)
  <2>1. thread[q].pc = "llm" /\ thread'[q].step = thread[q].step
    BY <1>4 DEF Requesting
  <2>2. worker[q] = <<>>
    BY <2>1, IdleCalls
  <2>3. i < thread'[q].step
    BY <2>1, <2>2 DEF Reached
  <2> QED
    BY <2>3 DEF Reached
<1>5. CASE Staying(q)
  <2>1. thread[q].pc # "step" /\ thread'[q].step = thread[q].step /\ DOMAIN worker'[q] = DOMAIN worker[q]
    BY <1>1, <1>5 DEF Staying, Working, Batch, Asking
  <2>2. ASSUME k \in DOMAIN worker[q], worker[q][k].state \in S
        PROVE  worker'[q][k].state = worker[q][k].state
    BY <1>5, <2>2 DEF Staying, Over, Outcome
  <2> QED
    BY <2>1, <2>2 DEF Reached
<1>6. ASSUME NEW c, NEW o, Takes(q, c, o) PROVE Reached(q, i, k, S)'
  <2>1. thread[q].pc # "step" /\ "taken" \in S
    BY <1>6 DEF Takes, Batch, Asking, Over
  <2>2. thread'[q].step = thread[q].step
    BY <1>6, TakingLemma
  <2>3. CASE thread'[q].pc = "step"
    BY <2>2, <2>3 DEF Reached
  <2>4. CASE thread'[q].pc = "collect"
    <3>1. /\ DOMAIN worker'[q] = DOMAIN worker[q] /\ worker'[q][c].state = "taken"
          /\ \A j \in DOMAIN worker[q] : j # c => worker'[q][j] = worker[q][j]
      BY <1>6, <2>4, TakingLemma
    <3>2. ASSUME k \in DOMAIN worker[q], worker[q][k].state \in S PROVE worker'[q][k].state \in S
      BY <2>1, <3>1, <3>2
    <3> QED
      BY <2>1, <2>2, <3>1, <3>2 DEF Reached
  <2> QED
    BY <1>6, <2>3, <2>4, TakingLemma
<1> QED
  BY <1>2, <1>3, <1>4, <1>5, <1>6 DEF Kinded

\* Only taking a result adds an answer.
LEMMA SaidLemma ==
  ASSUME IInv, NEW q \in Question, Kinded(q), NEW m \in Message, Said(m)'
  PROVE  \/ Said(m) \/ m.role # "tool"
         \/ \E k, o : Takes(q, k, o) /\ m = Answered(q, thread[q].step, k, o)
<1>1. PICK r \in DOMAIN heap' : \E j \in DOMAIN heap'[r] : heap'[r][j] = m
  BY DEF Said
<1>2. PICK j \in DOMAIN heap'[r] : heap'[r][j] = m
  BY <1>1
<1>3. heap \in Seq(Seq(Message)) /\ DOMAIN heap = 1..Len(heap)
  BY PartsLemma
<1>4. ASSUME heap' = heap PROVE Said(m)
  BY <1>1, <1>2, <1>4 DEF Said
<1>5. ASSUME NEW a \in Message, Extended(q, a) PROVE Said(m) \/ m = a
  <2>1. r \in 1..Len(heap) /\ thread[q].list \in 1..Len(heap)
    <3>1. heap' \in Seq(Seq(Message)) /\ Len(heap') = Len(heap) /\ thread[q].list \in 1..Len(heap)
      BY <1>5 DEF Extended
    <3> QED
      BY <3>1
  <2>2. CASE r # thread[q].list
    <3>1. heap'[r] = heap[r]
      BY <1>5, <2>1, <2>2 DEF Extended
    <3> QED
      BY <1>2, <1>3, <2>1, <3>1 DEF Said
  <2>3. CASE r = thread[q].list
    <3>1. heap'[r] = Append(heap[r], a) /\ heap[r] \in Seq(Message)
      BY <1>5, <2>3 DEF Extended
    <3>2. m = a \/ (j \in DOMAIN heap[r] /\ heap[r][j] = m)
      BY <1>2, <3>1
    <3> QED
      BY <1>3, <2>1, <3>2 DEF Said
  <2> QED
    BY <2>2, <2>3
<1>6. \A n : Assistant(q, thread[q].step, n).role = "assistant"
  BY DEF Assistant
<1>7. CASE Ending(q)
  BY <1>4, <1>5, <1>6, <1>7 DEF Ending, Extended
<1>8. CASE Requesting(q)
  BY <1>5, <1>6, <1>8 DEF Requesting, Extended
<1>9. CASE Staying(q)
  BY <1>4, <1>9 DEF Staying
<1>10. CASE Sending(q)
  <2>1. CASE heap' = heap
    BY <1>4, <2>1
  <2>2. CASE heap' = Append(heap, CompactedList(q, thread[q].step))
    <3>1. PICK l : l = CompactedList(q, thread[q].step)
      OBVIOUS
    <3>2. \A z \in DOMAIN l : l[z].role # "tool"
      BY <3>1 DEF CompactedList, User, Assistant, Notice
    <3>3. heap' = Append(heap, l)
      BY <2>2, <3>1
    <3>4. (r \in 1..Len(heap) /\ heap'[r] = heap[r]) \/ heap'[r] = l
      BY <1>1, <1>3, <3>3
    <3> QED
      BY <1>2, <1>3, <3>2, <3>4 DEF Said
  <2> QED
    BY <1>10, <2>1, <2>2 DEF Sending
<1>11. ASSUME NEW k, NEW o, Takes(q, k, o) PROVE Said(m) \/ m = Answered(q, thread[q].step, k, o)
  BY <1>5, <1>11 DEF Takes, Extended
<1> QED
  BY <1>7, <1>8, <1>9, <1>10, <1>11 DEF Kinded
-----------------------------------------------------------------------------
(* Restricted tools *)

\* A runbook was fetched by q, or by a question that q has outlived.
Fetched(q) ==
  \E e \in history.ran : e[2] = "runbook" /\ e[1][1] \in {q} \union history.outlived[q]

\* A thread that was interrupted may see the flag that a later question has raised; it
\* does not get as far as calling the LLM.
RunbookOK ==
  /\ runbook => main.q # 0 /\ Fetched(main.q)
  /\ \A q \in Question :
       Alive(q) /\ thread[q].restricted /\ (~thread[q].cancel \/ thread[q].pc = "llm") => Fetched(q)

LEMMA RunbookInit == Init => RunbookOK
BY IdleLemma DEF Init, RunbookOK, Alive

LEMMA RunbookCall ==
  ASSUME IInv, RunbookOK, NEW q \in Question, CallShape(q)
  PROVE  RunbookOK'
<1> PICK n \in Thread, w \in Seq(Worker) :
      /\ thread' = [thread EXCEPT ![q] = n] /\ worker' = [worker EXCEPT ![q] = w]
      /\ Follows(q, thread[q], n, w)
  BY DEF CallShape, ThreadShape
<1>1. /\ Alive(q) /\ main' = main /\ history'.outlived = history.outlived
      /\ history.ran \subseteq history'.ran
      /\ runbook' => runbook \/ \E e \in history'.ran : e[2] = "runbook" /\ e[1][1] = q
  BY DEF CallShape, WorldShape
<1>2. /\ thread'[q] = n /\ \A z \in Question : z # q => thread'[z] = thread[z]
  BY PartsLemma
<1>3. \A z : Fetched(z) => Fetched(z)'
  BY <1>1 DEF Fetched
<1>4. q = main.q \/ (main.q # 0 /\ q \in history.outlived[main.q])
  BY <1>1 DEF IInv, MainOK
<1>5. runbook' => main'.q # 0 /\ Fetched(main.q)'
  <2>1. CASE runbook
    BY <1>1, <1>3, <2>1 DEF RunbookOK
  <2>2. ASSUME NEW e \in history'.ran, e[2] = "runbook", e[1][1] = q
        PROVE  main.q # 0 /\ Fetched(main.q)'
    <3>1. main.q # 0
      BY <1>4, BoundsAssumption DEF Question
    <3>2. q \in {main.q} \union history'.outlived[main.q]
      BY <1>1, <1>4
    <3> QED
      BY <1>1, <2>2, <3>1, <3>2 DEF Fetched
  <2> QED
    BY <1>1, <2>1, <2>2
<1>6. ASSUME Busy(n), n.restricted, ~n.cancel \/ n.pc = "llm"
      PROVE  Fetched(q)'
  <2>1. Busy(thread[q]) /\ Quest(q, thread[q], worker[q], main) /\ Quest(q, n, w, main)
    BY <1>1, PartsLemma DEF Alive, Busy, Follows
  <2>2. ~thread[q].cancel
    BY <1>6, <2>1 DEF Quest, Follows, IInv, MainOK
  <2>3. q = main.q
    BY <2>1, <2>2 DEF Quest
  <2>4. thread[q].restricted \/ runbook
    BY <1>6 DEF Follows
  <2> QED
    BY <1>1, <1>3, <2>2, <2>3, <2>4 DEF RunbookOK
<1>7. ASSUME NEW z \in Question, Alive(z)', thread'[z].restricted, ~thread'[z].cancel \/ thread'[z].pc = "llm"
      PROVE  Fetched(z)'
  <2>1. CASE z = q
    BY <1>2, <1>6, <1>7, <2>1 DEF Alive, Busy
  <2>2. CASE z # q
    BY <1>2, <1>3, <1>7, <2>2 DEF RunbookOK, Alive
  <2> QED
    BY <2>1, <2>2
<1> QED
  BY <1>1, <1>5, <1>7 DEF RunbookOK

LEMMA RunbookAsk == ASSUME IInv, RunbookOK, Ask PROVE RunbookOK'
<1> PICK q, n, r, list : AskShape(q, n, r, list)
  BY AskLemma
<1>1. /\ q \in Question /\ ~n.restricted /\ thread' = [thread EXCEPT ![q] = n]
      /\ ~runbook' /\ history'.ran = history.ran
      /\ history'.outlived = [history.outlived EXCEPT ![q] = {z \in Question : Alive(z)}]
  BY DEF AskShape
<1>2. /\ thread'[q] = n /\ \A z \in Question : z # q => thread'[z] = thread[z]
  BY <1>1, PartsLemma
<1>3. \A z \in Question : z # q => history'.outlived[z] = history.outlived[z]
  BY <1>1, PartsLemma DEF HistorySet
<1>4. ASSUME NEW z \in Question, Alive(z)', thread'[z].restricted, ~thread'[z].cancel \/ thread'[z].pc = "llm"
      PROVE  Fetched(z)'
  <2>1. z # q /\ thread'[z] = thread[z]
    BY <1>1, <1>2, <1>4
  <2>2. Fetched(z)
    BY <1>4, <2>1 DEF RunbookOK, Alive
  <2> QED
    BY <1>1, <1>3, <2>1, <2>2 DEF Fetched
<1> QED
  BY <1>1, <1>4 DEF RunbookOK

LEMMA TerminalQuestion == ASSUME IInv, Escape \/ Rollback \/ Finish \/ Clear PROVE main'.q = main.q
<1>1. \A pc, l, b : [main EXCEPT !.pc = pc].q = main.q /\ [main EXCEPT !.list = l, !.back = b].q = main.q
                   /\ [main EXCEPT !.pc = pc, !.list = l].q = main.q
                   /\ [main EXCEPT !.pc = pc, !.list = l, !.back = b].q = main.q
  BY PartsLemma DEF MainSet
<1>2. CASE Escape
  BY <1>1, <1>2 DEF Escape
<1>3. CASE Rollback
  BY <1>1, <1>3 DEF Rollback
<1>4. CASE Finish
  BY <1>1, <1>4 DEF Finish
<1>5. CASE Clear
  BY <1>1, <1>5 DEF Clear
<1> QED
  BY <1>2, <1>3, <1>4, <1>5

LEMMA RunbookTerminal == ASSUME IInv, RunbookOK, Escape \/ Rollback \/ Finish \/ Clear PROVE RunbookOK'
<1>1. history' = history /\ main \in MainSet
  BY PartsLemma DEF Escape, Rollback, Finish, Clear
<1>2. main'.q = main.q
  BY TerminalQuestion
<1>3. \A z : Fetched(z)' <=> Fetched(z)
  BY <1>1 DEF Fetched
<1>4. runbook' => runbook
  BY DEF Escape, Rollback, Finish, Clear
<1>5. CASE Escape
  <2>1. main.pc = "waiting" /\ main.q \in Question /\ thread \in [Question -> Thread]
        /\ ~thread[main.q].cancel
    BY <1>5, PartsLemma DEF Escape, IInv, MainOK, MainSet
  <2>2. PICK n : n = [thread[main.q] EXCEPT !.cancel = TRUE]
    OBVIOUS
  <2>3. n.pc = thread[main.q].pc /\ n.restricted = thread[main.q].restricted
    BY <2>1, <2>2 DEF Thread
  <2>4. thread' = [thread EXCEPT ![main.q] = n]
    BY <1>5, <2>2 DEF Escape, Goto
  <2>5. \A z \in Question : z # main.q => thread'[z] = thread[z]
    BY <2>1, <2>4
  <2>6. thread'[main.q].pc = thread[main.q].pc /\ thread'[main.q].restricted = thread[main.q].restricted
    BY <2>1, <2>3, <2>4
  <2>7. ASSUME NEW z \in Question, Alive(z)', thread'[z].restricted, ~thread'[z].cancel \/ thread'[z].pc = "llm"
        PROVE  Fetched(z)'
    BY <1>3, <2>1, <2>5, <2>6, <2>7 DEF RunbookOK, Alive
  <2> QED
    BY <1>2, <1>3, <1>4, <2>7 DEF RunbookOK
<1>6. CASE Rollback \/ Finish \/ Clear
  <2>1. thread' = thread
    BY <1>6 DEF Rollback, Finish, Clear
  <2>2. \A z \in Question : Alive(z)' = Alive(z)
    BY <2>1 DEF Alive
  <2> QED
    BY <1>2, <1>3, <1>4, <2>1, <2>2 DEF RunbookOK
<1> QED
  BY <1>5, <1>6

LEMMA RunbookNext == IInv /\ RunbookOK /\ [Next]_vars => RunbookOK'
<1> SUFFICES ASSUME IInv, RunbookOK, [Next]_vars PROVE RunbookOK'
  OBVIOUS
<1>1. CASE UNCHANGED vars
  BY <1>1 DEF vars, RunbookOK, Fetched, Alive
<1> QED
  BY <1>1, RunbookAsk, RunbookTerminal, RunbookCall, CallStep DEF Next, Terminal

\* Restricted tools are offered only because of a runbook that the question fetched, or
\* one that a question it has outlived fetched under its feet (reset_interaction_state is
\* called before the thread of a question begins, not by the threads that still run).
THEOREM Restricted == Spec => []RestrictedNeedsRunbook
<1>1. Init => IInv /\ RunbookOK
  BY InitInv, RunbookInit
<1>2. IInv /\ RunbookOK /\ [Next]_vars => (IInv /\ RunbookOK)'
  BY NextInv, RunbookNext
<1>3. RunbookOK => RestrictedNeedsRunbook
  BY DEF RunbookOK, RestrictedNeedsRunbook, Fetched, Alive
<1> QED
  BY <1>1, <1>2, <1>3, PTL DEF Spec
-----------------------------------------------------------------------------
(* Answers *)

\* What holds of a call that ran, or of an approval, goes on to hold.
LEMMA ApprovedLemma ==
  ASSUME IInv, NEW q \in Question, Kinded(q)
  PROVE  /\ main' = main /\ history.ran \subseteq history'.ran
         /\ history.approved \subseteq history'.approved /\ (saved => saved')
         /\ \A e : Approved(e) => Approved(e)'
<1>1. /\ main' = main /\ history.ran \subseteq history'.ran
      /\ history.approved \subseteq history'.approved /\ (saved => saved')
  BY DEF Kinded, Ending, Sending, Requesting, Staying, Takes, Unmoved
<1> QED
  BY <1>1 DEF Approved

\* What the other questions have reached is not affected; nor are they.
LEMMA OthersLemma ==
  ASSUME IInv, NEW q \in Question, CallShape(q), NEW z \in Question, z # q
  PROVE  /\ thread'[z] = thread[z] /\ worker'[z] = worker[z] /\ (Alive(z)' <=> Alive(z))
         /\ \A i, k, S : Reached(z, i, k, S) => Reached(z, i, k, S)'
<1> PICK n \in Thread, w \in Seq(Worker) :
      thread' = [thread EXCEPT ![q] = n] /\ worker' = [worker EXCEPT ![q] = w]
  BY DEF CallShape, ThreadShape
<1>1. thread'[z] = thread[z] /\ worker'[z] = worker[z]
  BY PartsLemma
<1> QED
  BY <1>1 DEF Alive, Reached

LEMMA ReachedStep ==
  ASSUME IInv, NEW q \in Question, CallShape(q), Kinded(q), NEW z \in Question, NEW i \in Step, NEW k,
         NEW S \in {{"taken"}, Over}, z <= main.q, Alive(z) => Reached(z, i, k, S)
  PROVE  z <= main'.q /\ (Alive(z)' => Reached(z, i, k, S)')
<1>1. Alive(q) /\ main' = main
  BY DEF CallShape, WorldShape
<1>2. CASE z = q
  <2>1. i \in Nat
    BY LimitsAssumption DEF Step
  <2> QED
    BY <1>1, <1>2, <2>1, ReachedLemma
<1>3. CASE z # q
  BY <1>1, <1>3, OthersLemma
<1> QED
  BY <1>2, <1>3

\* A call that runs has not run before: nothing is said of it yet.
LEMMA NewRun ==
  ASSUME IInv, NEW q \in Question, Kinded(q), NEW e \in history'.ran, e \notin history.ran
  PROVE  /\ thread[q].pc \in Working
         /\ \E i, k : /\ i = thread[q].step /\ k \in DOMAIN worker[q] /\ e[1] = <<q, i, k>>
                      /\ worker[q][k].state \in {"approval", "running"} /\ Reached(q, i, k, Over)'
<1> PICK i : i = thread[q].step
  OBVIOUS
<1>1. \A k : Ran(e, q, k) <=> e[1] = <<q, i, k>>
  BY DEF Ran
<1>2. CASE Staying(q)
  <2>1. PICK k \in DOMAIN worker[q] : /\ Ran(e, q, k) /\ worker[q][k].state = "running"
                                      /\ worker'[q][k].state \in {"ok", "error"}
    BY <1>2 DEF Staying
  <2>2. thread[q].pc \in Working /\ thread'[q].step = i
        /\ worker'[q] \in Seq(Worker) /\ Len(worker'[q]) = Len(worker[q])
    BY <1>2 DEF Staying
  <2>3. k \in DOMAIN worker'[q]
    BY <2>2, PartsLemma
  <2>4. Reached(q, i, k, Over)'
    BY <2>1, <2>2, <2>3 DEF Reached, Over
  <2> QED
    BY <1>1, <2>1, <2>2, <2>4
<1>3. ASSUME NEW k, NEW o, Takes(q, k, o)
      PROVE  /\ thread[q].pc \in Working
             /\ k \in DOMAIN worker[q] /\ e[1] = <<q, i, k>>
             /\ worker[q][k].state = "approval" /\ Reached(q, i, k, Over)'
  <2>1. /\ thread[q].pc \in Working /\ k \in DOMAIN worker[q] /\ Ran(e, q, k)
        /\ worker[q][k].state = "approval"
    BY <1>3 DEF Takes, Working
  <2>2. Reached(q, i, k, Over)'
    BY <1>3, <2>1, TakingLemma DEF Reached, Over
  <2> QED
    BY <1>1, <2>1, <2>2
<1>4. ~Ending(q) /\ ~Sending(q) /\ ~Requesting(q)
  BY DEF Ending, Sending, Requesting, Unmoved
<1> QED
  BY <1>2, <1>3, <1>4 DEF Kinded

\* The parts of a call's identity and of a message.
LEMMA IdLemma ==
  ASSUME IInv
  PROVE  /\ \A e \in history.ran : e[1][1] \in Question /\ e[1][2] \in Step
                                   /\ e[1] = <<e[1][1], e[1][2], e[1][3]>>
         /\ \A m \in Message : m.turn[1] \in Question /\ m.turn[2] \in Step
                               /\ m.turn = <<m.turn[1], m.turn[2]>>
<1>1. history.ran \subseteq CallId \X Kinds
  BY PartsLemma DEF HistorySet
<1>2. \A e \in CallId \X Kinds : e[1] \in CallId
  OBVIOUS
<1>3. \A c \in CallId : c[1] \in Question /\ c[2] \in Step /\ c = <<c[1], c[2], c[3]>>
  BY DEF CallId
<1>4. \A m \in Message : m.turn \in Question \X Step
  BY DEF Message
<1> QED
  BY <1>1, <1>2, <1>3, <1>4

LEMMA RanOverCall ==
  ASSUME IInv, RanOver, NEW q \in Question, CallShape(q), Kinded(q)
  PROVE  RanOver'
<1>1. Alive(q) /\ main' = main /\ q <= main.q /\ IInv'
  BY CallInv, BusyLemma DEF CallShape, WorldShape
<1> SUFFICES ASSUME NEW e \in history'.ran
             PROVE  /\ e[1][1] <= main'.q
                    /\ Alive(e[1][1])' => Reached(e[1][1], e[1][2], e[1][3], Over)'
  BY DEF RanOver
<1>2. CASE e \in history.ran
  <2>1. PICK z, i, k : z = e[1][1] /\ i = e[1][2] /\ k = e[1][3]
    OBVIOUS
  <2>2. z \in Question /\ i \in Step
    BY <1>2, <2>1, IdLemma
  <2>3. z <= main.q /\ (Alive(z) => Reached(z, i, k, Over))
    BY <1>2, <2>1 DEF RanOver
  <2>4. z <= main'.q /\ (Alive(z)' => Reached(z, i, k, Over)')
    BY <2>2, <2>3, ReachedStep
  <2> QED
    BY <2>1, <2>4
<1>3. CASE e \notin history.ran
  <2>1. PICK i, k : e[1] = <<q, i, k>> /\ Reached(q, i, k, Over)'
    BY <1>3, NewRun
  <2>2. e[1][1] = q /\ e[1][2] = i /\ e[1][3] = k
    BY <2>1
  <2> QED
    BY <1>1, <2>1, <2>2
<1> QED
  BY <1>2, <1>3

\* A call whose answer is in a list is not one that is still to run.
LEMMA GivenNotRun ==
  ASSUME IInv, NEW q \in Question, Kinded(q), Alive(q), NEW m \in Message, Given(m),
         NEW e \in history'.ran, e \notin history.ran
  PROVE  e[1] # Id(m)
<1> SUFFICES ASSUME e[1] = Id(m) PROVE FALSE
  OBVIOUS
<1>1. PICK i, k : /\ i = thread[q].step /\ k \in DOMAIN worker[q] /\ e[1] = <<q, i, k>>
                  /\ worker[q][k].state \in {"approval", "running"}
  BY NewRun
<1>2. m.turn[1] = q /\ m.turn[2] = i /\ m.size = k
  BY <1>1 DEF Id
<1>3. Reached(q, i, k, {"taken"})
  BY <1>2 DEF Given
<1>4. thread[q].pc # "step" /\ thread[q].step \in Nat
  <2>1. thread[q].pc \in Working
    BY NewRun
  <2> QED
    BY <2>1, PartsLemma, LimitsAssumption DEF Working, Batch, Asking, Thread, Step
<1> QED
  BY <1>1, <1>3, <1>4 DEF Reached

LEMMA OldAnswer ==
  ASSUME IInv, NEW q \in Question, CallShape(q), Kinded(q), NEW m \in Message, Given(m), Honest(m)
  PROVE  Given(m)' /\ Honest(m)'
<1>1. Alive(q)
  BY DEF CallShape, WorldShape
<1>2. Given(m)'
  <2>1. PICK z, i, k : z = m.turn[1] /\ i = m.turn[2] /\ k = m.size
    OBVIOUS
  <2>2. z \in Question /\ i \in Step
    BY <2>1, IdLemma
  <2>3. z <= main.q /\ (Alive(z) => Reached(z, i, k, {"taken"}))
    BY <2>1 DEF Given
  <2>4. z <= main'.q /\ (Alive(z)' => Reached(z, i, k, {"taken"})')
    BY <2>2, <2>3, ReachedStep
  <2> QED
    BY <2>1, <2>4 DEF Given
<1>3. \A e \in history.ran : e \in history'.ran /\ (Approved(e) => Approved(e)')
  BY ApprovedLemma
<1>4. m.outcome = "ok" => \E e \in history'.ran : e[1] = Id(m) /\ Approved(e)'
  BY <1>3 DEF Honest
<1>5. m.outcome = "denied" => \A e \in history'.ran : e[1] # Id(m)
  BY <1>1, GivenNotRun DEF Honest
<1> QED
  BY <1>2, <1>4, <1>5 DEF Honest

LEMMA NewAnswer ==
  ASSUME IInv, RanOver, NEW q \in Question, Results(q), CallShape(q), NEW k, NEW o, Takes(q, k, o),
         NEW m \in Message, m = Answered(q, thread[q].step, k, o)
  PROVE  Given(m)' /\ Honest(m)'
<1> PICK i : i = thread[q].step
  OBVIOUS
<1>1. m.turn = <<q, i>> /\ m.size = k /\ m.outcome = o /\ Id(m) = <<q, i, k>>
  BY DEF Answered, Id
<1>2. Alive(q) /\ main' = main /\ q <= main.q /\ Kinded(q)
  BY BusyLemma DEF CallShape, WorldShape, Kinded
<1>3. Reached(q, i, k, {"taken"})'
  BY TakingLemma DEF Takes, Reached
<1>4. Given(m)'
  BY <1>1, <1>2, <1>3 DEF Given
<1>5. \A e : Ran(e, q, k) <=> e[1] = Id(m)
  BY <1>1 DEF Ran
<1>6. ASSUME m.outcome = "ok" PROVE \E e \in history'.ran : e[1] = Id(m) /\ Approved(e)'
  <2>1. CASE worker[q][k].state = "ok"
    <3>1. k \in DOMAIN worker[q]
      BY DEF Takes
    <3>2. PICK e \in history.ran : Ran(e, q, k) /\ Approved(e)
      BY <2>1, <3>1 DEF Results
    <3>3. e \in history'.ran /\ Approved(e)'
      BY <1>2, <3>2, ApprovedLemma
    <3> QED
      BY <1>5, <3>2, <3>3
  <2>2. CASE \E e \in history'.ran : Ran(e, q, k) /\ Approved(e)'
    BY <1>5, <2>2
  <2> QED
    BY <1>1, <1>6, <2>1, <2>2 DEF Takes
<1>7. ASSUME m.outcome = "denied", NEW e \in history'.ran, e[1] = Id(m) PROVE FALSE
  <2>1. e \in history.ran /\ k \in DOMAIN worker[q] /\ worker[q][k].state = "approval" /\ thread[q].pc \in Batch
    BY <1>1, <1>5, <1>7 DEF Takes
  <2>2. e[1][1] = q /\ e[1][2] = i /\ e[1][3] = k
    BY <1>1, <1>7
  <2>3. Reached(q, i, k, Over)
    BY <1>2, <2>1, <2>2 DEF RanOver
  <2>4. thread[q].step \in Nat /\ thread[q].pc # "step"
    BY <2>1, PartsLemma, LimitsAssumption DEF Batch, Asking, Thread, Step
  <2> QED
    BY <2>1, <2>3, <2>4 DEF Reached, Over
<1> QED
  BY <1>4, <1>6, <1>7 DEF Honest

LEMMA ResultsCall ==
  ASSUME IInv, NEW q \in Question, Results(q), Kinded(q)
  PROVE  Results(q)'
<1>1. ASSUME NEW e, NEW k, Ran(e, q, k), thread'[q].step = thread[q].step PROVE Ran(e, q, k)'
  BY <1>1 DEF Ran
<1>2. \A e \in history.ran : e \in history'.ran /\ (Approved(e) => Approved(e)')
  BY ApprovedLemma
<1>3. CASE Ending(q) \/ Sending(q)
  BY <1>3 DEF Ending, Sending, Results
<1>4. CASE Requesting(q)
  BY <1>4 DEF Requesting, Results
<1>5. CASE Staying(q)
  <2>1. worker[q] \in Seq(Worker) /\ worker'[q] \in Seq(Worker) /\ Len(worker'[q]) = Len(worker[q])
        /\ thread'[q].step = thread[q].step
    BY <1>5, PartsLemma DEF Staying
  <2>2. DOMAIN worker'[q] = DOMAIN worker[q]
    BY <2>1
  <2>3. ASSUME NEW k \in DOMAIN worker[q], worker'[q][k].state = "ok"
        PROVE  \E e \in history'.ran : Ran(e, q, k)' /\ Approved(e)'
    <3>1. worker[q][k].state = "ok" \/ \E e \in history'.ran : Ran(e, q, k) /\ Approved(e)'
      BY <1>5, <2>3 DEF Staying
    <3> QED
      BY <1>1, <1>2, <2>1, <3>1 DEF Results
  <2>4. thread'[q].pc = "invoke" /\ thread'[q].approves
          => <<q, thread'[q].step, thread'[q].call>> \in history'.approved
    BY <1>5, <2>1, ApprovedLemma DEF Staying, Results
  <2> QED
    BY <2>2, <2>3, <2>4 DEF Results
<1>6. ASSUME NEW k, NEW o, Takes(q, k, o) PROVE Results(q)'
  <2>1. thread'[q].step = thread[q].step /\ thread'[q].pc # "invoke"
    BY <1>6, TakingLemma
  <2>2. ASSUME NEW j \in DOMAIN worker'[q], worker'[q][j].state = "ok"
        PROVE  \E e \in history'.ran : Ran(e, q, j)' /\ Approved(e)'
    <3>1. j \in DOMAIN worker[q] /\ worker[q][j].state = "ok"
      BY <1>6, <2>2, TakingLemma
    <3> QED
      BY <1>1, <1>2, <2>1, <3>1 DEF Results
  <2> QED
    BY <2>1, <2>2 DEF Results
<1> QED
  BY <1>3, <1>4, <1>5, <1>6 DEF Kinded

LEMMA TruthCall ==
  ASSUME IInv, TruthOK, NEW q \in Question, Call(q) \/ Tool(q)
  PROVE  TruthOK'
<1>1. CallShape(q) /\ RanOver /\ \A z \in Question : Results(z)
  BY CallStep DEF TruthOK
<1>2. Kinded(q)
  BY <1>1, CallKind DEF Results
<1>3. RanOver'
  BY <1>1, <1>2, RanOverCall
<1>4. ASSUME NEW m \in Message, Said(m)', m.role = "tool" PROVE Given(m)' /\ Honest(m)'
  <2>1. CASE Said(m)
    BY <1>1, <1>2, <1>4, <2>1, OldAnswer DEF TruthOK
  <2>2. ASSUME NEW k, NEW o, Takes(q, k, o), m = Answered(q, thread[q].step, k, o)
        PROVE  Given(m)' /\ Honest(m)'
    BY <1>1, <2>2, NewAnswer
  <2> QED
    BY <1>2, <1>4, <2>1, <2>2, SaidLemma
<1>5. ASSUME NEW z \in Question PROVE Results(z)'
  <2>1. CASE z = q
    BY <1>1, <1>2, <2>1, ResultsCall
  <2>2. CASE z # q
    <3>1. thread'[z] = thread[z] /\ worker'[z] = worker[z]
      BY <1>1, <2>2, OthersLemma
    <3>2. \A e \in history.ran : e \in history'.ran /\ (Approved(e) => Approved(e)')
      BY <1>2, ApprovedLemma
    <3>3. history.approved \subseteq history'.approved
      BY <1>2, ApprovedLemma
    <3> QED
      BY <1>1, <3>1, <3>2, <3>3 DEF Results, Ran
  <2> QED
    BY <2>1, <2>2
<1> QED
  BY <1>3, <1>4, <1>5 DEF TruthOK

LEMMA TruthInit == Init => TruthOK
<1> SUFFICES ASSUME Init PROVE TruthOK
  OBVIOUS
<1>1. heap = <<>> /\ history.ran = {} /\ \A q \in Question : thread[q] = Idle /\ worker[q] = <<>>
  BY DEF Init
<1>2. \A m : ~Said(m)
  BY <1>1 DEF Said
<1> QED
  BY <1>1, <1>2, IdleLemma DEF TruthOK, RanOver, Results

LEMMA TruthAsk == ASSUME IInv, TruthOK, Ask PROVE TruthOK'
<1> PICK q, n, r, list : AskShape(q, n, r, list)
  BY AskLemma
<1>1. /\ q = main.q + 1 /\ q \in Question /\ n.pc = "step"
      /\ thread' = [thread EXCEPT ![q] = n] /\ worker[q] = <<>> /\ UNCHANGED <<worker, saved>>
      /\ main'.q = q /\ history'.ran = history.ran /\ history'.approved = history.approved
  BY DEF AskShape
<1>2. thread'[q] = n /\ \A z \in Question : z # q => thread'[z] = thread[z]
  BY <1>1, PartsLemma
<1>3. main.q \in Nat
  BY PartsLemma, BoundsAssumption DEF MainSet, Question
<1>4. \A e : Approved(e)' <=> Approved(e)
  BY <1>1 DEF Approved
<1>5. ASSUME NEW z \in Question, z <= main.q
      PROVE  /\ z <= main'.q /\ (Alive(z)' <=> Alive(z))
             /\ \A i, k, S : Reached(z, i, k, S) => Reached(z, i, k, S)'
  <2>1. z # q /\ z \in Nat /\ z <= q
    BY <1>1, <1>3, <1>5 DEF Question
  <2> QED
    BY <1>1, <1>2, <2>1 DEF Alive, Reached
<1>6. RanOver'
  <2> SUFFICES ASSUME NEW e \in history'.ran
               PROVE  /\ e[1][1] <= main'.q
                      /\ Alive(e[1][1])' => Reached(e[1][1], e[1][2], e[1][3], Over)'
    BY DEF RanOver
  <2>1. PICK z, i, k : z = e[1][1] /\ i = e[1][2] /\ k = e[1][3]
    OBVIOUS
  <2>2. z \in Question /\ z <= main.q /\ (Alive(z) => Reached(z, i, k, Over))
    BY <1>1, <2>1, IdLemma DEF TruthOK, RanOver
  <2> QED
    BY <1>5, <2>1, <2>2
<1>7. ASSUME NEW m \in Message, Said(m)', m.role = "tool" PROVE Said(m)
  <2>1. /\ list = IF main.list = 0 THEN <<User(q)>> ELSE Append(heap[main.list], User(q))
        /\ r = IF main.list = 0 THEN Len(heap) + 1 ELSE main.list
        /\ heap' \in Seq(Seq(Message)) /\ r \in 1..Len(heap')
        /\ heap'[r] = list /\ heap'[Len(heap')] = list
        /\ \A z \in 1..Len(heap) : z # r => heap'[z] = heap[z]
        /\ \A z \in 1..Len(heap') : z \in 1..Len(heap) \/ heap'[z] = list
    BY DEF AskShape
  <2>2. heap \in Seq(Seq(Message)) /\ Len(heap) \in Nat /\ main.list \in Nat /\ main.list <= Len(heap)
    BY PartsLemma DEF MainSet
  <2>3. PICK z \in DOMAIN heap' : \E j \in DOMAIN heap'[z] : heap'[z][j] = m
    BY <1>7 DEF Said
  <2>4. PICK j \in DOMAIN heap'[z] : heap'[z][j] = m
    BY <2>3
  <2>5. User(q).role # "tool"
    BY DEF User
  <2>6. ASSUME heap'[z] = list PROVE Said(m)
    <3>1. CASE main.list = 0
      BY <1>7, <2>1, <2>4, <2>5, <2>6, <3>1
    <3>2. CASE main.list # 0
      <4>1. main.list \in 1..Len(heap) /\ heap[main.list] \in Seq(Message)
        BY <2>2, <3>2
      <4>2. list = Append(heap[main.list], User(q)) /\ j \in DOMAIN list /\ list[j] = m
        BY <2>1, <2>4, <2>6, <3>2
      <4>3. j \in DOMAIN heap[main.list] /\ heap[main.list][j] = m
        BY <1>7, <2>5, <4>1, <4>2
      <4> QED
        BY <2>2, <4>1, <4>3 DEF Said
    <3> QED
      BY <3>1, <3>2
  <2>7. CASE heap'[z] # list
    <3>1. z \in 1..Len(heap')
      BY <2>1
    <3>2. z \in 1..Len(heap) /\ z # r
      BY <2>1, <2>7, <3>1
    <3>3. heap'[z] = heap[z]
      BY <2>1, <3>2
    <3>4. DOMAIN heap = 1..Len(heap)
      BY <2>2
    <3> QED
      BY <2>4, <3>2, <3>3, <3>4 DEF Said
  <2> QED
    BY <2>6, <2>7
<1>8. ASSUME NEW m \in Message, Said(m)', m.role = "tool" PROVE Given(m)' /\ Honest(m)'
  <2>1. Given(m) /\ Honest(m)
    BY <1>7, <1>8 DEF TruthOK
  <2>2. Honest(m)'
    BY <1>1, <1>4, <2>1 DEF Honest
  <2>3. PICK z, i, k : z = m.turn[1] /\ i = m.turn[2] /\ k = m.size
    OBVIOUS
  <2>4. z \in Question /\ z <= main.q /\ (Alive(z) => Reached(z, i, k, {"taken"}))
    BY <2>1, <2>3, IdLemma DEF Given
  <2>5. z <= main'.q /\ (Alive(z)' => Reached(z, i, k, {"taken"})')
    BY <1>5, <2>4
  <2> QED
    BY <2>2, <2>3, <2>5 DEF Given
<1>9. ASSUME NEW z \in Question PROVE Results(z)'
  <2>1. CASE z = q
    BY <1>1, <1>2, <2>1 DEF Results
  <2>2. CASE z # q
    BY <1>1, <1>2, <1>4, <2>2 DEF Results, TruthOK, Ran
  <2> QED
    BY <2>1, <2>2
<1> QED
  BY <1>6, <1>8, <1>9 DEF TruthOK

LEMMA TruthTerminal == ASSUME IInv, TruthOK, Escape \/ Rollback \/ Finish \/ Clear PROVE TruthOK'
<1>1. UNCHANGED <<heap, worker, saved, history>> /\ main \in MainSet
  BY PartsLemma DEF Escape, Rollback, Finish, Clear
<1>2. main'.q = main.q
  BY TerminalQuestion
<1>3. \A z \in Question :
        /\ thread'[z].pc = thread[z].pc /\ thread'[z].step = thread[z].step
        /\ thread'[z].call = thread[z].call /\ thread'[z].approves = thread[z].approves
  <2>1. CASE Escape
    <3>1. main.q \in Question /\ thread \in [Question -> Thread]
      BY <2>1, PartsLemma DEF Escape, IInv, MainOK, MainSet
    <3>2. PICK n : n = [thread[main.q] EXCEPT !.cancel = TRUE]
      OBVIOUS
    <3>3. /\ n.pc = thread[main.q].pc /\ n.step = thread[main.q].step
          /\ n.call = thread[main.q].call /\ n.approves = thread[main.q].approves
      BY <3>1, <3>2 DEF Thread
    <3>4. thread' = [thread EXCEPT ![main.q] = n]
      BY <2>1, <3>2 DEF Escape, Goto
    <3> QED
      BY <3>1, <3>3, <3>4
  <2>2. CASE Rollback \/ Finish \/ Clear
    BY <2>2 DEF Rollback, Finish, Clear
  <2> QED
    BY <2>1, <2>2
<1>4. \A z \in Question : /\ (Alive(z)' <=> Alive(z))
                          /\ \A i, k, S : Reached(z, i, k, S)' <=> Reached(z, i, k, S)
  BY <1>1, <1>3 DEF Alive, Reached
<1>5. \A e : Approved(e)' <=> Approved(e)
  BY <1>1 DEF Approved
<1>6. RanOver'
  <2> SUFFICES ASSUME NEW e \in history.ran
               PROVE  /\ e[1][1] <= main.q
                      /\ Alive(e[1][1])' => Reached(e[1][1], e[1][2], e[1][3], Over)'
    BY <1>1, <1>2 DEF RanOver
  <2>1. e[1][1] \in Question
    BY IdLemma
  <2> QED
    BY <1>4, <2>1 DEF TruthOK, RanOver
<1>7. ASSUME NEW m \in Message, Said(m)', m.role = "tool" PROVE Given(m)' /\ Honest(m)'
  <2>1. Given(m) /\ Honest(m)
    BY <1>1, <1>7 DEF TruthOK, Said
  <2>2. Honest(m)'
    BY <1>1, <1>5, <2>1 DEF Honest
  <2>3. m.turn[1] \in Question
    BY IdLemma
  <2>4. Given(m)'
    BY <1>2, <1>4, <2>1, <2>3 DEF Given
  <2> QED
    BY <2>2, <2>4
<1>8. ASSUME NEW z \in Question PROVE Results(z)'
  BY <1>1, <1>3, <1>5 DEF Results, TruthOK, Ran
<1> QED
  BY <1>6, <1>7, <1>8 DEF TruthOK

LEMMA TruthNext == IInv /\ TruthOK /\ [Next]_vars => TruthOK'
<1> SUFFICES ASSUME IInv, TruthOK, [Next]_vars PROVE TruthOK'
  OBVIOUS
<1>1. CASE UNCHANGED vars
  BY <1>1 DEF vars, TruthOK, RanOver, Said, Given, Honest, Results, Reached, Approved, Alive, Ran
<1> QED
  BY <1>1, TruthAsk, TruthTerminal, TruthCall DEF Next, Terminal

\* An answer says what happened: "ok" stands for a tool that ran with the approval that it
\* needs, and a call that was denied never runs, also when the thread was interrupted, its
\* list was compacted or the conversation went back (_handle_tool_call_approval).
THEOREM Truthful == Spec => []AnswersAreTrue
<1>1. Init => IInv /\ TruthOK
  BY InitInv, TruthInit
<1>2. IInv /\ TruthOK /\ [Next]_vars => (IInv /\ TruthOK)'
  BY NextInv, TruthNext
<1>3. IInv /\ TruthOK => AnswersAreTrue
  <2> SUFFICES ASSUME IInv, TruthOK, NEW r \in DOMAIN heap, NEW j \in DOMAIN heap[r], heap[r][j].role = "tool"
               PROVE  LET m == heap[r][j]
                          runs == {e \in history.ran : e[1] = <<m.turn[1], m.turn[2], m.size>>}
                      IN /\ m.outcome = "ok" => \E e \in runs : Approved(e)
                         /\ m.outcome = "denied" => runs = {}
    BY DEF AnswersAreTrue
  <2>1. PICK m : m = heap[r][j]
    OBVIOUS
  <2>2. heap[r] \in Seq(Message) /\ m \in Message
    BY <2>1, PartsLemma
  <2>3. Said(m)
    BY <2>1 DEF Said
  <2>4. Honest(m)
    BY <2>1, <2>2, <2>3 DEF TruthOK
  <2> QED
    BY <2>1, <2>4 DEF Honest, Id
<1> QED
  BY <1>1, <1>2, <1>3, PTL DEF Spec
-----------------------------------------------------------------------------
(* The messages sent *)

\* What follows message i of s, up to position e, answers its calls.
Closed(s, i, e) ==
  LET n == s[i].size
      block == {j \in DOMAIN s : i < j /\ j <= i + n}
  IN s[i].role = "assistant" =>
       /\ i + n <= e
       /\ \A j \in block : s[j].role = "tool" /\ s[j].turn = s[i].turn
       /\ {s[j].size : j \in block} = 1..n

\* The last message with calls, n of them in step i of question q, has the answers T so far.
Partial(s, q, i, n, T) ==
  \E p \in DOMAIN s :
    /\ s[p] = Assistant(q, i, n) /\ Called(s)
    /\ \A z \in 1..(p - 1) : Closed(s, z, p - 1)
    /\ \A j \in DOMAIN s : j > p => s[j].role = "tool" /\ s[j].turn = <<q, i>>
    /\ {s[j].size : j \in {x \in DOMAIN s : x > p}} = T
    /\ Len(s) = p + Cardinality(T)

LEMMA FieldsLemma ==
  ASSUME NEW s \in Seq(Message), NEW i \in DOMAIN s
  PROVE  i \in Nat /\ i >= 1 /\ i <= Len(s) /\ Len(s) \in Nat /\ s[i] \in Message /\ s[i].size \in Nat
<1>1. s[i] \in Message /\ i \in Nat /\ i >= 1 /\ i <= Len(s) /\ Len(s) \in Nat
  OBVIOUS
<1>2. \A m \in Message : m.size \in Nat
  BY BoundsAssumption DEF Message, Width
<1> QED
  BY <1>1, <1>2

LEMMA CompleteLemma ==
  ASSUME NEW s
  PROVE  Complete(s) <=> \A i \in DOMAIN s : Closed(s, i, Len(s))
BY DEF Complete, Closed

\* What is closed stays so.
LEMMA ClosedLemma ==
  ASSUME NEW s \in Seq(Message), NEW m \in Message, NEW i \in DOMAIN s,
         NEW e \in 0..Len(s), Closed(s, i, e), NEW f \in Nat, e <= f
  PROVE  Closed(s, i, f) /\ Closed(Append(s, m), i, f)
<1>1. i \in Nat /\ i >= 1 /\ i <= Len(s) /\ Len(s) \in Nat /\ s[i].size \in Nat
  BY FieldsLemma
<1> PICK u, n : u = Append(s, m) /\ n = s[i].size
  OBVIOUS
<1>2. /\ u \in Seq(Message) /\ Len(u) = Len(s) + 1 /\ DOMAIN u = 1..(Len(s) + 1) /\ DOMAIN s = 1..Len(s)
      /\ \A j \in 1..Len(s) : u[j] = s[j]
  OBVIOUS
<1>3. u[i] = s[i] /\ n \in Nat
  BY <1>1, <1>2
<1>4. CASE s[i].role # "assistant"
  BY <1>3, <1>4 DEF Closed
<1>5. CASE s[i].role = "assistant"
  <2> DEFINE A == {j \in DOMAIN s : i < j /\ j <= i + n}
             B == {j \in DOMAIN u : i < j /\ j <= i + n}
  <2>1. i + n <= e /\ (\A j \in A : s[j].role = "tool" /\ s[j].turn = s[i].turn) /\ {s[j].size : j \in A} = 1..n
    BY <1>5 DEF Closed
  <2>2. A = B
    BY <1>1, <1>2, <1>3, <2>1
  <2>3. \A j \in A : u[j] = s[j]
    BY <1>2
  <2>4. i + n <= f
    BY <1>1, <1>3, <2>1
  <2>5. \A j \in B : u[j].role = "tool" /\ u[j].turn = u[i].turn
    BY <1>3, <2>1, <2>2, <2>3
  <2>6. {u[j].size : j \in B} = 1..n
    BY <2>1, <2>2, <2>3
  <2>7. Closed(s, i, f)
    BY <2>1, <2>4 DEF Closed
  <2>8. Closed(u, i, f)
    BY <1>3, <2>4, <2>5, <2>6 DEF Closed
  <2> QED
    BY <2>7, <2>8
<1> QED
  BY <1>4, <1>5

LEMMA CalledLemma ==
  ASSUME NEW s \in Seq(Message), NEW m \in Message, Called(s),
         m.role = "tool" => \E i \in DOMAIN s : /\ s[i].role = "assistant" /\ s[i].turn = m.turn
                                                /\ m.size <= s[i].size
  PROVE  Called(Append(s, m))
<1> PICK u : u = Append(s, m)
  OBVIOUS
<1>1. /\ Len(s) \in Nat /\ DOMAIN u = 1..(Len(s) + 1) /\ DOMAIN s = 1..Len(s) /\ u[Len(s) + 1] = m
      /\ \A j \in 1..Len(s) : u[j] = s[j]
  OBVIOUS
<1>2. ASSUME NEW j \in DOMAIN u, u[j].role = "tool"
      PROVE  \E i \in 1..(j - 1) : /\ u[i].role = "assistant" /\ u[i].turn = u[j].turn
                                   /\ u[j].size <= u[i].size
  <2>1. CASE j \in DOMAIN s
    <3>1. PICK i \in 1..(j - 1) : /\ s[i].role = "assistant" /\ s[i].turn = s[j].turn
                                  /\ s[j].size <= s[i].size
      BY <1>1, <1>2, <2>1 DEF Called
    <3>2. i \in 1..Len(s)
      BY <1>1, <2>1, <3>1
    <3> QED
      BY <1>1, <2>1, <3>1, <3>2
  <2>2. CASE j = Len(s) + 1
    <3>1. PICK i \in DOMAIN s : s[i].role = "assistant" /\ s[i].turn = m.turn /\ m.size <= s[i].size
      BY <1>1, <1>2, <2>2
    <3>2. i \in 1..(j - 1) /\ u[i] = s[i] /\ u[j] = m
      BY <1>1, <2>2, <3>1
    <3> QED
      BY <3>1, <3>2
  <2> QED
    BY <1>1, <2>1, <2>2
<1> QED
  BY <1>2 DEF Called

\* A message without calls, or the answer of the LLM, can be appended.
LEMMA PlainLemma ==
  ASSUME NEW s \in Seq(Message), WellFormed(s), NEW m \in Message, m.role # "tool", m.size = 0
  PROVE  WellFormed(Append(s, m))
<1> PICK u : u = Append(s, m)
  OBVIOUS
<1>1. /\ Len(s) \in Nat /\ DOMAIN u = 1..(Len(s) + 1) /\ DOMAIN s = 1..Len(s)
      /\ Len(u) = Len(s) + 1 /\ u[Len(s) + 1] = m
  OBVIOUS
<1>2. Called(u)
  BY CalledLemma DEF WellFormed
<1>3. ASSUME NEW i \in DOMAIN s PROVE Closed(u, i, Len(u))
  <2>1. Closed(s, i, Len(s))
    BY CompleteLemma DEF WellFormed
  <2>2. Len(s) \in 0..Len(s) /\ Len(u) \in Nat /\ Len(s) <= Len(u)
    BY <1>1
  <2> QED
    BY <2>1, <2>2, ClosedLemma
<1>4. Closed(u, Len(s) + 1, Len(u))
  <2> DEFINE l == Len(s) + 1
             B == {j \in DOMAIN u : l < j /\ j <= l + u[l].size}
  <2>1. u[l].size = 0 /\ l \in Nat
    BY <1>1
  <2>2. B = {}
    BY <1>1, <2>1
  <2>3. l + u[l].size <= Len(u) /\ 1..u[l].size = {}
    BY <1>1, <2>1
  <2>4. {u[j].size : j \in B} = {}
    BY <2>2
  <2> QED
    BY <2>2, <2>3, <2>4 DEF Closed
<1>5. \A i \in DOMAIN u : Closed(u, i, Len(u))
  BY <1>1, <1>3, <1>4
<1> QED
  BY <1>2, <1>5, CompleteLemma DEF WellFormed

\* The LLM calls tools: no answers yet.
LEMMA RequestLemma ==
  ASSUME NEW s \in Seq(Message), WellFormed(s), NEW q, NEW i, NEW n, Assistant(q, i, n) \in Message
  PROVE  Partial(Append(s, Assistant(q, i, n)), q, i, n, {})
<1> PICK m : m = Assistant(q, i, n)
  OBVIOUS
<1> PICK u : u = Append(s, m)
  OBVIOUS
<1>1. /\ Len(s) \in Nat /\ DOMAIN u = 1..(Len(s) + 1) /\ DOMAIN s = 1..Len(s)
      /\ Len(u) = Len(s) + 1 /\ u[Len(s) + 1] = m
  OBVIOUS
<1>2. Called(u)
  <2>1. m.role # "tool"
    BY DEF Assistant
  <2> QED
    BY <2>1, CalledLemma DEF WellFormed
<1>3. ASSUME NEW z \in 1..Len(s) PROVE Closed(u, z, Len(s))
  <2>1. z \in DOMAIN s /\ Closed(s, z, Len(s))
    BY <1>1, CompleteLemma DEF WellFormed
  <2>2. PICK e : e = Len(s)
    OBVIOUS
  <2>3. e \in 0..Len(s) /\ e \in Nat /\ e <= e /\ m \in Message /\ Closed(s, z, e)
    BY <1>1, <2>1, <2>2
  <2>4. Closed(Append(s, m), z, e)
    BY <2>1, <2>3, ClosedLemma
  <2> QED
    BY <2>2, <2>4
<1> PICK p : p = Len(s) + 1
  OBVIOUS
<1>4. p \in DOMAIN u /\ p - 1 = Len(s) /\ {x \in DOMAIN u : x > p} = {}
  BY <1>1
<1>5. {u[j].size : j \in {x \in DOMAIN u : x > p}} = {} /\ \A j \in DOMAIN u : ~(j > p)
  BY <1>4
<1>6. Len(u) = p + Cardinality({})
  BY <1>1, FS_EmptySet
<1> QED
  BY <1>1, <1>2, <1>3, <1>4, <1>5, <1>6 DEF Partial

\* One more answer.
LEMMA MoreLemma ==
  ASSUME NEW s \in Seq(Message), NEW q, NEW i, NEW n \in Nat, NEW T \in SUBSET (1..n),
         Partial(s, q, i, n, T), NEW k \in (1..n) \ T, NEW o, Answered(q, i, k, o) \in Message
  PROVE  Partial(Append(s, Answered(q, i, k, o)), q, i, n, T \union {k})
<1> PICK m : m = Answered(q, i, k, o)
  OBVIOUS
<1>1. m \in Message /\ m.role = "tool" /\ m.turn = <<q, i>> /\ m.size = k
  BY DEF Answered
<1> PICK u : u = Append(s, m)
  OBVIOUS
<1>2. /\ Len(s) \in Nat /\ DOMAIN u = 1..(Len(s) + 1) /\ DOMAIN s = 1..Len(s)
      /\ Len(u) = Len(s) + 1 /\ u[Len(s) + 1] = m /\ \A j \in 1..Len(s) : u[j] = s[j]
  OBVIOUS
<1> PICK p \in DOMAIN s :
    /\ s[p] = Assistant(q, i, n) /\ Called(s)
    /\ \A z \in 1..(p - 1) : Closed(s, z, p - 1)
    /\ \A j \in DOMAIN s : j > p => s[j].role = "tool" /\ s[j].turn = <<q, i>>
    /\ {s[j].size : j \in {x \in DOMAIN s : x > p}} = T
    /\ Len(s) = p + Cardinality(T)
  BY DEF Partial
<1>3. p \in Nat /\ p >= 1 /\ p <= Len(s) /\ p \in DOMAIN u /\ u[p] = Assistant(q, i, n)
  BY <1>2
<1>4. Called(u)
  <2>1. s[p].role = "assistant" /\ s[p].turn = <<q, i>> /\ s[p].size = n /\ k <= n
    BY DEF Assistant
  <2> QED
    BY <1>1, <2>1, CalledLemma
<1>5. ASSUME NEW z \in 1..(p - 1) PROVE Closed(u, z, p - 1)
  <2>1. PICK e : e = p - 1
    OBVIOUS
  <2>2. z \in DOMAIN s /\ Closed(s, z, e) /\ e \in 0..Len(s) /\ e \in Nat /\ e <= e
    BY <1>2, <1>3, <2>1
  <2>3. Closed(Append(s, m), z, e)
    BY <1>1, <2>2, ClosedLemma
  <2> QED
    BY <2>1, <2>3
<1>6. ASSUME NEW j \in DOMAIN u, j > p PROVE u[j].role = "tool" /\ u[j].turn = <<q, i>>
  BY <1>1, <1>2, <1>6
<1>7. {u[j].size : j \in {x \in DOMAIN u : x > p}} = T \union {k}
  <2> DEFINE A == {x \in DOMAIN s : x > p}
  <2>1. {x \in DOMAIN u : x > p} = A \union {Len(s) + 1}
    BY <1>2, <1>3
  <2>2. \A j \in A : u[j].size = s[j].size
    BY <1>2
  <2>3. u[Len(s) + 1].size = k
    BY <1>1, <1>2
  <2>4. {s[j].size : j \in A} = T
    OBVIOUS
  <2> HIDE DEF A
  <2> DEFINE l == Len(s) + 1
  <2> HIDE DEF l
  <2>5. {u[j].size : j \in A \union {l}} = {u[j].size : j \in A} \union {u[l].size}
    OBVIOUS
  <2>6. {u[j].size : j \in A} = {s[j].size : j \in A}
    BY <2>2
  <2> QED
    BY <2>1, <2>3, <2>4, <2>5, <2>6 DEF l
<1>8. Cardinality(T \union {k}) = Cardinality(T) + 1 /\ Cardinality(T) \in Nat
  <2>1. IsFiniteSet(1..n)
    BY FS_Interval
  <2>2. IsFiniteSet(T)
    BY <2>1, FS_Subset
  <2> QED
    BY <2>2, FS_AddElement, FS_CardinalityType
<1>9. Len(u) = p + Cardinality(T \union {k})
  BY <1>2, <1>3, <1>8
<1>10. \A j \in DOMAIN u : j > p => u[j].role = "tool" /\ u[j].turn = <<q, i>>
  BY <1>6
<1>11. /\ u[p] = Assistant(q, i, n) /\ Called(u)
       /\ \A z \in 1..(p - 1) : Closed(u, z, p - 1)
       /\ \A j \in DOMAIN u : j > p => u[j].role = "tool" /\ u[j].turn = <<q, i>>
       /\ {u[j].size : j \in {x \in DOMAIN u : x > p}} = T \union {k}
       /\ Len(u) = p + Cardinality(T \union {k})
  BY ONLY <1>3, <1>4, <1>5, <1>7, <1>9, <1>10
<1>12. p \in DOMAIN u /\ u = Append(s, Answered(q, i, k, o))
  BY <1>3
<1> QED
  BY ONLY <1>11, <1>12 DEF Partial

\* The last one: the list is well-formed again.
LEMMA FullLemma ==
  ASSUME NEW s \in Seq(Message), NEW q, NEW i, NEW n \in Nat, Partial(s, q, i, n, 1..n)
  PROVE  WellFormed(s)
<1> PICK p \in DOMAIN s :
    /\ s[p] = Assistant(q, i, n) /\ Called(s)
    /\ \A z \in 1..(p - 1) : Closed(s, z, p - 1)
    /\ \A j \in DOMAIN s : j > p => s[j].role = "tool" /\ s[j].turn = <<q, i>>
    /\ {s[j].size : j \in {x \in DOMAIN s : x > p}} = 1..n
    /\ Len(s) = p + Cardinality(1..n)
  BY DEF Partial
<1>1. p \in Nat /\ p >= 1 /\ p <= Len(s) /\ Len(s) \in Nat /\ DOMAIN s = 1..Len(s)
  OBVIOUS
<1>2. Len(s) = p + n
  <2>1. Cardinality(1..n) = n
    BY FS_Interval
  <2> QED
    BY <2>1
<1>3. s[p].role = "assistant" /\ s[p].turn = <<q, i>> /\ s[p].size = n
  BY DEF Assistant
<1>4. Closed(s, p, Len(s))
  <2> DEFINE B == {j \in DOMAIN s : p < j /\ j <= p + n}
             A == {x \in DOMAIN s : x > p}
  <2>1. A = B
    BY <1>1, <1>2
  <2>2. {s[j].size : j \in B} = 1..n
    BY <2>1
  <2>3. \A j \in B : s[j].role = "tool" /\ s[j].turn = s[p].turn
    BY <1>1, <1>3
  <2>4. p + n <= Len(s)
    BY <1>1, <1>2
  <2> QED
    BY <1>3, <2>2, <2>3, <2>4 DEF Closed
<1>5. \A z \in 1..(p - 1) : Closed(s, z, Len(s))
  <2>1. p - 1 \in 0..Len(s) /\ p - 1 <= Len(s) /\ \A z \in 1..(p - 1) : z \in DOMAIN s
    BY <1>1
  <2>2. s[p] \in Message
    OBVIOUS
  <2> QED
    BY <1>1, <2>1, <2>2, ClosedLemma
<1>6. \A z \in DOMAIN s : z > p => Closed(s, z, Len(s))
  <2>1. \A z \in DOMAIN s : z > p => s[z].role # "assistant"
    OBVIOUS
  <2> QED
    BY <2>1 DEF Closed
<1>7. \A z \in DOMAIN s : Closed(s, z, Len(s))
  BY <1>1, <1>4, <1>5, <1>6
<1> QED
  BY <1>7, CompleteLemma DEF WellFormed

LEMMA CompactedLemma ==
  ASSUME NEW q \in Question, NEW i \in Step
  PROVE  CompactedList(q, i) \in Seq(Message) /\ WellFormed(CompactedList(q, i))
<1> PICK l : l = CompactedList(q, i)
  OBVIOUS
<1>1. 0 \in Width /\ 0 \in Step
  BY BoundsAssumption, LimitsAssumption DEF Width, Step
<1>2. User(q) \in Message /\ Assistant(q, i, 0) \in Message /\ Notice(q, i) \in Message
  BY <1>1, MessageLemma DEF Outcome
<1>3. l = <<User(q), Assistant(q, i, 0), Notice(q, i)>>
  BY DEF CompactedList
<1>4. l \in Seq(Message) /\ Len(l) = 3 /\ DOMAIN l = 1..3
  BY <1>2, <1>3
<1>5. \A j \in DOMAIN l : l[j].role # "tool" /\ l[j].size = 0
  BY <1>3, <1>4 DEF User, Assistant, Notice
<1>6. ASSUME NEW j \in DOMAIN l PROVE Closed(l, j, Len(l))
  <2> DEFINE B == {x \in DOMAIN l : j < x /\ x <= j + l[j].size}
  <2>1. l[j].size = 0 /\ B = {} /\ j + l[j].size <= Len(l)
    BY <1>4, <1>5
  <2>2. {l[x].size : x \in B} = {} /\ 1..l[j].size = {}
    BY <2>1
  <2> QED
    BY <2>1, <2>2 DEF Closed
<1>7. Called(l)
  BY <1>5 DEF Called
<1> QED
  BY <1>4, <1>6, <1>7, CompleteLemma DEF WellFormed
-----------------------------------------------------------------------------
Taken(w) == {k \in DOMAIN w : w[k].state = "taken"}

\* The list of question q: complete before the LLM gets it, and lacking in a batch what is
\* not taken yet.  Without an exception only an interrupted thread leaves its batch.
ThreadLists(q) ==
  /\ thread[q].pc \in {"step", "llm"} => WellFormed(heap[thread[q].list])
  /\ thread[q].pc \in Batch =>
       Partial(heap[thread[q].list], q, thread[q].step, Len(worker[q]), Taken(worker[q]))
  /\ thread[q].pc = "drain" => ~(main.pc = "waiting" /\ main.q = q)
  /\ \A k \in DOMAIN worker[q] : worker[q][k].state # "raised"

\* The terminal's lists: what it has or will go back to, and what the thread it waits for
\* has left; while that thread runs, its list may be incomplete.
MainLists ==
  /\ main.pc = "prompt" /\ main.list # 0 => WellFormed(heap[main.list])
  /\ main.pc \in {"waiting", "escaped"} => WellFormed(heap[main.snapshot])
  /\ main.pc = "waiting" /\ Alive(main.q) =>
       thread[main.q].list = main.list \/ WellFormed(heap[main.list])
  /\ main.pc = "waiting" /\ ~Alive(main.q) =>
       /\ WellFormed(heap[main.list])
       /\ thread[main.q].end = "answer" =>
            thread[main.q].list # 0 /\ WellFormed(heap[thread[main.q].list])

ListsOK == budget.aborts = 0 => MainLists /\ \A q \in Question : ThreadLists(q)

LEMMA ListsInit == Init => ListsOK
<1> SUFFICES ASSUME Init PROVE MainLists /\ \A q \in Question : ThreadLists(q)
  BY DEF ListsOK
<1>1. /\ main.pc = "prompt" /\ main.list = 0
      /\ \A q \in Question : thread[q] = Idle /\ worker[q] = <<>>
  BY DEF Init
<1>2. MainLists
  BY <1>1 DEF MainLists
<1> QED
  BY <1>1, <1>2, IdleLemma DEF ThreadLists, Batch, Asking

\* Only its own list is written to by a thread.
LEMMA KeepsList ==
  ASSUME IInv, NEW q \in Question, CallShape(q), NEW r \in 1..Len(heap), r # thread[q].list
  PROVE  heap'[r] = heap[r]
BY DEF CallShape, WorldShape

LEMMA OthersLists ==
  ASSUME IInv, OwnedOK, NEW q \in Question, CallShape(q), NEW z \in Question, z # q, ThreadLists(z)
  PROVE  ThreadLists(z)'
<1>1. thread'[z] = thread[z] /\ worker'[z] = worker[z]
  BY OthersLemma
<1>2. main' = main /\ Alive(q)
  BY DEF CallShape, WorldShape
<1>3. ASSUME Alive(z) PROVE heap'[thread[z].list] = heap[thread[z].list]
  <2>1. thread[z].list \in 1..Len(heap)
    BY <1>3, BusyLemma
  <2>2. thread[z].list # thread[q].list
    BY <1>2, <1>3 DEF OwnedOK, Separate
  <2> QED
    BY <2>1, <2>2, KeepsList
<1>4. thread[z].pc \in {"step", "llm"} \union Batch => Alive(z)
  BY DEF Alive, Batch, Asking
<1>5. thread[z].pc \in {"step", "llm"} => WellFormed(heap'[thread'[z].list])
  BY <1>1, <1>3, <1>4 DEF ThreadLists
<1>6. thread[z].pc \in Batch =>
        Partial(heap'[thread'[z].list], z, thread'[z].step, Len(worker'[z]), Taken(worker'[z]))
  BY <1>1, <1>3, <1>4 DEF ThreadLists
<1> QED
  BY <1>1, <1>2, <1>5, <1>6 DEF ThreadLists

LEMMA OwnLists ==
  ASSUME IInv, NEW q \in Question, CallShape(q), Kinded(q), ThreadLists(q), budget'.aborts = 0
  PROVE  ThreadLists(q)'
<1>1. main' = main /\ heap \in Seq(Seq(Message)) /\ worker[q] \in Seq(Worker) /\ thread[q] \in Thread
  BY PartsLemma DEF CallShape, WorldShape
<1>2. CASE Ending(q)
  BY <1>2 DEF Ending, ThreadLists, Batch, Asking
<1>3. CASE Sending(q)
  <2>1. thread[q].pc = "step" /\ thread'[q].pc = "llm" /\ worker'[q] = <<>>
    BY <1>3 DEF Sending
  <2>2. WellFormed(heap'[thread'[q].list])
    <3>1. WellFormed(heap[thread[q].list])
      BY <2>1 DEF ThreadLists
    <3>2. PICK i : i = thread[q].step
      OBVIOUS
    <3>3. i \in Step
      BY <1>1, <3>2 DEF Thread
    <3>4. CASE heap' = Append(heap, CompactedList(q, i)) /\ thread'[q].list = Len(heap) + 1
      <4>1. heap'[thread'[q].list] = CompactedList(q, i)
        BY <1>1, <3>3, <3>4, CompactedLemma, AppendLemma
      <4> QED
        BY <3>3, <4>1, CompactedLemma
    <3> QED
      BY <1>3, <3>1, <3>2, <3>4 DEF Sending
  <2> QED
    BY <2>1, <2>2 DEF ThreadLists, Batch, Asking
<1>4. CASE Requesting(q)
  <2>1. /\ thread[q].pc = "llm" /\ thread'[q].pc = "collect" /\ thread'[q].step = thread[q].step
        /\ thread'[q].list = thread[q].list
        /\ \A k \in DOMAIN worker'[q] : worker'[q][k].state = "queued"
    BY <1>4 DEF Requesting
  <2>2. PICK i, n, l : i = thread[q].step /\ n = Len(worker'[q]) /\ l = heap[thread[q].list]
    OBVIOUS
  <2>3. Extended(q, Assistant(q, i, n))
    BY <1>4, <2>2 DEF Requesting
  <2>4. l \in Seq(Message) /\ Assistant(q, i, n) \in Message /\ heap'[thread'[q].list] = Append(l, Assistant(q, i, n))
    BY <2>1, <2>2, <2>3 DEF Extended
  <2>5. WellFormed(l)
    BY <2>1, <2>2 DEF ThreadLists
  <2>6. Partial(heap'[thread'[q].list], q, i, n, {})
    BY <2>4, <2>5, RequestLemma
  <2>7. Taken(worker'[q]) = {}
    BY <2>1 DEF Taken
  <2>8. Partial(heap'[thread'[q].list], q, thread'[q].step, Len(worker'[q]), Taken(worker'[q]))
    BY <2>1, <2>2, <2>6, <2>7
  <2> QED
    BY <2>1, <2>8 DEF ThreadLists
<1>5. CASE Staying(q)
  <2>1. /\ thread[q].pc \in Working /\ thread'[q].pc \in Working /\ thread'[q].step = thread[q].step
        /\ thread'[q].list = thread[q].list /\ heap' = heap
        /\ worker'[q] \in Seq(Worker) /\ Len(worker'[q]) = Len(worker[q])
        /\ thread[q].pc = "drain" => thread'[q].pc = "drain"
    BY <1>5 DEF Staying
  <2>2. DOMAIN worker'[q] = DOMAIN worker[q]
    BY <1>1, <2>1
  <2>3. Taken(worker'[q]) = Taken(worker[q])
    BY <1>5, <2>2 DEF Staying, Taken
  <2>4. \A k \in DOMAIN worker[q] : worker[q][k].state # "raised"
    BY DEF ThreadLists
  <2>5. \A k \in DOMAIN worker'[q] : worker'[q][k].state # "raised"
    BY <1>5, <2>2, <2>4 DEF Staying
  <2>6. thread'[q].pc = "drain" => ~(main.pc = "waiting" /\ main.q = q)
    <3>1. thread'[q].pc = "drain" => thread[q].pc = "drain" \/ thread[q].cancel
      BY <1>5, <2>4 DEF Staying
    <3>2. thread[q].cancel => ~(main.pc = "waiting" /\ main.q = q)
      BY DEF IInv, MainOK
    <3> QED
      BY <3>1, <3>2 DEF ThreadLists
  <2>7. thread'[q].pc \in Batch =>
          Partial(heap'[thread'[q].list], q, thread'[q].step, Len(worker'[q]), Taken(worker'[q]))
    <3>1. thread'[q].pc \in Batch => thread[q].pc \in Batch
      BY <2>1 DEF Working, Batch, Asking
    <3> QED
      BY <2>1, <2>3, <3>1 DEF ThreadLists
  <2>8. thread'[q].pc \notin {"step", "llm"}
    BY <2>1 DEF Working, Batch, Asking
  <2> QED
    BY <1>1, <2>5, <2>6, <2>7, <2>8 DEF ThreadLists
<1>6. ASSUME NEW k, NEW o, Takes(q, k, o) PROVE ThreadLists(q)'
  <2>1. PICK i, w, l : i = thread[q].step /\ w = worker[q] /\ l = heap[thread[q].list]
    OBVIOUS
  <2>2. /\ thread[q].pc \in Batch /\ k \in DOMAIN w /\ w[k].state # "taken"
        /\ Extended(q, Answered(q, i, k, o))
    BY <1>6, <2>1 DEF Takes, Outcome
  <2>3. Len(w) \in Nat /\ DOMAIN w = 1..Len(w) /\ Taken(w) \in SUBSET (1..Len(w)) /\ k \in (1..Len(w)) \ Taken(w)
    BY <1>1, <2>1, <2>2 DEF Taken
  <2>4. Partial(l, q, i, Len(w), Taken(w))
    BY <2>1, <2>2 DEF ThreadLists
  <2>5. thread'[q].step = i /\ thread'[q].list = thread[q].list
    BY <1>6, <2>1, TakingLemma
  <2>6. /\ l \in Seq(Message) /\ Answered(q, i, k, o) \in Message
        /\ heap'[thread'[q].list] = Append(l, Answered(q, i, k, o))
    BY <2>1, <2>2, <2>5 DEF Extended
  <2>7. Partial(heap'[thread'[q].list], q, i, Len(w), Taken(w) \union {k})
    BY <2>3, <2>4, <2>6, MoreLemma
  <2>8. CASE thread'[q].pc = "step"
    <3>1. worker'[q] = <<>> /\ BatchOver(q, k)
      BY <1>6, <2>8, TakingLemma
    <3>2. Taken(w) \union {k} = 1..Len(w)
      BY <2>1, <2>3, <3>1 DEF BatchOver, Taken
    <3>3. WellFormed(heap'[thread'[q].list])
      <4>1. heap'[thread'[q].list] \in Seq(Message)
        BY <2>6
      <4> QED
        BY <2>3, <2>7, <3>2, <4>1, FullLemma
    <3> QED
      BY <2>8, <3>1, <3>3 DEF ThreadLists, Batch, Asking
  <2>9. CASE thread'[q].pc = "collect"
    <3>1. /\ worker'[q] \in Seq(Worker) /\ DOMAIN worker'[q] = DOMAIN w /\ Len(worker'[q]) = Len(w)
          /\ worker'[q][k].state = "taken" /\ \A j \in DOMAIN w : j # k => worker'[q][j] = w[j]
      BY <1>6, <2>1, <2>9, TakingLemma
    <3>2. Taken(worker'[q]) = Taken(w) \union {k}
      BY <2>2, <3>1 DEF Taken
    <3>3. Partial(heap'[thread'[q].list], q, thread'[q].step, Len(worker'[q]), Taken(worker'[q]))
      BY <2>5, <2>7, <3>1, <3>2
    <3>4. \A j \in DOMAIN worker'[q] : worker'[q][j].state # "raised"
      BY <2>1, <3>1 DEF ThreadLists
    <3> QED
      BY <2>9, <3>3, <3>4 DEF ThreadLists
  <2> QED
    BY <1>6, <2>8, <2>9, TakingLemma
<1> QED
  BY <1>2, <1>3, <1>4, <1>5, <1>6 DEF Kinded

\* The thread that the terminal waits for ends: it has had nothing left to take.
LEMMA EndLists ==
  ASSUME IInv, OwnedOK, NEW q \in Question, CallShape(q), Ending(q), ThreadLists(q), MainLists,
         main.pc = "waiting", main.q = q
  PROVE  /\ WellFormed(heap'[main.list])
         /\ thread'[q].end = "answer" => thread'[q].list # 0 /\ WellFormed(heap'[thread'[q].list])
<1>1. Alive(q) /\ thread[q].pc \in {"step", "llm"} /\ thread'[q].list = thread[q].list
  BY DEF Ending, ThreadLists, CallShape, WorldShape
<1> PICK r, l : r = thread[q].list /\ l = heap[r]
  OBVIOUS
<1>2. r \in 1..Len(heap) /\ l \in Seq(Message) /\ r # 0 /\ WellFormed(l)
  BY <1>1, BusyLemma DEF ThreadLists
<1>3. main.list \in 1..Len(heap)
  BY PartsLemma DEF IInv, MainOK, MainSet
<1>4. main.list = r \/ (WellFormed(heap[main.list]) /\ heap'[main.list] = heap[main.list])
  BY <1>1, <1>3, KeepsList DEF MainLists
<1>5. CASE heap' = heap /\ (thread'[q].end = "answer" => thread[q].pc = "drain")
  BY <1>1, <1>2, <1>4, <1>5
<1>6. CASE Extended(q, Assistant(q, thread[q].step, 0))
  <2>1. PICK m : m = Assistant(q, thread[q].step, 0)
    OBVIOUS
  <2>2. m \in Message /\ m.role # "tool" /\ m.size = 0 /\ heap'[r] = Append(l, m)
    BY <1>6, <2>1 DEF Extended, Assistant
  <2>3. WellFormed(heap'[r])
    BY <1>2, <2>2, PlainLemma
  <2> QED
    BY <1>1, <1>2, <1>4, <2>3
<1> QED
  BY <1>5, <1>6 DEF Ending

LEMMA MainListsCall ==
  ASSUME IInv, OwnedOK, NEW q \in Question, CallShape(q), Kinded(q), ThreadLists(q), MainLists
  PROVE  MainLists'
<1>1. main' = main /\ Alive(q) /\ thread[q].list \in 1..Len(heap) /\ heap \in Seq(Seq(Message))
  BY BusyLemma, PartsLemma DEF CallShape, WorldShape
<1>2. main.list \in Nat /\ main.list <= Len(heap) /\ main.snapshot \in Nat /\ main.snapshot <= Len(heap)
      /\ Len(heap) \in Nat
  BY PartsLemma DEF MainSet
<1>3. ASSUME main.pc = "prompt", main.list # 0 PROVE WellFormed(heap'[main.list])
  <2>1. main.list \in 1..Len(heap) /\ main.list # thread[q].list
    BY <1>1, <1>2, <1>3 DEF OwnedOK
  <2> QED
    BY <1>3, <2>1, KeepsList DEF MainLists
<1>4. ASSUME main.pc \in {"waiting", "escaped"} PROVE WellFormed(heap'[main.snapshot])
  <2>1. main.snapshot \in 1..Len(heap) /\ main.snapshot # thread[q].list
    BY <1>1, <1>2, <1>4 DEF OwnedOK, IInv, MainOK
  <2> QED
    BY <1>4, <2>1, KeepsList DEF MainLists
<1>5. ASSUME main.pc = "waiting"
      PROVE  /\ main.q \in Question /\ main.list \in 1..Len(heap)
             /\ q # main.q => main.list # thread[q].list /\ thread'[main.q] = thread[main.q]
                              /\ (Alive(main.q)' <=> Alive(main.q))
  <2>1. main.q \in Question /\ main.list \in 1..Len(heap)
    BY <1>2, <1>5, PartsLemma DEF IInv, MainOK, MainSet
  <2>2. q # main.q => main.list # thread[q].list
    BY <1>1, <1>5 DEF OwnedOK
  <2>3. PICK z : z = main.q
    OBVIOUS
  <2>4. q # z => thread'[z] = thread[z]
    BY <2>1, <2>3, OthersLemma
  <2>5. q # z => (Alive(z)' <=> Alive(z))
    BY <2>4 DEF Alive
  <2> QED
    BY <1>1, <2>1, <2>2, <2>3, <2>4, <2>5 DEF Alive
<1>6. ASSUME main.pc = "waiting", Alive(main.q)'
      PROVE  thread'[main.q].list = main.list \/ WellFormed(heap'[main.list])
  <2>1. CASE main.list # thread[q].list
    <3>1. heap'[main.list] = heap[main.list]
      BY <1>5, <1>6, <2>1, KeepsList
    <3>2. q = main.q \/ (thread'[main.q] = thread[main.q] /\ Alive(main.q))
      BY <1>5, <1>6
    <3> QED
      BY <1>1, <1>6, <2>1, <3>1, <3>2 DEF MainLists
  <2>2. CASE main.list = thread[q].list /\ thread'[q].list = thread[q].list
    BY <1>5, <1>6, <2>2
  <2>3. CASE main.list = thread[q].list /\ thread'[q].list # thread[q].list
    <3>1. ~Ending(q) /\ ~Requesting(q) /\ ~Staying(q)
      BY <2>3 DEF Ending, Requesting, Staying
    <3>2. \A k, o : ~Takes(q, k, o)
      BY <2>3, TakingLemma
    <3>3. Sending(q)
      BY <3>1, <3>2 DEF Kinded
    <3>4. thread[q].pc = "step" /\ heap' = Append(heap, CompactedList(q, thread[q].step))
      BY <2>3, <3>3 DEF Sending
    <3>5. heap'[main.list] = heap[main.list]
      BY <1>1, <1>2, <2>3, <3>4
    <3> QED
      BY <2>3, <3>4, <3>5 DEF ThreadLists
  <2> QED
    BY <2>1, <2>2, <2>3
<1>7. ASSUME main.pc = "waiting", ~Alive(main.q)'
      PROVE  /\ WellFormed(heap'[main.list])
             /\ thread'[main.q].end = "answer" =>
                  thread'[main.q].list # 0 /\ WellFormed(heap'[thread'[main.q].list])
  <2>1. CASE q = main.q
    <3>1. thread'[q].pc \in {"idle", "done"}
      BY <1>1, <1>7, <2>1 DEF Alive
    <3>2. Ending(q)
      BY <3>1, TakingLemma DEF Kinded, Sending, Requesting, Staying, Working, Batch, Asking
    <3> QED
      BY <1>7, <2>1, <3>2, EndLists
  <2>2. CASE q # main.q
    <3>1. PICK z : z = main.q
      OBVIOUS
    <3>2. /\ z \in Question /\ ~Alive(z) /\ thread'[z] = thread[z]
          /\ main.list \in 1..Len(heap) /\ main.list # thread[q].list
      BY <1>5, <1>7, <2>2, <3>1
    <3>3. heap'[main.list] = heap[main.list] /\ WellFormed(heap[main.list])
      BY <1>7, <3>1, <3>2, KeepsList DEF MainLists
    <3>4. ASSUME thread[z].end = "answer" PROVE thread[z].list # 0 /\ WellFormed(heap'[thread[z].list])
      <4>1. thread[z].list # 0 /\ WellFormed(heap[thread[z].list])
        BY <1>7, <3>1, <3>2, <3>4 DEF MainLists
      <4>2. thread[z].list \in 1..Len(heap)
        BY <1>2, <3>2, <4>1, PartsLemma
      <4>3. thread[z].list # thread[q].list
        BY <1>1, <1>7, <2>2, <3>1, <3>2 DEF OwnedOK, Separate
      <4> QED
        BY <4>1, <4>2, <4>3, KeepsList
    <3> QED
      BY <3>1, <3>2, <3>3, <3>4
  <2> QED
    BY <2>1, <2>2
<1> QED
  BY <1>1, <1>3, <1>4, <1>6, <1>7 DEF MainLists

LEMMA ListsCall ==
  ASSUME IInv, OwnedOK, TruthOK, ListsOK, NEW q \in Question, Call(q) \/ Tool(q)
  PROVE  ListsOK'
<1>1. CallShape(q) /\ Results(q)
  BY CallStep DEF TruthOK
<1>2. Kinded(q)
  BY <1>1, CallKind DEF Results
<1>3. budget'.aborts = 0 => budget.aborts = 0
  BY <1>2 DEF Kinded, Ending, Sending, Requesting, Staying, Takes, Unmoved
<1>4. ASSUME budget'.aborts = 0 PROVE MainLists' /\ \A z \in Question : ThreadLists(z)'
  <2>1. MainLists /\ \A z \in Question : ThreadLists(z)
    BY <1>3, <1>4 DEF ListsOK
  <2>2. ThreadLists(q)'
    BY <1>1, <1>2, <1>4, <2>1, OwnLists
  <2>3. \A z \in Question : z # q => ThreadLists(z)'
    BY <1>1, <2>1, OthersLists
  <2>4. MainLists'
    BY <1>1, <1>2, <2>1, MainListsCall
  <2> QED
    BY <2>2, <2>3, <2>4
<1> QED
  BY <1>4 DEF ListsOK

LEMMA ListsAsk == ASSUME IInv, OwnedOK, ListsOK, Ask PROVE ListsOK'
<1> PICK q, n, r, list : AskShape(q, n, r, list)
  BY AskLemma
<1>1. /\ q = main.q + 1 /\ q \in Question /\ main.pc = "prompt" /\ worker[q] = <<>>
      /\ n.pc = "step" /\ n.list = r /\ worker' = worker /\ budget' = budget
      /\ list = IF main.list = 0 THEN <<User(q)>> ELSE Append(heap[main.list], User(q))
      /\ r = IF main.list = 0 THEN Len(heap) + 1 ELSE main.list
      /\ heap'[r] = list /\ heap'[Len(heap')] = list
      /\ \A z \in 1..Len(heap) : z # r => heap'[z] = heap[z]
  BY DEF AskShape
<1>2. thread'[q] = n /\ \A z \in Question : z # q => thread'[z] = thread[z]
  BY PartsLemma DEF AskShape
<1>3. main'.pc = "waiting" /\ main'.list = r /\ main'.q = q /\ main'.snapshot = Len(heap')
  BY DEF AskShape
<1>4. main.list \in Nat /\ main.list <= Len(heap) /\ Len(heap) \in Nat /\ heap \in Seq(Seq(Message))
  BY PartsLemma DEF MainSet
<1> SUFFICES ASSUME budget.aborts = 0 PROVE MainLists' /\ \A z \in Question : ThreadLists(z)'
  BY <1>1 DEF ListsOK
<1>5. MainLists /\ \A z \in Question : ThreadLists(z)
  BY DEF ListsOK
<1>6. WellFormed(list)
  <2>1. PICK m : m = User(q)
    OBVIOUS
  <2>2. m.role # "tool" /\ m.size = 0
    BY <2>1 DEF User
  <2>3. m \in Message
    <3>1. 0 \in Step /\ 0 \in Width /\ "ok" \in Outcome
      BY LimitsAssumption, BoundsAssumption DEF Step, Width, Outcome
    <3> QED
      BY <1>1, <2>1, <3>1, MessageLemma
  <2>4. CASE main.list = 0
    <3>1. PICK e : e = <<>>
      OBVIOUS
    <3>2. e \in Seq(Message) /\ WellFormed(e)
      BY <3>1 DEF WellFormed, Complete, Called
    <3>3. list = Append(e, m)
      BY <1>1, <2>1, <2>4, <3>1
    <3> QED
      BY <2>2, <2>3, <3>2, <3>3, PlainLemma
  <2>5. CASE main.list # 0
    <3>1. PICK e : e = heap[main.list]
      OBVIOUS
    <3>2. e \in Seq(Message) /\ WellFormed(e)
      BY <1>1, <1>4, <1>5, <2>5, <3>1 DEF MainLists
    <3>3. list = Append(e, m)
      BY <1>1, <2>1, <2>5, <3>1
    <3> QED
      BY <2>2, <2>3, <3>2, <3>3, PlainLemma
  <2> QED
    BY <2>4, <2>5
<1>7. WellFormed(heap'[r]) /\ WellFormed(heap'[Len(heap')])
  BY <1>1, <1>6
<1>8. MainLists'
  BY <1>1, <1>2, <1>3, <1>7 DEF MainLists
<1>9. ASSUME NEW z \in Question PROVE ThreadLists(z)'
  <2>1. CASE z = q
    BY <1>1, <1>2, <1>7, <2>1 DEF ThreadLists, Batch, Asking
  <2>2. CASE z # q
    <3>1. thread'[z] = thread[z] /\ worker'[z] = worker[z] /\ ThreadLists(z)
      BY <1>1, <1>2, <1>5, <2>2
    <3>2. ASSUME Alive(z) PROVE heap'[thread[z].list] = heap[thread[z].list]
      <4>1. thread[z].list \in 1..Len(heap)
        BY <3>2, BusyLemma
      <4>2. thread[z].list # main.list
        BY <1>1, <3>2 DEF OwnedOK
      <4>3. thread[z].list # r
        BY <1>1, <1>4, <4>1, <4>2
      <4> QED
        BY <1>1, <4>1, <4>3
    <3>3. thread[z].pc \in {"step", "llm"} \union Batch => Alive(z)
      BY DEF Alive, Batch, Asking
    <3>4. thread[z].pc \in {"step", "llm"} => WellFormed(heap'[thread[z].list])
      BY <3>1, <3>2, <3>3 DEF ThreadLists
    <3>5. thread[z].pc \in Batch =>
            Partial(heap'[thread[z].list], z, thread[z].step, Len(worker[z]), Taken(worker[z]))
      BY <3>1, <3>2, <3>3 DEF ThreadLists
    <3> QED
      BY <1>3, <2>2, <3>1, <3>4, <3>5 DEF ThreadLists
  <2> QED
    BY <2>1, <2>2
<1> QED
  BY <1>8, <1>9

LEMMA ListsTerminal ==
  ASSUME IInv, ListsOK, Escape \/ Rollback \/ Finish \/ Clear
  PROVE  ListsOK'
<1>1. UNCHANGED <<heap, worker, budget>> /\ main \in MainSet
  BY PartsLemma DEF Escape, Rollback, Finish, Clear
<1>2. main'.q = main.q
  BY TerminalQuestion
<1> SUFFICES ASSUME budget.aborts = 0 PROVE MainLists' /\ \A z \in Question : ThreadLists(z)'
  BY <1>1 DEF ListsOK
<1>3. MainLists /\ \A z \in Question : ThreadLists(z)
  BY DEF ListsOK
<1>4. main'.pc # "waiting"
  BY <1>1 DEF Escape, Rollback, Finish, Clear, MainSet
<1>5. \A z \in Question :
        thread'[z].pc = thread[z].pc /\ thread'[z].step = thread[z].step /\ thread'[z].list = thread[z].list
  <2>1. CASE Escape
    <3>1. main.q \in Question /\ thread \in [Question -> Thread]
      BY <2>1, PartsLemma DEF Escape, IInv, MainOK, MainSet
    <3>2. PICK n : n = [thread[main.q] EXCEPT !.cancel = TRUE]
      OBVIOUS
    <3>3. n.pc = thread[main.q].pc /\ n.step = thread[main.q].step /\ n.list = thread[main.q].list
      BY <3>1, <3>2 DEF Thread
    <3>4. thread' = [thread EXCEPT ![main.q] = n]
      BY <2>1, <3>2 DEF Escape, Goto
    <3> QED
      BY <3>1, <3>3, <3>4
  <2>2. CASE Rollback \/ Finish \/ Clear
    BY <2>2 DEF Rollback, Finish, Clear
  <2> QED
    BY <2>1, <2>2
<1>6. ASSUME NEW z \in Question PROVE ThreadLists(z)'
  <2>1. ThreadLists(z)
    BY <1>3
  <2> QED
    BY <1>1, <1>4, <1>5, <2>1 DEF ThreadLists
<1>7. main'.pc \in {"waiting", "escaped"} => WellFormed(heap[main'.snapshot])
  <2>1. CASE Escape
    <3>1. main.pc = "waiting" /\ main' = [main EXCEPT !.pc = "escaped"]
      BY <2>1 DEF Escape
    <3>2. main'.snapshot = main.snapshot
      BY <1>1, <3>1 DEF MainSet
    <3> QED
      BY <1>3, <3>1, <3>2 DEF MainLists
  <2>2. CASE Rollback \/ Finish \/ Clear
    <3>1. main'.pc \in {"prompt", "exited"}
      BY <1>1, <2>2 DEF Rollback, Finish, Clear, MainSet
    <3> QED
      BY <3>1
  <2> QED
    BY <2>1, <2>2
<1>8. ASSUME main'.pc = "prompt", main'.list # 0 PROVE WellFormed(heap[main'.list])
  <2>1. CASE Escape
    BY <1>1, <1>8, <2>1 DEF Escape, MainSet
  <2>2. CASE Rollback
    <3>1. main.pc = "escaped" /\ main'.list = main.snapshot
      BY <1>1, <2>2 DEF Rollback, MainSet
    <3> QED
      BY <1>3, <3>1 DEF MainLists
  <2>3. CASE Finish
    <3>1. PICK t : t = thread[main.q]
      OBVIOUS
    <3>2. main.pc = "waiting" /\ ~Alive(main.q)
      BY <2>3 DEF Finish
    <3>3. main'.list = IF t.end = "answer" THEN t.list ELSE main.list
      BY <1>1, <2>3, <3>1 DEF Finish, MainSet
    <3> QED
      BY <1>3, <3>1, <3>2, <3>3 DEF MainLists
  <2>4. CASE Clear
    BY <1>1, <1>8, <2>4 DEF Clear, MainSet
  <2> QED
    BY <2>1, <2>2, <2>3, <2>4
<1>9. MainLists'
  BY <1>1, <1>4, <1>7, <1>8 DEF MainLists
<1> QED
  BY <1>6, <1>9

LEMMA ListsNext == IInv /\ OwnedOK /\ TruthOK /\ ListsOK /\ [Next]_vars => ListsOK'
<1> SUFFICES ASSUME IInv, OwnedOK, TruthOK, ListsOK, [Next]_vars PROVE ListsOK'
  OBVIOUS
<1>1. CASE UNCHANGED vars
  BY <1>1 DEF vars, ListsOK, MainLists, ThreadLists, Alive
<1> QED
  BY <1>1, ListsAsk, ListsTerminal, ListsCall DEF Next, Terminal

\* As long as no exception leaves a batch halfway, what the LLM gets has after each message
\* with tool calls one answer to each of them, whatever was interrupted, denied, compacted
\* or failed before, and whichever threads still run.
THEOREM LLMGetsWellFormed == Spec => []SentWellFormedUnlessAborted
<1>1. Init => IInv /\ OwnedOK /\ TruthOK /\ ListsOK
  BY InitInv, OwnedInit, TruthInit, ListsInit
<1>2. IInv /\ OwnedOK /\ TruthOK /\ ListsOK /\ [Next]_vars => (IInv /\ OwnedOK /\ TruthOK /\ ListsOK)'
  BY NextInv, OwnedNext, TruthNext, ListsNext
<1>3. ListsOK => SentWellFormedUnlessAborted
  BY DEF ListsOK, ThreadLists, SentWellFormedUnlessAborted, SentWellFormed
<1> QED
  BY <1>1, <1>2, <1>3, PTL DEF Spec
=============================================================================
