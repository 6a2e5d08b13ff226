-------------------------- MODULE ToolResults_proofs ------------------------
(***************************************************************************)
(* Proofs about ToolResults, for any number of calls, filters, exchanges   *)
(* and replies, and about ContextWindow, for any window and sizes.         *)
(*                                                                         *)
(* First: a call does not run twice while its result is in the             *)
(* conversation.  The safeguards of a call look at the results there are   *)
(* when its thread starts.  All calls of earlier batches have been         *)
(* collected by then, so what is missing can only come from its own batch, *)
(* and nothing that was taken away comes back.                             *)
(*                                                                         *)
(* Then: what the tools return is true, but for the tools that are listed. *)
(* Each of the operators the tools are built from keeps a result honest;   *)
(* a lemma for each toolset puts them together, and what wraps a tool on   *)
(* the way to the conversation keeps it.                                   *)
(*                                                                         *)
(* Last, about ContextWindow: the sums of sizes and the shares of results  *)
(* are folds, of which induction over numbers and sets, by a smallest      *)
(* counterexample, shows what they add up to; with the prompts kept, the   *)
(* conversation that is sent fits the window.                              *)
(***************************************************************************)
EXTENDS ToolResults, ContextWindow, TLAPS, FiniteSetTheorems, WellFoundedInduction

Stage == {"queued", "cleared", "asking", "ended", "collected"}

\* The calls there can be when R has what the tools return.
CallOf(R) ==
  [args : Args, batch : Nat, stage : Stage, refused : BOOLEAN, ran : R,
   remembered : BOOLEAN, result : R]

Typed ==
  /\ \E R : calls \in Seq(CallOf(R))
  /\ batch \in Nat
  /\ tool_calls \subseteq DOMAIN calls
  /\ messages = tool_calls

\* The safeguards let it pass.
Passed(c) == c.stage # "queued" /\ ~c.refused

\* What holds of each call, and of a call and a later one.
CallOK(c) ==
  /\ c.batch <= batch
  /\ c.stage # "collected" => c.batch = batch
  /\ c.ran => Passed(c)
  /\ c.remembered \/ tool \in Forgetful
  /\ c.stage \in {"cleared", "asking"} => ~c.refused

CallsOK == \A i \in DOMAIN calls : CallOK(calls[i])

NotRepeated ==
  tool \notin Forgetful =>
    \A i, j \in DOMAIN calls :
      calls[i].batch < calls[j].batch /\ calls[i].args = calls[j].args /\ Passed(calls[j]) =>
        i \notin tool_calls

IInv ==
  /\ Typed
  /\ \A i \in tool_calls : calls[i].stage = "collected"
  /\ CallsOK
  /\ NotRepeated
-----------------------------------------------------------------------------
LEMMA InitLemma == Init => IInv
<1> SUFFICES ASSUME Init PROVE IInv
  OBVIOUS
<1>1. calls = <<>> /\ tool_calls = {} /\ messages = {} /\ batch = 0
  BY DEF Init
<1>2. calls \in Seq(CallOf({})) /\ DOMAIN calls = {}
  BY <1>1
<1>3. Typed
  BY <1>1, <1>2 DEF Typed
<1> QED
  BY <1>1, <1>2, <1>3 DEF IInv, CallsOK, NotRepeated

\* A call becomes d, for whatever set d comes from.
LEMMA TypedLemma ==
  ASSUME NEW R, NEW i \in DOMAIN calls, NEW d, d \in CallOf(R), calls' = [calls EXCEPT ![i] = d], Typed
  PROVE  /\ \E S : calls' \in Seq(CallOf(S))
         /\ DOMAIN calls' = DOMAIN calls /\ calls'[i] = d
         /\ \A k \in DOMAIN calls \ {i} : calls'[k] = calls[k]
<1>1. PICK Q : calls \in Seq(CallOf(Q))
  BY DEF Typed
<1>2. PICK S : S = Q \union R
  OBVIOUS
<1>3. \A c : c \in CallOf(Q) \/ c \in CallOf(R) => c \in CallOf(S)
  BY <1>2 DEF CallOf
<1>4. \A k \in 1..Len(calls) : calls[k] \in CallOf(S)
  BY <1>1, <1>3
<1>5. calls' \in Seq(CallOf(S))
  BY <1>1, <1>3, <1>4
<1> QED
  BY <1>1, <1>5

\* A step of one call that is not yet collected: it becomes d, and is appended to the
\* results at most when it is collected.
LEMMA CallStep ==
  ASSUME IInv, NEW i \in DOMAIN calls, calls[i].stage # "collected",
         NEW R, NEW d, d \in CallOf(R), calls' = [calls EXCEPT ![i] = d],
         d.args = calls[i].args, d.batch = calls[i].batch,
         d.ran => Passed(d), d.stage \in {"cleared", "asking"} => ~d.refused, d.remembered \/ tool \in Forgetful,
         Passed(d) =>
           \/ Passed(calls[i])
           \/ tool \in Forgetful
           \/ \A k \in tool_calls : calls[k].args # d.args,
         \/ UNCHANGED <<tool_calls, messages>>
         \/ d.stage = "collected" /\ tool_calls' = tool_calls \union {i} /\ messages' = messages \union {i},
         UNCHANGED <<tool, batch>>
  PROVE  IInv'
<1>1. /\ \E S : calls' \in Seq(CallOf(S))
      /\ DOMAIN calls' = DOMAIN calls /\ calls'[i] = d
      /\ \A k \in DOMAIN calls \ {i} : calls'[k] = calls[k]
  BY TypedLemma DEF IInv
<1>2. Typed'
  BY <1>1 DEF IInv, Typed
<1>3. i \notin tool_calls /\ calls[i].batch = batch
  BY DEF IInv, CallsOK, CallOK
<1>4. \A k \in tool_calls' : calls'[k].stage = "collected"
  BY <1>1, <1>3 DEF IInv, Typed
<1>5. CallsOK'
  BY <1>1, <1>3 DEF IInv, CallsOK, CallOK, Typed
<1>6. NotRepeated'
  <2> SUFFICES ASSUME tool \notin Forgetful, NEW k \in DOMAIN calls, NEW j \in DOMAIN calls,
                      calls'[k].batch < calls'[j].batch, calls'[k].args = calls'[j].args, Passed(calls'[j])
               PROVE  k \notin tool_calls'
    BY <1>1 DEF NotRepeated
  <2>0. batch \in Nat /\ \A n \in DOMAIN calls : calls'[n].batch = calls[n].batch /\ calls'[n].args = calls[n].args
    BY <1>1 DEF IInv, Typed
  <2>1. k # i
    <3>1. calls[j].batch <= batch /\ calls[j].batch \in Nat
      <4>1. \E R1 : calls[j] \in CallOf(R1)
        BY DEF IInv, Typed
      <4> QED
        BY <4>1 DEF IInv, CallsOK, CallOK, CallOf
    <3> QED
      BY <1>3, <2>0, <3>1
  <2>2. k \in tool_calls' => k \in tool_calls
    BY <2>1
  <2>3. CASE j # i
    BY <1>1, <2>0, <2>2, <2>3 DEF IInv, NotRepeated
  <2>4. CASE j = i
    <3>1. Passed(d) /\ calls[k].args = d.args
      BY <1>1, <2>0, <2>4
    <3>2. CASE Passed(calls[i])
      BY <2>0, <2>2, <2>4, <3>2 DEF IInv, NotRepeated
    <3>3. CASE \A n \in tool_calls : calls[n].args # d.args
      BY <2>2, <3>1, <3>3
    <3> QED
      BY <3>1, <3>2, <3>3
  <2> QED
    BY <2>3, <2>4
<1> QED
  BY <1>2, <1>4, <1>5, <1>6 DEF IInv

\* A call of the conversation is a record.
LEMMA CallLemma ==
  ASSUME IInv, NEW i \in DOMAIN calls
  PROVE  \E R : calls[i] \in CallOf(R)
BY DEF IInv, Typed
-----------------------------------------------------------------------------
LEMMA AskStep ==
  ASSUME IInv, NEW asked \in Batches, Ask(asked)
  PROVE  IInv'
<1>1. PICK n \in {1, 2} : asked \in [1..n -> Args]
  BY DEF Batches
<1>2. PICK Q : calls \in Seq(CallOf(Q))
  BY DEF IInv, Typed
<1>3. PICK R : R = Q \union {FALSE, NotYet}
  OBVIOUS
<1>4. PICK new : new = [k \in DOMAIN asked |-> Asked(asked[k])]
  OBVIOUS
<1>5. \A k \in 1..n : new[k] \in CallOf(R) /\ new[k].batch = batch + 1 /\ new[k].stage = "queued" /\ ~new[k].ran /\ new[k].remembered
  BY <1>1, <1>3, <1>4 DEF Asked, CallOf, Stage, IInv, Typed
<1>6. new \in Seq(CallOf(R)) /\ Len(new) = n
  BY <1>1, <1>4, <1>5
<1>7. calls \in Seq(CallOf(R))
  <2>1. \A c \in CallOf(Q) : c \in CallOf(R)
    BY <1>3 DEF CallOf
  <2> QED
    BY <1>2, <2>1
<1>8. calls' = calls \o new /\ batch' = batch + 1 /\ UNCHANGED <<tool, tool_calls, messages>>
  BY <1>4 DEF Ask
<1>9. /\ calls' \in Seq(CallOf(R)) /\ DOMAIN calls \subseteq DOMAIN calls'
      /\ \A k \in DOMAIN calls : calls'[k] = calls[k]
      /\ \A k \in DOMAIN calls' \ DOMAIN calls :
           calls'[k].batch = batch + 1 /\ calls'[k].stage = "queued" /\ ~calls'[k].ran /\ calls'[k].remembered
  <2>1. calls' \in Seq(CallOf(R)) /\ Len(calls') = Len(calls) + n
    BY <1>6, <1>7, <1>8
  <2>2. \A k \in 1..Len(calls) : calls'[k] = calls[k]
    BY <1>6, <1>7, <1>8
  <2>3. \A k \in Len(calls) + 1 .. Len(calls) + n : k - Len(calls) \in 1..n /\ calls'[k] = new[k - Len(calls)]
    BY <1>6, <1>7, <1>8
  <2>4. /\ DOMAIN calls = 1..Len(calls) /\ DOMAIN calls' = 1..(Len(calls) + n)
        /\ Len(calls) \in Nat /\ n \in Nat
    BY <1>1, <1>7, <2>1
  <2>5. \A k \in DOMAIN calls' \ DOMAIN calls :
          k \in Len(calls) + 1 .. Len(calls) + n
    BY <2>4
  <2>6. \A k \in DOMAIN calls' \ DOMAIN calls :
          calls'[k].batch = batch + 1 /\ calls'[k].stage = "queued" /\ ~calls'[k].ran /\ calls'[k].remembered
    BY <1>5, <2>3, <2>5
  <2>7. DOMAIN calls \subseteq DOMAIN calls'
    BY <2>4
  <2> QED
    BY <2>1, <2>2, <2>4, <2>6, <2>7
<1>10. \A k \in DOMAIN calls : calls[k].stage = "collected" /\ calls[k].batch <= batch /\ calls[k].batch \in Nat
  <2>1. \A k \in DOMAIN calls : k \in Collected /\ CallOK(calls[k]) /\ calls[k] \in CallOf(Q)
    BY <1>2 DEF Ask, Idle, IInv, CallsOK
  <2> QED
    BY <2>1 DEF Collected, CallOK, CallOf
<1>11. Typed'
  BY <1>8, <1>9 DEF IInv, Typed
<1>12. CallsOK'
  <2>1. \A k \in DOMAIN calls :
          /\ calls'[k].batch <= batch + 1 /\ calls'[k].stage = "collected"
          /\ calls[k].ran => Passed(calls[k])
          /\ calls[k].remembered \/ tool \in Forgetful
    BY <1>9, <1>10 DEF IInv, CallsOK, CallOK, Typed
  <2>2. \A k \in DOMAIN calls' : k \in DOMAIN calls \/ k \in DOMAIN calls' \ DOMAIN calls
    OBVIOUS
  <2>3. batch \in Nat
    BY DEF IInv, Typed
  <2> QED
    BY <1>8, <1>9, <2>1, <2>2, <2>3 DEF CallsOK, CallOK, Passed
<1>13. NotRepeated'
  <2>1. SUFFICES ASSUME tool \notin Forgetful, NEW i \in DOMAIN calls', NEW j \in DOMAIN calls',
                        calls'[i].batch < calls'[j].batch, calls'[i].args = calls'[j].args,
                        Passed(calls'[j]), i \in tool_calls
                 PROVE  FALSE
    BY <1>8 DEF NotRepeated, Passed
  <2>2. i \in DOMAIN calls /\ calls'[i] = calls[i]
    BY <1>9, <2>1 DEF IInv, Typed
  <2>3. j \in DOMAIN calls /\ calls'[j] = calls[j]
    BY <1>9, <2>1 DEF Passed
  <2> QED
    BY <2>1, <2>2, <2>3 DEF IInv, NotRepeated
<1> QED
  BY <1>8, <1>9, <1>11, <1>12, <1>13 DEF IInv, Typed

LEMMA CheckStep ==
  ASSUME IInv, NEW i \in DOMAIN calls, Check(i)
  PROVE  IInv'
<1>1. PICK Q : calls[i] \in CallOf(Q)
  BY CallLemma
<1>2. PICK refused \in BOOLEAN : refused = (Repeated(calls[i].args) \/ Redundant(calls[i].args))
  OBVIOUS
<1>3. PICK d : d = [calls[i] EXCEPT !.stage = IF refused THEN "ended" ELSE "cleared", !.refused = refused,
                                    !.result = IF refused THEN Refusal ELSE @]
  OBVIOUS
<1>4. calls' = [calls EXCEPT ![i] = d]
  BY <1>2, <1>3 DEF Check
<1>5. PICK R : R = Q \union {Refusal}
  OBVIOUS
<1>6. /\ d \in CallOf(R) /\ d.args = calls[i].args /\ d.batch = calls[i].batch /\ d.ran = calls[i].ran
      /\ d.remembered = calls[i].remembered /\ d.refused = refused
      /\ d.stage = IF refused THEN "ended" ELSE "cleared"
  BY <1>1, <1>3, <1>5 DEF CallOf, Stage
<1>7. calls[i].stage = "queued" /\ UNCHANGED <<tool, tool_calls, messages, batch>>
  BY DEF Check
<1>8. ~calls[i].ran /\ (calls[i].remembered \/ tool \in Forgetful)
  BY <1>7 DEF IInv, CallsOK, CallOK, Passed
<1>9. Passed(d) => tool \in Forgetful \/ \A k \in tool_calls : calls[k].args # d.args
  <2> SUFFICES ASSUME Passed(d), tool \notin Forgetful, NEW k \in tool_calls PROVE calls[k].args # d.args
    OBVIOUS
  <2>1. ~Repeated(calls[i].args)
    BY <1>2, <1>6 DEF Passed
  <2>2. calls[k].remembered
    BY DEF IInv, CallsOK, CallOK, Typed
  <2> QED
    BY <1>6, <2>1, <2>2 DEF Repeated
<1> QED
  <2>1. /\ d.ran => Passed(d)
        /\ d.stage \in {"cleared", "asking"} => ~d.refused
        /\ d.remembered \/ tool \in Forgetful
    BY <1>6, <1>8
  <2> QED
    BY <1>4, <1>6, <1>7, <1>9, <2>1, CallStep

\* The call ends with a result, or is asked about, after it passed.
LEMMA EndStep ==
  ASSUME IInv, NEW i \in DOMAIN calls, calls[i].stage \in {"cleared", "asking"}, NEW e, NEW approved \in BOOLEAN,
         e.remembered \in BOOLEAN, e.remembered \/ tool \in Forgetful, Ended(i, e, approved),
         UNCHANGED <<tool, batch>>,
         IF approved THEN tool_calls' = tool_calls \union {i} /\ messages' = messages \union {i}
         ELSE UNCHANGED <<tool_calls, messages>>
  PROVE  IInv'
<1>1. PICK Q : calls[i] \in CallOf(Q)
  BY CallLemma
<1>2. PICK d : d = [calls[i] EXCEPT !.result = e.result, !.remembered = e.remembered,
                      !.ran = initialized.ready, !.stage = IF approved THEN "collected" ELSE "ended"]
  OBVIOUS
<1>3. calls' = [calls EXCEPT ![i] = d]
  BY <1>2 DEF Ended
<1>4. PICK R : R = Q \union {e.result, initialized.ready}
  OBVIOUS
<1>5. /\ d \in CallOf(R) /\ d.args = calls[i].args /\ d.batch = calls[i].batch
      /\ d.remembered = e.remembered /\ d.refused = calls[i].refused
      /\ d.stage = IF approved THEN "collected" ELSE "ended"
  BY <1>1, <1>2, <1>4 DEF CallOf, Stage
<1>6. Passed(d) /\ Passed(calls[i])
  BY <1>5 DEF Passed, IInv, CallsOK, CallOK
<1> QED
  BY <1>3, <1>5, <1>6, CallStep

LEMMA AskingStep ==
  ASSUME IInv, NEW i \in DOMAIN calls, NeedsApproval(i)
  PROVE  IInv'
<1>1. PICK Q : calls[i] \in CallOf(Q)
  BY CallLemma
<1>2. PICK d : d = [calls[i] EXCEPT !.stage = "asking", !.result = Outcome("approval_required", TRUE, {})]
  OBVIOUS
<1>3. calls' = [calls EXCEPT ![i] = d] /\ calls[i].stage = "cleared"
  BY <1>2 DEF NeedsApproval
<1>4. PICK R : R = Q \union {Outcome("approval_required", TRUE, {})}
  OBVIOUS
<1>5. /\ d \in CallOf(R) /\ d.args = calls[i].args /\ d.batch = calls[i].batch /\ d.ran = calls[i].ran
      /\ d.remembered = calls[i].remembered /\ d.refused = calls[i].refused /\ d.stage = "asking"
  BY <1>1, <1>2, <1>4 DEF CallOf, Stage
<1>6. /\ Passed(calls[i]) /\ ~calls[i].refused
      /\ calls[i].remembered \/ tool \in Forgetful
  BY <1>3 DEF IInv, CallsOK, CallOK, Passed
<1>7. Passed(d)
  BY <1>5, <1>6 DEF Passed
<1> QED
  BY <1>3, <1>5, <1>6, <1>7, CallStep DEF NeedsApproval

\* The thread of the loop takes what a thread ended with, or what the user denied.
LEMMA CollectStep ==
  ASSUME IInv, NEW i \in DOMAIN calls, Collect(i) \/ Deny(i)
  PROVE  IInv'
<1>1. PICK Q : calls[i] \in CallOf(Q)
  BY CallLemma
<1>2. PICK r : r = IF calls[i].stage = "ended" THEN calls[i].result ELSE [calls[i].result EXCEPT !.status = "error"]
  OBVIOUS
<1>3. PICK d : d = [calls[i] EXCEPT !.stage = "collected", !.result = r]
  OBVIOUS
<1>4. PICK R : R = Q \union {r}
  OBVIOUS
<1>5. /\ d \in CallOf(R) /\ d.args = calls[i].args /\ d.batch = calls[i].batch /\ d.ran = calls[i].ran
      /\ d.remembered = calls[i].remembered /\ d.refused = calls[i].refused /\ d.stage = "collected"
  BY <1>1, <1>3, <1>4 DEF CallOf, Stage
<1>6. calls' = [calls EXCEPT ![i] = d]
  <2>1. CASE Collect(i)
    <3>1. d = [calls[i] EXCEPT !.stage = "collected"]
      BY <1>1, <1>2, <1>3, <2>1 DEF Collect, CallOf
    <3> QED
      BY <2>1, <3>1 DEF Collect
  <2>2. CASE Deny(i)
    <3>1. d = [calls[i] EXCEPT !.stage = "collected", !.result = [@ EXCEPT !.status = "error"]]
      BY <1>2, <1>3, <2>2 DEF Deny
    <3> QED
      BY <2>2, <3>1 DEF Deny
  <2> QED
    BY <2>1, <2>2
<1>7. /\ calls[i].stage \in {"ended", "asking"} /\ tool_calls' = tool_calls \union {i}
      /\ messages' = messages \union {i} /\ UNCHANGED <<tool, batch>>
  BY DEF Collect, Deny, Appended
<1>8. /\ calls[i].ran => Passed(calls[i])
      /\ calls[i].remembered \/ tool \in Forgetful
  BY DEF IInv, CallsOK, CallOK
<1>9. Passed(d) <=> Passed(calls[i])
  BY <1>5, <1>7 DEF Passed
<1> QED
  BY <1>5, <1>6, <1>7, <1>8, <1>9, CallStep

LEMMA InvokeStep ==
  ASSUME IInv, NEW i \in DOMAIN calls, Invoke(i) \/ Approve(i)
  PROVE  IInv'
<1>0. \A e \in Invoked : e.remembered \in BOOLEAN /\ (e.remembered \/ tool \in Forgetful)
  <2> SUFFICES ASSUME NEW e \in Invoked PROVE e.remembered \in BOOLEAN /\ (e.remembered \/ tool \in Forgetful)
    OBVIOUS
  <2>1. CASE e = Returned(Unavailable, TRUE)
    BY <2>1 DEF Returned
  <2>2. CASE \E r, t : e = Returned(t, r.status = "raised" \/ tool \notin Forgetful)
    <3>1. PICK r, t : e = Returned(t, r.status = "raised" \/ tool \notin Forgetful)
      BY <2>2
    <3>2. PICK b \in BOOLEAN : b = (r.status = "raised" \/ tool \notin Forgetful)
      OBVIOUS
    <3>3. e = Returned(t, b)
      BY <3>1, <3>2, Zenon
    <3>4. e.remembered = b
      BY <3>3 DEF Returned
    <3>5. b \/ tool \in Forgetful
      BY <3>2
    <3> QED
      BY <3>4, <3>5
  <2>3. CASE initialized.ready
    <3>1. PICK r \in Toolsets[toolset].tools[tool] :
            e \in {Returned(t, r.status = "raised" \/ tool \notin Forgetful) : t \in Transformed(Caught(r))}
      BY <2>3 DEF Invoked
    <3> QED
      BY <2>2, <3>1
  <2>4. CASE ~initialized.ready
    BY <2>1, <2>4 DEF Invoked
  <2> QED
    BY <2>3, <2>4
<1>1. CASE Invoke(i)
  <2>0. PICK e \in Invoked : \E shown \in Limited(e.result) : Ended(i, [e EXCEPT !.result = shown], FALSE)
    BY <1>1 DEF Invoke
  <2>1. PICK shown \in Limited(e.result) : Ended(i, [e EXCEPT !.result = shown], FALSE)
    BY <2>0
  <2>2. PICK f : f = [e EXCEPT !.result = shown]
    OBVIOUS
  <2>3. f.remembered = e.remembered
    BY <2>2 DEF Invoked, Returned
  <2> QED
    BY <1>0, <1>1, <2>1, <2>2, <2>3, EndStep DEF Invoke
<1>2. CASE Approve(i)
  <2>1. PICK e \in Invoked : Ended(i, e, TRUE)
    BY <1>2 DEF Approve
  <2> QED
    BY <1>0, <1>2, <2>1, EndStep DEF Approve, Appended
<1> QED
  BY <1>1, <1>2

LEMMA Inductive == IInv /\ [Next]_vars => IInv'
<1> SUFFICES ASSUME IInv, [Next]_vars PROVE IInv'
  OBVIOUS
<1>1. ASSUME NEW asked \in Batches, Ask(asked) PROVE IInv'
  BY <1>1, AskStep
<1>2. ASSUME NEW i \in DOMAIN calls, Check(i) PROVE IInv'
  BY <1>2, CheckStep
<1>3. ASSUME NEW i \in DOMAIN calls, Invoke(i) \/ Approve(i) PROVE IInv'
  BY <1>3, InvokeStep
<1>4. ASSUME NEW i \in DOMAIN calls, NeedsApproval(i) PROVE IInv'
  BY <1>4, AskingStep
<1>5. ASSUME NEW i \in DOMAIN calls, Collect(i) \/ Deny(i) PROVE IInv'
  BY <1>5, CollectStep
<1>6. CASE Compact
  <2>1. tool_calls' = {} /\ messages' = {} /\ UNCHANGED <<tool, calls, batch>>
    BY <1>6 DEF Compact
  <2> QED
    BY <2>1 DEF IInv, Typed, CallsOK, CallOK, NotRepeated
<1>7. ASSUME NEW i \in DOMAIN calls, Initialize(i) PROVE IInv'
  <2>1. UNCHANGED <<tool, calls, tool_calls, messages, batch>>
    BY <1>7 DEF Initialize
  <2> QED
    BY <2>1 DEF IInv, Typed, CallsOK, CallOK, NotRepeated
<1>8. CASE UNCHANGED vars
  <2>1. UNCHANGED <<tool, calls, tool_calls, messages, batch>>
    BY <1>8 DEF vars
  <2> QED
    BY <2>1 DEF IInv, Typed, CallsOK, CallOK, NotRepeated
<1> QED
  BY <1>1, <1>2, <1>3, <1>4, <1>5, <1>6, <1>7, <1>8 DEF Next

LEMMA Invariant == Spec => []IInv
BY InitLemma, Inductive, PTL DEF Spec
-----------------------------------------------------------------------------
\* A call whose arguments an earlier batch had runs only when that result has left the
\* conversation, or its tool does not name its arguments; approved or not, whatever the
\* result was, and however the threads of its batch are interleaved.
THEOREM NotRunTwice == Spec => []RunsTwiceOnlyIf
<1>1. IInv => RunsTwiceOnlyIf
  BY DEF IInv, Typed, CallsOK, CallOK, NotRepeated, RunsTwiceOnlyIf
<1> QED
  BY <1>1, Invariant, PTL
-----------------------------------------------------------------------------
(* The results of the tools *)

\* A result that hides nothing: an exchange that failed is reported, and data is not
\* taken for none.
Reported(r) == r \in Result /\ (r.failed => r.tells \/ r.status \in {"error", "raised"})
Founded(r) == r \in Result /\ (r.status = "no_data" => ~r.found)
Honest(r) == Reported(r) /\ Founded(r)

\* The statuses an answer may have.
Empty == {"success", "no_data", "error"}

\* What tool t may return, and the tools that keep to it.
Says(t, r) == (Reported(r) \/ t \in Quiet) /\ (Founded(r) \/ t \in Summarizing)
Faithful(tools) == \A t \in DOMAIN tools : \A r \in tools[t] : r \in Result /\ Says(t, r)

\* What the replies R have.
Fails(R) == R \cap Failed # {}
Finds(R) == R \cap Found # {}

LEMMA OutcomeLemma ==
  ASSUME NEW status \in Empty \union {"raised"}, NEW tells \in BOOLEAN, NEW R
  PROVE  LET r == Outcome(status, tells, R) IN
         /\ r \in Result /\ r.status = status /\ r.tells = tells
         /\ r.failed = Fails(R) /\ r.found = Finds(R)
<1> DEFINE r == Outcome(status, tells, R)
           big == "vast" \in R /\ status \in {"success", "no_data"}
<1>1. r = [status |-> status, tells |-> tells, big |-> big, failed |-> Fails(R), found |-> Finds(R)]
  BY DEF Outcome, Fails, Finds
<1>2. big \in BOOLEAN /\ Fails(R) \in BOOLEAN /\ Finds(R) \in BOOLEAN
  BY DEF Fails, Finds
<1> HIDE DEF r, big
<1>3. r \in Result
  BY <1>1, <1>2 DEF Result, Empty
<1>4. r.status = status /\ r.tells = tells /\ r.failed = Fails(R) /\ r.found = Finds(R)
  BY <1>1
<1> QED
  BY <1>3, <1>4 DEF r

\* What makes an outcome honest.
LEMMA HonestLemma ==
  ASSUME NEW status \in Empty \union {"raised"}, NEW tells \in BOOLEAN, NEW R
  PROVE  /\ tells \/ status \in {"error", "raised"} \/ ~Fails(R) => Reported(Outcome(status, tells, R))
         /\ status # "no_data" \/ ~Finds(R) => Founded(Outcome(status, tells, R))
<1> DEFINE r == Outcome(status, tells, R)
<1>1. /\ r \in Result /\ r.status = status /\ r.tells = tells
      /\ r.failed = Fails(R) /\ r.found = Finds(R)
  BY OutcomeLemma
<1> HIDE DEF r
<1>2. /\ tells \/ status \in {"error", "raised"} \/ ~Fails(R) => Reported(r)
      /\ status # "no_data" \/ ~Finds(R) => Founded(r)
  BY <1>1 DEF Reported, Founded
<1> QED
  BY <1>2 DEF r

\* Replies that fail and pass for none are the one way to hide a failure.
LEMMA SilentLemma ==
  ASSUME NEW R, NEW empty \in Empty
  PROVE  Founded(Silent(R, empty)) /\ (~Fails(R) => Honest(Silent(R, empty)))
<1>1. PICK s : s = IF Finds(R) THEN "success" ELSE empty
  OBVIOUS
<1>2. s \in Empty \union {"raised"} /\ (s = "no_data" => ~Finds(R))
  BY <1>1 DEF Empty
<1>3. Silent(R, empty) = Outcome(s, FALSE, R)
  BY <1>1 DEF Silent, Finds
<1> QED
  BY <1>2, <1>3, HonestLemma DEF Honest

\* The operators the tools are built from.
LEMMA AnswerLemma ==
  \A R : /\ Honest(Strict(R, "success")) /\ Honest(Strict(R, "no_data")) /\ Honest(Strict(R, "error"))
         /\ Honest(Escaping(R, "success")) /\ Honest(Named(R))
         /\ Founded(Silent(R, "success")) /\ Founded(Silent(R, "no_data"))
         /\ Honest(Outcome("error", TRUE, R)) /\ Honest(Outcome("raised", TRUE, R))
         /\ \A tells \in BOOLEAN : Founded(Outcome("success", tells, R))
<1> TAKE R
<1>0. ASSUME NEW f \in {"error", "raised"} PROVE Honest(Outcome(f, TRUE, R))
  BY HonestLemma DEF Honest, Empty
<1>1. ASSUME NEW f \in {"error", "raised"}, NEW empty \in Empty PROVE Honest(Answered(R, f, empty))
  BY <1>0, SilentLemma DEF Answered, Fails
<1>2. Honest(Named(R))
  <2>1. PICK tells \in BOOLEAN : tells = Fails(R)
    BY DEF Fails
  <2>2. Named(R) = Outcome("success", tells, R)
    BY <2>1 DEF Named, Fails
  <2> QED
    BY <2>1, <2>2, HonestLemma DEF Honest, Empty
<1>3. \A tells \in BOOLEAN : Founded(Outcome("success", tells, R))
  BY HonestLemma DEF Empty
<1> QED
  BY <1>0, <1>1, <1>2, <1>3, SilentLemma DEF Strict, Escaping, Empty

\* What is put around them.
LEMMA WrapLemma ==
  /\ Honest(Rejected) /\ Honest(Raised) /\ Honest(Local)
  /\ \A c, x, r : /\ Honest(x) /\ Honest(r) => Honest(Guarded(c, x, r))
                  /\ Founded(x) /\ Founded(r) => Founded(Guarded(c, x, r))
                  /\ Reported(x) /\ Reported(r) => Reported(Guarded(c, x, r))
  /\ \A c, r : Honest(r) => Honest(Filtered(c, r)) /\ Honest(FilteredIfFound(c, r))
  /\ \A r : /\ Honest(r) => Honest(Capped(r)) /\ Honest([r EXCEPT !.status = "error", !.big = FALSE])
            /\ Founded(r) => Founded(Truncated(r))
<1>1. Honest(Rejected) /\ Honest(Raised) /\ Honest(Local)
  <2>1. ~Fails({}) /\ ~Finds({}) /\ ~Fails({"full"})
    BY DEF Fails, Finds, Failed
  <2> QED
    BY <2>1, HonestLemma DEF Rejected, Raised, Local, Honest, Empty
<1>2. \A c, r : Honest(r) => Honest(Filtered(c, r))
  <2> TAKE c, r
  <2> HAVE Honest(r)
  <2>1. PICK s : s = IF r.status = "raised" THEN r.status ELSE "error"
    OBVIOUS
  <2>2. PICK tells \in BOOLEAN : tells = (r.status = "raised")
    OBVIOUS
  <2>3. s \in {"error", "raised"}
    BY <2>1
  <2>4. PICK d : d = [r EXCEPT !.status = s, !.tells = tells, !.big = FALSE]
    OBVIOUS
  <2>5. d \in Result /\ d.status = s
    BY <2>3, <2>4 DEF Honest, Reported, Result
  <2>6. Honest(d)
    BY <2>3, <2>5 DEF Honest, Reported, Founded
  <2> QED
    BY <2>1, <2>2, <2>4, <2>6 DEF Filtered
<1>3. \A r : Honest(r) => Honest([r EXCEPT !.status = "error", !.big = FALSE])
  <2> TAKE r
  <2> HAVE Honest(r)
  <2>1. PICK d : d = [r EXCEPT !.status = "error", !.big = FALSE]
    OBVIOUS
  <2>2. d \in Result /\ d.status = "error"
    BY <2>1 DEF Honest, Reported, Result
  <2>3. Honest(d)
    BY <2>2 DEF Honest, Reported, Founded
  <2> QED
    BY <2>1, <2>3
<1>4. \A r : Founded(r) => Founded(Truncated(r))
  <2> TAKE r
  <2> HAVE Founded(r)
  <2>1. PICK d : d = [r EXCEPT !.big = FALSE]
    OBVIOUS
  <2>2. d \in Result /\ d.status = r.status /\ d.found = r.found
    BY <2>1 DEF Founded, Result
  <2> QED
    BY <2>1, <2>2 DEF Founded, Truncated
<1> QED
  BY <1>1, <1>2, <1>3, <1>4 DEF Guarded, FilteredIfFound, Capped

\* The tools of each toolset.
LEMMA PrometheusLemma == Faithful(PrometheusToolset.tools)
<1>1. \A c \in Call : /\ Honest(ListPrometheusRules(c)) /\ Honest(GetMetricNames(c))
                      /\ Honest(GetLabelValues(c)) /\ Honest(GetAllLabels(c))
                      /\ Honest(GetSeries(c)) /\ Honest(GetMetricMetadata(c))
  <2> TAKE c \in Call
  <2>1. Honest(PrometheusAnswer(c))
    BY AnswerLemma DEF PrometheusAnswer
  <2> QED
    BY <2>1, WrapLemma DEF ListPrometheusRules, GetMetricNames, GetLabelValues, GetAllLabels,
         GetSeries, GetMetricMetadata
<1>2. \A R : Reported(QueryAnswer(R))
  <2> TAKE R
  <2>1. Reported(Strict(R, "error"))
    BY AnswerLemma DEF Honest
  <2>2. CASE R = {"vast"}
    <3>1. PICK S : S = (R \ {"vast"}) \union {"full"}
      OBVIOUS
    <3>2. ~Fails(S)
      BY <3>1, <2>2 DEF Fails, Failed
    <3> QED
      BY <2>2, <3>1, <3>2, HonestLemma DEF QueryAnswer, Summarized, Empty
  <2> QED
    BY <2>1, <2>2 DEF QueryAnswer
<1>3. \A c \in Call : Reported(ExecuteInstantQuery(c)) /\ Reported(ExecuteRangeQuery(c))
  BY <1>2, WrapLemma DEF ExecuteInstantQuery, ExecuteRangeQuery, Honest
<1> QED
  BY <1>1, <1>3 DEF Faithful, PrometheusToolset, Results, Says, Honest, Reported, Founded, Summarizing

LEMMA DatadogLemma ==
  /\ Faithful(DatadogGeneralToolset.tools) /\ Faithful(DatadogMetricsToolset.tools)
  /\ Faithful(DatadogTracesToolset.tools) /\ Faithful(DatadogLogsToolset.tools)
<1>1. \A c \in Call : /\ Honest(DatadogAnswer(c, "success")) /\ Honest(DatadogAnswer(c, "no_data"))
                      /\ Honest(DatadogAnswer(c, "error"))
  BY AnswerLemma DEF DatadogAnswer
<1>2. \A c \in Call : /\ Honest(DatadogAPIGet(c)) /\ Honest(DatadogAPIPostSearch(c))
                      /\ Honest(ListDatadogAPIResources(c))
  BY <1>1, WrapLemma DEF DatadogAPIGet, DatadogAPIPostSearch, ListDatadogAPIResources
<1>3. \A c \in Call : Honest(ListActiveMetrics(c))
  BY <1>1, WrapLemma DEF ListActiveMetrics
<1>4. \A c \in Call : Honest(QueryMetrics(c)) /\ Honest(ListMetricTags(c))
  BY <1>1, WrapLemma DEF QueryMetrics, ListMetricTags
<1>5. \A c \in Call : Honest(QueryMetricsMetadata(c))
  BY AnswerLemma, WrapLemma DEF QueryMetricsMetadata
<1>6. \A c \in Call : Honest(GetSpans(c)) /\ Honest(AggregateSpans(c)) /\ Honest(GetLogs(c))
  BY <1>1, WrapLemma DEF GetSpans, AggregateSpans, GetLogs
<1>7. Faithful(DatadogGeneralToolset.tools)
  BY <1>2 DEF Faithful, DatadogGeneralToolset, Results, Says, Honest, Reported
<1>8. Faithful(DatadogMetricsToolset.tools)
  BY <1>3, <1>4, <1>5 DEF Faithful, DatadogMetricsToolset, Results, Says, Honest, Reported
<1>9. Faithful(DatadogTracesToolset.tools) /\ Faithful(DatadogLogsToolset.tools)
  BY <1>6 DEF Faithful, DatadogTracesToolset, DatadogLogsToolset, Results, Says, Honest, Reported
<1> QED
  BY <1>7, <1>8, <1>9

LEMMA VendorLemma == Faithful(NewRelicToolset.tools) /\ Faithful(CoralogixToolset.tools)
<1>1. \A c \in Call : Honest(ExecuteNRQLQuery(c)) /\ Honest(ListOrganizationAccounts(c))
  BY AnswerLemma, WrapLemma DEF ExecuteNRQLQuery, ListOrganizationAccounts, NrqlAnswer
<1>2. \A c \in Call : Founded(ExecuteDataPrimeQuery(c))
  BY AnswerLemma, WrapLemma DEF ExecuteDataPrimeQuery, Unparsed, Honest
<1>3. Faithful(NewRelicToolset.tools)
  BY <1>1 DEF Faithful, NewRelicToolset, Results, Says, Honest, Reported
<1>4. Faithful(CoralogixToolset.tools)
  BY <1>2 DEF Faithful, CoralogixToolset, Results, Says, Founded, Quiet
<1> QED
  BY <1>3, <1>4

LEMMA ElasticLemma == Faithful(ElasticsearchToolsets.tools) /\ Faithful(OpenSearchQueryAssistToolset.tools)
<1>1. \A c \in Call : Honest(ElasticAnswer(c))
  BY AnswerLemma DEF ElasticAnswer
<1>2. \A c \in Call :
        /\ Honest(ElasticsearchCat(c)) /\ Honest(ElasticsearchSearch(c))
        /\ Honest(ElasticsearchClusterHealth(c)) /\ Honest(ElasticsearchMappings(c))
        /\ Honest(ElasticsearchIndexStats(c)) /\ Honest(ElasticsearchAllocationExplain(c))
        /\ Honest(ElasticsearchNodesStats(c)) /\ Honest(ElasticsearchListIndices(c))
  BY <1>1, WrapLemma DEF ElasticsearchCat, ElasticsearchSearch, ElasticsearchClusterHealth,
       ElasticsearchMappings, ElasticsearchIndexStats, ElasticsearchAllocationExplain,
       ElasticsearchNodesStats, ElasticsearchListIndices
<1>3. \A c \in Call : Honest(OpenSearchQueryAssist(c))
  BY WrapLemma DEF OpenSearchQueryAssist
<1>4. Faithful(ElasticsearchToolsets.tools)
  BY <1>2 DEF Faithful, ElasticsearchToolsets, Results, Says, Honest, Reported
<1>5. Faithful(OpenSearchQueryAssistToolset.tools)
  BY <1>3 DEF Faithful, OpenSearchQueryAssistToolset, Results, Says, Honest, Reported
<1> QED
  BY <1>4, <1>5

LEMMA GrafanaLemma ==
  /\ Faithful(GrafanaToolset.tools) /\ Faithful(GrafanaLokiToolset.tools)
  /\ Faithful(GrafanaTempoToolset.tools)
<1>1. \A c \in Call : /\ Honest(SearchDashboards(c)) /\ Honest(GetDashboardByUID(c))
                      /\ Honest(GetHomeDashboard(c)) /\ Honest(GetDashboardTags(c))
  <2> TAKE c \in Call
  <2>1. Honest(GrafanaAnswer(c))
    BY AnswerLemma DEF GrafanaAnswer
  <2> QED
    BY <2>1, WrapLemma DEF SearchDashboards, GetDashboardByUID, GetHomeDashboard, GetDashboardTags
<1>2. \A c \in Call : Honest(LokiQuery(c))
  BY AnswerLemma, WrapLemma DEF LokiQuery
<1>3. \A c \in Call : Honest(FetchTracesSimpleComparison(c))
  <2> TAKE c \in Call
  <2>1. c.got[1] = "none" => Honest(Outcome("success", FALSE, {c.got[1]}))
    <3>1. c.got[1] = "none" => ~Fails({c.got[1]})
      BY DEF Fails, Failed
    <3> QED
      BY <3>1, HonestLemma DEF Honest, Empty
  <2> QED
    BY <2>1, AnswerLemma, WrapLemma DEF FetchTracesSimpleComparison, K8sFilters
<1>4. \A c \in Call :
        /\ Honest(SearchTracesByQuery(c)) /\ Honest(SearchTracesByTags(c))
        /\ Honest(QueryTraceById(c)) /\ Honest(SearchTagNames(c)) /\ Honest(SearchTagValues(c))
        /\ Honest(QueryMetricsInstant(c)) /\ Honest(QueryMetricsRange(c))
  <2> TAKE c \in Call
  <2>1. Honest(TempoAnswer(c))
    BY AnswerLemma DEF TempoAnswer
  <2> QED
    BY <2>1, WrapLemma DEF SearchTracesByQuery, SearchTracesByTags, QueryTraceById, SearchTagNames,
         SearchTagValues, QueryMetricsInstant, QueryMetricsRange
<1>5. Faithful(GrafanaToolset.tools) /\ Faithful(GrafanaLokiToolset.tools)
  BY <1>1, <1>2 DEF Faithful, GrafanaToolset, GrafanaLokiToolset, Results, Says, Honest, Reported
<1>6. Faithful(GrafanaTempoToolset.tools)
  BY <1>3, <1>4 DEF Faithful, GrafanaTempoToolset, Results, Says, Honest, Reported
<1> QED
  BY <1>5, <1>6

LEMMA QueueLemma == Faithful(KafkaToolset.tools) /\ Faithful(RabbitMQToolset.tools)
<1>1. \A c \in Call : /\ Honest(ListKafkaConsumers(c)) /\ Honest(DescribeConsumerGroup(c))
                      /\ Honest(ListTopics(c)) /\ Honest(DescribeTopic(c)) /\ Honest(ListKafkaClusters(c))
  BY AnswerLemma, WrapLemma DEF ListKafkaConsumers, GroupsListed, DescribeConsumerGroup, ListTopics,
       DescribeTopic, ListKafkaClusters
<1>2. \A c \in Call : Founded(FindConsumerGroupsByTopic(c))
  BY AnswerLemma, WrapLemma DEF FindConsumerGroupsByTopic, GroupHasTopic, Honest
<1>3. \A c \in Call : Honest(ListConfiguredClusters(c)) /\ Founded(GetRabbitMQClusterStatus(c))
  BY AnswerLemma, WrapLemma DEF ListConfiguredClusters, GetRabbitMQClusterStatus, ClusterStatus, Honest
<1>4. Faithful(KafkaToolset.tools)
  BY <1>1, <1>2 DEF Faithful, KafkaToolset, Results, Says, Honest, Reported, Founded, Quiet
<1>5. Faithful(RabbitMQToolset.tools)
  BY <1>3 DEF Faithful, RabbitMQToolset, Results, Says, Honest, Reported, Founded, Quiet
<1> QED
  BY <1>4, <1>5

LEMMA StoreLemma ==
  /\ Faithful(MongoDBAtlasToolset.tools) /\ Faithful(ServiceNowTablesToolset.tools)
  /\ Faithful(DatabaseToolset.tools)
<1>1. \A c \in Call :
        /\ Honest(ReturnProjectAlerts(c)) /\ Honest(ReturnProjectProcesses(c))
        /\ Honest(ReturnProjectSlowQueries(c)) /\ Honest(ReturnEventsFromProject(c))
        /\ Honest(ReturnLogsForProcessInProject(c)) /\ Honest(ReturnEventTypeFromProject(c))
  BY AnswerLemma DEF ReturnProjectAlerts, ReturnProjectProcesses, ReturnProjectSlowQueries,
       ReturnEventsFromProject, ReturnLogsForProcessInProject, ReturnEventTypeFromProject, AtlasAnswer
<1>2. \A c \in Call : Honest(GetRecords(c)) /\ Honest(GetRecord(c))
  BY AnswerLemma, WrapLemma DEF GetRecords, GetRecord, ServiceNowAnswer
<1>3. \A c \in Call : Honest(DatabaseQuery(c)) /\ Honest(ListTables(c)) /\ Honest(DescribeTable(c))
  BY AnswerLemma, WrapLemma DEF DatabaseQuery, ExecuteQuery, ListTables, DescribeTable
<1>4. Faithful(MongoDBAtlasToolset.tools)
  BY <1>1 DEF Faithful, MongoDBAtlasToolset, Results, Says, Honest, Reported
<1>5. Faithful(ServiceNowTablesToolset.tools) /\ Faithful(DatabaseToolset.tools)
  BY <1>2, <1>3 DEF Faithful, ServiceNowTablesToolset, DatabaseToolset, Results, Says, Honest, Reported
<1> QED
  BY <1>4, <1>5

LEMMA AzureLemma == Faithful(AzureSQLToolset.tools)
<1>1. \A c \in Call : \A n : Founded(PartlyNamed(c, n))
  BY AnswerLemma DEF PartlyNamed
<1>2. \A c \in Call :
        /\ Founded(AnalyzeConnectionFailures(c)) /\ Founded(AnalyzeDatabaseConnections(c))
        /\ Founded(AnalyzeDatabasePerformance(c)) /\ Founded(AnalyzeDatabaseStorage(c))
  BY <1>1, AnswerLemma DEF AnalyzeConnectionFailures, ConnectionFailures, AnalyzeDatabaseConnections,
       ConnectionMonitoring, AnalyzeDatabasePerformance, AnalyzeDatabaseStorage, StorageAnalysis
<1>3. \A c \in Call : Honest(AnalyzeDatabaseHealthStatus(c)) /\ Honest(GetActiveAlerts(c))
  BY AnswerLemma DEF AnalyzeDatabaseHealthStatus, GetActiveAlerts, ActiveAlerts
<1>4. \A c \in Call : /\ Honest(GetSlowQueries(c)) /\ Honest(GetTopCPUQueries(c))
                      /\ Honest(GetTopDataIOQueries(c)) /\ Honest(GetTopLogIOQueries(c))
  BY AnswerLemma DEF GetSlowQueries, GetTopCPUQueries, GetTopDataIOQueries, GetTopLogIOQueries, AzureQuery
<1> QED
  BY <1>2, <1>3, <1>4 DEF Faithful, AzureSQLToolset, Results, Says, Honest, Reported, Founded, Quiet

LEMMA PodLogsLemma == Faithful(KubernetesLogsToolset.tools)
<1>1. \A c \in Call : Founded(FetchPodLogs(c))
  BY AnswerLemma, WrapLemma DEF FetchPodLogs, Honest
<1> QED
  BY <1>1 DEF Faithful, KubernetesLogsToolset, Results, Says, Founded, Quiet

LEMMA CommandLemma ==
  /\ Faithful(YAMLToolset.tools) /\ Faithful(BashExecutorToolset.tools)
  /\ Faithful(KubectlRunToolset.tools) /\ Faithful(ConnectivityCheckToolset.tools)
  /\ Faithful(CoreInvestigationToolset.tools)
<1>1. \A c \in Call :
        /\ Honest(YAMLTool(c)) /\ Honest(RunBashCommand(c)) /\ Honest(KubectlRunImageCommand(c))
        /\ Honest(TcpCheckTool(c)) /\ Honest(TodoWriteTool(c))
  BY AnswerLemma, WrapLemma DEF YAMLTool, RunBashCommand, ValidateCommand, CommandResult,
       KubectlRunImageCommand, TcpCheckTool, TodoWriteTool
<1> QED
  BY <1>1 DEF Faithful, YAMLToolset, BashExecutorToolset, KubectlRunToolset, ConnectivityCheckToolset,
       CoreInvestigationToolset, Results, Says, Honest, Reported

LEMMA ServiceLemma ==
  /\ Faithful(RemoteMCPToolset.tools) /\ Faithful(HttpToolset.tools)
  /\ Faithful(InternetToolset.tools) /\ Faithful(NotionToolset.tools)
<1>1. \A R : Honest(Scraped(R))
  BY AnswerLemma DEF Scraped, Strict
<1>2. \A c \in Call : Honest(RemoteMCPTool(c)) /\ Honest(HttpRequest(c))
  BY AnswerLemma, WrapLemma DEF RemoteMCPTool, HttpRequest
<1>3. \A c \in Call : Honest(FetchWebpage(c)) /\ Honest(FetchNotion(c))
  BY <1>1, AnswerLemma, WrapLemma DEF FetchWebpage, FetchNotion
<1> QED
  BY <1>2, <1>3 DEF Faithful, RemoteMCPToolset, HttpToolset, InternetToolset, NotionToolset,
       Results, Says, Honest, Reported

LEMMA RobustaLemma == Faithful(RobustaToolset.tools) /\ Faithful(RunbookToolset.tools)
<1>1. \A c \in Call : Founded(FetchRobustaFinding(c))
  BY AnswerLemma, WrapLemma DEF FetchRobustaFinding, IssueData, Honest
<1>2. \A c \in Call : /\ Founded(FetchConfigurationChangesMetadata(c))
                      /\ Founded(FetchResourceIssuesMetadata(c))
  BY AnswerLemma, WrapLemma DEF FetchConfigurationChangesMetadata, FetchResourceIssuesMetadata,
       IssuesMetadata, Honest
<1>3. \A c \in Call : Honest(FetchResourceRecommendation(c)) /\ Honest(RunbookFetcher(c))
  BY AnswerLemma, WrapLemma DEF FetchResourceRecommendation, RunbookFetcher, RunbookContent
<1>4. Faithful(RobustaToolset.tools)
  BY <1>1, <1>2, <1>3 DEF Faithful, RobustaToolset, Results, Says, Honest, Reported, Founded, Quiet
<1>5. Faithful(RunbookToolset.tools)
  BY <1>3 DEF Faithful, RunbookToolset, Results, Says, Honest, Reported
<1> QED
  BY <1>4, <1>5

\* No tool of any toolset hides a failure or takes data for none, but for those listed.
LEMMA ToolsLemma == \A ts \in DOMAIN Toolsets : Faithful(Toolsets[ts].tools)
BY PrometheusLemma, DatadogLemma, VendorLemma, ElasticLemma, GrafanaLemma, QueueLemma, StoreLemma,
   AzureLemma, PodLogsLemma, CommandLemma, ServiceLemma, RobustaLemma DEF Toolsets

-----------------------------------------------------------------------------
(* The prerequisites of the toolsets *)

\* Replies of nobody.
Dark == {"refused", "busy", "lost"}

\* Somebody answers.
Light(s) == \E i \in Exchange : s.got[i] \notin Dark

\* A toolset that is ready was answered.
Speaks(probes) == \A p \in probes : p.ready => ~p.dark

\* What the check of a toolset records of its exchanges.
Darkness(p, s) == p.dark = (Got(s, Cardinality(Exchange)) \subseteq Dark)

LEMMA ExchangeLemma == Cardinality(Exchange) \in Nat /\ Exchange = 1..Cardinality(Exchange) /\ {1, 2, 3} \subseteq Exchange
<1>1. Cardinality(Exchange) \in Nat
  BY ExchangeAssumption, FS_CardinalityType
<1> QED
  BY <1>1, ExchangeAssumption

\* A set of numbers has a smallest one.
LEMMA SmallestLemma ==
  ASSUME NEW T, T \subseteq Nat, T # {}
  PROVE  \E x \in T : \A y \in T : x <= y
<1>1. \E x \in T : \A y \in T : ~(<<y, x>> \in OpToRel(<, Nat))
  BY NatLessThanWellFounded, WFMin
<1>2. \A x, y \in Nat : y < x => <<y, x>> \in OpToRel(<, Nat)
  BY DEF OpToRel
<1>3. \A x, y \in Nat : ~(y < x) => x <= y
  OBVIOUS
<1> QED
  BY <1>1, <1>2, <1>3

LEMMA LightLemma == \A s \in Setup : Light(s) <=> ~(Got(s, Cardinality(Exchange)) \subseteq Dark)
BY ExchangeLemma DEF Light, Got

LEMMA AnswersLemma ==
  \A s \in Setup, n \in 1..3 : \A S : Answers(s, n, S) /\ S \cap Dark = {} => Light(s)
BY ExchangeLemma DEF Answers, Got, Light

\* What an exchange that is tried again comes to is the reply to one of the tries.
LEMMA RetriedLemma ==
  ASSUME NEW s \in Setup, NEW S, NEW T, T \cap Dark = {}, Retried(s, S) \subseteq T
  PROVE  Light(s)
<1>1. CASE \A i \in Exchange : s.got[i] \in S
  BY <1>1, ExchangeLemma DEF Retried, Light
<1>2. CASE \E i \in Exchange : s.got[i] \notin S
  <2>1. PICK m \in {i \in Exchange : s.got[i] \notin S} : \A i \in Exchange : s.got[i] \notin S => m <= i
    <3>1. {i \in Exchange : s.got[i] \notin S} \subseteq Nat
      BY ExchangeLemma
    <3> QED
      BY <1>2, <3>1, SmallestLemma
  <2>2. \A k \in 1..(m - 1) : s.got[k] \in S
    BY <2>1, ExchangeLemma
  <2>3. s.got[m] \in Retried(s, S)
    BY <1>2, <2>1, <2>2 DEF Retried
  <2> QED
    BY <2>1, <2>3 DEF Light
<1> QED
  BY <1>1, <1>2

\* Whatever is accepted for an answer of prerequisites is one.
LEMMA RepliesLemma ==
  /\ Accepted \cap Dark = {} /\ (Accepted \union {"garbled"}) \cap Dark = {} /\ Found \cap Dark = {}
BY DEF Accepted, Dark, Found

\* The toolsets that do not become ready in silence.
LEMMA SpeaksLemma ==
  /\ Speaks(PrometheusToolset.probes) /\ Speaks(CoralogixToolset.probes)
  /\ Speaks(DatadogGeneralToolset.probes) /\ Speaks(DatadogMetricsToolset.probes)
  /\ Speaks(DatadogTracesToolset.probes) /\ Speaks(DatadogLogsToolset.probes)
  /\ Speaks(ElasticsearchToolsets.probes) /\ Speaks(GrafanaToolset.probes)
  /\ Speaks(GrafanaLokiToolset.probes) /\ Speaks(GrafanaTempoToolset.probes)
  /\ Speaks(KafkaToolset.probes) /\ Speaks(RabbitMQToolset.probes)
  /\ Speaks(ServiceNowTablesToolset.probes) /\ Speaks(DatabaseToolset.probes)
  /\ Speaks(AzureSQLToolset.probes) /\ Speaks(KubernetesLogsToolset.probes)
  /\ Speaks(YAMLToolset.probes) /\ Speaks(RemoteMCPToolset.probes) /\ Speaks(HttpToolset.probes)
<1>1. \A s \in Setup :
        PrometheusReady(s) \/ CoralogixReady(s) => Light(s)
  <2> TAKE s \in Setup
  <2>1. s.got[1] \in Found => Light(s)
    BY ExchangeLemma, RepliesLemma DEF Light
  <2>2. Answers(s, 1, Accepted \union {"garbled"}) => Light(s)
    BY AnswersLemma, RepliesLemma
  <2> QED
    BY <2>1, <2>2 DEF PrometheusReady, CoralogixReady
<1>2. \A s \in Setup :
        \/ DatadogGeneralReady(s) \/ DatadogMetricsReady(s) \/ DatadogTracesReady(s)
        \/ DatadogLogsReady(s) \/ TempoReady(s)
      => Light(s)
  <2> TAKE s \in Setup
  <2>1. \A S : Retried(s, S) \subseteq Found \/ Retried(s, S) \subseteq Accepted => Light(s)
    BY RetriedLemma, RepliesLemma
  <2> QED
    BY <2>1 DEF DatadogGeneralReady, DatadogMetricsReady, DatadogTracesReady, DatadogLogsReady,
                DatadogReplies, TempoReady, TempoReplies
<1>3. \A s \in Setup :
        \/ ElasticsearchReady(s) \/ GrafanaReady(s) \/ LokiReady(s) \/ RabbitMQReady(s)
        \/ ServiceNowReady(s) \/ DatabaseReady(s) \/ AzureSQLReady(s) \/ KubernetesLogsReady(s)
        \/ YAMLReady(s) \/ MCPReady(s) \/ HttpReady(s)
      => Light(s)
  BY AnswersLemma, RepliesLemma
     DEF ElasticsearchReady, GrafanaReady, LokiReady, RabbitMQReady, ServiceNowReady, DatabaseReady,
         AzureSQLReady, KubernetesLogsReady, YAMLReady, MCPReady, HttpReady
<1>4. \A s \in Setup : KafkaReady(s) => Light(s)
  BY ExchangeLemma, RepliesLemma DEF KafkaReady, Got, Light
<1>5. ASSUME NEW probes,
             \A p \in probes : \E s \in Setup : (p.ready => Light(s)) /\ Darkness(p, s)
      PROVE  Speaks(probes)
  BY <1>5, LightLemma DEF Speaks, Darkness
<1>6. /\ Speaks(PrometheusToolset.probes)
      /\ Speaks(CoralogixToolset.probes)
      /\ Speaks(DatadogGeneralToolset.probes)
      /\ Speaks(DatadogMetricsToolset.probes)
      /\ Speaks(DatadogTracesToolset.probes)
      /\ Speaks(DatadogLogsToolset.probes)
  <2>1. \A p \in PrometheusToolset.probes : \E s \in Setup : (p.ready => Light(s)) /\ Darkness(p, s)
    BY <1>1, <1>2 DEF PrometheusToolset, Probes, Darkness, Dark
  <2>2. \A p \in CoralogixToolset.probes : \E s \in Setup : (p.ready => Light(s)) /\ Darkness(p, s)
    BY <1>1, <1>2 DEF CoralogixToolset, Probes, Darkness, Dark
  <2>3. \A p \in DatadogGeneralToolset.probes : \E s \in Setup : (p.ready => Light(s)) /\ Darkness(p, s)
    BY <1>1, <1>2 DEF DatadogGeneralToolset, Probes, Darkness, Dark
  <2>4. \A p \in DatadogMetricsToolset.probes : \E s \in Setup : (p.ready => Light(s)) /\ Darkness(p, s)
    BY <1>1, <1>2 DEF DatadogMetricsToolset, Probes, Darkness, Dark
  <2>5. \A p \in DatadogTracesToolset.probes : \E s \in Setup : (p.ready => Light(s)) /\ Darkness(p, s)
    BY <1>1, <1>2 DEF DatadogTracesToolset, Probes, Darkness, Dark
  <2>6. \A p \in DatadogLogsToolset.probes : \E s \in Setup : (p.ready => Light(s)) /\ Darkness(p, s)
    BY <1>1, <1>2 DEF DatadogLogsToolset, Probes, Darkness, Dark
  <2> QED
    BY <1>5, <2>1, <2>2, <2>3, <2>4, <2>5, <2>6
<1>7. /\ Speaks(ElasticsearchToolsets.probes)
      /\ Speaks(GrafanaToolset.probes)
      /\ Speaks(GrafanaLokiToolset.probes)
      /\ Speaks(GrafanaTempoToolset.probes)
  <2>1. \A p \in ElasticsearchToolsets.probes : \E s \in Setup : (p.ready => Light(s)) /\ Darkness(p, s)
    BY <1>2, <1>3 DEF ElasticsearchToolsets, Probes, Darkness, Dark
  <2>2. \A p \in GrafanaToolset.probes : \E s \in Setup : (p.ready => Light(s)) /\ Darkness(p, s)
    BY <1>2, <1>3 DEF GrafanaToolset, Probes, Darkness, Dark
  <2>3. \A p \in GrafanaLokiToolset.probes : \E s \in Setup : (p.ready => Light(s)) /\ Darkness(p, s)
    BY <1>2, <1>3 DEF GrafanaLokiToolset, Probes, Darkness, Dark
  <2>4. \A p \in GrafanaTempoToolset.probes : \E s \in Setup : (p.ready => Light(s)) /\ Darkness(p, s)
    BY <1>2, <1>3 DEF GrafanaTempoToolset, Probes, Darkness, Dark
  <2> QED
    BY <1>5, <2>1, <2>2, <2>3, <2>4
<1>8. /\ Speaks(KafkaToolset.probes)
      /\ Speaks(RabbitMQToolset.probes)
      /\ Speaks(ServiceNowTablesToolset.probes)
      /\ Speaks(DatabaseToolset.probes)
      /\ Speaks(AzureSQLToolset.probes)
  <2>1. \A p \in KafkaToolset.probes : \E s \in Setup : (p.ready => Light(s)) /\ Darkness(p, s)
    BY <1>3, <1>4 DEF KafkaToolset, Probes, Darkness, Dark
  <2>2. \A p \in RabbitMQToolset.probes : \E s \in Setup : (p.ready => Light(s)) /\ Darkness(p, s)
    BY <1>3, <1>4 DEF RabbitMQToolset, Probes, Darkness, Dark
  <2>3. \A p \in ServiceNowTablesToolset.probes : \E s \in Setup : (p.ready => Light(s)) /\ Darkness(p, s)
    BY <1>3, <1>4 DEF ServiceNowTablesToolset, Probes, Darkness, Dark
  <2>4. \A p \in DatabaseToolset.probes : \E s \in Setup : (p.ready => Light(s)) /\ Darkness(p, s)
    BY <1>3, <1>4 DEF DatabaseToolset, Probes, Darkness, Dark
  <2>5. \A p \in AzureSQLToolset.probes : \E s \in Setup : (p.ready => Light(s)) /\ Darkness(p, s)
    BY <1>3, <1>4 DEF AzureSQLToolset, Probes, Darkness, Dark
  <2> QED
    BY <1>5, <2>1, <2>2, <2>3, <2>4, <2>5
<1>9. /\ Speaks(KubernetesLogsToolset.probes)
      /\ Speaks(YAMLToolset.probes)
      /\ Speaks(RemoteMCPToolset.probes)
      /\ Speaks(HttpToolset.probes)
  <2>1. \A p \in KubernetesLogsToolset.probes : \E s \in Setup : (p.ready => Light(s)) /\ Darkness(p, s)
    BY <1>3 DEF KubernetesLogsToolset, Probes, Darkness, Dark
  <2>2. \A p \in YAMLToolset.probes : \E s \in Setup : (p.ready => Light(s)) /\ Darkness(p, s)
    BY <1>3 DEF YAMLToolset, Probes, Darkness, Dark
  <2>3. \A p \in RemoteMCPToolset.probes : \E s \in Setup : (p.ready => Light(s)) /\ Darkness(p, s)
    BY <1>3 DEF RemoteMCPToolset, Probes, Darkness, Dark
  <2>4. \A p \in HttpToolset.probes : \E s \in Setup : (p.ready => Light(s)) /\ Darkness(p, s)
    BY <1>3 DEF HttpToolset, Probes, Darkness, Dark
  <2> QED
    BY <1>5, <2>1, <2>2, <2>3, <2>4
<1> QED
  BY <1>6, <1>7, <1>8, <1>9

\* The others are listed.
LEMMA ProbesLemma ==
  \A ts \in DOMAIN Toolsets \ Unprobed : Speaks(Toolsets[ts].probes)
BY SpeaksLemma DEF Toolsets, Unprobed
-----------------------------------------------------------------------------
(* The results of the calls *)

\* What the agent may be shown.
TrueResult(r) ==
  /\ r \in Result
  /\ r.failed => r.tells \/ r.status = "error" \/ tool \in Quiet
  /\ r.status = "no_data" => ~r.found \/ tool \in Summarizing

\* The tool is one of the toolset, and its prerequisites are left, or came to what they can.
Known ==
  /\ toolset \in DOMAIN Toolsets /\ tool \in DOMAIN Toolsets[toolset].tools
  /\ initialized = Deferred \/ initialized \in Toolsets[toolset].probes

\* Only a call that ran finds nothing, and a tool runs when its toolset is ready.
ResultOK(c) ==
  /\ TrueResult(c.result)
  /\ c.result.status = "no_data" => c.ran
  /\ c.ran => initialized.ready

\* The result of call i is a ground to refuse call j.
Ground(i, j) ==
  \/ calls[i].args = calls[j].args /\ ~calls[i].refused
  \/ tool = "FetchPodLogs" /\ calls[i].args = NoFilter /\ calls[i].ran /\ ~calls[i].result.found

\* Every refusal in the conversation, or on the way to it, has a ground there: one that is
\* itself refused leads to an earlier one.
Grounded ==
  \A j \in DOMAIN calls :
    calls[j].refused /\ (calls[j].stage = "ended" \/ j \in tool_calls) => \E i \in tool_calls : Ground(i, j)

Told ==
  /\ Known
  /\ \A i \in DOMAIN calls : ResultOK(calls[i])
  /\ Grounded

\* What the agent itself makes up.
LEMMA OwnLemma ==
  \A status \in Empty \union {"approval_required"} :
    LET r == Outcome(status, TRUE, {}) IN r \in Result /\ r.status = status /\ ~r.failed /\ ~r.found
BY DEF Outcome, Result, Empty, Failed

\* What a tool comes to keeps to what is listed.
LEMMA InvokedLemma ==
  ASSUME Known, NEW e \in Invoked
  PROVE  TrueResult(e.result) /\ (e.result.status = "no_data" => initialized.ready)
<1>1. CASE initialized.ready
  <2>1. PICK r \in Toolsets[toolset].tools[tool] :
          e \in {Returned(t, r.status = "raised" \/ tool \notin Forgetful) : t \in Transformed(Caught(r))}
    BY <1>1 DEF Invoked
  <2>2. PICK t \in Transformed(Caught(r)) : e.result = t
    BY <2>1 DEF Returned
  <2>3. r \in Result /\ Says(tool, r)
    BY ToolsLemma DEF Known, Faithful
  <2>4. TrueResult(Caught(r))
    <3>1. CASE r.status = "raised"
      <4>1. PICK d : d = [r EXCEPT !.status = "error", !.tells = TRUE]
        OBVIOUS
      <4>2. d \in Result /\ d.status = "error"
        BY <2>3, <4>1 DEF Result
      <4> QED
        BY <3>1, <4>1, <4>2 DEF Caught, TrueResult
    <3>2. CASE r.status # "raised"
      BY <2>3, <3>2 DEF Caught, TrueResult, Says, Reported, Founded
    <3> QED
      BY <3>1, <3>2
  <2>5. PICK x : x = Caught(r)
    OBVIOUS
  <2>6. PICK d : d = [x EXCEPT !.big = FALSE]
    OBVIOUS
  <2>7. d \in Result /\ d.status = x.status /\ d.tells = x.tells /\ d.failed = x.failed /\ d.found = x.found
    BY <2>4, <2>5, <2>6 DEF TrueResult, Result
  <2>8. t = x \/ t = d
    BY <2>2, <2>5, <2>6 DEF Transformed
  <2> QED
    BY <1>1, <2>2, <2>4, <2>5, <2>7, <2>8 DEF TrueResult
<1>2. CASE ~initialized.ready
  <2>1. e = Returned(Unavailable, TRUE)
    BY <1>2 DEF Invoked
  <2>2. e.result = Unavailable
    BY <2>1 DEF Returned
  <2>3. TrueResult(Unavailable) /\ Unavailable.status = "error"
    BY OwnLemma DEF TrueResult, Unavailable, Empty
  <2> QED
    BY <2>2, <2>3
<1> QED
  BY <1>1, <1>2

\* Nor does the limit on what is shown hide anything.
LEMMA LimitedLemma ==
  ASSUME NEW r, TrueResult(r), NEW x \in Limited(r)
  PROVE  TrueResult(x) /\ (x.status = "no_data" => r.status = "no_data")
<1>1. PICK d : d = [r EXCEPT !.big = FALSE]
  OBVIOUS
<1>2. PICK f : f = [r EXCEPT !.big = FALSE, !.status = "error"]
  OBVIOUS
<1>3. d \in Result /\ d.status = r.status /\ d.tells = r.tells /\ d.failed = r.failed /\ d.found = r.found
  BY <1>1 DEF TrueResult, Result
<1>4. f \in Result /\ f.status = "error"
  BY <1>2 DEF TrueResult, Result
<1>5. x \in {r, d, f}
  BY <1>1, <1>2 DEF Limited
<1> QED
  BY <1>3, <1>4, <1>5 DEF TrueResult

\* A step of one call that is not collected yet.
LEMMA ToldStep ==
  ASSUME IInv, Told, NEW i \in DOMAIN calls, calls[i].stage # "collected", NEW d,
         calls' = [calls EXCEPT ![i] = d], ResultOK(d), d.args = calls[i].args,
         UNCHANGED <<toolset, tool, initialized>>,
         tool_calls' = tool_calls \/ tool_calls' = tool_calls \union {i},
         d.refused /\ (d.stage = "ended" \/ i \in tool_calls') => \E k \in tool_calls : Ground(k, i)
  PROVE  Told'
<1>1. DOMAIN calls' = DOMAIN calls /\ calls'[i] = d /\ \A k \in DOMAIN calls \ {i} : calls'[k] = calls[k]
  BY DEF IInv, Typed
<1>2. Known'
  BY DEF Told, Known
<1>3. \A k \in DOMAIN calls' : ResultOK(calls[k])'
  BY <1>1 DEF Told, ResultOK, TrueResult
<1>4. i \notin tool_calls /\ tool_calls \subseteq DOMAIN calls
  BY DEF IInv, Typed
<1>5. \A k \in tool_calls, j \in DOMAIN calls : Ground(k, j) => Ground(k, j)'
  BY <1>1, <1>4 DEF Ground
<1>6. Grounded'
  <2> SUFFICES ASSUME NEW j \in DOMAIN calls, calls'[j].refused, calls'[j].stage = "ended" \/ j \in tool_calls'
               PROVE  \E k \in tool_calls : Ground(k, j)
    BY <1>1, <1>5 DEF Grounded
  <2>1. CASE j = i
    BY <1>1, <2>1
  <2>2. CASE j # i
    BY <1>1, <2>2 DEF Told, Grounded
  <2> QED
    BY <2>1, <2>2
<1> QED
  BY <1>2, <1>3, <1>6 DEF Told

LEMMA ToldInit == Init => Told
<1> SUFFICES ASSUME Init PROVE Told
  OBVIOUS
<1>1. calls = <<>> /\ DOMAIN calls = {}
  BY DEF Init
<1>2. Known
  BY DEF Init, Known
<1> QED
  BY <1>1, <1>2 DEF Told, Grounded

LEMMA ToldAsk ==
  ASSUME IInv, Told, NEW asked \in Batches, Ask(asked)
  PROVE  Told'
<1>1. PICK n \in {1, 2} : asked \in [1..n -> Args]
  BY DEF Batches
<1>2. PICK Q : calls \in Seq(CallOf(Q))
  BY DEF IInv, Typed
<1>3. PICK new : new = [k \in DOMAIN asked |-> Asked(asked[k])]
  OBVIOUS
<1>4. \A k \in 1..n : new[k] = Asked(asked[k])
  BY <1>1, <1>3
<1>5. calls' = calls \o new /\ UNCHANGED <<toolset, tool, initialized, tool_calls>>
  BY <1>3 DEF Ask
<1>6. /\ Len(calls) \in Nat /\ DOMAIN calls = 1..Len(calls) /\ DOMAIN calls' = 1..(Len(calls) + n)
      /\ \A k \in DOMAIN calls : calls'[k] = calls[k]
      /\ \A k \in Len(calls) + 1 .. Len(calls) + n : k - Len(calls) \in 1..n /\ calls'[k] = new[k - Len(calls)]
  <2>1. new \in Seq({Asked(a) : a \in Args}) /\ Len(new) = n
    BY <1>1, <1>3
  <2>2. calls \in Seq(CallOf(Q) \union {Asked(a) : a \in Args})
    BY <1>2
  <2>3. new \in Seq(CallOf(Q) \union {Asked(a) : a \in Args})
    BY <2>1
  <2> QED
    BY <1>5, <2>1, <2>2, <2>3
<1>7. \A k \in DOMAIN calls' \ DOMAIN calls : \E a : calls'[k] = Asked(a)
  BY <1>4, <1>6
<1>8. \A k \in DOMAIN calls' \ DOMAIN calls :
        calls'[k].stage = "queued" /\ ~calls'[k].refused /\ ~calls'[k].ran /\ calls'[k].result = NotYet
  BY <1>7 DEF Asked
<1>9. TrueResult(NotYet) /\ NotYet.status = "success"
  BY DEF NotYet, Outcome, TrueResult, Result, Failed
<1>10. Known'
  BY <1>5 DEF Told, Known
<1>11. \A k \in DOMAIN calls' : ResultOK(calls[k])'
  BY <1>5, <1>6, <1>8, <1>9 DEF Told, ResultOK, TrueResult
<1>12. tool_calls \subseteq DOMAIN calls
  BY DEF IInv, Typed
<1>13. Grounded'
  <2> SUFFICES ASSUME NEW j \in DOMAIN calls', calls'[j].refused, calls'[j].stage = "ended" \/ j \in tool_calls
               PROVE  \E k \in tool_calls : Ground(k, j)'
    BY <1>5 DEF Grounded
  <2>1. j \in DOMAIN calls /\ calls'[j] = calls[j]
    BY <1>6, <1>8
  <2>2. PICK k \in tool_calls : Ground(k, j)
    BY <2>1 DEF Told, Grounded
  <2> QED
    BY <1>5, <1>6, <1>12, <2>1, <2>2 DEF Ground
<1> QED
  BY <1>10, <1>11, <1>13 DEF Told

LEMMA ToldCheck ==
  ASSUME IInv, Told, NEW i \in DOMAIN calls, Check(i)
  PROVE  Told'
<1>1. PICK Q : calls[i] \in CallOf(Q)
  BY CallLemma
<1>2. PICK refused \in BOOLEAN : refused = (Repeated(calls[i].args) \/ Redundant(calls[i].args))
  OBVIOUS
<1>3. PICK d : d = [calls[i] EXCEPT !.stage = IF refused THEN "ended" ELSE "cleared", !.refused = refused,
                                    !.result = IF refused THEN Refusal ELSE @]
  OBVIOUS
<1>4. calls' = [calls EXCEPT ![i] = d]
  BY <1>2, <1>3 DEF Check
<1>5. /\ d.args = calls[i].args /\ d.ran = calls[i].ran /\ d.refused = refused
      /\ d.result = IF refused THEN Refusal ELSE calls[i].result
  BY <1>1, <1>3 DEF CallOf
<1>6. TrueResult(Refusal) /\ Refusal.status = "error"
  BY OwnLemma DEF Refusal, TrueResult, Empty
<1>7. ResultOK(d)
  BY <1>5, <1>6 DEF Told, ResultOK
<1>8. refused => \E k \in tool_calls : Ground(k, i)
  <2>0. tool_calls \subseteq DOMAIN calls
    BY DEF IInv, Typed
  <2>1. CASE Repeated(calls[i].args)
    <3>1. PICK k \in tool_calls : calls[k].args = calls[i].args
      BY <2>1 DEF Repeated
    <3>2. CASE ~calls[k].refused
      BY <3>1, <3>2 DEF Ground
    <3>3. CASE calls[k].refused
      <4>1. PICK l \in tool_calls : Ground(l, k)
        BY <2>0, <3>3 DEF Told, Grounded
      <4> QED
        BY <3>1, <4>1 DEF Ground
    <3> QED
      BY <3>2, <3>3
  <2>2. CASE Redundant(calls[i].args)
    <3>1. PICK k \in tool_calls : calls[k].result.status = "no_data" /\ calls[k].args = NoFilter
      BY <2>2 DEF Redundant
    <3>2. tool = "FetchPodLogs" /\ tool \notin Summarizing
      BY <2>2 DEF Redundant, Summarizing
    <3>3. calls[k].ran /\ ~calls[k].result.found
      BY <2>0, <3>1, <3>2 DEF Told, ResultOK, TrueResult
    <3> QED
      BY <3>1, <3>2, <3>3 DEF Ground
  <2> QED
    BY <1>2, <2>1, <2>2
<1> QED
  BY <1>4, <1>5, <1>7, <1>8, ToldStep DEF Check

LEMMA ToldEnd ==
  ASSUME IInv, Told, NEW i \in DOMAIN calls, calls[i].stage \in {"cleared", "asking"}, NEW e, NEW approved \in BOOLEAN,
         TrueResult(e.result), e.result.status = "no_data" => initialized.ready, Ended(i, e, approved),
         UNCHANGED <<toolset, tool, initialized>>,
         IF approved THEN tool_calls' = tool_calls \union {i} ELSE UNCHANGED tool_calls
  PROVE  Told'
<1>1. PICK Q : calls[i] \in CallOf(Q)
  BY CallLemma
<1>2. PICK d : d = [calls[i] EXCEPT !.result = e.result, !.remembered = e.remembered,
                      !.ran = initialized.ready, !.stage = IF approved THEN "collected" ELSE "ended"]
  OBVIOUS
<1>3. calls' = [calls EXCEPT ![i] = d]
  BY <1>2 DEF Ended
<1>4. d.args = calls[i].args /\ d.refused = calls[i].refused /\ d.result = e.result /\ d.ran = initialized.ready
  BY <1>1, <1>2 DEF CallOf
<1>5. ~d.refused
  BY <1>4 DEF IInv, CallsOK, CallOK
<1> QED
  BY <1>3, <1>4, <1>5, ToldStep DEF ResultOK

LEMMA ToldInvoke ==
  ASSUME IInv, Told, NEW i \in DOMAIN calls, Invoke(i) \/ Approve(i)
  PROVE  Told'
<1>1. CASE Invoke(i)
  <2>0. PICK e \in Invoked : \E shown \in Limited(e.result) : Ended(i, [e EXCEPT !.result = shown], FALSE)
    BY <1>1 DEF Invoke
  <2>1. PICK shown \in Limited(e.result) : Ended(i, [e EXCEPT !.result = shown], FALSE)
    BY <2>0
  <2>2. PICK f : f = [e EXCEPT !.result = shown]
    OBVIOUS
  <2>3. f.result = shown
    BY <2>2 DEF Invoked, Returned
  <2>4. TrueResult(f.result) /\ (f.result.status = "no_data" => initialized.ready)
    BY <2>1, <2>3, InvokedLemma, LimitedLemma DEF Told
  <2> QED
    BY <1>1, <2>1, <2>2, <2>4, ToldEnd DEF Invoke
<1>2. CASE Approve(i)
  <2>1. PICK e \in Invoked : Ended(i, e, TRUE)
    BY <1>2 DEF Approve
  <2>2. TrueResult(e.result) /\ (e.result.status = "no_data" => initialized.ready)
    BY InvokedLemma DEF Told
  <2> QED
    BY <1>2, <2>1, <2>2, ToldEnd DEF Approve, Appended
<1> QED
  BY <1>1, <1>2

LEMMA ToldAsking ==
  ASSUME IInv, Told, NEW i \in DOMAIN calls, NeedsApproval(i)
  PROVE  Told'
<1>1. PICK Q : calls[i] \in CallOf(Q)
  BY CallLemma
<1>2. PICK r : r = Outcome("approval_required", TRUE, {})
  OBVIOUS
<1>3. PICK d : d = [calls[i] EXCEPT !.stage = "asking", !.result = r]
  OBVIOUS
<1>4. calls' = [calls EXCEPT ![i] = d] /\ calls[i].stage = "cleared"
  BY <1>2, <1>3 DEF NeedsApproval
<1>5. d.args = calls[i].args /\ d.refused = calls[i].refused /\ d.result = r /\ d.ran = calls[i].ran
  BY <1>1, <1>3 DEF CallOf
<1>6. TrueResult(r) /\ r.status = "approval_required"
  BY <1>2, OwnLemma DEF TrueResult
<1>7. ~d.refused /\ ResultOK(d)
  BY <1>4, <1>5, <1>6 DEF IInv, CallsOK, CallOK, Told, ResultOK
<1> QED
  BY <1>4, <1>5, <1>7, ToldStep DEF NeedsApproval

LEMMA ToldCollect ==
  ASSUME IInv, Told, NEW i \in DOMAIN calls, Collect(i) \/ Deny(i)
  PROVE  Told'
<1>1. PICK Q : calls[i] \in CallOf(Q)
  BY CallLemma
<1>2. tool_calls' = tool_calls \union {i} /\ UNCHANGED <<toolset, tool, initialized>>
  BY DEF Collect, Deny, Appended
<1>3. ResultOK(calls[i])
  BY DEF Told
<1>4. CASE Collect(i)
  <2>1. PICK d : d = [calls[i] EXCEPT !.stage = "collected"]
    OBVIOUS
  <2>2. calls' = [calls EXCEPT ![i] = d] /\ calls[i].stage = "ended"
    BY <1>4, <2>1 DEF Collect
  <2>3. d.args = calls[i].args /\ d.refused = calls[i].refused /\ d.result = calls[i].result /\ d.ran = calls[i].ran
    BY <1>1, <2>1 DEF CallOf
  <2>4. d.refused => \E k \in tool_calls : Ground(k, i)
    BY <2>2, <2>3 DEF Told, Grounded
  <2>5. ResultOK(d)
    BY <1>3, <2>3 DEF ResultOK
  <2> QED
    BY <1>2, <2>2, <2>3, <2>4, <2>5, ToldStep
<1>5. CASE Deny(i)
  <2>1. PICK r : r = [calls[i].result EXCEPT !.status = "error"]
    OBVIOUS
  <2>2. PICK d : d = [calls[i] EXCEPT !.stage = "collected", !.result = r]
    OBVIOUS
  <2>3. calls' = [calls EXCEPT ![i] = d] /\ calls[i].stage = "asking"
    <3>1. d = [calls[i] EXCEPT !.stage = "collected", !.result = [@ EXCEPT !.status = "error"]]
      BY <2>1, <2>2
    <3> QED
      BY <1>5, <3>1 DEF Deny
  <2>4. d.args = calls[i].args /\ d.refused = calls[i].refused /\ d.result = r /\ d.ran = calls[i].ran
    BY <1>1, <2>2 DEF CallOf
  <2>5. r \in Result /\ r.status = "error"
    BY <1>3, <2>1 DEF ResultOK, TrueResult, Result
  <2>6. ResultOK(d)
    BY <1>3, <2>4, <2>5 DEF ResultOK, TrueResult
  <2>7. ~d.refused
    BY <2>3, <2>4 DEF IInv, CallsOK, CallOK
  <2> QED
    BY <1>2, <2>3, <2>4, <2>6, <2>7, ToldStep
<1> QED
  BY <1>4, <1>5

\* What a check came to has been checked.
LEMMA CheckedLemma ==
  \A ts \in DOMAIN Toolsets : \A p \in Toolsets[ts].probes : p.checked
<1> DEFINE Checked(probes) == \A p \in probes : p.checked
<1>1. /\ Checked(PrometheusToolset.probes) /\ Checked(DatadogGeneralToolset.probes)
      /\ Checked(DatadogMetricsToolset.probes) /\ Checked(DatadogTracesToolset.probes)
      /\ Checked(DatadogLogsToolset.probes) /\ Checked(NewRelicToolset.probes)
  BY DEF Probes, PrometheusToolset, DatadogGeneralToolset, DatadogMetricsToolset,
       DatadogTracesToolset, DatadogLogsToolset, NewRelicToolset
<1>2. /\ Checked(CoralogixToolset.probes) /\ Checked(ElasticsearchToolsets.probes)
      /\ Checked(OpenSearchQueryAssistToolset.probes) /\ Checked(GrafanaToolset.probes)
      /\ Checked(GrafanaLokiToolset.probes) /\ Checked(GrafanaTempoToolset.probes)
  BY DEF Probes, CoralogixToolset, ElasticsearchToolsets, OpenSearchQueryAssistToolset,
       GrafanaToolset, GrafanaLokiToolset, GrafanaTempoToolset
<1>3. /\ Checked(KafkaToolset.probes) /\ Checked(RabbitMQToolset.probes)
      /\ Checked(MongoDBAtlasToolset.probes) /\ Checked(ServiceNowTablesToolset.probes)
      /\ Checked(DatabaseToolset.probes) /\ Checked(AzureSQLToolset.probes)
  BY DEF Probes, KafkaToolset, RabbitMQToolset, MongoDBAtlasToolset,
       ServiceNowTablesToolset, DatabaseToolset, AzureSQLToolset
<1>4. /\ Checked(KubernetesLogsToolset.probes) /\ Checked(BashExecutorToolset.probes)
      /\ Checked(KubectlRunToolset.probes) /\ Checked(YAMLToolset.probes)
      /\ Checked(ConnectivityCheckToolset.probes) /\ Checked(CoreInvestigationToolset.probes)
  BY DEF Probes, KubernetesLogsToolset, BashExecutorToolset, KubectlRunToolset,
       YAMLToolset, ConnectivityCheckToolset, CoreInvestigationToolset
<1>5. /\ Checked(RemoteMCPToolset.probes) /\ Checked(HttpToolset.probes)
      /\ Checked(InternetToolset.probes) /\ Checked(NotionToolset.probes)
      /\ Checked(RobustaToolset.probes) /\ Checked(RunbookToolset.probes)
  BY DEF Probes, RemoteMCPToolset, HttpToolset, InternetToolset,
       NotionToolset, RobustaToolset, RunbookToolset
<1> HIDE DEF Checked
<1>6. \A ts \in DOMAIN Toolsets : Checked(Toolsets[ts].probes)
  BY <1>1, <1>2, <1>3, <1>4, <1>5 DEF Toolsets
<1> QED
  BY <1>6 DEF Checked

LEMMA ToldInductive == IInv /\ Told /\ [Next]_vars => Told'
<1> SUFFICES ASSUME IInv, Told, [Next]_vars PROVE Told'
  OBVIOUS
<1>1. ASSUME NEW asked \in Batches, Ask(asked) PROVE Told'
  BY <1>1, ToldAsk
<1>2. ASSUME NEW i \in DOMAIN calls, Check(i) PROVE Told'
  BY <1>2, ToldCheck
<1>3. ASSUME NEW i \in DOMAIN calls, Invoke(i) \/ Approve(i) PROVE Told'
  BY <1>3, ToldInvoke
<1>4. ASSUME NEW i \in DOMAIN calls, NeedsApproval(i) PROVE Told'
  BY <1>4, ToldAsking
<1>5. ASSUME NEW i \in DOMAIN calls, Collect(i) \/ Deny(i) PROVE Told'
  BY <1>5, ToldCollect
<1>6. CASE Compact
  <2>1. tool_calls' = {} /\ UNCHANGED <<toolset, tool, initialized, calls>>
    BY <1>6 DEF Compact
  <2>2. \A i \in DOMAIN calls : calls[i].stage = "collected"
    BY <1>6 DEF Compact, Idle, Collected
  <2> QED
    BY <2>1, <2>2 DEF Told, Known, ResultOK, TrueResult, Grounded
<1>7. ASSUME NEW i \in DOMAIN calls, Initialize(i) PROVE Told'
  <2>1. UNCHANGED <<toolset, tool, calls, tool_calls>> /\ initialized' \in Toolsets[toolset].probes
    BY <1>7 DEF Initialize
  <2>2. initialized = Deferred
    BY <1>7, CheckedLemma DEF Initialize, Told, Known
  <2>3. ~initialized.ready
    BY <2>2 DEF Deferred
  <2>4. \A k \in DOMAIN calls : ~calls[k].ran
    BY <2>3 DEF Told, ResultOK
  <2> QED
    BY <2>1, <2>4 DEF Told, Known, ResultOK, TrueResult, Grounded, Ground
<1>8. CASE UNCHANGED vars
  <2>1. UNCHANGED <<toolset, tool, initialized, calls, tool_calls>>
    BY <1>8 DEF vars
  <2> QED
    BY <2>1 DEF Told, Known, ResultOK, TrueResult, Grounded, Ground
<1> QED
  BY <1>1, <1>2, <1>3, <1>4, <1>5, <1>6, <1>7, <1>8 DEF Next

LEMMA ToldInvariant == Spec => [](IInv /\ Told)
BY InitLemma, Inductive, ToldInit, ToldInductive, PTL DEF Spec
-----------------------------------------------------------------------------
\* No result of a call hides an exchange that failed or takes data for none, whatever the
\* services reply, in whatever order the calls end, approved or not: the tools that do are
\* those that are listed.
THEOREM ToolsAnswerTruly == Spec => []AnswersAreTrue
<1>1. Told => AnswersAreTrue
  BY DEF Told, ResultOK, TrueResult, AnswersAreTrue, Collected
<1> QED
  BY <1>1, ToldInvariant, PTL

\* A call is refused only while the result that is its ground is in the conversation, also
\* when the ground was itself refused on the ground of another.
THEOREM RefusalsAreFounded == Spec => []RefusalIsFounded
<1>1. IInv /\ Told => RefusalIsFounded
  BY DEF IInv, Typed, Told, Grounded, Ground, RefusalIsFounded
<1> QED
  BY <1>1, ToldInvariant, PTL

\* The tools of a toolset run only when its prerequisites were answered, also when they are
\* checked at the first call and when they are asked again and again.
THEOREM ReadyToolsetsAnswered == Spec => []ReadyMeansAnswered
<1>1. Told => ReadyMeansAnswered
  BY ProbesLemma DEF Told, Known, ResultOK, Speaks, ReadyMeansAnswered, Deferred
<1> QED
  BY <1>1, ToldInvariant, PTL
-----------------------------------------------------------------------------
(* Folds: induction in terms of sets *)

\* Induction over the numbers up to n.
LEMMA UpTo ==
  ASSUME NEW n \in Nat, NEW T, 0 \in T, \A k \in 1..n : k - 1 \in T => k \in T
  PROVE  \A k \in 0..n : k \in T
<1> DEFINE U == {k \in 0..n : k \notin T}
<1> SUFFICES ASSUME U # {} PROVE FALSE
  OBVIOUS
<1>1. U \subseteq Nat
  OBVIOUS
<1> HIDE DEF U
<1>2. PICK x \in U : \A y \in U : x <= y
  BY <1>1, SmallestLemma
<1>3. x \in 0..n /\ x \notin T
  BY <1>2 DEF U
<1>4. x \in 1..n
  BY <1>3
<1>5. x - 1 \notin U
  BY <1>2, <1>4
<1>6. x - 1 \in T
  BY <1>4, <1>5 DEF U
<1> QED
  BY <1>3, <1>4, <1>6

\* An element of each subset of s, and a function of the subsets that starts with the
\* base and takes in what was picked of a set after the rest of it.
Picks(pick, s) == \A S \in SUBSET s : S # {} => pick[S] \in S
Folds(g, s, pick, op, base) ==
  \A S \in SUBSET s : g[S] = IF S = {} THEN base ELSE op[<<pick[S], g[S \ {pick[S]}]>>]

\* A set of sets that holds the empty one, and each whose rest it holds.
Closed(T, s, pick) ==
  /\ {} \in T
  /\ \A S \in SUBSET s : S # {} => (S \ {pick[S]} \in T => S \in T)

\* Induction over the subsets of a finite set, from each of which one element is picked.
LEMMA PickInduction ==
  ASSUME NEW s, IsFiniteSet(s), NEW pick, Picks(pick, s), NEW T, Closed(T, s, pick)
  PROVE  \A S \in SUBSET s : S \in T
<1> USE DEF Picks, Closed
<1> DEFINE U == {S \in SUBSET s : S \notin T}
<1> SUFFICES ASSUME U # {} PROVE FALSE
  OBVIOUS
<1>1. IsWellFoundedOn(StrictSubsetOrdering(s), SUBSET s)
  <2>1. IsWellFoundedOn(StrictSubsetOrdering(s), FiniteSubsetsOf(s))
    BY FS_StrictSubsetOrderingWellFounded
  <2>2. FiniteSubsetsOf(s) = SUBSET s
    BY FS_FiniteSubsetsOfFinite
  <2> QED
    BY <2>1, <2>2
<1>2. U \subseteq SUBSET s
  OBVIOUS
<1>3. PICK S \in U : \A R \in U : ~(<<R, S>> \in StrictSubsetOrdering(s))
  <2> HIDE DEF U
  <2> QED
    BY <1>1, <1>2, WFMin
<1>4. S \in SUBSET s /\ S \notin T /\ S # {}
  BY <1>3
<1>5. PICK x : x = pick[S]
  OBVIOUS
<1>6. x \in S
  BY <1>4, <1>5
<1>7. <<S \ {x}, S>> \in StrictSubsetOrdering(s)
  BY <1>4, <1>6 DEF StrictSubsetOrdering
<1>8. S \ {x} \in T
  BY <1>3, <1>4, <1>7
<1> QED
  BY <1>4, <1>5, <1>8

\* A fold exists as a function of the subsets of a finite set.
LEMMA FoldExists ==
  ASSUME NEW s, IsFiniteSet(s), NEW pick, Picks(pick, s),
         NEW V, NEW op \in [s \X V -> V], NEW base \in V
  PROVE  \E g \in [SUBSET s -> V] : Folds(g, s, pick, op, base)
<1> USE DEF Picks, Folds
<1> DEFINE n == Cardinality(s)
           Eq(g, S) == g[S] = IF S = {} THEN base ELSE op[<<pick[S], g[S \ {pick[S]}]>>]
           T == {k \in 0..n : \E g \in [SUBSET s -> V] :
                   \A S \in SUBSET s : Cardinality(S) <= k => Eq(g, S)}
<1>1. /\ n \in Nat
      /\ \A S \in SUBSET s : IsFiniteSet(S) /\ Cardinality(S) \in Nat /\ Cardinality(S) <= n
  BY FS_CardinalityType, FS_Subset
<1>2. \A S \in SUBSET s : Cardinality(S) = 0 => S = {}
  BY <1>1, FS_EmptySet
<1>3. 0 \in T
  <2> DEFINE g == [S \in SUBSET s |-> base]
  <2>1. g \in [SUBSET s -> V]
    OBVIOUS
  <2>2. \A S \in SUBSET s : Cardinality(S) <= 0 => Eq(g, S)
    BY <1>1, <1>2
  <2>3. 0 \in 0..n
    BY <1>1
  <2> HIDE DEF g, n
  <2> QED
    BY <2>1, <2>2, <2>3
<1>4. ASSUME NEW k \in 1..n, k - 1 \in T
      PROVE  k \in T
  <2>1. PICK h \in [SUBSET s -> V] :
          \A S \in SUBSET s : Cardinality(S) <= k - 1 => Eq(h, S)
    BY <1>4
  <2> DEFINE g == [S \in SUBSET s |-> IF Cardinality(S) = k
                                      THEN op[<<pick[S], h[S \ {pick[S]}]>>] ELSE h[S]]
  <2>2. ASSUME NEW S \in SUBSET s, Cardinality(S) = k
        PROVE  S # {} /\ pick[S] \in s /\ S \ {pick[S]} \in SUBSET s
    <3>1. S # {}
      BY <1>1, <1>4, <2>2, FS_EmptySet
    <3> QED
      BY <3>1
  <2>3. g \in [SUBSET s -> V]
    <3>1. ASSUME NEW S \in SUBSET s PROVE g[S] \in V
      <4>1. CASE Cardinality(S) = k
        <5>1. <<pick[S], h[S \ {pick[S]}]>> \in s \X V
          BY <2>2, <4>1
        <5> QED
          BY <4>1, <5>1
      <4>2. CASE Cardinality(S) # k
        BY <4>2
      <4> QED
        BY <4>1, <4>2
    <3> QED
      BY <3>1
  <2>4. ASSUME NEW S \in SUBSET s, S # {}
        PROVE  /\ pick[S] \in S /\ S \ {pick[S]} \in SUBSET s
               /\ Cardinality(S \ {pick[S]}) = Cardinality(S) - 1
    <3>1. PICK x : x = pick[S]
      OBVIOUS
    <3>2. x \in S
      BY <2>4, <3>1
    <3>3. Cardinality(S \ {x}) = Cardinality(S) - 1
      BY <1>1, <3>2, FS_RemoveElement
    <3> QED
      BY <3>1, <3>2, <3>3
  <2>5. ASSUME NEW S \in SUBSET s, Cardinality(S) <= k
        PROVE  Eq(g, S)
    <3>1. CASE Cardinality(S) = k
      <4>1. S # {} /\ S \ {pick[S]} \in SUBSET s
        BY <2>2, <3>1
      <4>2. Cardinality(S \ {pick[S]}) # k
        BY <4>1, <2>4, <1>1, <3>1
      <4>3. g[S \ {pick[S]}] = h[S \ {pick[S]}]
        BY <4>1, <4>2
      <4>4. g[S] = op[<<pick[S], h[S \ {pick[S]}]>>]
        BY <3>1
      <4> QED
        BY <4>1, <4>3, <4>4
    <3>2. CASE Cardinality(S) # k
      <4>1. Eq(h, S) /\ g[S] = h[S]
        BY <1>1, <2>1, <2>5, <3>2
      <4>2. S # {} => g[S \ {pick[S]}] = h[S \ {pick[S]}]
        <5>1. S # {} => Cardinality(S \ {pick[S]}) # k /\ S \ {pick[S]} \in SUBSET s
          BY <1>1, <2>4, <2>5
        <5> QED
          BY <5>1
      <4> QED
        BY <4>1, <4>2
    <3> QED
      BY <3>1, <3>2
  <2>6. k \in 0..n
    BY <1>1, <1>4
  <2> HIDE DEF g, n
  <2> QED
    BY <2>3, <2>5, <2>6
<1>5. n \in T
  <2> HIDE DEF T
  <2> QED
    BY <1>1, <1>3, <1>4, UpTo
<1> QED
  BY <1>1, <1>5
-----------------------------------------------------------------------------
(* Sums *)

\* The function that Sum folds a sequence with.
SumOf(f) ==
  CHOOSE iter : iter = [S \in SUBSET (DOMAIN f) |->
                          IF S = {} THEN 0 ELSE iter[S \ {Max(S)}] + f[Max(S)]]

LEMMA MaxLemma ==
  ASSUME NEW S, S # {}, S \subseteq Nat, NEW n \in Nat, \A x \in S : x <= n
  PROVE  Max(S) \in S /\ \A y \in S : y <= Max(S)
<1> DEFINE T == {k \in Nat : \A x \in S : x <= k}
<1>1. T # {} /\ T \subseteq Nat
  OBVIOUS
<1> HIDE DEF T
<1>2. PICK m \in T : \A k \in T : m <= k
  BY <1>1, SmallestLemma
<1>3. m \in Nat /\ \A x \in S : x <= m
  BY <1>2 DEF T
<1>4. m \in S
  <2> SUFFICES ASSUME m \notin S PROVE FALSE
    OBVIOUS
  <2>1. PICK x : x \in S
    OBVIOUS
  <2>2. m # 0 /\ m - 1 \in Nat
    BY <1>3, <2>1
  <2>3. \A y \in S : y <= m - 1
    BY <1>3, <2>2
  <2>4. m - 1 \in T
    BY <2>2, <2>3 DEF T
  <2> QED
    BY <1>2, <1>3, <2>4
<1>5. \E x \in S : \A y \in S : x >= y
  BY <1>3, <1>4
<1> QED
  BY <1>5 DEF Max

\* A sum is what its terms add up to, one by one.
LEMMA SumSteps ==
  ASSUME NEW n \in Nat, NEW f \in [1..n -> Int]
  PROVE  \E h \in [0..n -> Int] :
           h[0] = 0 /\ Sum(f) = h[n] /\ \A k \in 1..n : h[k] = h[k - 1] + f[k]
<1> DEFINE s == 1..n
           pick == [S \in SUBSET s |-> Max(S)]
           op == [p \in s \X Int |-> p[2] + f[p[1]]]
           G == SumOf(f)
<1>1. DOMAIN f = s /\ IsFiniteSet(s)
  BY FS_Interval
<1>2. ASSUME NEW S \in SUBSET s, S # {}
      PROVE  Max(S) \in S /\ \A y \in S : y <= Max(S)
  <2>1. S \subseteq Nat /\ \A x \in S : x <= n
    OBVIOUS
  <2> QED
    BY <1>2, <2>1, MaxLemma
<1>3. Sum(f) = G[s]
  BY <1>1 DEF Sum, FoldLeft, MapThenFoldSet, SumOf
<1>4. G = [S \in SUBSET s |-> IF S = {} THEN 0 ELSE G[S \ {Max(S)}] + f[Max(S)]]
  <2>1. op \in [s \X Int -> Int]
    OBVIOUS
  <2>2. Picks(pick, s)
    BY <1>2 DEF Picks
  <2> HIDE DEF pick, op, s
  <2>3. PICK g \in [SUBSET s -> Int] : Folds(g, s, pick, op, 0)
    <3>1. 0 \in Int
      OBVIOUS
    <3> QED
      BY <1>1, <2>1, <2>2, <3>1, FoldExists
  <2>4. ASSUME NEW S \in SUBSET s, S # {}
        PROVE  op[<<pick[S], g[S \ {pick[S]}]>>] = g[S \ {Max(S)}] + f[Max(S)]
    <3>1. Max(S) \in s /\ pick[S] = Max(S) /\ S \ {Max(S)} \in SUBSET s
      BY <1>2, <2>4 DEF pick
    <3>2. g[S \ {Max(S)}] \in Int
      BY <3>1
    <3>3. <<Max(S), g[S \ {Max(S)}]>> \in s \X Int
      BY <3>1, <3>2
    <3> QED
      BY <3>1, <3>3 DEF op
  <2>5. g = [S \in SUBSET s |-> IF S = {} THEN 0 ELSE g[S \ {Max(S)}] + f[Max(S)]]
    <3>1. \A S \in SUBSET s : g[S] = IF S = {} THEN 0 ELSE g[S \ {Max(S)}] + f[Max(S)]
      BY <2>3, <2>4 DEF Folds
    <3> QED
      BY <3>1
  <2> QED
    BY <1>1, <2>5 DEF SumOf
<1> DEFINE h == [k \in 0..n |-> G[1..k]]
<1> HIDE DEF G
<1>5. G[{}] = 0
  BY <1>4
<1>6. ASSUME NEW k \in 1..n
      PROVE  G[1..k] = G[1..(k - 1)] + f[k]
  <2>1. (1..k) \in SUBSET s /\ 1..k # {}
    OBVIOUS
  <2>2. Max(1..k) = k
    <3>1. PICK S : S = 1..k
      OBVIOUS
    <3>2. S \in SUBSET s /\ S # {} /\ k \in S
      BY <2>1, <3>1
    <3>3. Max(S) \in S /\ k <= Max(S)
      BY <1>2, <3>2
    <3> QED
      BY <3>1, <3>3
  <2>3. (1..k) \ {k} = 1..(k - 1)
    OBVIOUS
  <2> QED
    BY <1>4, <2>1, <2>2, <2>3
<1>7. h[0] = 0 /\ h[n] = G[s]
  <2>1. 1..0 = {}
    OBVIOUS
  <2> QED
    BY <1>5, <2>1
<1>8. \A k \in 1..n : h[k] = h[k - 1] + f[k]
  BY <1>6
<1> HIDE DEF h
<1>9. \A k \in 0..n : h[k] \in Int
  <2> DEFINE T == {k \in 0..n : h[k] \in Int}
  <2>1. 0 \in T
    BY <1>7
  <2>2. \A k \in 1..n : k - 1 \in T => k \in T
    BY <1>8
  <2>3. \A k \in 0..n : k \in T
    <3> HIDE DEF T
    <3> QED
      BY <2>1, <2>2, UpTo
  <2> QED
    BY <2>3
<1>10. h \in [0..n -> Int]
  <2>1. h = [k \in 0..n |-> h[k]]
    BY DEF h
  <2> QED
    BY <1>9, <2>1
<1> QED
  BY <1>3, <1>7, <1>8, <1>10

LEMMA SumType ==
  ASSUME NEW n \in Nat, NEW f \in [1..n -> Int]
  PROVE  Sum(f) \in Int
BY SumSteps

\* A sum of larger terms is larger.
LEMMA SumLe ==
  ASSUME NEW n \in Nat, NEW f \in [1..n -> Int], NEW g \in [1..n -> Int],
         \A k \in 1..n : f[k] <= g[k]
  PROVE  Sum(f) <= Sum(g)
<1>1. PICK h \in [0..n -> Int] :
        h[0] = 0 /\ Sum(f) = h[n] /\ \A k \in 1..n : h[k] = h[k - 1] + f[k]
  BY SumSteps
<1>2. PICK e \in [0..n -> Int] :
        e[0] = 0 /\ Sum(g) = e[n] /\ \A k \in 1..n : e[k] = e[k - 1] + g[k]
  BY SumSteps
<1> DEFINE T == {k \in 0..n : h[k] <= e[k]}
<1>3. 0 \in T
  BY <1>1, <1>2
<1>4. ASSUME NEW k \in 1..n, k - 1 \in T PROVE k \in T
  <2>1. h[k] = h[k - 1] + f[k] /\ e[k] = e[k - 1] + g[k] /\ f[k] <= g[k] /\ h[k - 1] <= e[k - 1]
    BY <1>1, <1>2, <1>4
  <2>2. f[k] \in Int /\ g[k] \in Int /\ h[k - 1] \in Int /\ e[k - 1] \in Int
    OBVIOUS
  <2> QED
    BY <2>1, <2>2
<1>5. n \in T
  <2> HIDE DEF T
  <2>1. \A k \in 0..n : k \in T
    BY <1>3, <1>4, UpTo
  <2> QED
    BY <2>1
<1> QED
  BY <1>1, <1>2, <1>5

\* Sums add up term by term.
LEMMA SumAdd ==
  ASSUME NEW n \in Nat, NEW f \in [1..n -> Int], NEW g \in [1..n -> Int],
         NEW u \in [1..n -> Int], \A k \in 1..n : u[k] = f[k] + g[k]
  PROVE  Sum(u) = Sum(f) + Sum(g)
<1>1. PICK h \in [0..n -> Int] :
        h[0] = 0 /\ Sum(f) = h[n] /\ \A k \in 1..n : h[k] = h[k - 1] + f[k]
  BY SumSteps
<1>2. PICK e \in [0..n -> Int] :
        e[0] = 0 /\ Sum(g) = e[n] /\ \A k \in 1..n : e[k] = e[k - 1] + g[k]
  BY SumSteps
<1>3. PICK d \in [0..n -> Int] :
        d[0] = 0 /\ Sum(u) = d[n] /\ \A k \in 1..n : d[k] = d[k - 1] + u[k]
  BY SumSteps
<1> DEFINE T == {k \in 0..n : d[k] = h[k] + e[k]}
<1>4. 0 \in T
  BY <1>1, <1>2, <1>3
<1>5. ASSUME NEW k \in 1..n, k - 1 \in T PROVE k \in T
  <2>1. /\ h[k] = h[k - 1] + f[k] /\ e[k] = e[k - 1] + g[k] /\ d[k] = d[k - 1] + u[k]
        /\ u[k] = f[k] + g[k] /\ d[k - 1] = h[k - 1] + e[k - 1]
    BY <1>1, <1>2, <1>3, <1>5
  <2>2. f[k] \in Int /\ g[k] \in Int /\ h[k - 1] \in Int /\ e[k - 1] \in Int
    OBVIOUS
  <2> QED
    BY <2>1, <2>2
<1>6. n \in T
  <2> HIDE DEF T
  <2>1. \A k \in 0..n : k \in T
    BY <1>4, <1>5, UpTo
  <2> QED
    BY <2>1
<1> QED
  BY <1>1, <1>2, <1>3, <1>6

\* A sum with at most one term that is not zero.
Point(n, x, v) == [k \in 1..n |-> IF k = x THEN v ELSE 0]

LEMMA SumPoint ==
  ASSUME NEW n \in Nat, NEW x \in 1..n, NEW v \in Int
  PROVE  Sum(Point(n, x, v)) = v
<1> DEFINE f == Point(n, x, v)
<1>1. f \in [1..n -> Int] /\ \A k \in 1..n : f[k] = IF k = x THEN v ELSE 0
  BY DEF Point
<1> HIDE DEF f
<1>2. PICK h \in [0..n -> Int] :
        h[0] = 0 /\ Sum(f) = h[n] /\ \A k \in 1..n : h[k] = h[k - 1] + f[k]
  BY <1>1, SumSteps
<1> DEFINE T == {k \in 0..n : h[k] = IF k < x THEN 0 ELSE v}
<1>3. 0 \in T
  BY <1>2
<1>4. ASSUME NEW k \in 1..n, k - 1 \in T PROVE k \in T
  <2>1. h[k] = h[k - 1] + f[k] /\ h[k - 1] = IF k - 1 < x THEN 0 ELSE v
    BY <1>2, <1>4
  <2>2. f[k] = IF k = x THEN v ELSE 0
    BY <1>1
  <2> QED
    BY <2>1, <2>2
<1>5. n \in T
  <2> HIDE DEF T
  <2>1. \A k \in 0..n : k \in T
    BY <1>3, <1>4, UpTo
  <2> QED
    BY <2>1
<1> QED
  BY <1>2, <1>5 DEF f
-----------------------------------------------------------------------------
(* The shares of the results *)

MessageType == [role : {"system", "user", "assistant", "tool", "note"},
                size : Nat, of : Nat, written : Nat]

SizeOf(i) == conversation[i].size

\* Space for results, spread over the places of the conversation.
Spread(space) == [i \in DOMAIN conversation |-> IF i \in ToolMessages THEN space[i] ELSE 0]

\* What the fold of Allotment carries: space left, results to come, space given.
GivenType == [left : Nat, tools : Int, space : [ToolMessages -> Nat]]

\* While every result got all it needs, the next share is no smaller than any of them;
\* once one was cut, all further shares are alike but for rounding, and are taken whole.
Fair(v, S) ==
  \/ \A i \in S : v.space[i] = SizeOf(i) /\ v.space[i] * v.tools <= v.left
  \/ \E s \in Nat :
       /\ s * v.tools <= v.left /\ v.left <= (s + 1) * v.tools
       /\ \A i \in S : v.space[i] <= s + 1 /\ (v.space[i] < SizeOf(i) => s <= v.space[i])
       /\ \E i \in S : s < SizeOf(i)

\* The results of S have got their space, and nothing was lost.
Shared(v, S) ==
  /\ v \in GivenType /\ v.tools = Cardinality(ToolMessages) - Cardinality(S)
  /\ \A i \in ToolMessages \ S : v.space[i] = 0
  /\ v.left + Sum(Spread(v.space)) = Available
  /\ Fair(v, S)

LEMMA BoundLemma ==
  ASSUME NEW n \in Nat, NEW f \in [1..n -> Nat]
  PROVE  \E b \in Nat : \A i \in 1..n : f[i] <= b
<1> DEFINE T == {k \in 0..n : \E b \in Nat : \A i \in 1..k : f[i] <= b}
<1>1. 0 \in T
  OBVIOUS
<1>2. ASSUME NEW k \in 1..n, k - 1 \in T PROVE k \in T
  <2>1. PICK b \in Nat : \A i \in 1..(k - 1) : f[i] <= b
    BY <1>2
  <2>2. PICK m \in Nat : b <= m /\ f[k] <= m
    <3>1. f[k] \in Nat /\ (b <= f[k] \/ f[k] <= b)
      OBVIOUS
    <3> QED
      BY <3>1
  <2>3. \A i \in 1..k : f[i] <= m
    <3> SUFFICES ASSUME NEW i \in 1..k PROVE f[i] <= m
      OBVIOUS
    <3>1. CASE i = k
      BY <3>1, <2>2
    <3>2. CASE i # k
      <4>1. i \in 1..(k - 1) /\ f[i] \in Nat
        BY <3>2
      <4> QED
        BY <4>1, <2>1, <2>2
    <3> QED
      BY <3>1, <3>2
  <2> QED
    BY <2>3
<1>3. \A k \in 0..n : k \in T
  <2> HIDE DEF T
  <2> QED
    BY <1>1, <1>2, UpTo
<1>4. n \in T
  <2> HIDE DEF T
  <2> QED
    BY <1>3
<1> QED
  BY <1>4

\* There is a largest result.
LEMMA LargestLemma ==
  ASSUME conversation \in Seq(MessageType), NEW S \in SUBSET ToolMessages, S # {}
  PROVE  Largest(S) \in S /\ \A j \in S : SizeOf(j) <= SizeOf(Largest(S))
<1> DEFINE n == Len(conversation)
           f == [i \in 1..n |-> SizeOf(i)]
           Z == {SizeOf(j) : j \in S}
<1>1. /\ n \in Nat /\ S \subseteq 1..n
      /\ \A i \in 1..n : SizeOf(i) \in Nat
  <2>1. DOMAIN conversation = 1..n /\ n \in Nat
    OBVIOUS
  <2>2. \A i \in 1..n : conversation[i] \in MessageType
    OBVIOUS
  <2>3. S \subseteq 1..n
    BY <2>1 DEF ToolMessages
  <2> QED
    BY <2>1, <2>2, <2>3 DEF MessageType, SizeOf
<1>2. f \in [1..n -> Nat]
  BY <1>1
<1>3. PICK b \in Nat : \A i \in 1..n : f[i] <= b
  <2> HIDE DEF f, n
  <2> QED
    BY <1>1, <1>2, BoundLemma
<1>4. Z # {} /\ Z \subseteq Nat /\ \A z \in Z : z <= b
  BY <1>1, <1>3
<1>5. Max(Z) \in Z /\ \A z \in Z : z <= Max(Z)
  <2> HIDE DEF Z
  <2> QED
    BY <1>4, MaxLemma
<1>6. PICK m : m = Max(Z)
  OBVIOUS
<1> DEFINE J == {j \in S : SizeOf(j) = m}
<1>7. J # {} /\ J \subseteq Nat /\ \A j \in J : j <= n
  <2>1. \E j \in S : SizeOf(j) = m
    <3>1. m \in Z
      BY <1>5, <1>6
    <3> QED
      BY <3>1
  <2>2. J # {}
    BY <2>1
  <2>3. J \subseteq 1..n
    BY <1>1
  <2> HIDE DEF J, n
  <2> QED
    BY <1>1, <2>2, <2>3
<1>8. Max(J) \in J /\ \A j \in J : j <= Max(J)
  <2> HIDE DEF J, n
  <2> QED
    BY <1>1, <1>7, MaxLemma
<1>9. PICK x : x = Max(J)
  OBVIOUS
<1>10. x \in S /\ SizeOf(x) = m /\ \A j \in J : j <= x
  BY <1>8, <1>9
<1>11. ASSUME NEW j \in S \ {x} PROVE Smaller(j, x)
  <2>1. SizeOf(j) \in Nat /\ m \in Nat /\ SizeOf(j) <= m /\ j \in Nat /\ x \in Nat
    BY <1>1, <1>4, <1>5, <1>6, <1>10
  <2>2. SizeOf(j) = m => j < x
    BY <2>1, <1>10
  <2> QED
    BY <2>1, <2>2, <1>10 DEF Smaller, SizeOf
<1>12. \E i \in S : \A j \in S \ {i} : Smaller(j, i)
  BY <1>10, <1>11
<1>13. Largest(S) \in S /\ \A j \in S \ {Largest(S)} : Smaller(j, Largest(S))
  BY <1>12 DEF Largest
<1>14. ASSUME NEW j \in S PROVE SizeOf(j) <= SizeOf(Largest(S))
  <2>1. PICK i : i = Largest(S)
    OBVIOUS
  <2>2. i \in S /\ (j = i \/ Smaller(j, i))
    BY <1>13, <2>1
  <2>3. SizeOf(i) \in Nat /\ SizeOf(j) \in Nat
    BY <1>1, <2>2
  <2>4. SizeOf(j) <= SizeOf(i)
    BY <2>2, <2>3 DEF Smaller, SizeOf
  <2> QED
    BY <2>1, <2>4
<1> QED
  BY <1>13, <1>14

\* A share of t + 1 in numbers.
LEMMA ShareLemma ==
  ASSUME NEW left \in Nat, NEW t \in Nat
  PROVE  \E q \in Nat : /\ left \div (t + 1) = q
                        /\ q * t + q <= left /\ left <= q * t + t + q
<1>1. PICK r \in Nat : r = t + 1 /\ r > 0
  OBVIOUS
<1>2. left \div r \in Nat /\ left % r \in 0..(r - 1) /\ left = r * (left \div r) + (left % r)
  BY <1>1
<1>3. PICK q \in Nat : q = left \div r
  BY <1>2
<1>4. r * q <= left /\ left <= r * q + t
  BY <1>1, <1>2, <1>3
<1>5. q * t \in Nat /\ r * q = q * t + q
  BY <1>1, <1>3
<1>6. q * t + q <= left /\ left <= q * t + t + q
  BY <1>4, <1>5
<1> QED
  BY <1>1, <1>3, <1>6

LEMMA ProductLemma ==
  ASSUME NEW a \in Nat, NEW b \in Nat, NEW t \in Nat
  PROVE  /\ a * t \in Nat /\ a * (t + 1) = a * t + a /\ (a + 1) * t = a * t + t
         /\ (a + 1) * (t + 1) = a * t + t + a + 1
         /\ a <= b => a * t <= b * t
OBVIOUS

\* The next result leaves the shares fair.
LEMMA FairLemma ==
  ASSUME NEW S \in SUBSET ToolMessages, NEW x \in S, NEW v \in GivenType, Fair(v, S \ {x}),
         \A j \in ToolMessages : SizeOf(j) \in Nat, \A j \in S : SizeOf(j) <= SizeOf(x),
         NEW t \in Nat, v.tools = t + 1, NEW q \in Nat, v.left \div v.tools = q,
         q * t + q <= v.left, v.left <= q * t + t + q,
         NEW w \in GivenType, w.left = v.left - MinOf(SizeOf(x), q), w.tools = t,
         w.space = [v.space EXCEPT ![x] = MinOf(SizeOf(x), q)]
  PROVE  Fair(w, S)
<1> DEFINE z == SizeOf(x)
           l == v.left
<1>1. /\ z \in Nat /\ l \in Nat /\ w.left \in Nat /\ q * t \in Nat
      /\ \A i \in S : v.space[i] \in Nat /\ SizeOf(i) \in Nat
      /\ w.space[x] = MinOf(z, q)
      /\ \A i \in S \ {x} : w.space[i] = v.space[i]
  BY ProductLemma DEF GivenType
<1>2. CASE \A i \in S \ {x} : v.space[i] = SizeOf(i) /\ v.space[i] * v.tools <= l
  <2>1. CASE z <= q
    <3>1. w.space[x] = z /\ w.left = l - z
      BY <1>1, <2>1 DEF MinOf
    <3>2. z * t \in Nat /\ z * t <= l - z
      <4>1. z * t \in Nat /\ z * t <= q * t
        BY <1>1, <2>1, ProductLemma
      <4> QED
        BY <4>1, <1>1, <2>1
    <3>3. ASSUME NEW i \in S \ {x} PROVE v.space[i] * t <= l - z
      <4>1. v.space[i] \in Nat /\ v.space[i] <= z
        BY <1>1, <1>2
      <4>2. v.space[i] * t \in Nat /\ v.space[i] * t <= z * t
        BY <1>1, <4>1, ProductLemma
      <4> QED
        BY <1>1, <3>2, <4>2
    <3>4. \A i \in S : w.space[i] = SizeOf(i) /\ w.space[i] * w.tools <= w.left
      BY <1>1, <1>2, <3>1, <3>2, <3>3
    <3> QED
      BY <3>4 DEF Fair
  <2>2. CASE q < z
    <3>1. w.space[x] = q /\ w.left = l - q
      BY <1>1, <2>2 DEF MinOf
    <3>2. (q + 1) * t = q * t + t
      BY ProductLemma
    <3>3. q * w.tools <= w.left /\ w.left <= (q + 1) * w.tools
      BY <1>1, <3>1, <3>2
    <3>4. ASSUME NEW i \in S \ {x} PROVE v.space[i] <= q
      <4>1. v.space[i] \in Nat /\ v.space[i] * (t + 1) <= l
        BY <1>1, <1>2
      <4> SUFFICES ASSUME q + 1 <= v.space[i] PROVE FALSE
        BY <4>1
      <4>2. v.space[i] * (t + 1) = v.space[i] * t + v.space[i] /\ v.space[i] * t \in Nat
        BY <4>1, ProductLemma
      <4>3. q + 1 \in Nat
        OBVIOUS
      <4>4. (q + 1) * t <= v.space[i] * t
        BY <4>1, <4>3, ProductLemma
      <4> QED
        BY <1>1, <3>2, <4>1, <4>2, <4>4
    <3>5. \A i \in S : /\ w.space[i] <= q + 1
                       /\ w.space[i] < SizeOf(i) => q <= w.space[i]
      <4> SUFFICES ASSUME NEW i \in S
                   PROVE  /\ w.space[i] <= q + 1
                          /\ w.space[i] < SizeOf(i) => q <= w.space[i]
        OBVIOUS
      <4>1. CASE i = x
        BY <4>1, <3>1
      <4>2. CASE i # x
        BY <4>2, <1>1, <1>2, <3>4
      <4> QED
        BY <4>1, <4>2
    <3>6. \E i \in S : q < SizeOf(i)
      BY <2>2
    <3> QED
      BY <3>3, <3>5, <3>6 DEF Fair
  <2> QED
    BY <2>1, <2>2, <1>1
<1>3. ASSUME NEW s \in Nat, s * v.tools <= l, l <= (s + 1) * v.tools,
             \A i \in S \ {x} : /\ v.space[i] <= s + 1
                                /\ v.space[i] < SizeOf(i) => s <= v.space[i],
             \E i \in S \ {x} : s < SizeOf(i)
      PROVE  Fair(w, S)
  <2>1. s < z
    <3>1. PICK i \in S \ {x} : s < SizeOf(i)
      BY <1>3
    <3>2. SizeOf(i) \in Nat /\ SizeOf(i) <= z
      BY <1>1
    <3> QED
      BY <1>1, <3>1, <3>2
  <2>2. /\ s * t \in Nat /\ s * t + s <= l /\ l <= s * t + t + s + 1
        /\ (s + 1) * t = s * t + t
    <3>1. /\ s * t \in Nat /\ s * (t + 1) = s * t + s /\ (s + 1) * t = s * t + t
          /\ (s + 1) * (t + 1) = s * t + t + s + 1
      BY ProductLemma
    <3> QED
      BY <1>1, <1>3, <3>1
  <2>3. q = s \/ q = s + 1
    <3>1. s <= q
      <4> SUFFICES ASSUME q + 1 <= s PROVE FALSE
        OBVIOUS
      <4>1. q + 1 \in Nat
        OBVIOUS
      <4>2. (q + 1) * t <= s * t /\ (q + 1) * t = q * t + t
        BY <4>1, ProductLemma
      <4> QED
        BY <1>1, <2>2, <4>2
    <3>2. q <= s + 1
      <4> SUFFICES ASSUME s + 2 <= q PROVE FALSE
        OBVIOUS
      <4>1. s + 2 \in Nat /\ s + 1 \in Nat /\ s + 2 = (s + 1) + 1
        OBVIOUS
      <4>2. (s + 2) * t <= q * t
        BY <4>1, ProductLemma
      <4>3. (s + 2) * t = (s + 1) * t + t
        BY <4>1, ProductLemma
      <4> QED
        BY <1>1, <2>2, <4>2, <4>3
    <3> QED
      BY <3>1, <3>2
  <2>4. w.space[x] = q /\ w.left = l - q
    BY <1>1, <2>1, <2>3 DEF MinOf
  <2>5. s * w.tools <= w.left /\ w.left <= (s + 1) * w.tools
    <3>1. CASE q = s
      BY <1>1, <2>2, <2>4, <3>1
    <3>2. CASE q = s + 1
      <4>1. q * t = s * t + t
        BY <2>2, <3>2
      <4> QED
        BY <1>1, <2>2, <2>4, <3>2, <4>1
    <3> QED
      BY <2>3, <3>1, <3>2
  <2>6. ASSUME NEW i \in S
        PROVE  /\ w.space[i] <= s + 1
               /\ w.space[i] < SizeOf(i) => s <= w.space[i]
    <3>1. CASE i = x
      BY <2>3, <2>4, <3>1
    <3>2. CASE i # x
      <4>1. w.space[i] = v.space[i] /\ i \in S \ {x}
        BY <1>1, <3>2
      <4> QED
        BY <4>1, <1>3
    <3> QED
      BY <3>1, <3>2
  <2>7. \E i \in S : s < SizeOf(i)
    BY <2>1
  <2> QED
    BY <2>5, <2>6, <2>7 DEF Fair
<1> QED
  BY <1>2, <1>3 DEF Fair

\* One more result gets its space.
LEMMA GiveLemma ==
  ASSUME conversation \in Seq(MessageType), Available \in Nat,
         NEW S \in SUBSET ToolMessages, NEW x \in S, \A j \in S : SizeOf(j) <= SizeOf(x),
         NEW v, Shared(v, S \ {x})
  PROVE  Shared(Give(x, v), S)
<1> DEFINE R == ToolMessages
           n == Len(conversation)
           z == SizeOf(x)
<1>1. /\ n \in Nat /\ DOMAIN conversation = 1..n /\ R \subseteq 1..n
      /\ \A j \in R : SizeOf(j) \in Nat
  <2>1. DOMAIN conversation = 1..n /\ n \in Nat /\ \A i \in 1..n : conversation[i] \in MessageType
    OBVIOUS
  <2> QED
    BY <2>1 DEF ToolMessages, MessageType, SizeOf
<1>2. IsFiniteSet(R) /\ IsFiniteSet(S)
  <2>1. IsFiniteSet(1..n)
    BY <1>1, FS_Interval
  <2>2. IsFiniteSet(R)
    BY <1>1, <2>1, FS_Subset
  <2> QED
    BY <2>2, FS_Subset
<1>3. /\ Cardinality(S) \in Nat /\ Cardinality(R) \in Nat /\ Cardinality(S) <= Cardinality(R)
      /\ Cardinality(S \ {x}) = Cardinality(S) - 1
  BY <1>2, FS_CardinalityType, FS_Subset, FS_RemoveElement
<1>4. /\ v \in GivenType /\ v.tools = Cardinality(R) - Cardinality(S) + 1
      /\ \A i \in R \ (S \ {x}) : v.space[i] = 0
      /\ v.left + Sum(Spread(v.space)) = Available
      /\ Fair(v, S \ {x})
  BY <1>3 DEF Shared
<1>5. PICK t \in Nat : t = Cardinality(R) - Cardinality(S)
  BY <1>3
<1>6. PICK q \in Nat : /\ v.left \div (t + 1) = q
                       /\ q * t + q <= v.left /\ v.left <= q * t + t + q
  BY <1>4, ShareLemma DEF GivenType
<1>7. v.tools = t + 1 /\ v.left \div v.tools = q
  BY <1>4, <1>5, <1>6
<1>8. PICK m : m = MinOf(z, q)
  OBVIOUS
<1>9. m \in Nat /\ m <= v.left /\ v.left \in Nat
  <2>1. z \in Nat /\ q * t \in Nat /\ v.left \in Nat
    BY <1>1, <1>4, ProductLemma DEF GivenType
  <2> QED
    BY <2>1, <1>6, <1>8 DEF MinOf
<1>10. PICK w : w = Give(x, v)
  OBVIOUS
<1>11. w = [left |-> v.left - m, tools |-> v.tools - 1, space |-> [v.space EXCEPT ![x] = m]]
  BY <1>7, <1>8, <1>10 DEF Give, SizeOf
<1>12. /\ w \in GivenType /\ w.left = v.left - m /\ w.tools = t
       /\ w.space = [v.space EXCEPT ![x] = m]
  <2>1. v.left - m \in Nat /\ t \in Int /\ v.tools - 1 = t
    BY <1>7, <1>9
  <2>2. [v.space EXCEPT ![x] = m] \in [R -> Nat]
    BY <1>4, <1>9 DEF GivenType
  <2> QED
    BY <1>11, <2>1, <2>2 DEF GivenType
<1>13. \A i \in R \ S : w.space[i] = 0
  BY <1>4, <1>12 DEF GivenType
<1>14. w.left + Sum(Spread(w.space)) = Available
  <2> DEFINE f == Spread(v.space)
             g == Point(n, x, m)
             u == Spread(w.space)
  <2>1. v.space \in [R -> Nat] /\ w.space \in [R -> Nat] /\ x \in R /\ x \in 1..n
    BY <1>1, <1>4, <1>12 DEF GivenType
  <2>2. f \in [1..n -> Int] /\ u \in [1..n -> Int]
    BY <1>1, <2>1 DEF Spread
  <2>3. g \in [1..n -> Int] /\ \A k \in 1..n : g[k] = IF k = x THEN m ELSE 0
    BY <1>9 DEF Point
  <2>4. \A k \in 1..n : u[k] = f[k] + g[k]
    <3> SUFFICES ASSUME NEW k \in 1..n PROVE u[k] = f[k] + g[k]
      OBVIOUS
    <3>1. /\ f[k] = IF k \in R THEN v.space[k] ELSE 0
          /\ u[k] = IF k \in R THEN w.space[k] ELSE 0
      BY <1>1 DEF Spread
    <3>2. CASE k = x
      <4>1. v.space[x] = 0 /\ w.space[x] = m /\ m \in Nat
        BY <1>4, <1>9, <1>12, <2>1
      <4> QED
        BY <3>1, <3>2, <4>1, <2>1, <2>3
    <3>3. CASE k # x
      <4>1. k \in R => w.space[k] = v.space[k] /\ v.space[k] \in Nat
        BY <1>12, <2>1, <3>3
      <4> QED
        BY <3>1, <3>3, <4>1, <2>3
    <3> QED
      BY <3>2, <3>3
  <2>5. Sum(g) = m
    <3> HIDE DEF n
    <3>1. m \in Int
      BY <1>9
    <3> QED
      BY <1>1, <2>1, <3>1, SumPoint
  <2> HIDE DEF f, g, u, n
  <2>6. Sum(u) = Sum(f) + Sum(g)
    BY <1>1, <2>2, <2>3, <2>4, SumAdd
  <2>7. Sum(f) \in Int
    BY <1>1, <2>2, SumType
  <2>8. v.left + Sum(f) = Available
    BY <1>4 DEF f
  <2>9. w.left + Sum(u) = Available
    BY <1>9, <1>12, <2>5, <2>6, <2>7, <2>8
  <2> QED
    BY <2>9 DEF u
<1>15. Fair(w, S)
  <2> HIDE DEF n, R
  <2>1. \A j \in ToolMessages : SizeOf(j) \in Nat
    BY <1>1 DEF R
  <2>2. /\ w.left = v.left - MinOf(SizeOf(x), q) /\ w.tools = t
        /\ w.space = [v.space EXCEPT ![x] = MinOf(SizeOf(x), q)]
    BY <1>8, <1>12
  <2>3. w \in GivenType /\ v \in GivenType /\ Fair(v, S \ {x})
    BY <1>4, <1>12
  <2> HIDE DEF z
  <2> QED
    BY <1>6, <1>7, <2>1, <2>2, <2>3, FairLemma
<1>16. w.tools = Cardinality(R) - Cardinality(S)
  BY <1>5, <1>12
<1> QED
  BY <1>10, <1>12, <1>13, <1>14, <1>15, <1>16 DEF Shared

\* The state of the fold after each set of results.
GivenOf ==
  CHOOSE iter : iter = [S \in SUBSET ToolMessages |->
                          IF S = {} THEN [left |-> Available, tools |-> Cardinality(ToolMessages),
                                          space |-> [i \in ToolMessages |-> 0]]
                          ELSE Give(Largest(S), iter[S \ {Largest(S)}])]

LEMMA GivenLemma ==
  ASSUME conversation \in Seq(MessageType), Available \in Nat
  PROVE  Allotment = GivenOf[ToolMessages].space /\ Shared(GivenOf[ToolMessages], ToolMessages)
<1> DEFINE R == ToolMessages
           n == Len(conversation)
           base == [left |-> Available, tools |-> Cardinality(R), space |-> [i \in R |-> 0]]
           pick == [S \in SUBSET R |-> Largest(S)]
           op == [p \in R \X GivenType |-> IF p[2].tools > 0 THEN Give(p[1], p[2]) ELSE p[2]]
           G == GivenOf
<1>1. /\ IsFiniteSet(R) /\ Cardinality(R) \in Nat /\ R \subseteq 1..n /\ n \in Nat
      /\ DOMAIN conversation = 1..n /\ \A j \in R : SizeOf(j) \in Nat
  <2>1. /\ DOMAIN conversation = 1..n /\ n \in Nat
        /\ \A i \in 1..n : conversation[i] \in MessageType
    OBVIOUS
  <2>2. R \subseteq 1..n
    BY <2>1 DEF ToolMessages
  <2>3. \A j \in R : SizeOf(j) \in Nat
    BY <2>1, <2>2 DEF MessageType, SizeOf
  <2> HIDE DEF R, n
  <2>4. IsFiniteSet(1..n)
    BY <2>1, FS_Interval
  <2>5. IsFiniteSet(R)
    BY <2>2, <2>4, FS_Subset
  <2> QED
    BY <2>1, <2>2, <2>3, <2>5, FS_CardinalityType
<1>2. Picks(pick, R) /\ \A S \in SUBSET R : S # {} => pick[S] = Largest(S) /\ Largest(S) \in S
  BY LargestLemma DEF Picks
<1>3. base \in GivenType /\ base.left = Available /\ base.tools = Cardinality(R)
      /\ \A i \in R : base.space[i] = 0
  BY <1>1 DEF GivenType
<1>4. ASSUME NEW i \in R, NEW v \in GivenType, v.tools > 0
      PROVE  Give(i, v) \in GivenType /\ Give(i, v).tools = v.tools - 1
  <2>1. PICK t \in Nat : v.tools = t + 1
    <3>1. v.tools \in Int /\ v.tools - 1 \in Nat
      BY <1>4 DEF GivenType
    <3> QED
      BY <3>1
  <2>2. v.left \in Nat /\ v.space \in [R -> Nat]
    BY DEF GivenType
  <2>3. PICK q \in Nat : /\ v.left \div (t + 1) = q
                         /\ q * t + q <= v.left /\ v.left <= q * t + t + q
    BY <2>2, ShareLemma
  <2>4. PICK m : m = MinOf(SizeOf(i), q)
    OBVIOUS
  <2>5. m \in Nat /\ v.left - m \in Nat
    <3>1. SizeOf(i) \in Nat /\ q * t \in Nat
      BY <1>1, ProductLemma
    <3> QED
      BY <2>2, <2>3, <2>4, <3>1 DEF MinOf
  <2>6. Give(i, v) = [left |-> v.left - m, tools |-> v.tools - 1,
                      space |-> [v.space EXCEPT ![i] = m]]
    BY <2>1, <2>3, <2>4 DEF Give, SizeOf
  <2>7. [v.space EXCEPT ![i] = m] \in [R -> Nat] /\ v.tools - 1 \in Int
    BY <2>1, <2>2, <2>5
  <2> QED
    BY <2>5, <2>6, <2>7 DEF GivenType
<1>5. op \in [R \X GivenType -> GivenType]
  <2>1. ASSUME NEW i \in R, NEW v \in GivenType
        PROVE  (IF v.tools > 0 THEN Give(i, v) ELSE v) \in GivenType
    BY <1>4
  <2> QED
    BY <2>1
<1>6. \A i \in R, v \in GivenType : v.tools > 0 => op[<<i, v>>] = Give(i, v)
  OBVIOUS
<1>7. \A S \in SUBSET R : /\ IsFiniteSet(S) /\ Cardinality(S) \in Nat
                          /\ Cardinality(S) <= Cardinality(R)
                          /\ \A x \in S : Cardinality(S \ {x}) = Cardinality(S) - 1
  BY <1>1, FS_Subset, FS_CardinalityType, FS_RemoveElement
<1> HIDE DEF pick, op, base, R, n
<1>8. PICK g \in [SUBSET R -> GivenType] : Folds(g, R, pick, op, base)
  BY <1>1, <1>2, <1>3, <1>5, FoldExists
<1>9. \A S \in SUBSET R : g[S].tools = Cardinality(R) - Cardinality(S)
  <2> DEFINE T == {S \in SUBSET R : g[S].tools = Cardinality(R) - Cardinality(S)}
  <2>1. {} \in T
    <3>1. g[{}] = base /\ {} \in SUBSET R /\ Cardinality({}) = 0
      BY <1>8, FS_EmptySet DEF Folds
    <3> QED
      BY <1>1, <1>3, <3>1
  <2>2. ASSUME NEW S \in SUBSET R, S # {}, S \ {pick[S]} \in T
        PROVE  S \in T
    <3>1. PICK x : x = pick[S]
      OBVIOUS
    <3>2. x \in S /\ x \in R
      BY <1>2, <2>2, <3>1
    <3>3. PICK v \in GivenType : v = g[S \ {x}]
      BY <3>2
    <3>4. v.tools = Cardinality(R) - Cardinality(S) + 1 /\ v.tools > 0
      <4>1. v.tools = Cardinality(R) - Cardinality(S \ {x})
        BY <2>2, <3>1, <3>3
      <4>2. /\ Cardinality(S \ {x}) = Cardinality(S) - 1
            /\ Cardinality(S) \in Nat /\ Cardinality(S) <= Cardinality(R)
        BY <1>7, <3>2
      <4> QED
        BY <1>1, <4>1, <4>2
    <3>5. g[S] = op[<<x, v>>]
      BY <1>8, <2>2, <3>1, <3>3 DEF Folds
    <3>6. g[S].tools = v.tools - 1
      BY <1>4, <1>6, <3>2, <3>4, <3>5
    <3> QED
      BY <1>1, <1>7, <3>4, <3>6
  <2>3. \A S \in SUBSET R : S \in T
    <3> HIDE DEF T
    <3>1. \A S \in SUBSET R : S # {} => (S \ {pick[S]} \in T => S \in T)
      BY <2>2
    <3>2. Closed(T, R, pick)
      BY <2>1, <3>1 DEF Closed
    <3> QED
      BY <1>1, <1>2, <3>2, PickInduction
  <2> QED
    BY <2>3
<1>10. g = [S \in SUBSET R |-> IF S = {} THEN base ELSE Give(Largest(S), g[S \ {Largest(S)}])]
  <2>1. ASSUME NEW S \in SUBSET R, S # {}
        PROVE  g[S] = Give(Largest(S), g[S \ {Largest(S)}])
    <3>1. PICK x : x = Largest(S) /\ x = pick[S] /\ x \in S /\ x \in R
      BY <1>2, <2>1
    <3>2. PICK v \in GivenType : v = g[S \ {x}]
      BY <3>1
    <3>3. v.tools > 0
      <4>1. S \ {x} \in SUBSET R
        BY <2>1
      <4>2. v.tools = Cardinality(R) - Cardinality(S \ {x})
        BY <1>9, <3>2, <4>1
      <4>3. /\ Cardinality(S \ {x}) = Cardinality(S) - 1
            /\ Cardinality(S) \in Nat /\ Cardinality(S) <= Cardinality(R)
        BY <1>7, <3>1
      <4> QED
        BY <1>1, <4>2, <4>3
    <3>4. g[S] = op[<<x, v>>]
      BY <1>8, <2>1, <3>1, <3>2 DEF Folds
    <3> QED
      BY <1>6, <3>1, <3>2, <3>3, <3>4
  <2>2. g[{}] = base
    BY <1>8 DEF Folds
  <2> QED
    BY <2>1, <2>2
<1>11. G = [S \in SUBSET R |-> IF S = {} THEN base ELSE Give(Largest(S), G[S \ {Largest(S)}])]
  BY <1>10 DEF GivenOf, R, base
<1>12. Allotment = G[R].space
  BY DEF Allotment, MapThenFoldSet, GivenOf, R
<1> HIDE DEF G
<1>13. \A S \in SUBSET R : Shared(G[S], S)
  <2> DEFINE T == {S \in SUBSET R : Shared(G[S], S)}
  <2>1. {} \in T
    <3>1. G[{}] = base
      BY <1>11
    <3>2. Cardinality({}) = 0
      BY FS_EmptySet
    <3>3. Sum(Spread(base.space)) = 0
      <4> DEFINE f == Spread(base.space)
      <4>1. f \in [1..n -> Int] /\ \A k \in 1..n : f[k] = 0
        BY <1>1, <1>3 DEF Spread, R
      <4> HIDE DEF f
      <4>2. \A k \in 1..n : f[k] = f[k] + f[k]
        BY <4>1
      <4>3. Sum(f) \in Int /\ Sum(f) = Sum(f) + Sum(f)
        BY <1>1, <4>1, <4>2, SumAdd, SumType
      <4>4. Sum(f) = 0
        BY <4>3
      <4> QED
        BY <4>4 DEF f
    <3>4. Fair(base, {})
      BY DEF Fair
    <3>5. Shared(base, {})
      BY <1>1, <1>3, <3>2, <3>3, <3>4 DEF Shared, R
    <3> QED
      BY <3>1, <3>5
  <2>2. ASSUME NEW S \in SUBSET R, S # {}, S \ {pick[S]} \in T
        PROVE  S \in T
    <3>1. PICK x : x = Largest(S) /\ x = pick[S] /\ x \in S
      BY <1>2, <2>2
    <3>2. PICK v : v = G[S \ {x}]
      OBVIOUS
    <3>3. Shared(v, S \ {x})
      BY <2>2, <3>1, <3>2
    <3>4. G[S] = Give(x, v)
      BY <1>11, <2>2, <3>1, <3>2
    <3>5. \A j \in S : SizeOf(j) <= SizeOf(x)
      BY <2>2, <3>1, LargestLemma DEF R
    <3>6. Shared(Give(x, v), S)
      BY <3>1, <3>3, <3>5, GiveLemma DEF R
    <3> QED
      BY <3>4, <3>6
  <2>3. \A S \in SUBSET R : S \in T
    <3> HIDE DEF T
    <3>1. \A S \in SUBSET R : S # {} => (S \ {pick[S]} \in T => S \in T)
      BY <2>2
    <3>2. Closed(T, R, pick)
      BY <2>1, <3>1 DEF Closed
    <3> QED
      BY <1>1, <1>2, <3>2, PickInduction
  <2> QED
    BY <2>3
<1> QED
  BY <1>12, <1>13 DEF G, R

\* The results get no more than there is; and when one is cut, all of it, and no other
\* gets more than one token more.
LEMMA AllotmentLemma ==
  ASSUME conversation \in Seq(MessageType), Available \in Nat
  PROVE  /\ Allotment \in [ToolMessages -> Nat]
         /\ Sum(Spread(Allotment)) <= Available
         /\ \A i \in ToolMessages : Allotment[i] < SizeOf(i) =>
              /\ \A j \in ToolMessages : Allotment[j] <= Allotment[i] + 1
              /\ Sum(Spread(Allotment)) = Available
<1>1. PICK v : v = GivenOf[ToolMessages]
  OBVIOUS
<1>2. Allotment = v.space /\ Shared(v, ToolMessages)
  BY <1>1, GivenLemma
<1>3. /\ v \in GivenType /\ v.tools = Cardinality(ToolMessages) - Cardinality(ToolMessages)
      /\ v.left + Sum(Spread(v.space)) = Available /\ Fair(v, ToolMessages)
  BY <1>2 DEF Shared
<1>4. IsFiniteSet(ToolMessages) /\ v.tools = 0
  <2>1. ToolMessages \subseteq 1..Len(conversation) /\ Len(conversation) \in Nat
    BY DEF ToolMessages
  <2>2. IsFiniteSet(1..Len(conversation))
    BY <2>1, FS_Interval
  <2>3. IsFiniteSet(ToolMessages)
    BY <2>1, <2>2, FS_Subset
  <2>4. Cardinality(ToolMessages) \in Nat
    BY <2>3, FS_CardinalityType
  <2> QED
    BY <1>3, <2>3, <2>4
<1>5. /\ v.left \in Nat /\ v.space \in [ToolMessages -> Nat]
  BY <1>3 DEF GivenType
<1>6. Sum(Spread(v.space)) = Available - v.left
  <2>1. Spread(v.space) \in [1..Len(conversation) -> Int] /\ Len(conversation) \in Nat
    BY <1>5 DEF Spread
  <2>2. Sum(Spread(v.space)) \in Int
    BY <2>1, SumType
  <2> QED
    BY <1>3, <1>5, <2>2
<1>7. ASSUME NEW i \in ToolMessages, v.space[i] < SizeOf(i)
      PROVE  v.left = 0 /\ \A j \in ToolMessages : v.space[j] <= v.space[i] + 1
  <2>1. v.space[i] # SizeOf(i)
    BY <1>5, <1>7
  <2>2. PICK s \in Nat :
          /\ s * v.tools <= v.left /\ v.left <= (s + 1) * v.tools
          /\ \A j \in ToolMessages : /\ v.space[j] <= s + 1
                                     /\ v.space[j] < SizeOf(j) => s <= v.space[j]
    BY <1>3, <2>1 DEF Fair
  <2>3. v.left = 0
    BY <1>4, <1>5, <2>2
  <2>4. ASSUME NEW j \in ToolMessages PROVE v.space[j] <= v.space[i] + 1
    BY <1>5, <1>7, <2>2
  <2> QED
    BY <2>3, <2>4
<1> QED
  BY <1>2, <1>5, <1>6, <1>7

\* The room for results, before they are cut, is a number.
LEMMA PromptsLemma ==
  ASSUME conversation \in Seq(MessageType)
  PROVE  /\ Len(conversation) \in Nat /\ Prompts \in Int /\ Total(conversation) \in Int
         /\ Reserved \in Nat /\ Window \in Nat
<1> DEFINE n == Len(conversation)
           f == [i \in DOMAIN conversation |->
                   IF i \in ToolMessages THEN 0 ELSE conversation[i].size]
           g == [i \in DOMAIN conversation |-> conversation[i].size]
<1>1. n \in Nat /\ DOMAIN conversation = 1..n /\ \A i \in 1..n : conversation[i] \in MessageType
  OBVIOUS
<1>2. \A i \in 1..n : conversation[i].size \in Int
  BY <1>1 DEF MessageType
<1> HIDE DEF n
<1>3. f \in [1..n -> Int] /\ g \in [1..n -> Int]
  BY <1>1, <1>2
<1> HIDE DEF f, g
<1>4. Sum(f) \in Int /\ Sum(g) \in Int
  BY <1>1, <1>3, SumType
<1>5. Prompts \in Int /\ Total(conversation) \in Int
  BY <1>4 DEF Prompts, Total, f, g
<1>6. Reserved \in Nat /\ Window \in Nat
  BY SizesAssumption DEF Reserved, MinOf
<1> QED
  BY <1>1, <1>5, <1>6 DEF n

LEMMA AvailableLemma ==
  ASSUME conversation \in Seq(MessageType), Prompts < Window - Reserved
  PROVE  Available \in Nat
BY PromptsLemma DEF Available
-----------------------------------------------------------------------------
(* The conversation keeps its types, and what a summary may not lose *)

WindowTypeOK ==
  /\ compaction \in BOOLEAN
  /\ conversation \in Seq(MessageType)
  /\ pc \in {"ask", "compact", "cut", "send", "failed"}
  /\ step \in Nat /\ question \in Nat

\* The system prompt comes first.
Headed(ms) == Len(ms) > 0 /\ ms[1] = Message("system", Note, 0)

\* The last message of the user is the question q, as it was written.
Open(ms, q) ==
  \E i \in 1..Len(ms) :
    /\ ms[i].role = "user" /\ ms[i].of = q /\ ms[i].size = ms[i].written
    /\ \A j \in 1..Len(ms) : ms[j].role = "user" => j <= i

\* Results follow the message that asked for them, or one another.
Follows(ms) ==
  \A i \in 1..Len(ms) : ms[i].role = "tool" =>
    i > 1 /\ ms[i - 1].role \in {"assistant", "tool"} /\ ms[i - 1].of = ms[i].of

WindowInv ==
  /\ WindowTypeOK
  /\ Headed(conversation) /\ Follows(conversation)
  /\ pc \in {"compact", "cut", "send"} => Open(conversation, question)

LEMMA MessageLemma ==
  ASSUME NEW role \in {"system", "user", "assistant", "tool", "note"},
         NEW size \in Nat, NEW of \in Nat
  PROVE  /\ Message(role, size, of) \in MessageType
         /\ Message(role, size, of).role = role /\ Message(role, size, of).of = of
         /\ Message(role, size, of).size = Message(role, size, of).written
BY DEF Message, MessageType

\* One message more that is no result.
LEMMA AppendLemma ==
  ASSUME NEW ms \in Seq(MessageType), Headed(ms), Follows(ms),
         NEW m \in MessageType, m.role # "tool"
  PROVE  /\ Append(ms, m) \in Seq(MessageType)
         /\ Headed(Append(ms, m)) /\ Follows(Append(ms, m))
         /\ \A q \in Nat : m.role # "user" /\ Open(ms, q) => Open(Append(ms, m), q)
         /\ m.role = "user" /\ m.size = m.written => Open(Append(ms, m), m.of)
<1> DEFINE n == Len(ms)
<1>1. PICK new : new = Append(ms, m)
  OBVIOUS
<1>2. /\ new \in Seq(MessageType) /\ Len(new) = n + 1 /\ n \in Nat /\ new[n + 1] = m
      /\ \A i \in 1..n : new[i] = ms[i]
  BY <1>1
<1> HIDE DEF n
<1>3. Headed(new)
  BY <1>2 DEF Headed, n
<1>4. Follows(new)
  <2> SUFFICES ASSUME NEW i \in 1..n + 1, new[i].role = "tool"
               PROVE  i > 1 /\ new[i - 1].role \in {"assistant", "tool"}
                            /\ new[i - 1].of = new[i].of
    BY <1>2 DEF Follows
  <2>1. i \in 1..n
    BY <1>2
  <2>2. ms[i].role = "tool" /\ new[i] = ms[i]
    BY <1>2, <2>1
  <2>3. i > 1 /\ ms[i - 1].role \in {"assistant", "tool"} /\ ms[i - 1].of = ms[i].of
    BY <2>1, <2>2 DEF Follows, n
  <2>4. new[i - 1] = ms[i - 1]
    BY <1>2, <2>1, <2>3
  <2> QED
    BY <2>2, <2>3, <2>4
<1>5. ASSUME NEW q \in Nat, m.role # "user", Open(ms, q) PROVE Open(new, q)
  <2>1. PICK i \in 1..n :
          /\ ms[i].role = "user" /\ ms[i].of = q /\ ms[i].size = ms[i].written
          /\ \A j \in 1..n : ms[j].role = "user" => j <= i
    BY <1>5 DEF Open, n
  <2>2. i \in 1..Len(new) /\ new[i] = ms[i]
    BY <1>2, <2>1
  <2>3. ASSUME NEW j \in 1..Len(new), new[j].role = "user" PROVE j <= i
    <3>1. j # n + 1
      BY <1>2, <1>5, <2>3
    <3>2. j \in 1..n
      BY <1>2, <3>1
    <3> QED
      BY <1>2, <2>1, <2>3, <3>2
  <2> QED
    BY <2>1, <2>2, <2>3 DEF Open
<1>6. ASSUME m.role = "user", m.size = m.written PROVE Open(new, m.of)
  <2>1. n + 1 \in 1..Len(new) /\ \A j \in 1..Len(new) : j <= n + 1
    BY <1>2
  <2> QED
    BY <1>2, <1>6, <2>1 DEF Open
<1> QED
  BY <1>1, <1>2, <1>3, <1>4, <1>5, <1>6

LEMMA ConcatLemma ==
  ASSUME NEW V, NEW s \in Seq(V), NEW t \in Seq(V)
  PROVE  /\ s \o t \in Seq(V) /\ Len(s \o t) = Len(s) + Len(t)
         /\ \A i \in 1..Len(s) : (s \o t)[i] = s[i]
         /\ \A i \in Len(s) + 1..Len(s) + Len(t) : (s \o t)[i] = t[i - Len(s)]
OBVIOUS

\* A batch: the message that asks for results, and the results after it.
LEMMA BatchLemma ==
  ASSUME NEW ms \in Seq(MessageType), Headed(ms), Follows(ms), NEW q \in Nat, Open(ms, q),
         NEW a \in MessageType, a.role = "assistant", a.of = q,
         NEW b \in Seq(MessageType), \A i \in 1..Len(b) : b[i].role = "tool" /\ b[i].of = q
  PROVE  /\ Append(ms, a) \o b \in Seq(MessageType) /\ Headed(Append(ms, a) \o b)
         /\ Follows(Append(ms, a) \o b) /\ Open(Append(ms, a) \o b, q)
<1>1. PICK asked : asked = Append(ms, a)
  OBVIOUS
<1>2. PICK l \in Nat : l = Len(asked) /\ l > 0 /\ asked[l] = a
  BY <1>1
<1>3. PICK n \in Nat : n = Len(b)
  OBVIOUS
<1>4. \A i \in 1..n : b[i].role = "tool" /\ b[i].of = q
  BY <1>3
<1>5. /\ asked \in Seq(MessageType) /\ Headed(asked) /\ Follows(asked) /\ Open(asked, q)
  BY <1>1, AppendLemma
<1>6. l > 0 /\ asked[l] = a
  BY <1>2
<1>7. PICK new : new = asked \o b
  OBVIOUS
<1>8. /\ new \in Seq(MessageType) /\ Len(new) = l + n
      /\ \A i \in 1..l : new[i] = asked[i]
      /\ \A i \in l + 1..l + n : new[i] = b[i - l]
  BY <1>2, <1>3, <1>5, <1>7, ConcatLemma
<1>9. \A i \in l + 1..l + n : i - l \in 1..n /\ new[i] = b[i - l]
  BY <1>8
<1>10. Headed(new)
  BY <1>2, <1>5, <1>6, <1>8 DEF Headed
<1>11. Follows(new)
  <2> SUFFICES ASSUME NEW i \in 1..l + n, new[i].role = "tool"
               PROVE  i > 1 /\ new[i - 1].role \in {"assistant", "tool"}
                            /\ new[i - 1].of = new[i].of
    BY <1>8 DEF Follows
  <2>1. CASE i <= l
    <3>1. i \in 1..l /\ new[i] = asked[i]
      BY <1>8, <2>1
    <3>2. /\ i > 1 /\ asked[i - 1].role \in {"assistant", "tool"}
          /\ asked[i - 1].of = asked[i].of
      BY <1>2, <1>5, <3>1 DEF Follows
    <3>3. new[i - 1] = asked[i - 1]
      BY <1>6, <1>8, <3>1, <3>2
    <3> QED
      BY <3>1, <3>2, <3>3
  <2>2. CASE i = l + 1
    <3>1. new[i].of = q
      BY <1>4, <1>9, <2>2
    <3>2. i > 1 /\ new[i - 1] = a
      BY <1>6, <1>8, <2>2
    <3> QED
      BY <3>1, <3>2
  <2>3. CASE i > l + 1
    <3>1. i \in l + 1..l + n /\ i - 1 \in l + 1..l + n
      BY <1>6, <2>3
    <3>2. new[i].of = q /\ new[i - 1].of = q /\ new[i - 1].role = "tool"
      BY <1>4, <1>9, <3>1
    <3> QED
      BY <1>6, <2>3, <3>2
  <2> QED
    BY <1>6, <2>1, <2>2, <2>3
<1>12. Open(new, q)
  <2>1. PICK i \in 1..l :
          /\ asked[i].role = "user" /\ asked[i].of = q /\ asked[i].size = asked[i].written
          /\ \A j \in 1..l : asked[j].role = "user" => j <= i
    BY <1>2, <1>5 DEF Open
  <2>2. i \in 1..Len(new) /\ new[i] = asked[i]
    BY <1>6, <1>8, <2>1
  <2>3. ASSUME NEW j \in 1..Len(new), new[j].role = "user" PROVE j <= i
    <3>1. j \in 1..l
      <4>1. CASE j \in l + 1..l + n
        BY <1>4, <1>9, <2>3, <4>1
      <4> QED
        BY <1>6, <1>8, <4>1
    <3> QED
      BY <1>8, <2>1, <2>3, <3>1
  <2> QED
    BY <2>1, <2>2, <2>3 DEF Open
<1> QED
  BY <1>1, <1>7, <1>8, <1>10, <1>11, <1>12

\* What a summary takes over.
LEMMA CompactedLemma ==
  ASSUME conversation \in Seq(MessageType), question \in Nat, Note \in Nat,
         Headed(conversation), Open(conversation, question), NEW size \in Nat
  PROVE  /\ Compacted(size) \in Seq(MessageType) /\ Headed(Compacted(size))
         /\ Follows(Compacted(size)) /\ Open(Compacted(size), question)
<1> DEFINE n == Len(conversation)
           I == {i \in 1..n : conversation[i].role = "user"}
<1>1. n \in Nat /\ \A i \in 1..n : conversation[i] \in MessageType
  OBVIOUS
<1>2. PICK k \in 1..n :
        /\ conversation[k].role = "user" /\ conversation[k].of = question
        /\ conversation[k].size = conversation[k].written
        /\ \A j \in 1..n : conversation[j].role = "user" => j <= k
  BY DEF Open
<1>3. SelectLastInSeq(conversation, LAMBDA m : m.role = "user") = Max(I)
  <2>1. I # {}
    BY <1>2
  <2> QED
    BY <2>1 DEF SelectLastInSeq
<1>4. Max(I) = k
  <2>1. I # {} /\ I \subseteq Nat /\ \A x \in I : x <= n
    BY <1>1, <1>2
  <2>2. k \in I /\ \A y \in I : y <= k
    BY <1>2
  <2> HIDE DEF I
  <2>3. Max(I) \in I /\ \A y \in I : y <= Max(I)
    BY <1>1, <2>1, MaxLemma
  <2>4. Max(I) \in Nat /\ Max(I) <= k /\ k <= Max(I)
    BY <2>1, <2>2, <2>3
  <2> QED
    BY <2>4
<1>5. PICK a : a = Message("assistant", size, question)
  OBVIOUS
<1>6. PICK b : b = Message("note", Note, question)
  OBVIOUS
<1>7. /\ a \in MessageType /\ a.role = "assistant" /\ b \in MessageType /\ b.role = "note"
  BY <1>5, <1>6, MessageLemma
<1>8. PICK new : new = <<conversation[1], conversation[k], a, b>>
  OBVIOUS
<1>9. Compacted(size) = new
  BY <1>3, <1>4, <1>5, <1>6, <1>8 DEF Compacted
<1>10. /\ conversation[1] \in MessageType /\ conversation[1] = Message("system", Note, 0)
       /\ conversation[1].role = "system" /\ conversation[k] \in MessageType
  BY <1>1, <1>2, MessageLemma DEF Headed
<1>11. /\ new \in Seq(MessageType) /\ Len(new) = 4
       /\ new[1] = conversation[1] /\ new[2] = conversation[k] /\ new[3] = a /\ new[4] = b
  BY <1>7, <1>8, <1>10
<1>12. \A i \in 1..4 : i = 1 \/ i = 2 \/ i = 3 \/ i = 4
  OBVIOUS
<1>13. Headed(new)
  BY <1>10, <1>11 DEF Headed
<1>14. Follows(new)
  BY <1>2, <1>7, <1>10, <1>11, <1>12 DEF Follows
<1>15. Open(new, question)
  <2>1. \A j \in 1..4 : new[j].role = "user" => j <= 2
    BY <1>7, <1>11, <1>12
  <2> QED
    BY <1>2, <1>11, <2>1 DEF Open
<1> QED
  BY <1>9, <1>11, <1>13, <1>14, <1>15
-----------------------------------------------------------------------------
(* The steps *)

LEMMA WindowInitLemma == WindowInit => WindowInv
<1> SUFFICES ASSUME WindowInit PROVE WindowInv
  OBVIOUS
<1>1. Note \in Nat
  BY SizesAssumption
<1>2. PICK m : m = Message("system", Note, 0)
  OBVIOUS
<1>3. m \in MessageType /\ m.role = "system"
  BY <1>1, <1>2, MessageLemma
<1>4. conversation = <<m>> /\ Len(conversation) = 1 /\ conversation[1] = m
  BY <1>2 DEF WindowInit
<1>5. conversation \in Seq(MessageType)
  BY <1>3, <1>4
<1>6. \A i \in 1..1 : i = 1
  OBVIOUS
<1>7. Headed(conversation) /\ Follows(conversation)
  BY <1>2, <1>3, <1>4, <1>6 DEF Headed, Follows
<1> QED
  BY <1>5, <1>7 DEF WindowInit, WindowInv, WindowTypeOK

\* Cut changes sizes of results, and nothing else.
LEMMA CutLemma ==
  ASSUME conversation \in Seq(MessageType), Available \in Nat,
         NEW per \in PerToken, NEW new,
         new = [i \in DOMAIN conversation |->
                  IF i \in ToolMessages THEN Shortened(conversation[i], Allotment[i], per)
                  ELSE conversation[i]]
  PROVE  /\ new \in Seq(MessageType) /\ Len(new) = Len(conversation)
         /\ \A i \in 1..Len(conversation) :
              /\ i \notin ToolMessages => new[i] = conversation[i]
              /\ new[i].role = conversation[i].role /\ new[i].of = conversation[i].of
              /\ i \in ToolMessages => new[i].size <= Allotment[i]
<1>1. PICK n \in Nat : n = Len(conversation)
  OBVIOUS
<1>2. /\ DOMAIN conversation = 1..n
      /\ \A i \in 1..n : conversation[i] \in MessageType
  BY <1>1
<1>3. Allotment \in [ToolMessages -> Nat]
  BY AllotmentLemma
<1>4. PICK space : space = Allotment
  OBVIOUS
<1>5. per \in Nat /\ per > 0
  BY SizesAssumption
<1>6. ASSUME NEW m \in MessageType, NEW s \in Nat
      PROVE  /\ Shortened(m, s, per) \in MessageType
             /\ Shortened(m, s, per).role = m.role /\ Shortened(m, s, per).of = m.of
             /\ Shortened(m, s, per).size <= s
  <2>1. PICK t \in Nat : per = t + 1
    <3>1. per - 1 \in Nat
      BY <1>5
    <3> QED
      BY <1>5, <3>1
  <2>2. PICK c : c = (s + per - 1) \div per
    OBVIOUS
  <2>3. c \in Nat /\ c <= s
    <3>1. (s + t) \div (t + 1) = c /\ s + t \in Nat
      BY <2>1, <2>2
    <3>2. c \in Nat /\ c * t + c <= s + t
      BY <3>1, ShareLemma
    <3>3. CASE c > s
      <4>1. PICK d \in Nat : c = s + d + 1
        <5>1. c - s - 1 \in Nat
          BY <3>2, <3>3
        <5> QED
          BY <3>2, <5>1
      <4>2. c * t = (s + d) * t + t
        BY <4>1, ProductLemma
      <4>3. (s + d) * t \in Nat
        BY ProductLemma
      <4> QED
        BY <3>2, <4>1, <4>2, <4>3
    <3> QED
      BY <3>2, <3>3
  <2>4. m.size \in Nat
    BY DEF MessageType
  <2>5. CASE m.size > s
    <3>1. Shortened(m, s, per) = [m EXCEPT !.size = c]
      BY <2>2, <2>5 DEF Shortened
    <3>2. PICK k : k = [m EXCEPT !.size = c]
      OBVIOUS
    <3>3. k \in MessageType /\ k.role = m.role /\ k.of = m.of /\ k.size = c
      BY <2>3, <3>2 DEF MessageType
    <3> QED
      BY <2>3, <3>1, <3>2, <3>3
  <2>6. CASE ~(m.size > s)
    <3>1. Shortened(m, s, per) = m
      BY <2>6 DEF Shortened
    <3> QED
      BY <2>4, <2>6, <3>1
  <2> QED
    BY <2>5, <2>6
<1>7. ASSUME NEW i \in 1..n
      PROVE  /\ new[i] \in MessageType
             /\ i \notin ToolMessages => new[i] = conversation[i]
             /\ new[i].role = conversation[i].role /\ new[i].of = conversation[i].of
             /\ i \in ToolMessages => new[i].size <= Allotment[i]
  <2>1. new[i] = IF i \in ToolMessages THEN Shortened(conversation[i], space[i], per)
                 ELSE conversation[i]
    BY <1>2, <1>4
  <2>2. CASE i \in ToolMessages
    <3>1. PICK s \in Nat : s = space[i]
      BY <1>3, <1>4, <2>2
    <3>2. PICK m \in MessageType : m = conversation[i]
      BY <1>2
    <3>3. new[i] = Shortened(m, s, per)
      BY <2>1, <2>2, <3>1, <3>2
    <3>4. /\ Shortened(m, s, per) \in MessageType
          /\ Shortened(m, s, per).role = m.role /\ Shortened(m, s, per).of = m.of
          /\ Shortened(m, s, per).size <= s
      BY <1>6
    <3>5. new[i] \in MessageType /\ new[i].role = m.role /\ new[i].of = m.of /\ new[i].size <= s
      BY <3>3, <3>4
    <3> QED
      BY <1>4, <2>2, <3>1, <3>2, <3>5
  <2>3. CASE i \notin ToolMessages
    BY <1>2, <2>1, <2>3
  <2> QED
    BY <2>2, <2>3
<1>8. new \in Seq(MessageType) /\ Len(new) = n
  <2>1. new = [i \in 1..n |-> new[i]]
    BY <1>2
  <2>2. new \in [1..n -> MessageType]
    BY <1>7, <2>1
  <2> QED
    BY <2>2
<1> QED
  BY <1>1, <1>7, <1>8

LEMMA ToolPlaces ==
  ASSUME conversation \in Seq(MessageType), NEW i \in 1..Len(conversation)
  PROVE  i \in ToolMessages <=> conversation[i].role = "tool"
BY DEF ToolMessages

LEMMA QuestionStep == WindowInv /\ Question => WindowInv'
<1> SUFFICES ASSUME WindowInv, Question PROVE WindowInv'
  OBVIOUS
<1>1. /\ WindowTypeOK /\ conversation \in Seq(MessageType) /\ question \in Nat
      /\ Headed(conversation) /\ Follows(conversation)
  BY DEF WindowInv, WindowTypeOK
<1>2. PICK size \in Questions :
        conversation' = Append(conversation, Message("user", size, question + 1))
  BY DEF Question
<1>3. question' = question + 1 /\ step' = 1 /\ pc' = "compact" /\ compaction' = compaction
  BY DEF Question
<1>4. size \in Nat /\ question + 1 \in Nat
  BY <1>1, SizesAssumption
<1>5. PICK m : m = Message("user", size, question + 1)
  OBVIOUS
<1>6. m \in MessageType /\ m.role = "user" /\ m.of = question + 1 /\ m.size = m.written
  <2>1. PICK q \in Nat : q = question + 1
    BY <1>4
  <2>2. m = Message("user", size, q)
    BY <1>5, <2>1
  <2>3. m \in MessageType /\ m.role = "user" /\ m.of = q /\ m.size = m.written
    BY <1>4, <2>2, MessageLemma
  <2> QED
    BY <2>1, <2>3
<1>7. conversation' = Append(conversation, m)
  BY <1>2, <1>5
<1>8. /\ Append(conversation, m) \in Seq(MessageType) /\ Headed(Append(conversation, m))
      /\ Follows(Append(conversation, m)) /\ Open(Append(conversation, m), question + 1)
  BY <1>1, <1>6, AppendLemma
<1> QED
  BY <1>1, <1>3, <1>4, <1>7, <1>8 DEF WindowInv, WindowTypeOK

LEMMA CompactStep == WindowInv /\ CompactHistory => WindowInv'
<1> SUFFICES ASSUME WindowInv, CompactHistory PROVE WindowInv'
  OBVIOUS
<1>1. /\ WindowTypeOK /\ conversation \in Seq(MessageType) /\ question \in Nat
      /\ Headed(conversation) /\ Follows(conversation) /\ Open(conversation, question)
  BY DEF WindowInv, WindowTypeOK, CompactHistory
<1>2. /\ pc' = "cut" /\ compaction' = compaction /\ step' = step /\ question' = question
  BY DEF CompactHistory
<1>3. conversation' = conversation \/ \E size \in Summaries : conversation' = Compacted(size)
  BY DEF CompactHistory
<1>4. ASSUME NEW size \in Summaries
      PROVE  /\ Compacted(size) \in Seq(MessageType) /\ Headed(Compacted(size))
             /\ Follows(Compacted(size)) /\ Open(Compacted(size), question)
  <2>1. size \in Nat /\ Note \in Nat
    BY SizesAssumption
  <2> QED
    BY <1>1, <2>1, CompactedLemma
<1>5. PICK c : c = conversation'
  OBVIOUS
<1>6. c \in Seq(MessageType) /\ Headed(c) /\ Follows(c) /\ Open(c, question)
  BY <1>1, <1>3, <1>4, <1>5
<1> QED
  BY <1>1, <1>2, <1>5, <1>6 DEF WindowInv, WindowTypeOK

LEMMA CutStep == WindowInv /\ Cut => WindowInv'
<1> SUFFICES ASSUME WindowInv, Cut PROVE WindowInv'
  OBVIOUS
<1>1. /\ WindowTypeOK /\ conversation \in Seq(MessageType) /\ question \in Nat
      /\ Headed(conversation) /\ Follows(conversation) /\ Open(conversation, question)
  BY DEF WindowInv, WindowTypeOK, Cut
<1>2. /\ pc' = "send" /\ compaction' = compaction /\ step' = step /\ question' = question
  BY DEF Cut
<1>3. Available \in Nat
  BY <1>1, AvailableLemma DEF Cut
<1>4. PICK per \in PerToken :
        conversation' = [i \in DOMAIN conversation |->
                  IF i \in ToolMessages THEN Shortened(conversation[i], Allotment[i], per)
                  ELSE conversation[i]]
  BY DEF Cut
<1>5. PICK c : c = conversation'
  OBVIOUS
<1>6. PICK n \in Nat : n = Len(conversation)
  BY <1>1
<1>7. /\ c \in Seq(MessageType) /\ Len(c) = n
      /\ \A i \in 1..n :
              /\ i \notin ToolMessages => c[i] = conversation[i]
              /\ c[i].role = conversation[i].role /\ c[i].of = conversation[i].of
  BY <1>1, <1>3, <1>4, <1>5, <1>6, CutLemma
<1>8. \A i \in 1..n : i \notin ToolMessages <=> conversation[i].role # "tool"
  BY <1>1, <1>6, ToolPlaces
<1>9. Headed(c)
  <2>1. n > 0 /\ 1 \in 1..n /\ conversation[1] = Message("system", Note, 0)
    BY <1>1, <1>6 DEF Headed
  <2>2. conversation[1].role = "system"
    BY <2>1 DEF Message
  <2>3. c[1] = conversation[1]
    BY <1>7, <1>8, <2>1, <2>2
  <2> QED
    BY <1>7, <2>1, <2>3 DEF Headed
<1>10. Follows(c)
  <2> SUFFICES ASSUME NEW i \in 1..n, c[i].role = "tool"
               PROVE  i > 1 /\ c[i - 1].role \in {"assistant", "tool"} /\ c[i - 1].of = c[i].of
    BY <1>7 DEF Follows
  <2>1. /\ i > 1 /\ conversation[i - 1].role \in {"assistant", "tool"}
        /\ conversation[i - 1].of = conversation[i].of
    BY <1>1, <1>6, <1>7 DEF Follows
  <2>2. i - 1 \in 1..n
    BY <2>1
  <2> QED
    BY <1>7, <2>1, <2>2
<1>11. Open(c, question)
  <2>1. PICK i \in 1..n :
          /\ conversation[i].role = "user" /\ conversation[i].of = question
          /\ conversation[i].size = conversation[i].written
          /\ \A j \in 1..n : conversation[j].role = "user" => j <= i
    BY <1>1, <1>6 DEF Open
  <2>2. c[i] = conversation[i]
    BY <1>7, <1>8, <2>1
  <2>3. \A j \in 1..n : c[j].role = "user" => j <= i
    BY <1>7, <2>1
  <2> QED
    BY <1>7, <2>1, <2>2, <2>3 DEF Open
<1> QED
  BY <1>1, <1>2, <1>5, <1>7, <1>9, <1>10, <1>11 DEF WindowInv, WindowTypeOK

LEMMA AnswerStep == WindowInv /\ Answer => WindowInv'
<1> SUFFICES ASSUME WindowInv, Answer PROVE WindowInv'
  OBVIOUS
<1>1. /\ WindowTypeOK /\ conversation \in Seq(MessageType) /\ question \in Nat
      /\ Headed(conversation) /\ Follows(conversation)
  BY DEF WindowInv, WindowTypeOK
<1>2. PICK size \in Completions :
        conversation' = Append(conversation, Message("assistant", size, question))
  BY DEF Answer
<1>3. question' = question /\ step' = step /\ pc' = "ask" /\ compaction' = compaction
  BY DEF Answer
<1>4. size \in Nat
  BY SizesAssumption
<1>5. PICK m : m = Message("assistant", size, question)
  OBVIOUS
<1>6. m \in MessageType /\ m.role = "assistant"
  <2>1. PICK q \in Nat : q = question
    BY <1>1
  <2>2. m = Message("assistant", size, q)
    BY <1>5, <2>1
  <2> QED
    BY <1>4, <2>2, MessageLemma
<1>7. conversation' = Append(conversation, m)
  BY <1>2, <1>5
<1>8. /\ Append(conversation, m) \in Seq(MessageType) /\ Headed(Append(conversation, m))
      /\ Follows(Append(conversation, m))
  BY <1>1, <1>6, AppendLemma
<1> QED
  BY <1>1, <1>3, <1>7, <1>8 DEF WindowInv, WindowTypeOK

LEMMA CallToolsStep == WindowInv /\ CallTools => WindowInv'
<1> SUFFICES ASSUME WindowInv, CallTools PROVE WindowInv'
  OBVIOUS
<1>1. /\ WindowTypeOK /\ conversation \in Seq(MessageType) /\ question \in Nat
      /\ step \in Nat /\ Headed(conversation) /\ Follows(conversation)
      /\ Open(conversation, question)
  BY DEF WindowInv, WindowTypeOK, CallTools
<1>2. PICK size \in Completions : \E n \in 1..MaxBatch : \E results \in [1..n -> Outputs] :
       conversation' = Append(conversation, Message("assistant", size, question))
                         \o [i \in 1..n |-> Message("tool", results[i], question)]
  BY DEF CallTools
<1>3. PICK n \in 1..MaxBatch : \E results \in [1..n -> Outputs] :
       conversation' = Append(conversation, Message("assistant", size, question))
                         \o [i \in 1..n |-> Message("tool", results[i], question)]
  BY <1>2
<1>4. PICK results \in [1..n -> Outputs] :
       conversation' = Append(conversation, Message("assistant", size, question))
                         \o [i \in 1..n |-> Message("tool", results[i], question)]
  BY <1>3
<1>5. question' = question /\ step' = step + 1 /\ pc' = "compact" /\ compaction' = compaction
  BY DEF CallTools
<1>6. PICK a : a = Message("assistant", size, question)
  OBVIOUS
<1>7. a \in MessageType /\ a.role = "assistant" /\ a.of = question
  <2>1. size \in Nat
    BY SizesAssumption
  <2>2. PICK q \in Nat : q = question
    BY <1>1
  <2>3. a = Message("assistant", size, q)
    BY <1>6, <2>2
  <2>4. a \in MessageType /\ a.role = "assistant" /\ a.of = q
    BY <2>1, <2>3, MessageLemma
  <2> QED
    BY <2>2, <2>4
<1>8. PICK b : b = [i \in 1..n |-> Message("tool", results[i], question)]
  OBVIOUS
<1>9. \A i \in 1..n : b[i] \in MessageType /\ b[i].role = "tool" /\ b[i].of = question
  <2> SUFFICES ASSUME NEW i \in 1..n
               PROVE  b[i] \in MessageType /\ b[i].role = "tool" /\ b[i].of = question
    OBVIOUS
  <2>1. results[i] \in Nat
    BY SizesAssumption
  <2>2. b[i] = Message("tool", results[i], question)
    BY <1>8
  <2>3. PICK q \in Nat : q = question
    BY <1>1
  <2>4. b[i] = Message("tool", results[i], q)
    BY <2>2, <2>3
  <2>5. b[i] \in MessageType /\ b[i].role = "tool" /\ b[i].of = q
    BY <2>1, <2>4, MessageLemma
  <2> QED
    BY <2>3, <2>5
<1>10. b \in Seq(MessageType) /\ Len(b) = n
  BY <1>8, <1>9
<1>11. conversation' = Append(conversation, a) \o b
  BY <1>4, <1>6, <1>8
<1>12. PICK c : c = Append(conversation, a) \o b
  OBVIOUS
<1>13. c \in Seq(MessageType) /\ Headed(c) /\ Follows(c) /\ Open(c, question)
  BY <1>1, <1>7, <1>9, <1>10, <1>12, BatchLemma
<1> QED
  BY <1>1, <1>5, <1>11, <1>12, <1>13 DEF WindowInv, WindowTypeOK

LEMMA WindowInductive == WindowInv /\ [WindowNext]_windowVars => WindowInv'
<1> SUFFICES ASSUME WindowInv, [WindowNext]_windowVars PROVE WindowInv'
  OBVIOUS
<1> USE DEF WindowInv, WindowTypeOK
<1>1. CASE Question
  BY <1>1, QuestionStep
<1>2. CASE CompactHistory
  BY <1>2, CompactStep
<1>3. CASE CompactTooLong
  BY <1>3 DEF CompactTooLong, Fail
<1>4. CASE Cut
  BY <1>4, CutStep
<1>5. CASE PromptsTooLong
  BY <1>5 DEF PromptsTooLong, Fail
<1>6. CASE Fits
  BY <1>6 DEF Fits
<1>7. CASE Refuse
  BY <1>7 DEF Refuse, Fail
<1>8. CASE Answer
  BY <1>8, AnswerStep
<1>9. CASE CallTools
  BY <1>9, CallToolsStep
<1>10. CASE UNCHANGED windowVars
  BY <1>10 DEF windowVars
<1> QED
  BY <1>1, <1>2, <1>3, <1>4, <1>5, <1>6, <1>7, <1>8, <1>9, <1>10 DEF WindowNext

LEMMA WindowInvariant == WindowSpec => []WindowInv
<1> QED
  BY WindowInitLemma, WindowInductive, PTL DEF WindowSpec

\* What is sent holds the system prompt and the open question as they were written, and
\* results follow what asked for them, after any summaries and cuts.
THEOREM PromptsAlwaysSurvive == WindowSpec => []PromptsSurvive
<1>1. WindowInv => PromptsSurvive
  <2> SUFFICES ASSUME WindowInv, pc = "send"
      PROVE /\ conversation[1] = Message("system", Note, 0)
            /\ \E i \in DOMAIN conversation :
                 /\ conversation[i].role = "user" /\ conversation[i].of = question
                 /\ conversation[i].size = conversation[i].written
            /\ \A i \in ToolMessages : /\ conversation[i - 1].role \in {"assistant", "tool"}
                                       /\ conversation[i - 1].of = conversation[i].of
    BY DEF PromptsSurvive
  <2>1. DOMAIN conversation = 1..Len(conversation)
    BY DEF WindowInv, WindowTypeOK
  <2>2. Headed(conversation) /\ Follows(conversation) /\ Open(conversation, question)
    BY DEF WindowInv
  <2> QED
    BY <2>1, <2>2 DEF Headed, Follows, Open, ToolMessages
<1> QED
  BY <1>1, WindowInvariant, PTL
-----------------------------------------------------------------------------
(* The window *)

\* What is sent after a cut.
LEMMA CutFits == WindowInv /\ Cut => SentFits' /\ SpaceIsShared'
<1> SUFFICES ASSUME WindowInv, Cut PROVE SentFits' /\ SpaceIsShared'
  OBVIOUS
<1>1. conversation \in Seq(MessageType) /\ Prompts < Window - Reserved
  BY DEF WindowInv, WindowTypeOK, Cut
<1>2. /\ Available \in Nat /\ Available = Window - Prompts - Reserved
      /\ Prompts \in Int /\ Reserved \in Nat /\ Window \in Nat
  BY <1>1, AvailableLemma, PromptsLemma DEF Available
<1>3. PICK per \in PerToken :
        conversation' = [i \in DOMAIN conversation |->
                  IF i \in ToolMessages THEN Shortened(conversation[i], Allotment[i], per)
                  ELSE conversation[i]]
  BY DEF Cut
<1>4. allotted' = [i \in ToolMessages |-> [needed |-> conversation[i].size, space |-> Allotment[i]]]
  BY DEF Cut
<1>5. PICK c : c = conversation'
  OBVIOUS
<1>6. PICK n \in Nat : n = Len(conversation) /\ DOMAIN conversation = 1..n
  BY <1>1
<1>7. /\ c \in Seq(MessageType) /\ Len(c) = n /\ DOMAIN c = 1..n
      /\ \A i \in 1..n :
              /\ i \notin ToolMessages => c[i] = conversation[i]
              /\ c[i].role = conversation[i].role
              /\ i \in ToolMessages => c[i].size <= Allotment[i]
  <2>1. /\ c \in Seq(MessageType) /\ Len(c) = n
        /\ \A i \in 1..n :
              /\ i \notin ToolMessages => c[i] = conversation[i]
              /\ c[i].role = conversation[i].role
              /\ i \in ToolMessages => c[i].size <= Allotment[i]
    BY <1>1, <1>2, <1>3, <1>5, <1>6, CutLemma
  <2>2. DOMAIN c = 1..n
    BY <2>1
  <2> QED
    BY <2>1, <2>2
<1>8. PICK R : R = ToolMessages
  OBVIOUS
<1>9. ToolMessages' = R
  BY <1>5, <1>6, <1>7, <1>8 DEF ToolMessages
<1>10. Prompts' = Prompts
  <2>1. [i \in DOMAIN c |-> IF i \in R THEN 0 ELSE c[i].size]
          = [i \in DOMAIN conversation |-> IF i \in R THEN 0 ELSE conversation[i].size]
    BY <1>6, <1>7, <1>8
  <2> QED
    BY <1>5, <1>8, <1>9, <2>1 DEF Prompts
<1>11. Reserved' = Reserved /\ Available' = Available
  BY <1>10 DEF Reserved, Available
<1>12. PICK space : space = Allotment
  OBVIOUS
<1>13. /\ space \in [R -> Nat] /\ Sum(Spread(space)) <= Available
       /\ \A i \in R : space[i] < SizeOf(i) =>
            /\ \A j \in R : space[j] <= space[i] + 1
            /\ Sum(Spread(space)) = Available
  BY <1>1, <1>2, <1>8, <1>12, AllotmentLemma
<1>14. SentFits'
  <2> DEFINE p == [i \in DOMAIN conversation |-> IF i \in ToolMessages THEN 0 ELSE conversation[i].size]
             s == Spread(space)
             f == [i \in 1..n |-> c[i].size]
             g == [i \in 1..n |-> p[i] + s[i]]
  <2>1. \A i \in 1..n : /\ p[i] = IF i \in R THEN 0 ELSE conversation[i].size
                        /\ s[i] = IF i \in R THEN space[i] ELSE 0
    BY <1>6, <1>8 DEF Spread
  <2>2. /\ \A i \in 1..n : c[i].size \in Nat /\ conversation[i].size \in Nat
    <3>1. \A i \in 1..n : c[i] \in MessageType /\ conversation[i] \in MessageType
      BY <1>1, <1>6, <1>7
    <3> QED
      BY <3>1 DEF MessageType
  <2>3. p \in [1..n -> Int] /\ s \in [1..n -> Int]
    <3>1. p = [i \in 1..n |-> p[i]] /\ s = [i \in 1..n |-> s[i]]
      BY <1>6 DEF Spread
    <3> HIDE DEF p, s
    <3>2. \A i \in 1..n : p[i] \in Int /\ s[i] \in Int
      BY <1>13, <2>1, <2>2
    <3> QED
      BY <3>1, <3>2
  <2>4. Sum(p) = Prompts
    BY DEF Prompts
  <2> HIDE DEF p, s
  <2>5. f \in [1..n -> Int] /\ g \in [1..n -> Int] /\ \A i \in 1..n : g[i] = p[i] + s[i]
    BY <2>2, <2>3
  <2>6. \A i \in 1..n : f[i] <= g[i]
    <3> SUFFICES ASSUME NEW i \in 1..n PROVE f[i] <= g[i]
      OBVIOUS
    <3>1. f[i] = c[i].size /\ g[i] = p[i] + s[i] /\ c[i].size \in Nat
      BY <2>2
    <3>2. CASE i \in R
      <4>1. c[i].size <= space[i] /\ space[i] \in Nat
        BY <1>7, <1>8, <1>12, <1>13, <3>2
      <4>2. g[i] = space[i]
        BY <2>1, <3>1, <3>2, <4>1
      <4> QED
        BY <3>1, <4>1, <4>2
    <3>3. CASE i \notin R
      <4>1. c[i].size = conversation[i].size
        BY <1>7, <1>8, <3>3
      <4>2. p[i] = c[i].size /\ s[i] = 0
        BY <2>1, <3>3, <4>1
      <4> QED
        BY <3>1, <4>2
    <3> QED
      BY <3>2, <3>3
  <2>7. Total(conversation)' = Sum(f)
    BY <1>5, <1>7 DEF Total
  <2> HIDE DEF f, g
  <2>8. Sum(f) <= Sum(g) /\ Sum(g) = Sum(p) + Sum(s) /\ Sum(s) \in Int /\ Sum(f) \in Int
    BY <2>3, <2>5, <2>6, SumLe, SumAdd, SumType
  <2>9. Sum(f) <= Prompts + Available
    BY <1>2, <1>13, <2>4, <2>8 DEF s
  <2>10. Sum(f) + Reserved <= Window
    BY <1>2, <2>8, <2>9
  <2> QED
    BY <1>11, <2>7, <2>10 DEF SentFits
<1>15. SpaceIsShared'
  <2> SUFFICES ASSUME NEW i \in DOMAIN allotted', allotted'[i].space < allotted'[i].needed
               PROVE  /\ \A j \in DOMAIN allotted' : allotted'[j].space <= allotted'[i].space + 1
                      /\ Sum([j \in DOMAIN conversation' |->
                            IF j \in DOMAIN allotted' THEN allotted'[j].space ELSE 0]) = Available'
    BY DEF SpaceIsShared
  <2>1. PICK a : a = allotted'
    OBVIOUS
  <2>2. DOMAIN a = R /\ \A j \in R : a[j].space = space[j] /\ a[j].needed = SizeOf(j)
    BY <1>4, <1>8, <1>12, <2>1 DEF SizeOf
  <2>3. i \in R /\ space[i] < SizeOf(i)
    BY <2>1, <2>2
  <2>4. /\ \A j \in R : space[j] <= space[i] + 1
        /\ Sum(Spread(space)) = Available
    BY <1>13, <2>3
  <2>5. [j \in 1..n |-> IF j \in R THEN a[j].space ELSE 0] = Spread(space)
    BY <1>6, <1>8, <2>2 DEF Spread
  <2> QED
    BY <1>5, <1>7, <1>11, <2>1, <2>2, <2>3, <2>4, <2>5
<1> QED
  BY <1>14, <1>15

\* What is sent uncut.
LEMMA FitsFits == WindowInv /\ Fits => SentFits' /\ SpaceIsShared'
<1> SUFFICES ASSUME WindowInv, Fits PROVE SentFits' /\ SpaceIsShared'
  OBVIOUS
<1>1. conversation' = conversation /\ step' = step /\ allotted' = <<>> /\ ~Passes(100)
  BY DEF Fits
<1>2. PICK total \in Int : total = Total(conversation)
  BY PromptsLemma DEF WindowInv, WindowTypeOK
<1>3. PICK tools \in Nat : tools = Tools
  BY SizesAssumption DEF Tools
<1>4. Window \in Nat /\ MaxOutput \in Nat /\ Reserved \in Nat /\ Reserved <= MaxOutput
  BY SizesAssumption DEF Reserved, MinOf
<1>5. 100 * (total + tools + MaxOutput) <= 100 * Window
  BY <1>1, <1>2, <1>3, <1>4 DEF Passes
<1>6. total + Reserved <= Window
  BY <1>4, <1>5
<1>7. Total(conversation)' = total /\ Reserved' = Reserved
  BY <1>1, <1>2 DEF Total, Reserved
<1>8. SentFits'
  BY <1>6, <1>7 DEF SentFits
<1>9. DOMAIN allotted' = {}
  BY <1>1
<1> QED
  BY <1>8, <1>9 DEF SpaceIsShared

\* The other steps send nothing.
LEMMA WindowSteps ==
  WindowInv /\ SentFits /\ SpaceIsShared /\ [WindowNext]_windowVars => SentFits' /\ SpaceIsShared'
<1> SUFFICES ASSUME WindowInv, SentFits, SpaceIsShared, [WindowNext]_windowVars
             PROVE  SentFits' /\ SpaceIsShared'
  OBVIOUS
<1>1. CASE Cut
  BY <1>1, CutFits
<1>2. CASE Fits
  BY <1>2, FitsFits
<1>3. CASE UNCHANGED windowVars
  <2>1. /\ conversation' = conversation /\ pc' = pc /\ allotted' = allotted
    BY <1>3 DEF windowVars
  <2>2. ToolMessages' = ToolMessages
    BY <2>1 DEF ToolMessages
  <2>3. Total(conversation)' = Total(conversation) /\ Reserved' = Reserved
    BY <2>1 DEF Total, Reserved
  <2>4. Available' = Available
    BY <2>1, <2>2, <2>3 DEF Available, Prompts
  <2>5. SentFits'
    BY <2>1, <2>3 DEF SentFits
  <2>6. SpaceIsShared'
    BY <2>1, <2>4 DEF SpaceIsShared
  <2> QED
    BY <2>5, <2>6
<1>4. CASE ~Cut /\ ~Fits /\ WindowNext
  <2>1. pc' # "send"
    BY <1>4 DEF WindowNext, Question, CompactHistory, CompactTooLong, PromptsTooLong, Refuse,
                Answer, CallTools, Fail
  <2> QED
    BY <2>1 DEF SentFits, SpaceIsShared
<1> QED
  BY <1>1, <1>2, <1>3, <1>4

LEMMA WindowKept == WindowSpec => [](SentFits /\ SpaceIsShared)
<1>1. WindowInit => SentFits /\ SpaceIsShared
  BY DEF WindowInit, SentFits, SpaceIsShared
<1> QED
  BY <1>1, WindowSteps, WindowInvariant, PTL DEF WindowSpec

\* Whatever was summarised and cut: what is sent leaves the room that is reserved for the
\* answer.
THEOREM SentAlwaysFits == WindowSpec => []SentFits
<1> QED
  BY WindowKept, PTL

\* Results that are cut share all that the prompts leave, alike but for rounding.
THEOREM SpaceAlwaysShared == WindowSpec => []SpaceIsShared
<1> QED
  BY WindowKept, PTL
=============================================================================
