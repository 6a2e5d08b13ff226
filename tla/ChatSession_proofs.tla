------------------------- MODULE ChatSession_proofs -------------------------
(***************************************************************************)
(* Proofs about ChatSession for every number of requests, steps, calls,    *)
(* compactions and faults: every invariant of the module.                  *)
(*                                                                         *)
(* What a client sends back is a list that an earlier request made, so     *)
(* each of the three invariants says something of every list, wherever it  *)
(* is.                                                                     *)
(*                                                                         *)
(* IInv: its messages are not younger than the request that holds it       *)
(* (Dated), only calls are pending (Fits), and a remembered prefix goes    *)
(* back to a decision that saved it (Sourced).                             *)
(*                                                                         *)
(* ShapeInv: it is tidy.  One message makes the calls of a turn, each call *)
(* is answered once or pending or still at work, and answers follow the    *)
(* message that asked with nothing else between; after an answer that      *)
(* remembers a prefix nothing is pending.                                  *)
(*                                                                         *)
(* TruthInv: it agrees with ran.  A result is that of a run, and no call   *)
(* that is pending or has another answer was run by a request that has     *)
(* delivered its messages, or, for the list of the request that the client *)
(* waits for, that still may.                                              *)
(***************************************************************************)
EXTENDS ChatSession, FiniteSetTheorems, SequenceTheorems, TLAPS

Budget == [calls : 0..MaxCalls, compactions : 0..MaxCompactions, faults : 0..MaxFaults]
Client == [waiting : BOOLEAN, sent : 0..MaxRequests, history : Seq(Message)]
Runs == [call : CallId, kind : Kind, by : Request]

WorkerType == [kind : Kind, state : WorkerState]

Fits(m) == m.pending \subseteq DOMAIN m.calls

\* The message belongs to an earlier request or to a step up to n of request q.
Dated(m, q, n) == m.turn[1] < q \/ (m.turn[1] = q /\ m.turn[2] <= n)

\* The last step of which the list of a request has messages.
Latest(t) == IF t.pc = "llm" THEN t.step - 1 ELSE t.step

ListOK(s, q, n) ==
  /\ s \in Seq(Message)
  /\ \A i \in DOMAIN s : Fits(s[i]) /\ Dated(s[i], q, n)

\* The calls of the batch are those of the message that made them.
Batch(t, turn) ==
  \A i \in DOMAIN t.list :
    t.list[i].role = "assistant" /\ t.list[i].turn = turn
      => Len(t.list[i].calls) = Len(t.worker)

ServedOK(q, t) ==
  /\ t \in Served
  /\ ListOK(t.list, q, Latest(t))
  /\ Len(t.worker) <= MaxCalls
  /\ t.pc = "tools" => Batch(t, <<q, t.step>>)

\* Requests are numbered as they are sent.
Numbered ==
  /\ \A q \in Request : client.sent < q => request[q] = Unsent
  /\ \A e \in ran : e.by <= client.sent

Saved(q) == \E j \in 1..q : request[j].save # {}

\* A prefix that a list remembers was saved by a decision of an earlier request.
Sourced ==
  /\ \A q \in Request : Remembered(request[q].list) => Saved(q)
  /\ Remembered(client.history) => Saved(client.sent)

IInv ==
  /\ TypeOK
  /\ \A q \in Request : ServedOK(q, request[q])
  /\ ListOK(client.history, client.sent, MaxSteps)
  /\ Numbered
  /\ Sourced
  /\ RanApproved
-----------------------------------------------------------------------------
(* Messages and lists *)

\* The messages that the actions make.
LEMMA PlainLemma ==
  ASSUME NEW turn \in Turn, NEW role \in {"system", "user", "assistant", "tool"}
  PROVE  /\ Plain(role, turn) \in Message
         /\ Plain(role, turn).role = role /\ Plain(role, turn).turn = turn
         /\ Plain(role, turn).calls = <<>> /\ Plain(role, turn).pending = {}
         /\ Plain(role, turn).remember = FALSE
BY DEF Plain, Message

LEMMA CallingLemma ==
  \A turn \in Turn, kinds \in Seq(Kind) :
    /\ Calling(turn, kinds) \in Message
    /\ Calling(turn, kinds).role = "assistant" /\ Calling(turn, kinds).turn = turn
    /\ Calling(turn, kinds).calls = kinds
    /\ Calling(turn, kinds).pending = {} /\ Calling(turn, kinds).remember = FALSE
<1> TAKE turn \in Turn, kinds \in Seq(Kind)
<1> DEFINE p == Plain("assistant", turn)
<1>1. p \in Message /\ p.role = "assistant" /\ p.turn = turn /\ p.pending = {} /\ p.remember = FALSE
  BY PlainLemma
<1>2. Calling(turn, kinds) = [p EXCEPT !.calls = kinds]
  BY DEF Calling
<1> HIDE DEF p
<1> QED
  BY <1>1, <1>2 DEF Message

LEMMA AnsweredLemma ==
  ASSUME NEW turn \in Turn, NEW k \in Place, NEW remember \in BOOLEAN,
         NEW o \in {"none", "result", "refused", "denied"}
  PROVE  /\ Answered(turn, k, o, remember) \in Message
         /\ Answered(turn, k, o, remember).role = "tool"
         /\ Answered(turn, k, o, remember).turn = turn
         /\ Answered(turn, k, o, remember).pending = {}
         /\ Answered(turn, k, o, remember).remember = remember
<1> DEFINE p == Plain("tool", turn)
<1>1. /\ p \in Message /\ p.role = "tool" /\ p.turn = turn
      /\ p.calls = <<>> /\ p.pending = {}
  BY PlainLemma
<1>2. Answered(turn, k, o, remember)
        = [p EXCEPT !.place = k, !.outcome = o, !.remember = remember]
  BY DEF Answered
<1> HIDE DEF p
<1> QED
  BY <1>1, <1>2 DEF Message

\* A message appended keeps a list in order.
LEMMA AppendLemma ==
  ASSUME NEW s, NEW m \in Message, NEW q, NEW n, ListOK(s, q, n), Fits(m), Dated(m, q, n)
  PROVE  /\ ListOK(Append(s, m), q, n)
         /\ Remembered(Append(s, m)) => Remembered(s) \/ m.remember
         /\ \A i \in DOMAIN Append(s, m) :
              Append(s, m)[i] = m \/ (i \in DOMAIN s /\ Append(s, m)[i] = s[i])
<1>1. s \in Seq(Message)
  BY DEF ListOK
<1>2. /\ Append(s, m) \in Seq(Message)
      /\ \A i \in DOMAIN Append(s, m) :
           Append(s, m)[i] = m \/ (i \in DOMAIN s /\ Append(s, m)[i] = s[i])
  BY <1>1
<1> QED
  BY <1>1, <1>2 DEF ListOK, Remembered

\* y is x but for the calls that are pending.
Like(y, x) ==
  /\ y.role = x.role /\ y.turn = x.turn /\ y.calls = x.calls /\ y.place = x.place
  /\ y.outcome = x.outcome /\ y.remember = x.remember

\* d is s with m inserted after message h, where call k is no longer pending.
Inserts(d, s, h, k, m) ==
  /\ h \in DOMAIN s /\ h + 1 \in DOMAIN d /\ d[h + 1] = m
  /\ \A i \in DOMAIN s :
       /\ i <= h => i \in DOMAIN d /\ Like(d[i], s[i])
       /\ h < i => i + 1 \in DOMAIN d /\ Like(d[i + 1], s[i]) /\ d[i + 1].pending = s[i].pending
       /\ i < h => d[i].pending = s[i].pending
       /\ i = h => d[i].pending = s[i].pending \ {k}
  /\ \A j \in DOMAIN d :
       /\ j <= h => j \in DOMAIN s
       /\ h + 1 < j => j - 1 \in DOMAIN s

\* Decided inserts an answer and takes a mark away.
LEMMA DecidedInserts ==
  ASSUME NEW s \in Seq(Message), NEW p \in Pending(s), NEW m \in Message
  PROVE  /\ Decided(s, p, m) \in Seq(Message)
         /\ Inserts(Decided(s, p, m), s, p[1], p[2], m)
<1> DEFINE h == p[1]
           k == p[2]
           t == [s EXCEPT ![h].pending = @ \ {k}]
           a == SubSeq(t, 1, h)
           b == SubSeq(t, h + 1, Len(t))
<1>1. h \in DOMAIN s /\ k \in Place
  BY DEF Pending
<1>2. /\ t \in Seq(Message) /\ Len(t) = Len(s) /\ DOMAIN t = DOMAIN s
      /\ \A j \in DOMAIN s : /\ Like(t[j], s[j])
                             /\ j # h => t[j].pending = s[j].pending
                             /\ j = h => t[j].pending = s[j].pending \ {k}
  <2> DEFINE x == [s[h] EXCEPT !.pending = @ \ {k}]
  <2>1. s[h] \in Message
    BY <1>1
  <2>2. x \in Message /\ Like(x, s[h]) /\ x.pending = s[h].pending \ {k}
    BY <2>1 DEF Like, Message
  <2>3. t = [s EXCEPT ![h] = x]
    OBVIOUS
  <2> HIDE DEF x, t
  <2>5. t \in Seq(Message) /\ Len(t) = Len(s) /\ DOMAIN t = DOMAIN s
    BY <2>2, <2>3, <1>1
  <2>6. \A j \in DOMAIN s : t[j] = IF j = h THEN x ELSE s[j]
    BY <2>3
  <2>7. \A j \in DOMAIN s : Like(s[j], s[j])
    BY DEF Like
  <2> QED
    BY <2>2, <2>5, <2>6, <2>7
<1>3. Decided(s, p, m) = a \o <<m>> \o b
  BY DEF Decided
<1> HIDE DEF h, k, t
<1>4. h \in 1..Len(t)
  BY <1>1, <1>2
<1>5. /\ a \in Seq(Message) /\ Len(a) = h
      /\ \A i \in 1..Len(a) : a[i] = t[i]
  BY <1>2, <1>4, SubSeqProperties
<1>6. /\ b \in Seq(Message) /\ Len(b) = Len(t) - h
      /\ \A i \in 1..Len(b) : b[i] = t[h + i]
  <2>1. h \in Nat /\ Len(t) \in Nat /\ h <= Len(t)
    BY <1>2, <1>4
  <2>2. \A i \in (h + 1)..Len(t) : t[i] \in Message
    BY <1>2, <2>1
  <2>3. /\ b \in Seq(Message)
        /\ Len(b) = IF h + 1 <= Len(t) THEN Len(t) - (h + 1) + 1 ELSE 0
        /\ \A i \in 1..(Len(t) - (h + 1) + 1) : b[i] = t[(h + 1) + i - 1]
    BY <2>1, <2>2, SubSeqProperties
  <2> HIDE DEF b
  <2>4. Len(b) = Len(t) - h /\ Len(t) - (h + 1) + 1 = Len(t) - h
    BY <2>1, <2>3
  <2>5. \A i \in 1..Len(b) : (h + 1) + i - 1 = h + i
    BY <2>1, <2>4
  <2> QED
    BY <2>3, <2>4, <2>5
<1> HIDE DEF a, b
<1>7. <<m>> \in Seq(Message) /\ Len(<<m>>) = 1 /\ <<m>>[1] = m
  OBVIOUS
<1> DEFINE c == a \o <<m>>
           d == c \o b
<1>8. /\ c \in Seq(Message) /\ Len(c) = h + 1
      /\ \A i \in 1..Len(c) : c[i] = IF i <= h THEN a[i] ELSE m
  <2>1. /\ c \in Seq(Message) /\ Len(c) = Len(a) + Len(<<m>>)
        /\ \A i \in 1..Len(c) : c[i] = IF i <= Len(a) THEN a[i] ELSE <<m>>[i - Len(a)]
    BY <1>5, <1>7
  <2>2. \A i \in 1..Len(c) : ~(i <= h) => i - h = 1
    BY <2>1, <1>5, <1>7, <1>4
  <2> QED
    BY <2>1, <2>2, <1>5, <1>7
<1> HIDE DEF c
<1>9. /\ d \in Seq(Message) /\ Len(d) = Len(c) + Len(b)
      /\ \A i \in 1..Len(d) : d[i] = IF i <= Len(c) THEN c[i] ELSE b[i - Len(c)]
  <2>1. /\ d \in Seq(Message) /\ Len(d) = Len(c) + Len(b)
        /\ \A i \in 1..(Len(c) + Len(b)) :
             d[i] = IF i <= Len(c) THEN c[i] ELSE b[i - Len(c)]
    BY <1>8, <1>6, ConcatProperties, Zenon
  <2> HIDE DEF d
  <2> QED
    BY <2>1
<1> HIDE DEF d
<1>10. DOMAIN d = 1..(Len(t) + 1) /\ DOMAIN t = 1..Len(t) /\ Len(t) \in Nat /\ h \in Nat
  <2>1. Len(t) \in Nat /\ h \in Nat /\ DOMAIN t = 1..Len(t)
    BY <1>2, <1>4
  <2>2. Len(d) = (h + 1) + (Len(t) - h)
    BY <1>6, <1>8, <1>9
  <2>3. Len(d) = Len(t) + 1
    BY <2>1, <2>2
  <2> QED
    BY <1>9, <2>1, <2>3
<1>11. h + 1 \in DOMAIN d /\ d[h + 1] = m
  BY <1>4, <1>8, <1>9, <1>10
<1>12. \A i \in DOMAIN t : i <= h => i \in DOMAIN d /\ d[i] = t[i]
  BY <1>5, <1>8, <1>9, <1>10
<1>13. ASSUME NEW i \in DOMAIN t, h < i
       PROVE  i + 1 \in DOMAIN d /\ d[i + 1] = t[i]
  <2>0. i \in 1..Len(t) /\ i \in Int
    BY <1>10
  <2>1. /\ i + 1 \in DOMAIN d /\ ~(i + 1 <= h + 1) /\ (i + 1) - (h + 1) = i - h
        /\ i - h \in 1..(Len(t) - h) /\ h + (i - h) = i
    BY <1>10, <1>13, <2>0
  <2>3. i + 1 \in 1..Len(d)
    BY <1>9, <2>1
  <2>4. d[i + 1] = b[(i + 1) - (h + 1)]
    BY <1>8, <1>9, <2>1, <2>3
  <2>2. d[i + 1] = b[i - h] /\ b[i - h] = t[h + (i - h)]
    BY <1>6, <2>1, <2>4
  <2> QED
    BY <2>1, <2>2
<1>14. \A j \in DOMAIN d : (j <= h => j \in DOMAIN s) /\ (h + 1 < j => j - 1 \in DOMAIN s)
  BY <1>2, <1>4, <1>10
<1>15. Inserts(d, s, h, k, m)
  BY <1>1, <1>2, <1>11, <1>12, <1>13, <1>14 DEF Inserts
<1>16. Decided(s, p, m) = d
  BY <1>3 DEF d, c
<1> QED
  BY <1>9, <1>15, <1>16 DEF h, k

\* So what is in the list is the new answer, or as it was.
LEMMA DecidedLemma ==
  ASSUME NEW s \in Seq(Message), NEW p \in Pending(s), NEW m \in Message
  PROVE  \A i \in DOMAIN Decided(s, p, m) :
           \/ Decided(s, p, m)[i] = m
           \/ \E j \in DOMAIN s : /\ Like(Decided(s, p, m)[i], s[j])
                                  /\ Decided(s, p, m)[i].pending \subseteq s[j].pending
                                  /\ j = p[1] => p[2] \notin Decided(s, p, m)[i].pending
<1> DEFINE d == Decided(s, p, m)
           h == p[1]
<1>1. d \in Seq(Message) /\ Inserts(d, s, h, p[2], m) /\ h \in DOMAIN s /\ h \in Int
  BY DecidedInserts DEF Pending
<1> HIDE DEF d, h
<1>2. ASSUME NEW i \in DOMAIN d, d[i] # m
      PROVE  \E j \in DOMAIN s : /\ Like(d[i], s[j]) /\ d[i].pending \subseteq s[j].pending
                                 /\ j = h => p[2] \notin d[i].pending
  <2>0. i \in Int /\ i # h + 1
    BY <1>1, <1>2 DEF Inserts
  <2>1. CASE i <= h
    <3>1. i \in DOMAIN s
      BY <1>1, <2>1 DEF Inserts
    <3>2. i < h \/ i = h
      BY <1>1, <2>0, <2>1
    <3>3. Like(d[i], s[i]) /\ d[i].pending \subseteq s[i].pending /\ (i = h => p[2] \notin d[i].pending)
      BY <1>1, <2>1, <3>1, <3>2 DEF Inserts
    <3> QED
      BY <3>1, <3>3
  <2>2. CASE h + 1 < i
    <3>1. i - 1 \in DOMAIN s /\ h < i - 1 /\ (i - 1) + 1 = i
      BY <1>1, <2>0, <2>2 DEF Inserts
    <3>2. Like(d[i], s[i - 1]) /\ d[i].pending = s[i - 1].pending
      BY <1>1, <3>1 DEF Inserts
    <3> QED
      BY <1>1, <3>1, <3>2
  <2> QED
    BY <1>1, <2>0, <2>1, <2>2
<1> QED
  BY <1>2 DEF d, h

\* So a list stays in order.
LEMMA DecidedOK ==
  ASSUME NEW s, NEW q, NEW n, ListOK(s, q, n), NEW p \in Pending(s),
         NEW m \in Message, Fits(m), Dated(m, q, n)
  PROVE  /\ ListOK(Decided(s, p, m), q, n)
         /\ Remembered(Decided(s, p, m)) => Remembered(s) \/ m.remember
<1>1. s \in Seq(Message)
  BY DEF ListOK
<1> DEFINE d == Decided(s, p, m)
<1>2. d \in Seq(Message)
  BY <1>1, DecidedInserts
<1>3. \A i \in DOMAIN d :
        d[i] = m \/ \E j \in DOMAIN s : Like(d[i], s[j]) /\ d[i].pending \subseteq s[j].pending
  BY <1>1, DecidedLemma
<1> HIDE DEF d
<1>4. ASSUME NEW i \in DOMAIN d
      PROVE  Fits(d[i]) /\ Dated(d[i], q, n) /\ (d[i].remember => Remembered(s) \/ m.remember)
  <2>1. CASE d[i] = m
    BY <2>1
  <2>2. CASE d[i] # m
    <3>1. PICK j \in DOMAIN s : Like(d[i], s[j]) /\ d[i].pending \subseteq s[j].pending
      BY <1>3, <2>2
    <3> QED
      BY <3>1 DEF Like, ListOK, Fits, Dated, Remembered
  <2> QED
    BY <2>1, <2>2
<1>5. ListOK(d, q, n)
  BY <1>2, <1>4 DEF ListOK
<1>6. Remembered(d) => Remembered(s) \/ m.remember
  BY <1>4 DEF Remembered
<1> QED
  BY <1>5, <1>6 DEF d

\* Marking the calls of a batch leaves everything else as it is.
LEMMA MarkedLemma ==
  ASSUME NEW s, NEW q, NEW n, ListOK(s, q, n), NEW turn, NEW held \in SUBSET Place,
         \A i \in DOMAIN s : s[i].role = "assistant" /\ s[i].turn = turn
                              => held \subseteq DOMAIN s[i].calls
  PROVE  /\ ListOK(Marked(s, turn, held), q, n)
         /\ Remembered(Marked(s, turn, held)) => Remembered(s)
<1> DEFINE d == Marked(s, turn, held)
<1>1. s \in Seq(Message) /\ DOMAIN s = 1..Len(s) /\ Len(s) \in Nat
  BY DEF ListOK
<1>2. ASSUME NEW i \in DOMAIN s
      PROVE  /\ d[i] \in Message /\ Fits(d[i]) /\ Dated(d[i], q, n)
             /\ d[i].remember = s[i].remember
  <2> DEFINE x == s[i]
             y == [x EXCEPT !.pending = held]
  <2>1. x \in Message /\ Fits(x) /\ Dated(x, q, n)
    BY <1>1 DEF ListOK
  <2>2. d[i] = IF x.role = "assistant" /\ x.turn = turn THEN y ELSE x
    BY DEF Marked
  <2>3. x.role = "assistant" /\ x.turn = turn => held \subseteq DOMAIN x.calls
    OBVIOUS
  <2> HIDE DEF x
  <2>4. /\ y \in Message /\ y.turn = x.turn /\ y.calls = x.calls
        /\ y.pending = held /\ y.remember = x.remember
    BY <2>1 DEF Message
  <2> HIDE DEF y, d
  <2>5. d[i] \in Message /\ Fits(d[i]) /\ Dated(d[i], q, n) /\ d[i].remember = x.remember
    BY <2>1, <2>2, <2>3, <2>4 DEF Fits, Dated
  <2> QED
    BY <2>5 DEF x
<1>3. d = [i \in DOMAIN s |-> d[i]]
  BY DEF Marked
<1>4. DOMAIN d = DOMAIN s
  BY DEF Marked
<1> HIDE DEF d
<1>5. d \in Seq(Message)
  BY <1>1, <1>2, <1>3
<1> QED
  BY <1>2, <1>4, <1>5 DEF ListOK, Remembered, d

\* What compaction leaves is in order.
LEMMA CompactedLemma ==
  ASSUME NEW s, NEW q \in Request, NEW n \in 0..MaxSteps, ListOK(s, q, n),
         NEW m \in LastQuestion(s)
  PROVE  /\ ListOK(Compacted(m, <<q, n>>), q, n)
         /\ Remembered(Compacted(m, <<q, n>>)) => Remembered(s)
<1>1. PICK i \in DOMAIN s : m = s[i]
  BY DEF LastQuestion
<1>2. m \in Message /\ Fits(m) /\ Dated(m, q, n) /\ (m.remember => Remembered(s))
  BY <1>1 DEF ListOK, Remembered
<1> DEFINE a == Plain("assistant", <<q, n>>)
           b == Plain("system", <<q, n>>)
           d == <<m, a, b>>
<1>3. <<q, n>> \in Turn
  BY DEF Turn
<1>4. /\ a \in Message /\ Fits(a) /\ Dated(a, q, n) /\ ~a.remember
      /\ b \in Message /\ Fits(b) /\ Dated(b, q, n) /\ ~b.remember
  <2>1. /\ a \in Message /\ a.turn = <<q, n>> /\ a.pending = {} /\ a.remember = FALSE
        /\ b \in Message /\ b.turn = <<q, n>> /\ b.pending = {} /\ b.remember = FALSE
    BY <1>3, PlainLemma
  <2>2. n <= n
    BY LimitsAssumption
  <2> HIDE DEF a, b
  <2> QED
    BY <2>1, <2>2 DEF Fits, Dated
<1> HIDE DEF a, b
<1>5. /\ d \in Seq(Message) /\ DOMAIN d = 1..3
      /\ d[1] = m /\ d[2] = a /\ d[3] = b
  BY <1>2, <1>4
<1> HIDE DEF d
<1>6. \A j \in DOMAIN d : d[j] = m \/ d[j] = a \/ d[j] = b
  BY <1>5
<1>7. ListOK(d, q, n) /\ (Remembered(d) => Remembered(s))
  BY <1>2, <1>4, <1>5, <1>6 DEF ListOK, Remembered
<1> QED
  BY <1>7 DEF Compacted, d, a, b

\* Messages that are not younger than n are not younger than a later step.
LEMMA LaterLemma ==
  ASSUME NEW s, NEW q \in Nat, NEW n \in Int, NEW r \in Nat, NEW o \in Int,
         q < r \/ (q = r /\ n <= o), ListOK(s, q, n)
  PROVE  ListOK(s, r, o)
<1>1. ASSUME NEW i \in DOMAIN s
      PROVE  Fits(s[i]) /\ Dated(s[i], r, o)
  <2> DEFINE x == s[i].turn[1]
             y == s[i].turn[2]
  <2>1. Fits(s[i]) /\ (x < q \/ (x = q /\ y <= n))
    BY DEF ListOK, Dated
  <2>2. s[i] \in Message
    BY DEF ListOK
  <2>3. x \in Nat /\ y \in Nat
    BY <2>2, BoundsAssumption, LimitsAssumption DEF Message, Turn, Request
  <2> HIDE DEF x, y
  <2>4. x < r \/ (x = r /\ y <= o)
    BY <2>1, <2>3
  <2> QED
    BY <2>1, <2>4 DEF Dated, x, y
<1> QED
  BY <1>1 DEF ListOK
-----------------------------------------------------------------------------
(* Steps of a request *)

\* The types that the actions rely on.
LEMMA TypesLemma ==
  ASSUME IInv, NEW q \in Request
  PROVE  /\ request[q] \in Served /\ q \in Nat /\ q >= 1
         /\ client \in Client /\ client.sent \in Nat
         /\ budget \in Budget /\ ran \subseteq Runs
         /\ MaxSteps \in Nat /\ MaxCalls \in Nat
         /\ ServedOK(q, request[q])
         /\ request[q].pc # "none" => q <= client.sent
<1>1. q \in Nat /\ q >= 1 /\ MaxSteps \in Nat /\ MaxCalls \in Nat
  BY BoundsAssumption, LimitsAssumption DEF Request
<1>2. request[q] \in Served /\ budget \in Budget /\ ran \subseteq Runs /\ ServedOK(q, request[q])
  BY DEF IInv, TypeOK, Budget, Runs
<1>3. client \in Client
  BY DEF IInv, TypeOK, Client
<1>4. client.sent \in Nat
  BY <1>3, BoundsAssumption DEF Client
<1>5. client.sent < q => request[q].pc = "none"
  BY DEF IInv, Numbered, Unsent
<1> QED
  BY <1>1, <1>2, <1>3, <1>4, <1>5

\* A step of request q that keeps its decisions, and what it must establish.
LEMMA ServeLemma ==
  ASSUME IInv, NEW q \in Request, q <= client.sent, NEW t, ServedOK(q, t),
         t.approve = request[q].approve, t.save = request[q].save,
         Remembered(t.list) => Remembered(request[q].list) \/ t.save # {},
         Set(q, t), budget' \in Budget,
         \/ client' = client
         \/ client' = [client EXCEPT !.waiting = FALSE]
         \/ client' = [client EXCEPT !.waiting = FALSE, !.history = t.list],
         \/ ran' = ran
         \/ \E run \in Runs :
              /\ ran' = ran \union {run} /\ run.by = q
              /\ run.kind = "bash" => run.call \in t.approve \/ Remembered(request[q].list)
  PROVE  IInv'
<1>1. /\ q \in Nat /\ q >= 1 /\ client \in Client /\ client.sent \in Nat /\ ran \subseteq Runs
      /\ MaxSteps \in Nat
  BY TypesLemma
<1>2. /\ request \in [Request -> Served] /\ t \in Served
      /\ ListOK(t.list, q, Latest(t)) /\ t.list \in Seq(Message)
  BY DEF IInv, TypeOK, ServedOK, ListOK
<1>3. /\ request' \in [Request -> Served] /\ request'[q] = t
      /\ \A r \in Request : r # q => request'[r] = request[r]
  BY <1>2 DEF Set
<1>4. /\ client' \in Client /\ client'.sent = client.sent
      /\ client'.history = client.history \/ client'.history = t.list
  BY <1>1, <1>2 DEF Client
<1>5. TypeOK'
  BY <1>1, <1>3, <1>4 DEF TypeOK, Client, Budget, Runs
<1>6. \A r \in Request : ServedOK(r, request'[r])
  BY <1>3 DEF IInv
<1>7. ListOK(client'.history, client'.sent, MaxSteps)
  <2>1. t.step \in 0..MaxSteps
    BY <1>2 DEF Served
  <2>2. Latest(t) \in Int /\ Latest(t) <= MaxSteps
    BY <2>1, <1>1 DEF Latest
  <2>3. ListOK(t.list, client.sent, MaxSteps)
    BY <1>1, <1>2, <2>2, LaterLemma
  <2> QED
    BY <1>4, <2>3 DEF IInv
<1>8. Numbered'
  <2>1. \A e \in ran' : e.by <= client.sent
    BY DEF IInv, Numbered
  <2>2. \A r \in Request : client.sent < r => r # q
    BY <1>1 DEF Request
  <2> QED
    BY <1>3, <1>4, <2>1, <2>2 DEF IInv, Numbered
<1>9. \A r \in Request : request'[r].save = request[r].save /\ request'[r].approve = request[r].approve
  BY <1>3
<1>10. \A n \in 0..MaxRequests : Saved(n)' <=> Saved(n)
  <2> SUFFICES ASSUME NEW n \in 0..MaxRequests PROVE Saved(n)' <=> Saved(n)
    OBVIOUS
  <2>1. \A j \in 1..n : j \in Request
    BY BoundsAssumption DEF Request
  <2>2. \A j \in 1..n : request'[j].save = request[j].save
    BY <1>9, <2>1
  <2> QED
    BY <2>2 DEF Saved
<1>11. q \in 0..MaxRequests /\ client.sent \in 0..MaxRequests
  BY <1>1 DEF Client, Request
<1>12. Remembered(t.list) => Saved(q)
  BY <1>1 DEF IInv, Sourced, Saved
<1>13. Saved(q) => Saved(client.sent)
  BY <1>1, <1>11 DEF Saved
<1>14. Sourced'
  <2>1. \A r \in Request : r \in 0..MaxRequests
    BY BoundsAssumption DEF Request
  <2>2. \A r \in Request : Remembered(request'[r].list) => Saved(r)
    BY <1>3, <1>12 DEF IInv, Sourced
  <2>3. Remembered(client'.history) => Saved(client.sent)
    BY <1>4, <1>12, <1>13 DEF IInv, Sourced
  <2> QED
    BY <1>4, <1>10, <1>11, <2>1, <2>2, <2>3 DEF Sourced
<1>15. RanApproved'
  <2>1. ASSUME NEW e \in ran', e.kind = "bash"
        PROVE  e.call \in request[e.by].approve \/ Saved(e.by)
    <3>1. CASE e \in ran
      BY <2>1, <3>1 DEF IInv, RanApproved, Saved
    <3>2. CASE e \notin ran
      <4>1. e.by = q /\ (e.call \in t.approve \/ Remembered(request[q].list))
        BY <2>1, <3>2
      <4> QED
        BY <4>1 DEF IInv, Sourced
    <3> QED
      BY <3>1, <3>2
  <2>2. \A e \in ran' : e.by \in Request /\ e.by \in 0..MaxRequests
    BY <1>5, BoundsAssumption DEF TypeOK, Request
  <2>3. \A e \in ran' : request'[e.by].approve = request[e.by].approve /\ (Saved(e.by)' <=> Saved(e.by))
    BY <2>2, <1>9, <1>10
  <2> QED
    BY <2>1, <2>3 DEF RanApproved, Saved
<1> QED
  BY <1>5, <1>6, <1>7, <1>8, <1>14, <1>15 DEF IInv

\* The end of a request.
LEMMA EndLemma ==
  ASSUME IInv, NEW q \in Request, q <= client.sent, NEW t \in Served,
         NEW how \in {"answer", "approval", "error"}, NEW s, ListOK(s, q, t.step),
         t.approve = request[q].approve, t.save = request[q].save,
         Remembered(s) => Remembered(request[q].list) \/ t.save # {},
         End(q, t, how, s), budget' \in Budget,
         \/ ran' = ran
         \/ \E run \in Runs :
              /\ ran' = ran \union {run} /\ run.by = q
              /\ run.kind = "bash" => run.call \in t.approve \/ Remembered(request[q].list)
  PROVE  IInv'
<1> DEFINE u == [t EXCEPT !.pc = "done", !.end = how, !.list = s, !.worker = <<>>]
<1>1. s \in Seq(Message)
  BY DEF ListOK
<1>2. /\ u \in Served /\ u.pc = "done" /\ u.list = s /\ u.worker = <<>> /\ u.step = t.step
      /\ u.approve = t.approve /\ u.save = t.save
  <2> DEFINE w == <<>>
  <2>1. w \in Seq([kind : Kind, state : WorkerState])
    OBVIOUS
  <2>2. u = [t EXCEPT !.pc = "done", !.end = how, !.list = s, !.worker = w]
    OBVIOUS
  <2> HIDE DEF w, u
  <2>3. /\ u \in Served /\ u.pc = "done" /\ u.list = s /\ u.worker = w /\ u.step = t.step
        /\ u.approve = t.approve /\ u.save = t.save
    BY <1>1, <2>1, <2>2 DEF Served
  <2> QED
    BY <2>3 DEF w
<1>3. Set(q, u)
  BY DEF End
<1>4. client' = client \/ client' = [client EXCEPT !.waiting = FALSE]
        \/ client' = [client EXCEPT !.waiting = FALSE, !.history = s]
  <2>1. client \in Client
    BY TypesLemma
  <2>2. client' = client
        \/ client' = [client EXCEPT !.waiting = FALSE,
                                    !.history = IF how = "error" THEN @ ELSE s]
    BY DEF End
  <2>3. [client EXCEPT !.waiting = FALSE, !.history = client.history]
          = [client EXCEPT !.waiting = FALSE]
    BY <2>1 DEF Client
  <2> QED
    BY <2>2, <2>3
<1> HIDE DEF u
<1>5. ServedOK(q, u)
  BY <1>2, BoundsAssumption DEF ServedOK, Latest
<1> QED
  BY <1>2, <1>3, <1>4, <1>5, ServeLemma

\* Messages of the last step are of that step or older.
LEMMA StepLemma ==
  ASSUME IInv, NEW q \in Request
  PROVE  /\ ListOK(request[q].list, q, request[q].step)
         /\ request[q].step \in 0..MaxSteps
<1> DEFINE t == request[q]
<1>1. t \in Served /\ q \in Nat /\ MaxSteps \in Nat /\ ListOK(t.list, q, Latest(t))
  BY TypesLemma DEF ServedOK
<1> HIDE DEF t
<1>2. t.step \in 0..MaxSteps
  BY <1>1 DEF Served
<1>3. Latest(t) \in Int /\ Latest(t) <= t.step
  BY <1>1, <1>2 DEF Latest
<1>4. ListOK(t.list, q, t.step)
  BY <1>1, <1>2, <1>3, LaterLemma
<1> QED
  BY <1>2, <1>4 DEF t

LEMMA FaultLemma ==
  ASSUME budget \in Budget, Fault PROVE budget' \in Budget
BY BoundsAssumption DEF Budget, Fault

\* A request that only moves on.
LEMMA MoveLemma ==
  ASSUME IInv, NEW q \in Request, request[q].pc # "none",
         NEW pc \in {"decide", "step", "drain"},
         Set(q, [request[q] EXCEPT !.pc = pc]), client' = client, ran' = ran, budget' \in Budget
  PROVE  IInv'
<1> DEFINE t == request[q]
           u == [t EXCEPT !.pc = pc]
<1>1. /\ t \in Served /\ q <= client.sent /\ Len(t.worker) <= MaxCalls
      /\ ListOK(t.list, q, t.step)
  BY TypesLemma, StepLemma DEF ServedOK
<1>2. Set(q, u)
  OBVIOUS
<1> HIDE DEF t
<1>3. /\ u \in Served /\ u.pc = pc /\ u.list = t.list /\ u.worker = t.worker
      /\ u.step = t.step /\ u.approve = t.approve /\ u.save = t.save
  BY <1>1 DEF Served
<1> HIDE DEF u
<1>4. ServedOK(q, u)
  BY <1>1, <1>3 DEF ServedOK, Latest
<1> QED
  BY <1>1, <1>2, <1>3, <1>4, ServeLemma DEF t
-----------------------------------------------------------------------------
(* The actions *)

\* A request that has not been sent.
LEMMA UnsentLemma ==
  /\ Unsent \in Served /\ Unsent.pc = "none" /\ Unsent.list = <<>> /\ Unsent.step = 0
  /\ Unsent.save = {} /\ ~Remembered(Unsent.list) /\ \A q \in Request : ServedOK(q, Unsent)
<1> DEFINE w == <<>>
<1>1. w \in Seq(Message) /\ w \in Seq([kind : Kind, state : WorkerState]) /\ DOMAIN w = {} /\ Len(w) = 0
  OBVIOUS
<1>2. /\ Unsent.list = w /\ Unsent.worker = w /\ Unsent.pc = "none"
      /\ Unsent.step = 0 /\ Unsent.save = {}
  BY DEF Unsent
<1>3. Unsent \in Served
  <2>1. Unsent = [pc |-> "none", list |-> w, step |-> 0, decides |-> FALSE, approve |-> {},
             save |-> {}, enable |-> FALSE, worker |-> w, gone |-> FALSE, end |-> "none"]
    BY DEF Unsent
  <2>2. 0 \in 0..MaxSteps
    BY LimitsAssumption
  <2> HIDE DEF w
  <2> QED
    BY <1>1, <2>1, <2>2 DEF Served
<1>4. \A q \in Request : ServedOK(q, Unsent)
  <2>1. \A q \in Request : ListOK(Unsent.list, q, Latest(Unsent))
    BY <1>1, <1>2 DEF ListOK
  <2>2. Len(Unsent.worker) <= MaxCalls /\ Unsent.pc # "tools"
    BY <1>1, <1>2, BoundsAssumption
  <2> QED
    BY <1>3, <2>1, <2>2 DEF ServedOK
<1>5. ~Remembered(Unsent.list)
  BY <1>1, <1>2 DEF Remembered
<1> QED
  BY <1>2, <1>3, <1>4, <1>5

LEMMA InitInv == Init => IInv
<1> SUFFICES ASSUME Init PROVE IInv
  OBVIOUS
<1> DEFINE w == <<>>
<1>1. w \in Seq(Message) /\ DOMAIN w = {}
  OBVIOUS
<1>2. client.history = w /\ client \in Client
  <2>1. client = [waiting |-> FALSE, sent |-> 0, history |-> w]
    BY DEF Init
  <2> HIDE DEF w
  <2> QED
    BY <1>1, <2>1, BoundsAssumption DEF Client
<1> HIDE DEF w
<1>3. \A q \in Request : request[q] = Unsent
  BY DEF Init
<1>4. TypeOK
  BY <1>2, UnsentLemma, BoundsAssumption DEF Init, TypeOK, Client
<1>5. \A q \in Request : ServedOK(q, request[q])
  BY <1>3, UnsentLemma
<1>6. ListOK(client.history, client.sent, MaxSteps)
  BY <1>1, <1>2 DEF ListOK
<1>7. Numbered /\ RanApproved
  BY <1>3 DEF Init, Numbered, RanApproved
<1>8. Sourced
  BY <1>1, <1>2, <1>3, UnsentLemma DEF Sourced, Remembered
<1> QED
  BY <1>4, <1>5, <1>6, <1>7, <1>8 DEF IInv

\* Actions that end a request with the list it has.
LEMMA ErrorStep ==
  ASSUME IInv, NEW q \in Request, request[q].pc # "none",
         End(q, request[q], "error", request[q].list), ran' = ran, budget' \in Budget
  PROVE  IInv'
<1>1. request[q] \in Served /\ q <= client.sent /\ ListOK(request[q].list, q, request[q].step)
  BY TypesLemma, StepLemma
<1> QED
  BY <1>1, EndLemma

LEMMA BeginStep == ASSUME IInv, NEW q \in Request, Begin(q) PROVE IInv'
<1>1. budget \in Budget /\ request[q].pc # "none" /\ ran' = ran
  BY TypesLemma DEF Begin
<1>2. CASE End(q, request[q], "error", request[q].list)
  <2>1. budget' \in Budget
    BY <1>1, FaultLemma DEF Begin
  <2> QED
    BY <1>1, <1>2, <2>1, ErrorStep
<1>3. CASE Set(q, [request[q] EXCEPT !.pc = IF request[q].decides THEN "decide" ELSE "step"])
            /\ UNCHANGED <<client, budget>>
  <2>1. PICK pc \in {"decide", "step", "drain"} : Set(q, [request[q] EXCEPT !.pc = pc])
    BY <1>3
  <2> QED
    BY <1>1, <1>3, <2>1, MoveLemma
<1> QED
  BY <1>2, <1>3 DEF Begin

LEMMA StopStep ==
  ASSUME IInv, NEW q \in Request, TooManyCalls(q) \/ Fail(q) \/ Close(q) \/ Drained(q)
  PROVE  IInv'
<1>1. budget \in Budget /\ request[q].pc # "none" /\ ran' = ran
  BY TypesLemma DEF TooManyCalls, Fail, Close, Drained
<1>2. budget' \in Budget
  BY <1>1, FaultLemma DEF TooManyCalls, Fail, Close, Drained
<1>3. CASE End(q, request[q], "error", request[q].list)
  BY <1>1, <1>2, <1>3, ErrorStep
<1>4. CASE Set(q, [request[q] EXCEPT !.pc = "drain"]) /\ UNCHANGED client
  BY <1>1, <1>2, <1>4, MoveLemma
<1> QED
  BY <1>3, <1>4 DEF TooManyCalls, Fail, Close, Drained

LEMMA AnswerStep == ASSUME IInv, NEW q \in Request, Answer(q) PROVE IInv'
<1> DEFINE t == request[q]
           m == Plain("assistant", <<q, t.step>>)
<1>1. /\ t \in Served /\ q <= client.sent /\ budget \in Budget
      /\ ListOK(t.list, q, t.step) /\ t.step \in 0..MaxSteps
  BY TypesLemma, StepLemma DEF Answer
<1>2. <<q, t.step>> \in Turn
  BY <1>1 DEF Turn
<1>3. m \in Message /\ m.turn = <<q, t.step>> /\ m.pending = {} /\ m.remember = FALSE
  BY <1>2, PlainLemma
<1>4. End(q, t, "answer", Append(t.list, m)) /\ ran' = ran /\ budget' = budget
  BY DEF Answer
<1> HIDE DEF m
<1>5. Fits(m) /\ Dated(m, q, t.step)
  BY <1>1, <1>3, LimitsAssumption DEF Fits, Dated
<1>6. ListOK(Append(t.list, m), q, t.step) /\ (Remembered(Append(t.list, m)) => Remembered(t.list))
  BY <1>1, <1>3, <1>5, AppendLemma
<1> QED
  BY <1>1, <1>4, <1>6, EndLemma

LEMMA SendStep == ASSUME IInv, NEW q \in Request, Send(q) PROVE IInv'
<1> DEFINE t == request[q]
           next == [t EXCEPT !.pc = "llm", !.step = @ + 1]
<1>1. /\ t \in Served /\ q <= client.sent /\ budget \in Budget /\ t.pc = "step"
      /\ t.step < MaxSteps /\ ListOK(t.list, q, t.step) /\ t.step \in 0..MaxSteps
      /\ Len(t.worker) <= MaxCalls
  BY TypesLemma, StepLemma DEF Send, More, ServedOK
<1>2. /\ client' = client /\ ran' = ran /\ budget' \in Budget
      /\ \/ Set(q, next)
         \/ \E m \in LastQuestion(t.list) :
              Set(q, [next EXCEPT !.list = Compacted(m, <<q, t.step>>)])
  <2>1. budget' = budget
          \/ (budget.compactions < MaxCompactions
                /\ budget' = [budget EXCEPT !.compactions = @ + 1])
    BY DEF Send
  <2>2. budget' \in Budget
    BY <1>1, <2>1, BoundsAssumption DEF Budget
  <2> QED
    BY <2>2 DEF Send
<1>3. t.step + 1 \in 0..MaxSteps /\ (t.step + 1) - 1 = t.step
  BY <1>1, LimitsAssumption
<1>4. t.approve = request[q].approve /\ t.save = request[q].save /\ t.list = request[q].list
  OBVIOUS
<1>5. ASSUME NEW u, u \in Served, u.pc = "llm", u.step = t.step + 1, Set(q, u),
             u.worker = t.worker, u.approve = t.approve, u.save = t.save,
             ListOK(u.list, q, t.step), Remembered(u.list) => Remembered(t.list)
      PROVE  IInv'
  <2>1. ServedOK(q, u)
    BY <1>1, <1>3, <1>5 DEF ServedOK, Latest
  <2> QED
    BY <1>1, <1>2, <1>4, <1>5, <2>1, ServeLemma
<1> HIDE DEF t
<1>6. /\ next \in Served /\ next.pc = "llm" /\ next.step = t.step + 1 /\ next.list = t.list
      /\ next.worker = t.worker /\ next.approve = t.approve /\ next.save = t.save
  BY <1>1, <1>3 DEF Served
<1> HIDE DEF next
<1>7. CASE Set(q, next)
  BY <1>1, <1>5, <1>6, <1>7
<1>8. ASSUME NEW m \in LastQuestion(t.list),
             Set(q, [next EXCEPT !.list = Compacted(m, <<q, t.step>>)])
      PROVE  IInv'
  <2> DEFINE d == Compacted(m, <<q, t.step>>)
             u == [next EXCEPT !.list = d]
  <2>1. ListOK(d, q, t.step) /\ (Remembered(d) => Remembered(t.list))
    BY <1>1, CompactedLemma
  <2>2. d \in Seq(Message) /\ Set(q, u)
    BY <1>8, <2>1 DEF ListOK
  <2> HIDE DEF d
  <2>3. /\ u \in Served /\ u.pc = "llm" /\ u.step = t.step + 1 /\ u.list = d
        /\ u.worker = t.worker /\ u.approve = t.approve /\ u.save = t.save
    BY <1>6, <2>2 DEF Served
  <2> HIDE DEF u
  <2> QED
    BY <1>5, <2>1, <2>2, <2>3
<1> QED
  BY <1>2, <1>7, <1>8

LEMMA RespondStep == ASSUME IInv, NEW q \in Request, Respond(q) PROVE IInv'
<1> DEFINE t == request[q]
<1>1. /\ t \in Served /\ q <= client.sent /\ budget \in Budget /\ t.pc = "llm"
      /\ ListOK(t.list, q, t.step - 1) /\ ListOK(t.list, q, t.step)
      /\ t.step \in 0..MaxSteps /\ q \in Nat /\ MaxSteps \in Nat /\ MaxCalls \in Nat
  BY TypesLemma, StepLemma DEF Respond, ServedOK, Latest
<1>17. PICK n \in 1..(MaxCalls - budget.calls) : \E kinds \in [1..n -> Kind] :
        /\ Set(q, [t EXCEPT !.pc = "tools",
                            !.list = Append(@, Calling(<<q, t.step>>, kinds)),
                            !.worker = [k \in 1..n |-> [kind |-> kinds[k], state |-> "running"]]])
        /\ budget' = [budget EXCEPT !.calls = @ + n]
        /\ client' = client /\ ran' = ran
  BY DEF Respond
<1>2. PICK kinds \in [1..n -> Kind] :
        /\ Set(q, [t EXCEPT !.pc = "tools",
                            !.list = Append(@, Calling(<<q, t.step>>, kinds)),
                            !.worker = [k \in 1..n |-> [kind |-> kinds[k], state |-> "running"]]])
        /\ budget' = [budget EXCEPT !.calls = @ + n]
        /\ client' = client /\ ran' = ran
  BY <1>17
<1>3. budget.calls \in 0..MaxCalls
  BY <1>1 DEF Budget
<1>4. n \in Nat /\ n <= MaxCalls /\ budget.calls + n \in 0..MaxCalls
  BY <1>1, <1>3
<1>5. budget' \in Budget
  BY <1>1, <1>2, <1>4 DEF Budget
<1> DEFINE turn == <<q, t.step>>
           m == Calling(turn, kinds)
           w == [k \in 1..n |-> [kind |-> kinds[k], state |-> "running"]]
           d == Append(t.list, m)
           u == [t EXCEPT !.pc = "tools", !.list = d, !.worker = w]
<1>6. kinds \in Seq(Kind) /\ Len(kinds) = n
  BY <1>4
<1>7. w \in Seq([kind : Kind, state : WorkerState]) /\ Len(w) = n
  BY <1>4 DEF WorkerState
<1>8. turn \in Turn /\ turn[1] = q /\ turn[2] = t.step
  BY <1>1 DEF Turn
<1>9. Set(q, u)
  BY <1>2
<1> HIDE DEF turn
<1>10. /\ m \in Message /\ m.role = "assistant" /\ m.turn = turn /\ m.calls = kinds
       /\ m.pending = {} /\ m.remember = FALSE
  <2> HIDE DEF w, d, u
  <2>1. turn \in Turn /\ kinds \in Seq(Kind)
    BY <1>6, <1>8
  <2> QED
    BY ONLY <2>1, CallingLemma
<1> HIDE DEF m, w
<1>11. Fits(m) /\ Dated(m, q, t.step)
  BY <1>1, <1>8, <1>10 DEF Fits, Dated
<1>12. /\ ListOK(d, q, t.step) /\ (Remembered(d) => Remembered(t.list))
       /\ \A i \in DOMAIN d : d[i] = m \/ (i \in DOMAIN t.list /\ d[i] = t.list[i])
  BY <1>1, <1>10, <1>11, AppendLemma
<1>13. d \in Seq(Message) /\ t.approve = request[q].approve /\ t.save = request[q].save
         /\ t.list = request[q].list
  BY <1>12 DEF ListOK
<1> HIDE DEF t, d
<1>14. /\ u \in Served /\ u.pc = "tools" /\ u.list = d /\ u.worker = w /\ u.step = t.step
       /\ u.approve = t.approve /\ u.save = t.save
  BY <1>1, <1>7, <1>13 DEF Served
<1> HIDE DEF u
<1>15. \A i \in DOMAIN t.list : t.list[i].turn # turn
  BY <1>1, <1>8 DEF ListOK, Dated
<1>16. Batch(u, turn)
  BY <1>6, <1>7, <1>10, <1>12, <1>14, <1>15 DEF Batch
<1>18. ServedOK(q, u)
  BY <1>4, <1>7, <1>12, <1>14, <1>16 DEF ServedOK, Latest, turn
<1> QED
  BY <1>1, <1>2, <1>5, <1>9, <1>12, <1>13, <1>14, <1>18, ServeLemma

\* What an action does not change of a request.
Keeps(u, t) == u.step = t.step /\ u.gone = t.gone /\ u.end = t.end

\* The states of the calls of a batch, when that of call k becomes x.
Becomes(u, t, k, x) ==
  /\ DOMAIN u.worker = DOMAIN t.worker /\ k \in DOMAIN t.worker
  /\ u.worker[k].state = x
  /\ \A j \in DOMAIN t.worker : j # k => u.worker[j].state = t.worker[j].state

\* A change of the state of one tool call.
LEMMA WorkerLemma ==
  ASSUME NEW t \in Served, NEW k \in DOMAIN t.worker, NEW x \in WorkerState,
         NEW u, u = [t EXCEPT !.worker[k].state = x]
  PROVE  /\ u \in Served /\ Len(u.worker) = Len(t.worker)
         /\ u.pc = t.pc /\ u.list = t.list /\ u.step = t.step
         /\ Keeps(u, t) /\ Becomes(u, t, k, x)
         /\ u.approve = t.approve /\ u.save = t.save
<1> DEFINE v == [t.worker[k] EXCEPT !.state = x]
           w == [t.worker EXCEPT ![k] = v]
           z == [t EXCEPT !.worker = w]
<1>1. t.worker \in Seq(WorkerType)
  BY DEF Served, WorkerType
<1>2. t.worker[k] \in WorkerType
  BY <1>1
<1>3. v \in WorkerType /\ v.state = x
  BY <1>2 DEF WorkerType
<1> HIDE DEF v
<1>4. w \in Seq(WorkerType) /\ Len(w) = Len(t.worker)
  BY <1>1, <1>3
<1>5. /\ DOMAIN w = DOMAIN t.worker /\ w[k] = v
      /\ \A j \in DOMAIN t.worker : j # k => w[j] = t.worker[j]
  BY <1>1
<1> HIDE DEF w
<1>6. /\ z \in Served /\ z.worker = w /\ z.pc = t.pc /\ z.list = t.list /\ z.step = t.step
      /\ z.gone = t.gone /\ z.end = t.end /\ z.approve = t.approve /\ z.save = t.save
  BY <1>4 DEF Served, WorkerType
<1>7. z = u
  BY DEF w, v
<1> HIDE DEF z
<1>8. Keeps(u, t) /\ Becomes(u, t, k, x)
  BY <1>3, <1>5, <1>6, <1>7 DEF Keeps, Becomes
<1> QED
  BY <1>4, <1>6, <1>7, <1>8

\* A batch keeps its message when answers are added and calls change state.
LEMMA BatchLemma ==
  ASSUME NEW t, NEW u, NEW turn, Batch(t, turn), Len(u.worker) = Len(t.worker),
         \A i \in DOMAIN u.list :
           u.list[i].role # "assistant" \/ (i \in DOMAIN t.list /\ u.list[i] = t.list[i])
  PROVE  Batch(u, turn)
BY DEF Batch

LEMMA EndToolStep ==
  ASSUME IInv, NEW q \in Request, NEW k \in DOMAIN request[q].worker, EndTool(q, k)
  PROVE  IInv'
<1> DEFINE t == request[q]
           kind == t.worker[k].kind
           run == [call |-> <<<<q, t.step>>, k>>, kind |-> kind, by |-> q]
           o == Invoked(kind, t.list)
<1>1. /\ t \in Served /\ q \in Nat /\ budget \in Budget /\ t.step \in 0..MaxSteps
      /\ Len(t.worker) <= MaxCalls /\ ServedOK(q, t) /\ MaxCalls \in Nat
      /\ ListOK(t.list, q, Latest(t))
  BY TypesLemma, StepLemma DEF ServedOK
<1>2. t.worker \in Seq(WorkerType)
  BY <1>1 DEF Served, WorkerType
<1>3. q <= client.sent
  <2>1. t.worker # <<>>
    BY <1>2
  <2>2. t # Unsent
    BY <2>1 DEF Unsent
  <2>3. client.sent \in Nat
    BY TypesLemma
  <2> QED
    BY <1>1, <2>2, <2>3 DEF IInv, Numbered
<1>4. k \in Place /\ kind \in Kind
  <2>1. k \in 1..Len(t.worker) /\ t.worker[k] \in WorkerType
    BY <1>2
  <2> QED
    BY <1>1, <2>1 DEF Place, WorkerType
<1>5. run \in Runs /\ run.by = q /\ run.kind = kind
  BY <1>1, <1>4 DEF Runs, CallId, Turn
<1>6. o.state \in WorkerState /\ (o.runs /\ kind = "bash" => Remembered(t.list))
  BY DEF Invoked, WorkerState
<1>7. client' = client /\ budget' \in Budget
  BY <1>1, FaultLemma DEF EndTool
<1>8. PICK x \in WorkerState :
        /\ Set(q, [t EXCEPT !.worker[k].state = x])
        /\ ran' = ran \/ (ran' = ran \union {run} /\ o.runs)
  BY <1>6 DEF EndTool, WorkerState
<1> DEFINE u == [t EXCEPT !.worker[k].state = x]
<1>9. /\ u \in Served /\ Len(u.worker) = Len(t.worker)
      /\ u.pc = t.pc /\ u.list = t.list /\ u.step = t.step
      /\ u.approve = t.approve /\ u.save = t.save
  <2>1. k \in DOMAIN t.worker /\ x \in WorkerState /\ u = [t EXCEPT !.worker[k].state = x]
    OBVIOUS
  <2> HIDE DEF u, t, run, kind, o
  <2> QED
    BY <1>1, <2>1, WorkerLemma
<1>10. Set(q, u)
  BY <1>8
<1>11. ran' = ran \/ (ran' = ran \union {run} /\ (run.kind = "bash" => Remembered(request[q].list)))
  BY <1>5, <1>6, <1>8
<1> HIDE DEF u, run, kind, o
<1>12. ServedOK(q, u)
  BY <1>1, <1>9 DEF ServedOK, Latest, Batch
<1> QED
  BY <1>3, <1>5, <1>7, <1>9, <1>10, <1>11, <1>12, ServeLemma

\* Collecting a call adds its answer or holds it back.
LEMMA CollectedLemma ==
  ASSUME IInv, NEW q \in Request, NEW k \in DOMAIN request[q].worker,
         request[q].pc = "tools", request[q].worker[k].state \in {"result", "approval"}
  PROVE  LET t == request[q]
             u == Collected(q, t, k)
         IN /\ u \in Served /\ u.pc = "tools" /\ u.step = t.step
            /\ Len(u.worker) = Len(t.worker)
            /\ u.approve = t.approve /\ u.save = t.save
            /\ ListOK(u.list, q, t.step) /\ Batch(u, <<q, t.step>>)
            /\ Remembered(u.list) => Remembered(t.list)
<1> DEFINE t == request[q]
           turn == <<q, t.step>>
           o == t.worker[k].state
           shown == IF o = "approval" THEN "refused" ELSE o
           m == Answered(turn, k, shown, FALSE)
           d == Append(t.list, m)
           h == [t EXCEPT !.worker[k].state = "held"]
           g == [t EXCEPT !.worker[k].state = "taken"]
           a == [g EXCEPT !.list = d]
           u == Collected(q, t, k)
<1>1. /\ t \in Served /\ q \in Nat /\ t.step \in 0..MaxSteps /\ Len(t.worker) <= MaxCalls
      /\ ListOK(t.list, q, t.step) /\ Batch(t, turn) /\ MaxCalls \in Nat /\ MaxSteps \in Nat
  BY TypesLemma, StepLemma DEF ServedOK
<1>2. turn \in Turn /\ turn[1] = q /\ turn[2] = t.step
  BY <1>1 DEF Turn
<1>3. t.worker \in Seq(WorkerType)
  BY <1>1 DEF Served, WorkerType
<1>4. k \in Place
  BY <1>1, <1>3 DEF Place
<1>5. m \in Message /\ m.role = "tool" /\ m.turn = turn /\ m.pending = {} /\ m.remember = FALSE
  <2> DEFINE no == FALSE
  <2>1. shown \in {"none", "result", "refused", "denied"} /\ no \in BOOLEAN
    OBVIOUS
  <2> HIDE DEF shown, turn
  <2>2. m = Answered(turn, k, shown, no)
    OBVIOUS
  <2> HIDE DEF m, o, t, no
  <2>3. m \in Message /\ m.role = "tool" /\ m.turn = turn /\ m.pending = {} /\ m.remember = no
    BY <1>2, <1>4, <2>1, <2>2, AnsweredLemma
  <2> QED
    BY <2>3 DEF no
<1>6. u = h \/ u = a
  BY DEF Collected
<1> HIDE DEF m, u, turn
<1>7. Fits(m) /\ Dated(m, q, t.step)
  BY <1>1, <1>2, <1>5 DEF Fits, Dated
<1>8. /\ ListOK(d, q, t.step) /\ (Remembered(d) => Remembered(t.list))
      /\ \A i \in DOMAIN d : d[i] = m \/ (i \in DOMAIN t.list /\ d[i] = t.list[i])
  BY <1>1, <1>5, <1>7, AppendLemma
<1>9. d \in Seq(Message)
  BY <1>8 DEF ListOK
<1> HIDE DEF d
<1>10. /\ h \in Served /\ Len(h.worker) = Len(t.worker) /\ h.pc = "tools" /\ h.list = t.list
       /\ h.step = t.step /\ h.approve = t.approve /\ h.save = t.save
       /\ g \in Served /\ Len(g.worker) = Len(t.worker) /\ g.pc = "tools"
       /\ g.step = t.step /\ g.approve = t.approve /\ g.save = t.save
  <2>1. /\ "held" \in WorkerState /\ "taken" \in WorkerState
        /\ k \in DOMAIN t.worker /\ t.pc = "tools"
        /\ h = [t EXCEPT !.worker[k].state = "held"] /\ g = [t EXCEPT !.worker[k].state = "taken"]
    BY DEF WorkerState
  <2> HIDE DEF t, h, g
  <2>2. /\ h \in Served /\ Len(h.worker) = Len(t.worker) /\ h.pc = t.pc /\ h.list = t.list
        /\ h.step = t.step /\ h.approve = t.approve /\ h.save = t.save
    BY <1>1, <2>1, WorkerLemma
  <2>3. /\ g \in Served /\ Len(g.worker) = Len(t.worker) /\ g.pc = t.pc
        /\ g.step = t.step /\ g.approve = t.approve /\ g.save = t.save
    BY <1>1, <2>1, WorkerLemma
  <2> HIDE DEF h, g
  <2> QED
    BY <2>1, <2>2, <2>3
<1> HIDE DEF h, g
<1>11. /\ a \in Served /\ Len(a.worker) = Len(t.worker) /\ a.pc = "tools" /\ a.list = d
       /\ a.step = t.step /\ a.approve = t.approve /\ a.save = t.save
  BY <1>9, <1>10 DEF Served
<1> HIDE DEF a, t
<1>12. Batch(h, turn)
  BY <1>1, <1>10, BatchLemma
<1>13. Batch(a, turn)
  BY <1>1, <1>5, <1>8, <1>11, BatchLemma
<1>14. /\ u \in Served /\ u.pc = "tools" /\ u.step = t.step /\ Len(u.worker) = Len(t.worker)
       /\ u.approve = t.approve /\ u.save = t.save /\ ListOK(u.list, q, t.step)
       /\ Batch(u, turn) /\ (Remembered(u.list) => Remembered(t.list))
  BY <1>1, <1>6, <1>8, <1>10, <1>11, <1>12, <1>13
<1> QED
  BY <1>14 DEF u, t, turn

LEMMA CollectStep ==
  ASSUME IInv, NEW q \in Request, NEW k \in DOMAIN request[q].worker, Collect(q, k)
  PROVE  IInv'
<1> DEFINE t == request[q]
           turn == <<q, t.step>>
           u == Collected(q, t, k)
           held == {j \in DOMAIN u.worker : u.worker[j].state = "held"}
<1>1. /\ t \in Served /\ q <= client.sent /\ budget \in Budget /\ t.pc = "tools"
      /\ t.step \in 0..MaxSteps /\ Len(t.worker) <= MaxCalls /\ MaxCalls \in Nat
      /\ t.worker[k].state \in {"result", "approval", "raised"}
      /\ t.approve = request[q].approve /\ t.save = request[q].save /\ t.list = request[q].list
  BY TypesLemma, StepLemma DEF Collect, ServedOK
<1>2. ran' = ran /\ budget' = budget
  BY DEF Collect
<1>3. CASE t.worker[k].state = "raised"
  <2>1. Set(q, [t EXCEPT !.pc = "drain"]) /\ client' = client
    BY <1>3 DEF Collect
  <2> QED
    BY <1>1, <1>2, <2>1, MoveLemma
<1>4. CASE t.worker[k].state # "raised"
  <2>1. /\ u \in Served /\ u.pc = "tools" /\ u.step = t.step /\ Len(u.worker) = Len(t.worker)
        /\ u.approve = t.approve /\ u.save = t.save /\ ListOK(u.list, q, t.step)
        /\ Batch(u, turn) /\ (Remembered(u.list) => Remembered(t.list))
    BY <1>1, <1>4, CollectedLemma
  <2>2. \/ Set(q, u) /\ client' = client
        \/ Set(q, [u EXCEPT !.pc = "step", !.worker = <<>>]) /\ client' = client
        \/ End(q, u, "approval", Marked(u.list, turn, held))
    BY <1>4 DEF Collect
  <2>3. u.worker \in Seq(WorkerType)
    BY <2>1 DEF Served, WorkerType
  <2>4. held \subseteq 1..Len(t.worker) /\ held \subseteq Place
    BY <1>1, <2>1, <2>3 DEF Place
  <2> HIDE DEF t, u, held
  <2>5. CASE Set(q, u) /\ client' = client
    <3>1. ServedOK(q, u)
      BY <1>1, <2>1 DEF ServedOK, Latest, turn
    <3> QED
      BY <1>1, <1>2, <2>1, <2>5, <3>1, ServeLemma
  <2>6. CASE Set(q, [u EXCEPT !.pc = "step", !.worker = <<>>]) /\ client' = client
    <3> DEFINE w == <<>>
               v == [u EXCEPT !.pc = "step", !.worker = w]
    <3>1. w \in Seq([kind : Kind, state : WorkerState]) /\ Len(w) = 0
      OBVIOUS
    <3>2. Set(q, v)
      BY <2>6
    <3> HIDE DEF w
    <3>3. /\ v \in Served /\ v.pc = "step" /\ v.list = u.list /\ v.worker = w
          /\ v.step = t.step /\ v.approve = t.approve /\ v.save = t.save
      BY <2>1, <3>1 DEF Served
    <3> HIDE DEF v
    <3>4. ServedOK(q, v)
      BY <1>1, <2>1, <3>1, <3>3 DEF ServedOK, Latest
    <3> QED
      BY <1>1, <1>2, <2>1, <2>6, <3>2, <3>3, <3>4, ServeLemma
  <2>7. CASE End(q, u, "approval", Marked(u.list, turn, held))
    <3> DEFINE d == Marked(u.list, turn, held)
    <3>1. \A i \in DOMAIN u.list : u.list[i].role = "assistant" /\ u.list[i].turn = turn
                                     => held \subseteq DOMAIN u.list[i].calls
      <4> SUFFICES ASSUME NEW i \in DOMAIN u.list,
                          u.list[i].role = "assistant", u.list[i].turn = turn
                   PROVE  held \subseteq DOMAIN u.list[i].calls
        OBVIOUS
      <4>1. Len(u.list[i].calls) = Len(t.worker)
        BY <2>1 DEF Batch
      <4>2. u.list[i] \in Message
        BY <2>1 DEF ListOK
      <4>3. u.list[i].calls \in Seq(Kind)
        BY <4>2 DEF Message
      <4>4. DOMAIN u.list[i].calls = 1..Len(t.worker)
        BY <4>1, <4>3
      <4> QED
        BY <2>4, <4>4
    <3>2. ListOK(d, q, t.step) /\ (Remembered(d) => Remembered(u.list))
      BY <2>1, <2>4, <3>1, MarkedLemma
    <3> HIDE DEF d
    <3>3. End(q, u, "approval", d)
      BY <2>7 DEF d
    <3>4. ListOK(d, q, u.step)
      BY <2>1, <3>2
    <3> QED
      BY <1>1, <1>2, <2>1, <3>2, <3>3, <3>4, EndLemma
  <2> QED
    BY <2>2, <2>5, <2>6, <2>7
<1> QED
  BY <1>3, <1>4

LEMMA DecideStep == ASSUME IInv, NEW q \in Request, Decide(q) PROVE IInv'
<1> DEFINE t == request[q]
<1>1. PICK p \in FirstPending(t.list) :
        LET c == IdOf(t.list, p)
            run == [call |-> c, kind |-> t.list[p[1]].calls[p[2]], by |-> q]
            After(o) == LET s == Decided(t.list, p, Answered(c[1], c[2], o, c \in t.save))
                        IN [t EXCEPT !.list = s, !.pc = IF Pending(s) = {} THEN "step" ELSE @]
        IN /\ t.pc = "decide"
           /\ \/ /\ Approves(t, c)
                 /\ Set(q, After("result"))
                 /\ ran' = ran \union {run}
                 /\ UNCHANGED <<client, budget>>
              \/ /\ ~Approves(t, c)
                 /\ Set(q, After("denied"))
                 /\ UNCHANGED <<client, ran, budget>>
              \/ /\ Approves(t, c)
                 /\ Fault
                 /\ End(q, t, "error", t.list)
                 /\ ran' = ran \union {run}
  BY DEF Decide
<1> DEFINE c == IdOf(t.list, p)
           run == [call |-> c, kind |-> t.list[p[1]].calls[p[2]], by |-> q]
           remember == c \in t.save
           After(o) == LET s == Decided(t.list, p, Answered(c[1], c[2], o, remember))
                       IN [t EXCEPT !.list = s, !.pc = IF Pending(s) = {} THEN "step" ELSE @]
<1>2. /\ t \in Served /\ q <= client.sent /\ budget \in Budget /\ t.pc = "decide"
      /\ t.step \in 0..MaxSteps /\ Len(t.worker) <= MaxCalls /\ ListOK(t.list, q, t.step)
      /\ t.approve = request[q].approve /\ t.save = request[q].save /\ t.list = request[q].list
  BY <1>1, TypesLemma, StepLemma DEF ServedOK
<1>3. /\ p \in Pending(t.list) /\ p[1] \in DOMAIN t.list /\ p[2] \in Place
      /\ p[2] \in t.list[p[1]].pending
  BY DEF FirstPending, Pending
<1>4. /\ t.list[p[1]] \in Message /\ Fits(t.list[p[1]]) /\ Dated(t.list[p[1]], q, t.step)
  BY <1>2, <1>3 DEF ListOK
<1>5. c[1] = t.list[p[1]].turn /\ c[2] = p[2] /\ c \in CallId /\ c[1] \in Turn /\ c[2] \in Place
  BY <1>3, <1>4 DEF IdOf, Message, CallId
<1>6. t.list[p[1]].calls[p[2]] \in Kind
  <2>1. t.list[p[1]].calls \in Seq(Kind)
    BY <1>4 DEF Message
  <2>2. p[2] \in DOMAIN t.list[p[1]].calls
    BY <1>3, <1>4 DEF Fits
  <2> QED
    BY <2>1, <2>2
<1>7. run \in Runs /\ run.by = q /\ run.call = c
  BY <1>5, <1>6 DEF Runs
<1>8. ASSUME NEW o \in {"result", "denied"}, Set(q, After(o)), UNCHANGED <<client, budget>>,
             ran' = ran \/ (ran' = ran \union {run} /\ c \in t.approve)
      PROVE  IInv'
  <2> DEFINE m == Answered(c[1], c[2], o, remember)
             d == Decided(t.list, p, m)
             pc == IF Pending(d) = {} THEN "step" ELSE t.pc
             u == [t EXCEPT !.list = d, !.pc = pc]
  <2>1. remember \in BOOLEAN /\ (remember => t.save # {})
    OBVIOUS
  <2>2. Set(q, u)
    BY <1>8
  <2> HIDE DEF remember
  <2>3. /\ m \in Message /\ m.role = "tool" /\ m.turn = c[1] /\ m.pending = {}
        /\ m.remember = remember
    BY <1>5, <2>1, AnsweredLemma
  <2> HIDE DEF m
  <2>4. Fits(m) /\ Dated(m, q, t.step)
    BY <1>4, <1>5, <2>3 DEF Fits, Dated
  <2>5. ListOK(d, q, t.step) /\ (Remembered(d) => Remembered(t.list) \/ m.remember)
    BY <1>2, <1>3, <2>3, <2>4, DecidedOK
  <2>6. d \in Seq(Message)
    BY <2>5 DEF ListOK
  <2>7. pc \in {"step", "decide"}
    BY <1>2
  <2> HIDE DEF d, pc, t, c, run
  <2>8. /\ u \in Served /\ u.pc = pc /\ u.list = d /\ u.worker = t.worker
        /\ u.step = t.step /\ u.approve = t.approve /\ u.save = t.save
    BY <1>2, <2>6, <2>7 DEF Served
  <2> HIDE DEF u
  <2>9. ServedOK(q, u)
    BY <1>2, <2>5, <2>7, <2>8 DEF ServedOK, Latest
  <2>10. Remembered(u.list) => Remembered(request[q].list) \/ u.save # {}
    BY <1>2, <2>1, <2>3, <2>5, <2>8
  <2>11. ran' = ran \/ (ran' = ran \union {run} /\ run.call \in u.approve)
    BY <1>7, <1>8, <2>8
  <2> QED
    BY <1>2, <1>7, <1>8, <2>2, <2>8, <2>9, <2>10, <2>11, ServeLemma
<1>9. CASE Approves(t, c) /\ Fault /\ End(q, t, "error", t.list) /\ ran' = ran \union {run}
  <2>1. budget' \in Budget
    BY <1>2, <1>9, FaultLemma
  <2>2. run.call \in t.approve
    BY <1>7, <1>9 DEF Approves
  <2> HIDE DEF run
  <2> QED
    BY <1>2, <1>7, <1>9, <2>1, <2>2, EndLemma
<1> QED
  BY <1>1, <1>8, <1>9 DEF Approves

\* Calls that are pending have ids.
LEMMA PendingLemma ==
  ASSUME NEW s \in Seq(Message) PROVE PendingIds(s) \subseteq CallId
<1> SUFFICES ASSUME NEW p \in Pending(s) PROVE IdOf(s, p) \in CallId
  BY DEF PendingIds
<1>1. s[p[1]] \in Message /\ p[2] \in Place
  BY DEF Pending
<1> QED
  BY <1>1 DEF Message, IdOf, CallId

LEMMA SubmitStep == ASSUME IInv, Submit PROVE IInv'
<1> DEFINE Sent(n, decides, enable, approve, save) ==
             [request EXCEPT ![n] =
                [Unsent EXCEPT !.pc = "sent", !.decides = decides, !.enable = enable,
                               !.approve = approve, !.save = save,
                               !.list = Append(client.history, Plain("user", <<n, 0>>))]]
<1>q. PICK q : q = client.sent + 1
  OBVIOUS
<1>0. \E decides \in BOOLEAN, enable \in Approvals :
      \E approve \in SUBSET PendingIds(client.history) : \E save \in {{}, approve} :
        /\ ~decides => approve = {}
        /\ request' = Sent(client.sent + 1, decides, enable, approve, save)
  BY Zenon DEF Submit
<1> HIDE DEF Sent
<1>1. PICK decides \in BOOLEAN, enable \in Approvals :
      \E approve \in SUBSET PendingIds(client.history) : \E save \in {{}, approve} :
        request' = Sent(q, decides, enable, approve, save)
  BY <1>q, <1>0
<1>2. PICK approve \in SUBSET PendingIds(client.history) : \E save \in {{}, approve} :
        request' = Sent(q, decides, enable, approve, save)
  BY <1>1
<1>3. PICK save \in {{}, approve} : request' = Sent(q, decides, enable, approve, save)
  BY <1>2
<1> DEFINE user == Plain("user", <<q, 0>>)
           d == Append(client.history, user)
<1>4. /\ q \in Request /\ q \in Nat /\ MaxSteps \in Nat /\ client \in Client
      /\ client.sent \in Nat /\ client.sent < q
  <2>1. q \in Request
    BY <1>q DEF Submit
  <2>2. client \in Client /\ client.sent \in Nat /\ MaxSteps \in Nat
    BY <2>1, TypesLemma
  <2> HIDE DEF IInv
  <2> QED
    BY <1>q, <2>1, <2>2
<1>5. client' = [client EXCEPT !.waiting = TRUE, !.sent = q] /\ ran' = ran /\ budget' = budget
  BY <1>q DEF Submit
<1>6. ListOK(client.history, client.sent, MaxSteps) /\ client.history \in Seq(Message)
  BY DEF IInv, ListOK
<1>7. approve \in SUBSET CallId /\ save \in SUBSET CallId /\ enable \in BOOLEAN
  BY <1>6, PendingLemma, ApprovalsAssumption
<1>8. <<q, 0>> \in Turn
  BY <1>4 DEF Turn
<1>9. user \in Message /\ user.turn = <<q, 0>> /\ user.pending = {} /\ user.remember = FALSE
  BY <1>8, PlainLemma
<1> HIDE DEF user
<1>10. Fits(user) /\ Dated(user, q, 0)
  BY <1>9 DEF Fits, Dated
<1>11. ListOK(client.history, q, 0)
  BY <1>4, <1>6, LaterLemma
<1>12. ListOK(d, q, 0) /\ (Remembered(d) => Remembered(client.history))
  BY <1>9, <1>10, <1>11, AppendLemma
<1>13. d \in Seq(Message)
  BY <1>12 DEF ListOK
<1> DEFINE x == Unsent
           u == [x EXCEPT !.pc = "sent", !.decides = decides, !.enable = enable,
                          !.approve = approve, !.save = save, !.list = d]
<1>14. request' = [request EXCEPT ![q] = u]
  BY <1>3 DEF Sent, user
<1>15. x \in Served /\ x.step = 0 /\ x.save = {} /\ ServedOK(q, x) /\ ~Remembered(x.list)
  BY <1>4, UnsentLemma
<1>16. \A r \in Request : client.sent < r => request[r] = x
  BY DEF IInv, Numbered
<1> HIDE DEF d, x
<1>17. /\ u \in Served /\ u.pc = "sent" /\ u.list = d /\ u.step = 0
       /\ u.worker = x.worker /\ u.save = save /\ u.approve = approve
  BY <1>7, <1>13, <1>15 DEF Served
<1> HIDE DEF u
<1>18. ServedOK(q, u)
  BY <1>12, <1>15, <1>17 DEF ServedOK, Latest
<1>19. request \in [Request -> Served]
  BY DEF IInv, TypeOK
<1>20. /\ request' \in [Request -> Served] /\ request'[q] = u
       /\ \A r \in Request : r # q => request'[r] = request[r]
  BY <1>4, <1>14, <1>17, <1>19
<1>21. client' \in Client /\ client'.sent = q /\ client'.history = client.history
  <2>1. q \in 0..MaxRequests
    BY <1>4, BoundsAssumption DEF Request
  <2> QED
    BY <1>4, <1>5, <2>1 DEF Client
<1>22. TypeOK'
  BY <1>5, <1>20, <1>21 DEF IInv, TypeOK, Client
<1>23. \A r \in Request : ServedOK(r, request'[r])
  BY <1>18, <1>20 DEF IInv
<1>24. ListOK(client'.history, client'.sent, MaxSteps)
  BY <1>4, <1>6, <1>21, LaterLemma
<1>25. Numbered'
  <2>1. \A r \in Request : q < r => client.sent < r /\ r # q
    BY <1>4 DEF Request
  <2>2. \A e \in ran : e.by \in Nat /\ e.by <= client.sent
    BY BoundsAssumption DEF IInv, Numbered, TypeOK, Request
  <2> QED
    BY <1>4, <1>5, <1>16, <1>20, <1>21, <2>1, <2>2 DEF Numbered, x
<1>26. \A r \in Request : r <= client.sent => request'[r] = request[r] /\ (Saved(r) => Saved(r)')
  <2> SUFFICES ASSUME NEW r \in Request, r <= client.sent
               PROVE  request'[r] = request[r] /\ (Saved(r) => Saved(r)')
    OBVIOUS
  <2>1. \A j \in 1..r : j \in Request /\ j # q
    BY <1>4, BoundsAssumption DEF Request
  <2>2. r \in 1..r
    BY DEF Request
  <2> QED
    BY <1>20, <2>1, <2>2 DEF Saved
<1>27. Saved(client.sent) => Saved(q)'
  <2> SUFFICES ASSUME Saved(client.sent) PROVE Saved(q)'
    OBVIOUS
  <2>1. PICK j \in 1..client.sent : request[j].save # {}
    BY DEF Saved
  <2>2. j \in Request /\ j # q /\ j \in 1..q
    BY <1>4, BoundsAssumption DEF Client, Request
  <2>3. \E i \in 1..q : request'[i].save # {}
    BY <1>20, <2>1, <2>2
  <2> QED
    BY <2>3 DEF Saved
<1>28. Sourced'
  <2>1. Remembered(d) => Saved(q)'
    BY <1>12, <1>27 DEF IInv, Sourced
  <2>2. ASSUME NEW r \in Request, Remembered(request'[r].list)
        PROVE  Saved(r)'
    <3>1. CASE r = q
      <4>1. Saved(r)' <=> Saved(q)'
        BY <3>1 DEF Saved
      <4> QED
        BY <1>17, <1>20, <2>1, <2>2, <3>1, <4>1
    <3>2. CASE r # q /\ client.sent < r
      BY <1>15, <1>16, <1>20, <2>2, <3>2
    <3>3. CASE r # q /\ r <= client.sent
      BY <1>20, <1>26, <2>2, <3>3 DEF IInv, Sourced
    <3> QED
      BY <1>4, <3>1, <3>2, <3>3, BoundsAssumption DEF Request
  <2>3. Remembered(client'.history) => Saved(client.sent)'
    <3>1. Saved(q)' <=> Saved(client.sent)'
      BY <1>21 DEF Saved
    <3> QED
      BY <1>21, <1>27, <3>1 DEF IInv, Sourced
  <2> QED
    BY <2>2, <2>3 DEF Sourced
<1>29. RanApproved'
  <2> SUFFICES ASSUME NEW e \in ran', e.kind = "bash"
               PROVE  e.call \in request'[e.by].approve \/ Saved(e.by)'
    BY DEF RanApproved, Saved
  <2>1. e \in ran /\ e.by \in Request /\ e.by <= client.sent
    BY <1>5 DEF IInv, TypeOK, Numbered
  <2>2. e.call \in request[e.by].approve \/ Saved(e.by)
    BY <2>1 DEF IInv, RanApproved, Saved
  <2> QED
    BY <1>26, <2>1, <2>2
<1> QED
  BY <1>22, <1>23, <1>24, <1>25, <1>28, <1>29 DEF IInv

LEMMA GiveUpStep == ASSUME IInv, GiveUp PROVE IInv'
<1>1. client.waiting /\ Fault /\ ran' = ran /\ client' = [client EXCEPT !.waiting = FALSE]
      /\ request' = [request EXCEPT ![client.sent].gone = TRUE]
  BY DEF GiveUp
<1>2. budget' \in Budget
  BY <1>1, FaultLemma DEF IInv, TypeOK, Budget
<1>3. PICK q : q = client.sent
  OBVIOUS
<1>4. CASE q \in Request
  <2> DEFINE t == request[q]
             u == [t EXCEPT !.gone = TRUE]
  <2>1. t \in Served /\ ServedOK(q, t) /\ q <= client.sent
    BY <1>3, <1>4, TypesLemma
  <2>2. Set(q, u)
    BY <1>1, <1>3 DEF Set
  <2>3. t.list = request[q].list /\ t.approve = request[q].approve /\ t.save = request[q].save
    OBVIOUS
  <2> HIDE DEF t
  <2>4. /\ u \in Served /\ u.pc = t.pc /\ u.list = t.list /\ u.step = t.step
        /\ u.worker = t.worker /\ u.approve = t.approve /\ u.save = t.save
    BY <2>1 DEF Served
  <2> HIDE DEF u
  <2>5. ServedOK(q, u)
    BY <2>1, <2>4 DEF ServedOK, Latest, Batch
  <2> QED
    BY <1>1, <1>2, <1>4, <2>1, <2>2, <2>3, <2>4, <2>5, ServeLemma
<1>5. CASE q \notin Request
  <2>1. request' = request
    BY <1>1, <1>3, <1>5 DEF IInv, TypeOK
  <2>2. client' \in Client /\ client'.sent = client.sent /\ client'.history = client.history
    BY <1>1 DEF IInv, TypeOK, Client
  <2>3. TypeOK'
    BY <1>1, <1>2, <2>1, <2>2 DEF IInv, TypeOK, Client, Budget
  <2> QED
    BY <1>1, <2>1, <2>2, <2>3 DEF IInv, Numbered, Sourced, Saved, RanApproved
<1> QED
  BY <1>4, <1>5

LEMMA NextInv == IInv /\ [Next]_vars => IInv'
<1> SUFFICES ASSUME IInv, [Next]_vars PROVE IInv'
  OBVIOUS
<1>1. CASE Submit
  BY <1>1, SubmitStep
<1>2. CASE GiveUp
  BY <1>2, GiveUpStep
<1>3. ASSUME NEW q \in Request, Serve(q) PROVE IInv'
  BY <1>3, BeginStep, DecideStep, SendStep, StopStep, AnswerStep, RespondStep,
     CollectStep, EndToolStep DEF Serve
<1>4. CASE UNCHANGED vars
  BY <1>4 DEF vars, IInv, TypeOK, Numbered, Sourced, Saved, RanApproved
<1> QED
  BY <1>1, <1>2, <1>3, <1>4 DEF Next

LEMMA Inductive == Spec => []IInv
BY InitInv, NextInv, PTL DEF Spec

\* The variables keep their types: a request makes at most max_steps calls of the
\* LLM, its list stays a list of messages, and what has run was called.
THEOREM TypeCorrect == Spec => []TypeOK
<1>1. IInv => TypeOK
  BY DEF IInv
<1> QED
  BY <1>1, Inductive, PTL

\* bash runs only in a request whose decisions approve the call, or after a
\* decision that saved its prefix (process_tool_decisions and
\* extract_bash_session_prefixes), however many requests overlap, fail or are
\* given up, and whatever the client sends again.
THEOREM ApprovedBeforeRun == Spec => []RanApproved
<1>1. IInv => RanApproved
  BY DEF IInv
<1> QED
  BY <1>1, Inductive, PTL
-----------------------------------------------------------------------------
(* The shape of a conversation *)

IsAnswer(m, turn, k) == m.role = "tool" /\ m.turn = turn /\ m.place = k

\* A turn has one message with calls, and it is an assistant's.
OneCaller(s) ==
  /\ \A i \in DOMAIN s : s[i].calls # <<>> => s[i].role = "assistant"
  /\ \A i \in DOMAIN s : \A j \in DOMAIN s :
       s[i].calls # <<>> /\ s[j].calls # <<>> /\ s[i].turn = s[j].turn => i = j

\* A call is answered once.
OneAnswer(s) ==
  \A i \in DOMAIN s : \A j \in DOMAIN s :
    s[i].role = "tool" /\ IsAnswer(s[j], s[i].turn, s[i].place) => i = j

\* It is either answered or pending, or open: the request at work has yet to
\* collect its result.
Accounted(s, open) ==
  \A i \in DOMAIN s : \A k \in DOMAIN s[i].calls :
    (k \in s[i].pending \/ <<s[i].turn, k>> \in open)
      <=> ~\E j \in DOMAIN s : IsAnswer(s[j], s[i].turn, k)

\* Answers follow the message that called, and only answers to it are between.
Following(s) ==
  \A i \in DOMAIN s : \A j \in DOMAIN s :
    s[i].calls # <<>> /\ s[j].role = "tool" /\ s[j].turn = s[i].turn =>
      /\ i < j /\ s[j].place \in DOMAIN s[i].calls
      /\ \A l \in DOMAIN s : i < l /\ l < j => s[l].role = "tool" /\ s[l].turn = s[i].turn

Tidy(s, open) == OneCaller(s) /\ OneAnswer(s) /\ Accounted(s, open) /\ Following(s)

\* Nothing is pending after an answer that remembers a prefix.
Unasked(s) == \A i \in DOMAIN s : \A j \in DOMAIN s : s[i].remember /\ i < j => s[j].pending = {}
-----------------------------------------------------------------------------
LEMMA TidyPlain ==
  ASSUME NEW s \in Seq(Message), NEW m, m \in Message, m.calls = <<>>, m.role # "tool", NEW open, Tidy(s, open)
  PROVE  Tidy(Append(s, m), open)
<1> DEFINE d == Append(s, m)
           n == Len(s) + 1
<1>1. /\ DOMAIN d = DOMAIN s \union {n} /\ n \notin DOMAIN s /\ d[n] = m
      /\ \A i \in DOMAIN s : d[i] = s[i] /\ i < n /\ i \in Int
  OBVIOUS
<1>6. n \in Int
  OBVIOUS
<1>7. DOMAIN m.calls = {}
  OBVIOUS
<1> HIDE DEF d, n
<1>2. OneCaller(d)
  BY <1>1 DEF Tidy, OneCaller
<1>3. OneAnswer(d)
  BY <1>1 DEF Tidy, OneAnswer, IsAnswer
<1>4. Accounted(d, open)
  <2>1. ASSUME NEW i \in DOMAIN d, NEW k \in DOMAIN d[i].calls
        PROVE  (k \in d[i].pending \/ <<d[i].turn, k>> \in open)
                  <=> ~\E j \in DOMAIN d : IsAnswer(d[j], d[i].turn, k)
    <3>1. i \in DOMAIN s /\ d[i] = s[i]
      BY <1>1, <1>7
    <3>2. (\E j \in DOMAIN d : IsAnswer(d[j], s[i].turn, k))
            <=> \E j \in DOMAIN s : IsAnswer(s[j], s[i].turn, k)
      BY <1>1 DEF IsAnswer
    <3> QED
      BY <3>1, <3>2 DEF Tidy, Accounted
  <2> QED
    BY <2>1 DEF Accounted
<1>5. Following(d)
  BY <1>1, <1>6 DEF Tidy, Following
<1> QED
  BY <1>2, <1>3, <1>4, <1>5 DEF Tidy, d

LEMMA TidyCalling ==
  ASSUME NEW s \in Seq(Message), NEW m, m \in Message, m.calls # <<>>, m.role = "assistant",
         m.pending = {}, \A i \in DOMAIN s : s[i].turn # m.turn,
         NEW open, open = {<<m.turn, k>> : k \in DOMAIN m.calls}, Tidy(s, {})
  PROVE  Tidy(Append(s, m), open)
<1> DEFINE d == Append(s, m)
           n == Len(s) + 1
<1>1. /\ DOMAIN d = DOMAIN s \union {n} /\ n \notin DOMAIN s /\ d[n] = m
      /\ \A i \in DOMAIN s : d[i] = s[i] /\ i < n /\ i \in Int
  OBVIOUS
<1>2. n \in Int
  OBVIOUS
<1>3. \A i \in DOMAIN s : \A k \in DOMAIN s[i].calls : <<s[i].turn, k>> \notin open
  OBVIOUS
<1>4. \A k \in DOMAIN m.calls : <<m.turn, k>> \in open
  OBVIOUS
<1> HIDE DEF d, n
<1>5. OneCaller(d)
  BY <1>1 DEF Tidy, OneCaller
<1>6. OneAnswer(d)
  BY <1>1 DEF Tidy, OneAnswer, IsAnswer
<1>7. Accounted(d, open)
  <2>1. ASSUME NEW i \in DOMAIN d, NEW k \in DOMAIN d[i].calls
        PROVE  (k \in d[i].pending \/ <<d[i].turn, k>> \in open)
                  <=> ~\E j \in DOMAIN d : IsAnswer(d[j], d[i].turn, k)
    <3>1. CASE i = n
      BY <1>1, <1>4, <3>1 DEF IsAnswer
    <3>2. CASE i \in DOMAIN s
      <4>1. d[i] = s[i] /\ <<s[i].turn, k>> \notin open
        BY <1>1, <1>3, <3>2
      <4>2. (\E j \in DOMAIN d : IsAnswer(d[j], s[i].turn, k))
              <=> \E j \in DOMAIN s : IsAnswer(s[j], s[i].turn, k)
        BY <1>1 DEF IsAnswer
      <4> QED
        BY <3>2, <4>1, <4>2 DEF Tidy, Accounted
    <3> QED
      BY <1>1, <3>1, <3>2
  <2> QED
    BY <2>1 DEF Accounted
<1>8. Following(d)
  BY <1>1, <1>2 DEF Tidy, Following
<1> QED
  BY <1>5, <1>6, <1>7, <1>8 DEF Tidy, d

\* Message h called in this turn, and only answers to it follow.
AtEnd(s, turn, h) ==
  /\ s[h].calls # <<>> /\ s[h].pending = {} /\ s[h].turn = turn
  /\ \A l \in DOMAIN s : h < l => s[l].role = "tool" /\ s[l].turn = turn

LEMMA TidyAnswer ==
  ASSUME NEW s \in Seq(Message), NEW h \in DOMAIN s, NEW m, m \in Message, m.calls = <<>>,
         m.role = "tool", AtEnd(s, m.turn, h), m.place \in DOMAIN s[h].calls,
         NEW open, <<m.turn, m.place>> \in open, Tidy(s, open)
  PROVE  /\ Tidy(Append(s, m), open \ {<<m.turn, m.place>>})
         /\ AtEnd(Append(s, m), m.turn, h)
<1> DEFINE d == Append(s, m)
           n == Len(s) + 1
           left == open \ {<<m.turn, m.place>>}
<1>1. /\ DOMAIN d = DOMAIN s \union {n} /\ n \notin DOMAIN s /\ d[n] = m
      /\ \A i \in DOMAIN s : d[i] = s[i] /\ i < n /\ i \in Int
  OBVIOUS
<1>2. n \in Int
  OBVIOUS
<1>3. \A turn, k : <<turn, k>> \in left <=> <<turn, k>> \in open /\ (turn # m.turn \/ k # m.place)
  OBVIOUS
<1>4. DOMAIN m.calls = {}
  OBVIOUS
<1>5. \A i \in DOMAIN s : s[i].calls # <<>> /\ s[i].turn = m.turn => i = h
  BY DEF Tidy, OneCaller, AtEnd
<1> HIDE DEF d, n, left
<1>6. OneCaller(d)
  BY <1>1 DEF Tidy, OneCaller
<1>7. \A j \in DOMAIN s : ~IsAnswer(s[j], m.turn, m.place)
  BY DEF Tidy, Accounted, AtEnd
<1>8. OneAnswer(d)
  BY <1>1, <1>7 DEF Tidy, OneAnswer, IsAnswer
<1>9. Accounted(d, left)
  <2>1. ASSUME NEW i \in DOMAIN d, NEW k \in DOMAIN d[i].calls
        PROVE  (k \in d[i].pending \/ <<d[i].turn, k>> \in left)
                  <=> ~\E j \in DOMAIN d : IsAnswer(d[j], d[i].turn, k)
    <3>1. i \in DOMAIN s /\ d[i] = s[i]
      BY <1>1, <1>4
    <3>2. (\E j \in DOMAIN d : IsAnswer(d[j], s[i].turn, k))
            <=> \/ \E j \in DOMAIN s : IsAnswer(s[j], s[i].turn, k)
                \/ s[i].turn = m.turn /\ k = m.place
      BY <1>1 DEF IsAnswer
    <3>3. s[i].turn = m.turn => i = h
      BY <1>4, <1>5, <3>1
    <3> QED
      BY <1>3, <3>1, <3>2, <3>3 DEF Tidy, Accounted, AtEnd
  <2> QED
    BY <2>1 DEF Accounted
<1>10. Following(d)
  BY <1>1, <1>2, <1>5 DEF Tidy, Following, AtEnd
<1>11. AtEnd(d, m.turn, h)
  BY <1>1, <1>2 DEF AtEnd
<1> QED
  BY <1>6, <1>8, <1>9, <1>10, <1>11 DEF Tidy, d, left

LEMMA TidyMarked ==
  ASSUME NEW s, NEW d, DOMAIN d = DOMAIN s, NEW turn, NEW held, NEW h \in DOMAIN s,
         AtEnd(s, turn, h), Tidy(s, {<<turn, k>> : k \in held}),
         \A i \in DOMAIN s : Like(d[i], s[i]) /\ d[i].pending = IF i = h THEN held ELSE s[i].pending
  PROVE  Tidy(d, {})
<1> DEFINE open == {<<turn, k>> : k \in held}
<1>1. \A a, k : <<a, k>> \in open <=> a = turn /\ k \in held
  OBVIOUS
<1>2. Tidy(s, open)
  OBVIOUS
<1> HIDE DEF open
<1>3. OneCaller(d)
  BY <1>2 DEF Tidy, OneCaller, Like
<1>4. OneAnswer(d)
  BY <1>2 DEF Tidy, OneAnswer, IsAnswer, Like
<1>5. Accounted(d, {})
  <2>1. ASSUME NEW i \in DOMAIN s, NEW k \in DOMAIN s[i].calls
        PROVE  k \in d[i].pending <=> ~\E j \in DOMAIN s : IsAnswer(d[j], s[i].turn, k)
    <3>1. (\E j \in DOMAIN s : IsAnswer(d[j], s[i].turn, k))
            <=> \E j \in DOMAIN s : IsAnswer(s[j], s[i].turn, k)
      BY DEF IsAnswer, Like
    <3>2. k \in s[i].pending \/ (s[i].turn = turn /\ k \in held)
            <=> ~\E j \in DOMAIN s : IsAnswer(s[j], s[i].turn, k)
      BY <1>1, <1>2 DEF Tidy, Accounted
    <3>3. s[i].turn = turn => i = h
      BY <1>2 DEF Tidy, OneCaller, AtEnd
    <3> QED
      BY <3>1, <3>2, <3>3 DEF AtEnd
  <2> QED
    BY <2>1 DEF Accounted, Like
<1>6. Following(d)
  BY <1>2 DEF Tidy, Following, Like
<1> QED
  BY <1>3, <1>4, <1>5, <1>6 DEF Tidy

LEMMA TidyInserted ==
  ASSUME NEW s, DOMAIN s \subseteq Int, NEW d, DOMAIN d \subseteq Int, NEW h \in DOMAIN s, NEW m,
         NEW k \in DOMAIN s[h].calls, k \in s[h].pending, Inserts(d, s, h, k, m),
         m.role = "tool", m.calls = <<>>, m.turn = s[h].turn, m.place = k, Tidy(s, {})
  PROVE  Tidy(d, {})
<1> DEFINE to == [i \in DOMAIN s |-> IF i <= h THEN i ELSE i + 1]
           from == [j \in DOMAIN d |-> IF j <= h THEN j ELSE j - 1]
           n == h + 1
<1>1. h \in Int /\ DOMAIN s \subseteq Int /\ DOMAIN d \subseteq Int /\ DOMAIN m.calls = {}
  OBVIOUS
<1>2. s[h].calls # <<>> /\ s[h].role = "assistant"
  BY DEF Tidy, OneCaller
<1>3. \A i \in DOMAIN s :
        /\ to[i] \in DOMAIN d /\ to[i] # n /\ Like(d[to[i]], s[i])
        /\ i = h => d[to[i]].pending = s[i].pending \ {k}
        /\ i # h => d[to[i]].pending = s[i].pending
  <2> SUFFICES ASSUME NEW i \in DOMAIN s
               PROVE  /\ to[i] \in DOMAIN d /\ to[i] # n /\ Like(d[to[i]], s[i])
                      /\ i = h => d[to[i]].pending = s[i].pending \ {k}
                      /\ i # h => d[to[i]].pending = s[i].pending
    OBVIOUS
  <2>1. CASE i <= h
    <3>1. to[i] = i /\ i # n
      BY <1>1, <2>1
    <3> HIDE DEF to, n
    <3> QED
      BY <1>1, <2>1, <3>1 DEF Inserts
  <2>2. CASE h < i
    <3>1. to[i] = i + 1 /\ i + 1 # n /\ i # h
      BY <1>1, <2>2
    <3> HIDE DEF to, n
    <3> QED
      BY <1>1, <2>2, <3>1 DEF Inserts
  <2> QED
    BY <1>1, <2>1, <2>2
<1>4. \A j \in DOMAIN d : j # n => from[j] \in DOMAIN s /\ to[from[j]] = j
  BY <1>1 DEF Inserts
<1>5. \A i \in DOMAIN s : \A j \in DOMAIN s : i < j <=> to[i] < to[j]
  BY <1>1
<1>6. \A j \in DOMAIN d : j # n => from[j] \in DOMAIN s /\ to[from[j]] = j /\ Like(d[j], s[from[j]])
  <2> HIDE DEF to, from
  <2> QED
    BY <1>3, <1>4
<1>7. n \in DOMAIN d /\ d[n] = m
  BY DEF Inserts
<1>14. \A i \in DOMAIN s : /\ i <= h => to[i] < n
                           /\ h < i => n < to[i]
  BY <1>1
<1>8. \A j \in DOMAIN s : ~IsAnswer(s[j], m.turn, m.place)
  BY DEF Tidy, Accounted
<1> HIDE DEF to, from, n
<1>13. \A j \in DOMAIN d : j # n => from[j] \in DOMAIN s /\ to[from[j]] = j
  BY <1>4
<1>9. OneCaller(d)
  <2>1. \A j \in DOMAIN d : d[j].calls # <<>> =>
           /\ from[j] \in DOMAIN s /\ to[from[j]] = j
           /\ d[j].role = s[from[j]].role /\ d[j].turn = s[from[j]].turn
           /\ s[from[j]].calls # <<>>
    BY <1>6, <1>7 DEF Like
  <2>2. \A i \in DOMAIN s : s[i].calls # <<>> => s[i].role = "assistant"
    BY DEF Tidy, OneCaller
  <2>3. \A i \in DOMAIN s : \A j \in DOMAIN s :
          s[i].calls # <<>> /\ s[j].calls # <<>> /\ s[i].turn = s[j].turn => i = j
    BY DEF Tidy, OneCaller
  <2>4. ASSUME NEW i \in DOMAIN d, NEW j \in DOMAIN d,
               d[i].calls # <<>>, d[j].calls # <<>>, d[i].turn = d[j].turn
        PROVE  i = j
    <3>1. from[i] = from[j]
      BY <2>1, <2>3, <2>4
    <3> QED
      BY <2>1, <2>4, <3>1
  <2>5. \A i \in DOMAIN d : d[i].calls # <<>> => d[i].role = "assistant"
    BY <2>1, <2>2
  <2> QED
    BY <2>4, <2>5 DEF OneCaller
<1>10. OneAnswer(d)
  <2>1. ASSUME NEW i \in DOMAIN d, NEW j \in DOMAIN d,
               d[i].role = "tool", IsAnswer(d[j], d[i].turn, d[i].place)
        PROVE  i = j
    <3>1. CASE i = n /\ j # n
      BY <1>3, <1>6, <1>7, <1>8, <2>1, <3>1 DEF IsAnswer, Like
    <3>2. CASE i # n /\ j = n
      BY <1>3, <1>6, <1>7, <1>8, <2>1, <3>2 DEF IsAnswer, Like
    <3>3. CASE i # n /\ j # n
      <4>1. from[i] \in DOMAIN s /\ from[j] \in DOMAIN s /\ Like(d[i], s[from[i]]) /\ Like(d[j], s[from[j]])
        BY <1>6, <3>3
      <4>2. s[from[i]].role = "tool" /\ IsAnswer(s[from[j]], s[from[i]].turn, s[from[i]].place)
        BY <2>1, <4>1 DEF IsAnswer, Like
      <4>3. from[i] = from[j]
        BY <4>1, <4>2 DEF Tidy, OneAnswer
      <4> QED
        BY <1>6, <3>3, <4>3
    <3> QED
      BY <3>1, <3>2, <3>3
  <2> QED
    BY <2>1 DEF OneAnswer
<1>11. Accounted(d, {})
  <2>1. ASSUME NEW i \in DOMAIN s, NEW c \in DOMAIN s[i].calls
        PROVE  c \in d[to[i]].pending <=> ~\E j \in DOMAIN d : IsAnswer(d[j], s[i].turn, c)
    <3>1. (\E j \in DOMAIN d : IsAnswer(d[j], s[i].turn, c))
            <=> \/ \E j \in DOMAIN s : IsAnswer(s[j], s[i].turn, c)
                \/ s[i].turn = m.turn /\ c = k
      <4>1. ASSUME NEW j \in DOMAIN d, IsAnswer(d[j], s[i].turn, c)
            PROVE  \/ \E l \in DOMAIN s : IsAnswer(s[l], s[i].turn, c)
                   \/ s[i].turn = m.turn /\ c = k
        <5>1. CASE j = n
          BY <1>7, <4>1, <5>1 DEF IsAnswer
        <5>2. CASE j # n
          <6>1. from[j] \in DOMAIN s /\ Like(d[j], s[from[j]])
            BY <1>6, <5>2
          <6>2. IsAnswer(s[from[j]], s[i].turn, c)
            BY <4>1, <6>1 DEF IsAnswer, Like
          <6> QED
            BY <6>1, <6>2
        <5> QED
          BY <5>1, <5>2
      <4>2. ASSUME NEW j \in DOMAIN s, IsAnswer(s[j], s[i].turn, c)
            PROVE  \E l \in DOMAIN d : IsAnswer(d[l], s[i].turn, c)
        <5>1. to[j] \in DOMAIN d /\ Like(d[to[j]], s[j])
          BY <1>3
        <5>2. IsAnswer(d[to[j]], s[i].turn, c)
          BY <4>2, <5>1 DEF IsAnswer, Like
        <5> QED
          BY <5>1, <5>2
      <4>3. s[i].turn = m.turn /\ c = k => IsAnswer(d[n], s[i].turn, c)
        BY <1>7 DEF IsAnswer
      <4> QED
        BY <1>7, <4>1, <4>2, <4>3
    <3>2. c \in s[i].pending <=> ~\E j \in DOMAIN s : IsAnswer(s[j], s[i].turn, c)
      BY DEF Tidy, Accounted
    <3>3. s[i].turn = m.turn => i = h
      BY <1>2 DEF Tidy, OneCaller
    <3> QED
      BY <1>3, <3>1, <3>2, <3>3
  <2>2. ASSUME NEW j \in DOMAIN d, NEW c \in DOMAIN d[j].calls
        PROVE  c \in d[j].pending <=> ~\E l \in DOMAIN d : IsAnswer(d[l], d[j].turn, c)
    <3>1. j # n
      BY <1>1, <1>7, <2>2
    <3>2. PICK i \in DOMAIN s : j = to[i]
      BY <1>6, <3>1
    <3>3. d[j].turn = s[i].turn /\ d[j].calls = s[i].calls
      BY <1>3, <3>2 DEF Like
    <3> QED
      BY <2>1, <2>2, <3>2, <3>3
  <2> QED
    BY <2>2 DEF Accounted
<1>12. Following(d)
  <2>1. ASSUME NEW i \in DOMAIN s, s[i].calls # <<>>, s[i].turn = m.turn
        PROVE  i = h
    BY <1>2, <2>1 DEF Tidy, OneCaller
  <2>2. ASSUME NEW i \in DOMAIN s, NEW j \in DOMAIN s,
               s[i].calls # <<>>, s[j].role = "tool", s[j].turn = s[i].turn
        PROVE  /\ to[i] < to[j] /\ s[j].place \in DOMAIN s[i].calls
               /\ \A l \in DOMAIN s : to[i] < to[l] /\ to[l] < to[j] => s[l].role = "tool" /\ s[l].turn = s[i].turn
               /\ to[i] < n /\ n < to[j] => s[i].turn = m.turn
    <3>1. /\ i < j /\ s[j].place \in DOMAIN s[i].calls
          /\ \A l \in DOMAIN s : i < l /\ l < j => s[l].role = "tool" /\ s[l].turn = s[i].turn
      BY <2>2 DEF Tidy, Following
    <3>2. to[i] < n => i <= h
      BY <1>1, <1>14 DEF to, n
    <3>3. n < to[j] => h < j
      BY <1>1, <1>14 DEF to, n
    <3>4. i = h \/ ~(i <= h) \/ ~(h < j)
      BY <1>1, <1>2, <3>1
    <3> QED
      BY <1>5, <3>1, <3>2, <3>3, <3>4
  <2>3. ASSUME NEW i \in DOMAIN d, NEW j \in DOMAIN d,
               d[i].calls # <<>>, d[j].role = "tool", d[j].turn = d[i].turn
        PROVE  /\ i < j /\ d[j].place \in DOMAIN d[i].calls
               /\ \A l \in DOMAIN d : i < l /\ l < j => d[l].role = "tool" /\ d[l].turn = d[i].turn
    <3>1. PICK a \in DOMAIN s : i = to[a]
      BY <1>6, <1>7, <2>3
    <3>2. d[i].turn = s[a].turn /\ d[i].calls = s[a].calls
      BY <1>3, <3>1 DEF Like
    <3>3. CASE j = n
      <4>1. a = h
        BY <1>7, <2>1, <2>3, <3>2, <3>3
      <4>2. i = h
        BY <1>1, <3>1, <4>1 DEF to
      <4>3. ~\E l \in DOMAIN d : i < l /\ l < j
        BY <1>1, <3>3, <4>2 DEF n
      <4> QED
        <5>1. i < j
          BY <1>1, <3>3, <4>2 DEF n
        <5>2. d[j].place = k /\ s[a].calls = s[h].calls
          BY <1>7, <3>3, <4>1
        <5> QED
          BY <3>2, <4>3, <5>1, <5>2
    <3>4. CASE j # n
      <4>1. PICK b \in DOMAIN s : j = to[b]
        BY <1>6, <3>4
      <4>2. s[b].role = "tool" /\ s[b].turn = s[a].turn /\ d[j].place = s[b].place
        BY <1>3, <2>3, <3>2, <4>1 DEF Like
      <4>3. /\ i < j /\ s[b].place \in DOMAIN s[a].calls
            /\ \A l \in DOMAIN s : i < to[l] /\ to[l] < j => s[l].role = "tool" /\ s[l].turn = s[a].turn
            /\ i < n /\ n < j => s[a].turn = m.turn
        BY <2>2, <2>3, <3>1, <3>2, <4>1, <4>2
      <4>4. ASSUME NEW l \in DOMAIN d, i < l, l < j
            PROVE  d[l].role = "tool" /\ d[l].turn = d[i].turn
        <5>1. CASE l = n
          BY <1>7, <3>2, <4>3, <4>4, <5>1
        <5>2. CASE l # n
          <6>1. from[l] \in DOMAIN s /\ to[from[l]] = l /\ Like(d[l], s[from[l]])
            BY <1>6, <5>2
          <6>2. s[from[l]].role = "tool" /\ s[from[l]].turn = s[a].turn
            BY <4>3, <4>4, <6>1
          <6> QED
            BY <3>2, <6>1, <6>2 DEF Like
        <5> QED
          BY <5>1, <5>2
      <4> QED
        BY <3>2, <4>2, <4>3, <4>4
    <3> QED
      BY <3>3, <3>4
  <2> QED
    BY <2>3 DEF Following
<1> QED
  BY <1>9, <1>10, <1>11, <1>12 DEF Tidy

LEMMA UnaskedInserted ==
  ASSUME NEW s, DOMAIN s \subseteq Int, NEW d, DOMAIN d \subseteq Int, NEW h \in DOMAIN s, NEW m, NEW k,
         k \in s[h].pending, Inserts(d, s, h, k, m), m.pending = {},
         \A j \in DOMAIN s : h < j => s[j].pending = {}, Unasked(s)
  PROVE  Unasked(d)
<1>1. h \in Int /\ DOMAIN s \subseteq Int /\ DOMAIN d \subseteq Int
  OBVIOUS
<1> DEFINE from(j) == IF j <= h THEN j ELSE j - 1
<1>2. ASSUME NEW j \in DOMAIN d, j # h + 1
      PROVE  /\ from(j) \in DOMAIN s /\ d[j].remember = s[from(j)].remember
             /\ d[j].pending \subseteq s[from(j)].pending
  <2>1. from(j) \in DOMAIN s /\ j = IF from(j) <= h THEN from(j) ELSE from(j) + 1
    BY <1>1, <1>2 DEF Inserts
  <2> HIDE DEF from
  <2> QED
    BY <2>1 DEF Inserts, Like
<1>3. ASSUME NEW i \in DOMAIN d, NEW j \in DOMAIN d, d[i].remember, i < j
      PROVE  d[j].pending = {}
  <2>1. CASE j = h + 1
    BY <2>1 DEF Inserts
  <2>2. CASE j # h + 1 /\ i # h + 1
    <3>1. from(i) < from(j)
      BY <1>1, <1>3, <2>2
    <3> HIDE DEF from
    <3>2. s[from(j)].pending = {}
      BY <1>2, <1>3, <2>2, <3>1 DEF Unasked
    <3> QED
      BY <1>2, <2>2, <3>2
  <2>3. CASE j # h + 1 /\ i = h + 1
    <3>1. h < from(j)
      BY <1>1, <1>3, <2>3
    <3> HIDE DEF from
    <3> QED
      BY <1>2, <2>3, <3>1
  <2> QED
    BY <2>1, <2>2, <2>3
<1> QED
  BY <1>3 DEF Unasked

\* A tidy list can be continued: each call has its answer, or is pending.
LEMMA TidyContinues ==
  ASSUME NEW s \in Seq(Message), Tidy(s, {}) PROVE Continues(s)
<1> SUFFICES ASSUME NEW c \in Calls(s)
             PROVE  Cardinality(AnswersTo(s, c)) = (IF c \in Pending(s) THEN 0 ELSE 1)
  BY DEF Continues
<1> DEFINE i == c[1]
           k == c[2]
           A == AnswersTo(s, c)
<1>1. i \in DOMAIN s /\ k \in DOMAIN s[i].calls /\ k \in Place
  BY DEF Calls
<1>2. c \in Pending(s) <=> k \in s[i].pending
  BY DEF Pending, Calls
<1>3. A = {j \in DOMAIN s : IsAnswer(s[j], s[i].turn, k)}
  BY DEF AnswersTo, IsAnswer
<1> HIDE DEF i, k, A
<1>4. k \in s[i].pending <=> ~\E j \in DOMAIN s : IsAnswer(s[j], s[i].turn, k)
  BY <1>1 DEF Tidy, Accounted
<1>5. CASE c \in Pending(s)
  <2>1. A = {}
    BY <1>2, <1>3, <1>4, <1>5
  <2> QED
    BY <1>5, <2>1, FS_EmptySet DEF A
<1>6. CASE c \notin Pending(s)
  <2>1. PICK j \in DOMAIN s : IsAnswer(s[j], s[i].turn, k)
    BY <1>2, <1>4, <1>6
  <2>2. A = {j}
    BY <1>3, <2>1 DEF Tidy, OneAnswer, IsAnswer
  <2> QED
    BY <1>6, <2>2, FS_Singleton DEF A
<1> QED
  BY <1>5, <1>6

\* And its answers are where they belong: as many as there are between a message and one
\* of its answers have different places, so they are not more than its calls.
LEMMA TidyOrdered ==
  ASSUME NEW s \in Seq(Message), Tidy(s, {}) PROVE Ordered(s)
<1> SUFFICES ASSUME NEW c \in Calls(s), NEW j \in AnswersTo(s, c)
             PROVE  c[1] < j /\ j <= c[1] + Len(s[c[1]].calls)
  BY DEF Ordered
<1> DEFINE i == c[1]
           n == Len(s[i].calls)
<1>1. /\ i \in DOMAIN s /\ j \in DOMAIN s /\ s[i].calls # <<>>
      /\ s[j].role = "tool" /\ s[j].turn = s[i].turn
  BY DEF Calls, AnswersTo
<1>2. s[i] \in Message /\ DOMAIN s = 1..Len(s) /\ Len(s) \in Nat
  BY <1>1
<1>3. s[i].calls \in Seq(Kind)
  BY <1>2 DEF Message
<1>4. n \in Nat /\ DOMAIN s[i].calls = 1..n
  BY <1>3
<1> HIDE DEF i, n
<1>5. /\ i < j
      /\ \A l \in DOMAIN s : i < l /\ l < j => s[l].role = "tool" /\ s[l].turn = s[i].turn
  BY <1>1 DEF Tidy, Following
<1> DEFINE S == (i + 1)..j
           f == [l \in S |-> s[l].place]
<1>6. i \in Nat /\ j \in Nat
  BY <1>1, <1>2
<1>7. ASSUME NEW l \in S
      PROVE  l \in DOMAIN s /\ i < l /\ s[l].role = "tool" /\ s[l].turn = s[i].turn /\ s[l].place \in 1..n
  <2>1. l \in DOMAIN s /\ i < l /\ (l < j \/ l = j)
    BY <1>1, <1>2, <1>6
  <2>2. s[l].role = "tool" /\ s[l].turn = s[i].turn
    BY <1>1, <1>5, <2>1
  <2>3. s[l].place \in DOMAIN s[i].calls
    BY <1>1, <2>1, <2>2 DEF Tidy, Following
  <2> QED
    BY <1>4, <2>1, <2>2, <2>3
<1> HIDE DEF S
<1>8. f \in Injection(S, 1..n)
  <2>1. f \in [S -> 1..n]
    BY <1>7
  <2>2. ASSUME NEW a \in S, NEW b \in S, f[a] = f[b]
        PROVE  a = b
    <3>1. s[a].place = s[b].place
      BY <2>2
    <3>2. /\ a \in DOMAIN s /\ s[a].role = "tool" /\ s[a].turn = s[i].turn
          /\ b \in DOMAIN s /\ s[b].role = "tool" /\ s[b].turn = s[i].turn
      BY <1>7
    <3> QED
      BY <3>1, <3>2 DEF Tidy, OneAnswer, IsAnswer
  <2> QED
    BY <2>1, <2>2 DEF Injection, IsInjective
<1>9. IsFiniteSet(1..n) /\ Cardinality(1..n) = n /\ Cardinality(S) = j - i
  <2>1. 1 \in Int /\ n \in Int /\ IsFiniteSet(1..n) /\ (Cardinality(1..n) = IF 1 > n THEN 0 ELSE n - 1 + 1)
    BY <1>4, FS_Interval
  <2>2. Cardinality(S) = IF i + 1 > j THEN 0 ELSE j - (i + 1) + 1
    BY <1>6, FS_Interval DEF S
  <2> QED
    BY <1>4, <1>5, <1>6, <2>1, <2>2
<1>10. Cardinality(S) <= Cardinality(1..n)
  <2> HIDE DEF f
  <2> QED
    BY <1>8, <1>9, FS_Injection
<1> QED
  BY <1>4, <1>5, <1>6, <1>9, <1>10 DEF i, n

\* The answer to call c.
AnswerTo(m, c, o) ==
  /\ m \in Message /\ m.role = "tool" /\ m.calls = <<>> /\ m.pending = {}
  /\ m.turn = c[1] /\ m.place = c[2] /\ m.outcome = o

LEMMA AnswerToLemma ==
  ASSUME NEW turn \in Turn, NEW k \in Place, NEW remember \in BOOLEAN,
         NEW o \in {"none", "result", "refused", "denied"}
  PROVE  /\ AnswerTo(Answered(turn, k, o, remember), <<turn, k>>, o)
         /\ Answered(turn, k, o, remember).remember = remember
<1> DEFINE p == Plain("tool", turn)
           m == Answered(turn, k, o, remember)
<1>1. /\ p \in Message /\ p.role = "tool" /\ p.turn = turn
      /\ p.calls = <<>> /\ p.pending = {}
  BY PlainLemma
<1>2. m = [p EXCEPT !.place = k, !.outcome = o, !.remember = remember]
  BY DEF Answered
<1> HIDE DEF p, m
<1>3. /\ m \in Message /\ m.role = "tool" /\ m.turn = turn /\ m.calls = p.calls /\ m.pending = {}
      /\ m.place = k /\ m.outcome = o /\ m.remember = remember
  BY <1>1, <1>2 DEF Message
<1> QED
  BY <1>1, <1>3 DEF AnswerTo, m



\* One decision: the request fails, or goes on with an answer inserted.
LEMMA DecideEffect ==
  ASSUME IInv, NEW q \in Request, Decide(q)
  PROVE  \E p \in FirstPending(request[q].list) :
           LET t == request[q]
               c == IdOf(t.list, p)
           IN
           /\ t.pc = "decide" /\ p \in Pending(t.list) /\ c \in CallId
           /\ \/ /\ End(q, t, "error", t.list)
                 /\ \E run \in Runs : run.call = c /\ run.by = q /\ ran' = ran \union {run}
              \/ \E u, m : \E o \in {"result", "denied"} :
                   /\ u \in Served /\ Set(q, u) /\ u.pc \in {"step", "decide"} /\ Keeps(u, t)
                   /\ u.list = Decided(t.list, p, m) /\ AnswerTo(m, c, o)
                   /\ u.worker = t.worker /\ client' = client
                   /\ o = "denied" => ran' = ran
                   /\ o = "result" =>
                        \E run \in Runs : run.call = c /\ run.by = q /\ ran' = ran \union {run}
<1> DEFINE t == request[q]
<1>1. PICK p \in FirstPending(t.list) :
        LET c == IdOf(t.list, p)
            run == [call |-> c, kind |-> t.list[p[1]].calls[p[2]], by |-> q]
            After(o) == LET s == Decided(t.list, p, Answered(c[1], c[2], o, c \in t.save))
                        IN [t EXCEPT !.list = s, !.pc = IF Pending(s) = {} THEN "step" ELSE @]
        IN /\ t.pc = "decide"
           /\ \/ /\ Approves(t, c)
                 /\ Set(q, After("result"))
                 /\ ran' = ran \union {run}
                 /\ UNCHANGED <<client, budget>>
              \/ /\ ~Approves(t, c)
                 /\ Set(q, After("denied"))
                 /\ UNCHANGED <<client, ran, budget>>
              \/ /\ Approves(t, c)
                 /\ Fault
                 /\ End(q, t, "error", t.list)
                 /\ ran' = ran \union {run}
  BY DEF Decide
<1> DEFINE c == IdOf(t.list, p)
           run == [call |-> c, kind |-> t.list[p[1]].calls[p[2]], by |-> q]
           remember == c \in t.save
           After(o) == LET s == Decided(t.list, p, Answered(c[1], c[2], o, remember))
                       IN [t EXCEPT !.list = s, !.pc = IF Pending(s) = {} THEN "step" ELSE @]
<1>2. t \in Served /\ ListOK(t.list, q, t.step) /\ t.pc = "decide"
  BY <1>1, TypesLemma, StepLemma
<1>3. /\ p \in Pending(t.list) /\ p[1] \in DOMAIN t.list /\ p[2] \in Place
      /\ p[2] \in t.list[p[1]].pending
  BY DEF FirstPending, Pending
<1>4. t.list \in Seq(Message) /\ t.list[p[1]] \in Message /\ Fits(t.list[p[1]])
  BY <1>2, <1>3 DEF ListOK
<1>5. c[1] = t.list[p[1]].turn /\ c[2] = p[2] /\ c \in CallId /\ c[1] \in Turn /\ c[2] \in Place
         /\ c = <<c[1], c[2]>>
  BY <1>3, <1>4 DEF IdOf, Message, CallId
<1>6. t.list[p[1]].calls[p[2]] \in Kind
  <2>1. t.list[p[1]].calls \in Seq(Kind)
    BY <1>4 DEF Message
  <2>2. p[2] \in DOMAIN t.list[p[1]].calls
    BY <1>3, <1>4 DEF Fits
  <2> QED
    BY <2>1, <2>2
<1>7. run \in Runs /\ run.by = q /\ run.call = c
  BY <1>5, <1>6 DEF Runs
<1>8. ASSUME NEW o \in {"result", "denied"}, Set(q, After(o)), client' = client
      PROVE  \E u, m :
               /\ u \in Served /\ Set(q, u) /\ u.pc \in {"step", "decide"} /\ Keeps(u, t)
               /\ u.list = Decided(t.list, p, m) /\ AnswerTo(m, c, o) /\ u.worker = t.worker
  <2> DEFINE m == Answered(c[1], c[2], o, remember)
             d == Decided(t.list, p, m)
             pc == IF Pending(d) = {} THEN "step" ELSE t.pc
             u == [t EXCEPT !.list = d, !.pc = pc]
  <2>1. remember \in BOOLEAN
    OBVIOUS
  <2>2. Set(q, u)
    BY <1>8
  <2>3. AnswerTo(m, c, o)
    BY <1>5, <2>1, AnswerToLemma
  <2> HIDE DEF m
  <2>4. d \in Seq(Message)
    BY <1>3, <1>4, <2>3, DecidedInserts DEF AnswerTo
  <2>5. pc \in {"step", "decide"}
    BY <1>2
  <2>6. d = Decided(t.list, p, m)
    OBVIOUS
  <2> HIDE DEF d, pc, t, c
  <2>7. u \in Served /\ u.pc = pc /\ u.list = d /\ Keeps(u, t) /\ u.worker = t.worker
    BY <1>2, <2>4, <2>5 DEF Served, Keeps
  <2> HIDE DEF u
  <2> QED
    BY <2>2, <2>3, <2>5, <2>6, <2>7
<1>9. \/ Set(q, After("result")) /\ client' = client /\ ran' = ran \union {run}
      \/ Set(q, After("denied")) /\ client' = client /\ ran' = ran
      \/ End(q, t, "error", t.list) /\ ran' = ran \union {run}
  BY <1>1
<1> HIDE DEF After, run, c, t
<1>10. CASE End(q, t, "error", t.list) /\ ran' = ran \union {run}
  BY <1>2, <1>3, <1>5, <1>7, <1>10 DEF c, t
<1>11. CASE Set(q, After("result")) /\ client' = client /\ ran' = ran \union {run}
  <2>1. PICK u, m :
               /\ u \in Served /\ Set(q, u) /\ u.pc \in {"step", "decide"} /\ Keeps(u, t)
               /\ u.list = Decided(t.list, p, m) /\ AnswerTo(m, c, "result") /\ u.worker = t.worker
    BY <1>8, <1>11
  <2> QED
    BY <1>2, <1>3, <1>5, <1>7, <1>11, <2>1 DEF c, t
<1>12. CASE Set(q, After("denied")) /\ client' = client /\ ran' = ran
  <2>1. PICK u, m :
               /\ u \in Served /\ Set(q, u) /\ u.pc \in {"step", "decide"} /\ Keeps(u, t)
               /\ u.list = Decided(t.list, p, m) /\ AnswerTo(m, c, "denied") /\ u.worker = t.worker
    BY <1>8, <1>12
  <2> QED
    BY <1>2, <1>3, <1>5, <1>12, <2>1 DEF c, t
<1> QED
  BY <1>9, <1>10, <1>11, <1>12

\* A response with calls: its message, and a worker for each call.
LEMMA RespondEffect ==
  ASSUME IInv, NEW q \in Request, Respond(q)
  PROVE  LET t == request[q] IN
         /\ t.pc = "llm" /\ client' = client /\ ran' = ran
         /\ \E u, m :
              /\ u \in Served /\ Set(q, u) /\ u.pc = "tools" /\ Keeps(u, t)
              /\ u.list = Append(t.list, m)
              /\ m \in Message /\ m.role = "assistant" /\ m.turn = <<q, t.step>>
              /\ m.calls # <<>> /\ m.pending = {} /\ m.remember = FALSE
              /\ DOMAIN u.worker = DOMAIN m.calls
              /\ \A k \in DOMAIN u.worker : u.worker[k].state = "running"
<1> DEFINE t == request[q]
<1>1. /\ t \in Served /\ budget \in Budget /\ t.pc = "llm" /\ ListOK(t.list, q, t.step)
      /\ t.step \in 0..MaxSteps /\ MaxSteps \in Nat /\ MaxCalls \in Nat
      /\ client' = client /\ ran' = ran
  BY TypesLemma, StepLemma DEF Respond
<1>2. PICK n \in 1..(MaxCalls - budget.calls) : \E kinds \in [1..n -> Kind] :
        Set(q, [t EXCEPT !.pc = "tools",
                         !.list = Append(@, Calling(<<q, t.step>>, kinds)),
                         !.worker = [k \in 1..n |-> [kind |-> kinds[k], state |-> "running"]]])
  BY DEF Respond
<1>3. PICK kinds \in [1..n -> Kind] :
        Set(q, [t EXCEPT !.pc = "tools",
                         !.list = Append(@, Calling(<<q, t.step>>, kinds)),
                         !.worker = [k \in 1..n |-> [kind |-> kinds[k], state |-> "running"]]])
  BY <1>2
<1>4. n \in Nat /\ n >= 1
  BY <1>1 DEF Budget
<1> DEFINE turn == <<q, t.step>>
           m == Calling(turn, kinds)
           w == [k \in 1..n |-> [kind |-> kinds[k], state |-> "running"]]
           d == Append(t.list, m)
           u == [t EXCEPT !.pc = "tools", !.list = d, !.worker = w]
<1>5. kinds \in Seq(Kind) /\ Len(kinds) = n /\ DOMAIN kinds = 1..n /\ kinds # <<>>
  BY <1>4
<1>6. /\ w \in Seq([kind : Kind, state : WorkerState]) /\ DOMAIN w = 1..n
      /\ \A k \in 1..n : w[k].state = "running"
  BY <1>4 DEF WorkerState
<1>7. turn \in Turn
  BY <1>1 DEF Turn
<1>8. Set(q, u)
  BY <1>3
<1> HIDE DEF turn
<1>9. /\ m \in Message /\ m.role = "assistant" /\ m.turn = turn /\ m.calls = kinds
      /\ m.pending = {} /\ m.remember = FALSE
  BY ONLY <1>5, <1>7, CallingLemma
<1> HIDE DEF m, w
<1>10. d \in Seq(Message) /\ d = Append(t.list, m)
  BY <1>1, <1>9 DEF ListOK
<1> HIDE DEF t, d
<1>11. u \in Served /\ u.pc = "tools" /\ u.list = d /\ u.worker = w /\ Keeps(u, t)
  BY <1>1, <1>6, <1>10 DEF Served, Keeps
<1> HIDE DEF u
<1>12. DOMAIN u.worker = DOMAIN m.calls /\ \A k \in DOMAIN u.worker : u.worker[k].state = "running"
  BY <1>5, <1>6, <1>9, <1>11
<1>13. /\ u \in Served /\ Set(q, u) /\ u.pc = "tools" /\ Keeps(u, t)
       /\ u.list = Append(t.list, m)
       /\ m \in Message /\ m.role = "assistant" /\ m.turn = <<q, t.step>>
       /\ m.calls # <<>> /\ m.pending = {} /\ m.remember = FALSE
  BY <1>5, <1>8, <1>9, <1>10, <1>11 DEF turn
<1> QED
  BY ONLY <1>1, <1>12, <1>13 DEF t

\* Call k of request q ends: it ran, it asks for an approval, or it raised.
Returns(q, k, u, x) ==
  LET t == request[q] IN
  /\ x \in {"result", "approval", "raised"}
  /\ u \in Served /\ Set(q, u) /\ u.pc = t.pc /\ u.list = t.list /\ Keeps(u, t)
  /\ Becomes(u, t, k, x)
  /\ x = "result" =>
       \E run \in Runs : /\ run.call = <<<<q, t.step>>, k>> /\ run.by = q
                         /\ ran' = ran \union {run}
  /\ x # "result" => ran' = ran
  /\ x = "approval" => ~Remembered(t.list)

LEMMA EndToolEffect ==
  ASSUME IInv, NEW q \in Request, NEW k \in DOMAIN request[q].worker, EndTool(q, k)
  PROVE  /\ request[q].worker[k].state = "running" /\ client' = client
         /\ \E u, x : Returns(q, k, u, x)
<1> DEFINE t == request[q]
           kind == t.worker[k].kind
           c == <<<<q, t.step>>, k>>
           run == [call |-> c, kind |-> kind, by |-> q]
           o == Invoked(kind, t.list)
<1>1. /\ t \in Served /\ t.step \in 0..MaxSteps /\ Len(t.worker) <= MaxCalls /\ MaxCalls \in Nat
      /\ client' = client /\ t.worker[k].state = "running"
  BY TypesLemma, StepLemma DEF ServedOK, EndTool
<1>2. t.worker \in Seq(WorkerType)
  BY <1>1 DEF Served, WorkerType
<1>3. k \in Place /\ kind \in Kind
  <2>1. k \in 1..Len(t.worker) /\ t.worker[k] \in WorkerType
    BY <1>2
  <2> QED
    BY <1>1, <2>1 DEF Place, WorkerType
<1>4. run \in Runs /\ run.by = q /\ run.call = c /\ c \in CallId
  BY <1>1, <1>3 DEF Runs, CallId, Turn
<1>5. \/ o.state = "approval" /\ ~o.runs /\ ~Remembered(t.list)
      \/ o.state = "result" /\ o.runs
  BY DEF Invoked
<1>6. \/ /\ Set(q, [t EXCEPT !.worker[k].state = o.state])
         /\ ran' = IF o.runs THEN ran \union {run} ELSE ran
      \/ Set(q, [t EXCEPT !.worker[k].state = "raised"]) /\ ran' = ran
  BY DEF EndTool
<1> HIDE DEF o, run, c, kind
<1>7. PICK x \in {"result", "approval", "raised"} :
        /\ Set(q, [t EXCEPT !.worker[k].state = x])
        /\ x = "result" => ran' = ran \union {run}
        /\ x # "result" => ran' = ran
        /\ x = "approval" => ~Remembered(t.list)
  BY <1>5, <1>6
<1> DEFINE u == [t EXCEPT !.worker[k].state = x]
<1>8. x \in WorkerState
  BY DEF WorkerState
<1>9. Set(q, u) /\ k \in DOMAIN t.worker /\ u = [t EXCEPT !.worker[k].state = x]
  BY <1>7
<1> HIDE DEF t, u
<1>10. u \in Served /\ u.pc = t.pc /\ u.list = t.list /\ Keeps(u, t) /\ Becomes(u, t, k, x)
  BY <1>1, <1>8, <1>9, WorkerLemma
<1>11. x = "result" => \E r \in Runs : r.call = c /\ r.by = q /\ ran' = ran \union {r}
  BY <1>4, <1>7
<1>12. Returns(q, k, u, x)
  BY <1>7, <1>9, <1>10, <1>11 DEF Returns, c, t
<1> QED
  BY <1>1, <1>12 DEF t

\* A result is collected: it is appended, or the call is held back.
LEMMA CollectedEffect ==
  ASSUME IInv, NEW q \in Request, NEW k \in DOMAIN request[q].worker,
         request[q].pc = "tools", request[q].worker[k].state \in {"result", "approval"}
  PROVE  LET t == request[q]
             u == Collected(q, t, k)
         IN /\ u \in Served /\ u.pc = "tools" /\ Keeps(u, t)
            /\ \/ /\ t.worker[k].state = "approval" /\ u.list = t.list
                  /\ Becomes(u, t, k, "held")
               \/ \E m :
                    /\ u.list = Append(t.list, m) /\ Becomes(u, t, k, "taken") /\ ~m.remember
                    /\ AnswerTo(m, <<<<q, t.step>>, k>>,
                                IF t.worker[k].state = "result" THEN "result" ELSE "refused")
<1> DEFINE t == request[q]
           turn == <<q, t.step>>
           o == t.worker[k].state
           shown == IF o = "approval" THEN "refused" ELSE o
           no == FALSE
           m == Answered(turn, k, shown, no)
           d == Append(t.list, m)
           h == [t EXCEPT !.worker[k].state = "held"]
           g == [t EXCEPT !.worker[k].state = "taken"]
           a == [g EXCEPT !.list = d]
           u == Collected(q, t, k)
<1>1. /\ t \in Served /\ q \in Nat /\ t.step \in 0..MaxSteps /\ Len(t.worker) <= MaxCalls
      /\ ListOK(t.list, q, t.step) /\ MaxCalls \in Nat /\ MaxSteps \in Nat
      /\ t.pc = "tools" /\ k \in DOMAIN t.worker
  BY TypesLemma, StepLemma DEF ServedOK
<1>2. turn \in Turn
  BY <1>1 DEF Turn
<1>3. t.worker \in Seq(WorkerType)
  BY <1>1 DEF Served, WorkerType
<1>4. k \in Place
  BY <1>1, <1>3 DEF Place
<1>5. shown = IF o = "result" THEN "result" ELSE "refused"
  OBVIOUS
<1>7. (u = h /\ o = "approval") \/ u = a
  BY DEF Collected
<1>8. AnswerTo(m, <<turn, k>>, shown) /\ ~m.remember
  <2>1. shown \in {"none", "result", "refused", "denied"} /\ no \in BOOLEAN /\ ~no
    BY <1>5
  <2> HIDE DEF shown, turn, no
  <2>2. AnswerTo(m, <<turn, k>>, shown) /\ m.remember = no
    BY <1>2, <1>4, <2>1, AnswerToLemma
  <2> QED
    BY <2>1, <2>2
<1> HIDE DEF m, u, turn, no, shown
<1>9. d \in Seq(Message) /\ d = Append(t.list, m)
  BY <1>1, <1>8 DEF ListOK, AnswerTo
<1> HIDE DEF d, o
<1>10. /\ "held" \in WorkerState /\ "taken" \in WorkerState
       /\ h = [t EXCEPT !.worker[k].state = "held"] /\ g = [t EXCEPT !.worker[k].state = "taken"]
  BY DEF WorkerState
<1> HIDE DEF t, h, g
<1>11. h \in Served /\ h.pc = "tools" /\ h.list = t.list /\ Keeps(h, t) /\ Becomes(h, t, k, "held")
  BY <1>1, <1>10, WorkerLemma
<1>12. g \in Served /\ g.pc = "tools" /\ Keeps(g, t) /\ Becomes(g, t, k, "taken")
  BY <1>1, <1>10, WorkerLemma
<1>13. /\ a \in Served /\ a.pc = g.pc /\ a.list = d /\ a.worker = g.worker
       /\ a.step = g.step /\ a.gone = g.gone /\ a.end = g.end
  BY <1>9, <1>12 DEF Served
<1> HIDE DEF a
<1>14. a.pc = "tools" /\ Keeps(a, t) /\ Becomes(a, t, k, "taken")
  BY <1>12, <1>13 DEF Keeps, Becomes
<1> QED
  BY <1>5, <1>7, <1>8, <1>9, <1>11, <1>13, <1>14 DEF u, t, o, turn

Neat(s) == Tidy(s, {}) /\ Unasked(s)

\* The calls of the batch whose results are not collected.
OpenCalls(q, t) ==
  {<<<<q, t.step>>, k>> : k \in {j \in DOMAIN t.worker : t.worker[j].state # "taken"}}

\* The list of a request.  While calls are at work, those not collected are open, and
\* the message that made them is the last but for their answers; if one asks for an
\* approval, no prefix is remembered.
Shape(q, t) ==
  /\ t.pc \in {"sent", "decide", "step", "llm"} => Neat(t.list)
  /\ t.pc = "tools" =>
       /\ Tidy(t.list, OpenCalls(q, t)) /\ Unasked(t.list)
       /\ \E h \in DOMAIN t.list :
            AtEnd(t.list, <<q, t.step>>, h) /\ DOMAIN t.list[h].calls = DOMAIN t.worker
       /\ \A k \in DOMAIN t.worker :
            t.worker[k].state \in {"approval", "held"} => ~Remembered(t.list)

ShapeInv ==
  /\ \A q \in Request : Shape(q, request[q])
  /\ Neat(client.history)
-----------------------------------------------------------------------------
LEMMA NoCalls == DOMAIN <<>> = {}
OBVIOUS

\* A message with nothing pending leaves nothing to ask.
LEMMA UnaskedAppend ==
  ASSUME NEW s \in Seq(Message), NEW m, m \in Message, m.pending = {}, Unasked(s)
  PROVE  Unasked(Append(s, m))
<1> DEFINE d == Append(s, m)
           n == Len(s) + 1
<1>1. /\ DOMAIN d = DOMAIN s \union {n} /\ n \notin DOMAIN s /\ d[n] = m
      /\ \A i \in DOMAIN s : d[i] = s[i] /\ ~(n < i)
  OBVIOUS
<1>2. ~(n < n)
  OBVIOUS
<1> HIDE DEF d, n
<1>3. Unasked(d)
  BY <1>1, <1>2 DEF Unasked
<1> QED
  BY <1>3 DEF d

LEMMA NeatPlain ==
  ASSUME NEW s \in Seq(Message), Neat(s), NEW m, m \in Message, m.calls = <<>>,
         m.pending = {}, m.role # "tool"
  PROVE  Neat(Append(s, m))
BY TidyPlain, UnaskedAppend DEF Neat

\* Remembered looks at all messages.
LEMMA RememberedAppend ==
  ASSUME NEW s \in Seq(Message), NEW m, m \in Message
  PROVE  Remembered(Append(s, m)) <=> Remembered(s) \/ m.remember
<1> DEFINE d == Append(s, m)
           n == Len(s) + 1
<1>1. /\ DOMAIN d = DOMAIN s \union {n} /\ d[n] = m
      /\ \A i \in DOMAIN s : d[i] = s[i]
  OBVIOUS
<1> HIDE DEF d, n
<1>2. Remembered(d) <=> Remembered(s) \/ m.remember
  BY <1>1 DEF Remembered
<1> QED
  BY <1>2 DEF d

\* Nothing is pending after the message of the call that is decided first.
LEMMA NeatDecided ==
  ASSUME NEW s \in Seq(Message), Neat(s), NEW p \in FirstPending(s), Fits(s[p[1]]),
         NEW m, NEW o, AnswerTo(m, IdOf(s, p), o)
  PROVE  Neat(Decided(s, p, m))
<1> DEFINE d == Decided(s, p, m)
           h == p[1]
           k == p[2]
<1>1. p \in Pending(s) /\ h \in DOMAIN s /\ k \in s[h].pending /\ k \in DOMAIN s[h].calls
  BY DEF FirstPending, Pending, Fits
<1>2. /\ m \in Message /\ m.role = "tool" /\ m.calls = <<>> /\ m.pending = {}
      /\ m.turn = s[h].turn /\ m.place = k
  BY DEF AnswerTo, IdOf
<1>3. d \in Seq(Message) /\ Inserts(d, s, h, k, m)
  BY <1>1, <1>2, DecidedInserts
<1>4. DOMAIN s \subseteq Int /\ h \in Int
  BY <1>1
<1>5. DOMAIN d \subseteq Int
  <2> HIDE DEF d
  <2> QED
    BY <1>3
<1>6. \A j \in DOMAIN s : h < j => s[j].pending = {}
  <2> SUFFICES ASSUME NEW j \in DOMAIN s, h < j, NEW a \in s[j].pending
               PROVE  FALSE
    OBVIOUS
  <2>4. s[j] \in Message
    OBVIOUS
  <2>1. a \in Place
    BY <2>4 DEF Message
  <2>2. <<j, a>> \in Pending(s) /\ <<j, a>>[1] = j
    BY <2>1 DEF Pending
  <2>3. j < h \/ j = h
    BY <2>2 DEF FirstPending
  <2> QED
    BY <1>4, <2>3
<1> HIDE DEF d, h, k
<1>7. Tidy(d, {})
  BY <1>1, <1>2, <1>3, <1>4, <1>5, TidyInserted DEF Neat
<1>8. Unasked(d)
  BY <1>1, <1>2, <1>3, <1>4, <1>5, <1>6, UnaskedInserted DEF Neat
<1> QED
  BY <1>7, <1>8 DEF Neat, d

\* Compaction leaves no calls, answers or pending calls.
LEMMA SilentCompacted ==
  ASSUME NEW s \in Seq(Message), Neat(s), \A i \in DOMAIN s : Fits(s[i]),
         NEW turn \in Turn, NEW m \in LastQuestion(s)
  PROVE  \A j \in DOMAIN Compacted(m, turn) :
           LET n == Compacted(m, turn)[j] IN n.role # "tool" /\ n.calls = <<>> /\ n.pending = {}
<1>1. PICK i \in DOMAIN s : m = s[i] /\ m.role = "user"
  BY DEF LastQuestion
<1>2. m \in Message /\ m.role # "tool" /\ m.calls = <<>>
  BY <1>1 DEF Neat, Tidy, OneCaller
<1>3. m.pending = {}
  BY <1>1, <1>2, NoCalls DEF Fits
<1> DEFINE a == Plain("assistant", turn)
           b == Plain("system", turn)
           d == <<m, a, b>>
<1>4. /\ a.role # "tool" /\ a.calls = <<>> /\ a.pending = {}
      /\ b.role # "tool" /\ b.calls = <<>> /\ b.pending = {}
  BY PlainLemma
<1> HIDE DEF a, b
<1>5. DOMAIN d = 1..3 /\ d[1] = m /\ d[2] = a /\ d[3] = b
  OBVIOUS
<1> HIDE DEF d
<1>6. ASSUME NEW j \in DOMAIN d PROVE d[j].role # "tool" /\ d[j].calls = <<>> /\ d[j].pending = {}
  <2>1. j = 1 \/ j = 2 \/ j = 3
    BY <1>5
  <2> QED
    BY <1>2, <1>3, <1>4, <1>5, <2>1
<1> QED
  BY <1>6 DEF Compacted, d, a, b

LEMMA NeatCompacted ==
  ASSUME NEW s \in Seq(Message), Neat(s), \A i \in DOMAIN s : Fits(s[i]),
         NEW turn \in Turn, NEW m \in LastQuestion(s)
  PROVE  Neat(Compacted(m, turn))
<1> DEFINE d == Compacted(m, turn)
<1>1. \A j \in DOMAIN d : d[j].role # "tool" /\ d[j].calls = <<>> /\ d[j].pending = {}
  BY SilentCompacted
<1> HIDE DEF d
<1>2. Tidy(d, {})
  BY <1>1, NoCalls DEF Tidy, OneCaller, OneAnswer, Accounted, Following, IsAnswer
<1>3. Unasked(d)
  BY <1>1 DEF Unasked
<1> QED
  BY <1>2, <1>3 DEF Neat, d

\* The calls held back become pending, and nothing else changes.
LEMMA NeatMarked ==
  ASSUME NEW s \in Seq(Message), NEW turn, NEW held \in SUBSET Place, NEW h \in DOMAIN s,
         AtEnd(s, turn, h), Tidy(s, {<<turn, k>> : k \in held}), ~Remembered(s),
         \A i \in DOMAIN s : s[i].role = "assistant" /\ s[i].turn = turn => s[i].calls # <<>>
  PROVE  Neat(Marked(s, turn, held))
<1> DEFINE d == Marked(s, turn, held)
<1>1. \A i \in DOMAIN s : s[i].role = "assistant" /\ s[i].turn = turn <=> i = h
  BY DEF AtEnd, Tidy, OneCaller
<1>2. ASSUME NEW i \in DOMAIN s
      PROVE  Like(d[i], s[i]) /\ d[i].pending = IF i = h THEN held ELSE s[i].pending
  <2> DEFINE x == s[i]
             y == [x EXCEPT !.pending = held]
  <2>1. x \in Message
    OBVIOUS
  <2>2. d[i] = IF x.role = "assistant" /\ x.turn = turn THEN y ELSE x
    BY DEF Marked
  <2>3. x.role = "assistant" /\ x.turn = turn <=> i = h
    BY <1>1
  <2> HIDE DEF x
  <2>4. Like(y, x) /\ y.pending = held /\ Like(x, x)
    BY <2>1 DEF Like, Message
  <2> HIDE DEF y, d
  <2>5. Like(d[i], x) /\ d[i].pending = IF i = h THEN held ELSE x.pending
    BY <2>2, <2>3, <2>4
  <2> QED
    BY <2>5 DEF x
<1>3. DOMAIN d = DOMAIN s
  BY DEF Marked
<1> HIDE DEF d
<1>4. Tidy(d, {})
  BY <1>2, <1>3, TidyMarked
<1>5. \A i \in DOMAIN d : ~d[i].remember
  BY <1>2, <1>3 DEF Like, Remembered
<1>6. Unasked(d)
  BY <1>5 DEF Unasked
<1> QED
  BY <1>4, <1>6 DEF Neat, d
-----------------------------------------------------------------------------
\* A step of request q, when what it leaves has its shape.
LEMMA ShapeLemma ==
  ASSUME IInv, ShapeInv, NEW q \in Request, NEW t, Set(q, t), Shape(q, t),
         client'.history = client.history \/ Neat(client'.history)
  PROVE  ShapeInv'
<1>1. request' = [request EXCEPT ![q] = t] /\ request \in [Request -> Served]
  BY DEF Set, IInv, TypeOK
<1>2. \A r \in Request : request'[r] = IF r = q THEN t ELSE request[r]
  BY <1>1
<1>3. \A r \in Request : Shape(r, request'[r])
  BY <1>2 DEF ShapeInv
<1>4. Neat(client'.history)
  BY DEF ShapeInv
<1> QED
  BY <1>3, <1>4 DEF ShapeInv

\* The end of a request: what it did, and what the client has.
Ends(q, t, how, s, u) ==
  /\ Set(q, u) /\ u.pc = "done" /\ u.end = how /\ u.gone = t.gone /\ u.step = t.step
  /\ u.worker = <<>> /\ client'.sent = client.sent
  /\ t.gone => client' = client
  /\ ~t.gone => client'.waiting = FALSE
  /\ ~t.gone /\ how # "error" => client'.history = s
  /\ how = "error" => client'.history = client.history
  /\ client'.history = client.history \/ client'.history = s

LEMMA EndEffect ==
  ASSUME IInv, NEW q \in Request, NEW t \in Served, NEW how \in {"answer", "approval", "error"},
         NEW s \in Seq(Message), End(q, t, how, s)
  PROVE  \E u : Ends(q, t, how, s, u)
<1> DEFINE w == <<>>
           u == [t EXCEPT !.pc = "done", !.end = how, !.list = s, !.worker = w]
<1>1. Set(q, u)
  BY DEF End
<1>2. client \in Client
  BY DEF IInv, TypeOK, Client
<1>3. /\ t.gone => client' = client
      /\ ~t.gone => client' = [client EXCEPT !.waiting = FALSE,
                                             !.history = IF how = "error" THEN @ ELSE s]
  BY DEF End
<1> HIDE DEF w
<1>4. u.pc = "done" /\ u.end = how /\ u.gone = t.gone /\ u.step = t.step
      /\ u.worker = w
  BY DEF Served
<1> HIDE DEF u
<1>5. /\ client'.sent = client.sent
      /\ ~t.gone => client'.waiting = FALSE
      /\ ~t.gone /\ how # "error" => client'.history = s
      /\ how = "error" => client'.history = client.history
  BY <1>2, <1>3 DEF Client
<1>6. t.gone \in BOOLEAN
  BY DEF Served
<1>7. client'.history = client.history \/ client'.history = s
  BY <1>3, <1>5, <1>6
<1> QED
  BY <1>1, <1>3, <1>4, <1>5, <1>7 DEF Ends, w

LEMMA ShapeEnd ==
  ASSUME IInv, ShapeInv, NEW q \in Request, NEW t \in Served,
         NEW how \in {"answer", "approval", "error"}, NEW s \in Seq(Message),
         how # "error" => Neat(s), End(q, t, how, s)
  PROVE  ShapeInv'
<1>1. PICK u : Ends(q, t, how, s, u)
  BY EndEffect
<1>2. Shape(q, u)
  BY <1>1 DEF Ends, Shape
<1> QED
  BY <1>1, <1>2, ShapeLemma DEF Ends

\* Where a message with a turn of the request's step comes from.
LEMMA FreshTurn ==
  ASSUME NEW s, NEW q \in Nat, NEW n \in Nat, ListOK(s, q, n - 1)
  PROVE  \A i \in DOMAIN s : s[i].turn # <<q, n>>
BY DEF ListOK, Dated

\* Actions that only move a request on, or end it in an error.
LEMMA ShapeMove ==
  ASSUME IInv, ShapeInv, NEW q \in Request, NEW pc,
         Set(q, [request[q] EXCEPT !.pc = pc]), client' = client,
         pc \in {"decide", "step", "drain"}, pc # "drain" => request[q].pc = "sent"
  PROVE  ShapeInv'
<1> DEFINE t == request[q]
           u == [t EXCEPT !.pc = pc]
<1>1. t \in Served /\ Shape(q, t)
  BY DEF IInv, TypeOK, ShapeInv
<1>2. Set(q, u) /\ (pc \in {"decide", "step"} => t.pc = "sent")
  OBVIOUS
<1> HIDE DEF t
<1>3. u.pc = pc /\ u.list = t.list
  BY <1>1 DEF Served
<1> HIDE DEF u
<1>4. Shape(q, u)
  BY <1>1, <1>2, <1>3 DEF Shape
<1> QED
  BY <1>2, <1>4, ShapeLemma

LEMMA ShapeError ==
  ASSUME IInv, ShapeInv, NEW q \in Request, End(q, request[q], "error", request[q].list)
  PROVE  ShapeInv'
<1>1. request[q] \in Served
  BY DEF IInv, TypeOK
<1>2. request[q].list \in Seq(Message)
  BY <1>1 DEF Served
<1> QED
  BY <1>1, <1>2, ShapeEnd

LEMMA ShapeBegin == ASSUME IInv, ShapeInv, NEW q \in Request, Begin(q) PROVE ShapeInv'
<1>1. CASE End(q, request[q], "error", request[q].list)
  BY <1>1, ShapeError
<1>2. CASE Set(q, [request[q] EXCEPT !.pc = IF request[q].decides THEN "decide" ELSE "step"])
            /\ UNCHANGED <<client, budget>>
  <2>1. PICK pc \in {"decide", "step"} : Set(q, [request[q] EXCEPT !.pc = pc])
    BY <1>2
  <2> QED
    BY <1>2, <2>1, ShapeMove DEF Begin
<1> QED
  BY <1>1, <1>2 DEF Begin

LEMMA ShapeStop ==
  ASSUME IInv, ShapeInv, NEW q \in Request, TooManyCalls(q) \/ Fail(q) \/ Close(q) \/ Drained(q)
  PROVE  ShapeInv'
<1>1. CASE End(q, request[q], "error", request[q].list)
  BY <1>1, ShapeError
<1>2. CASE Set(q, [request[q] EXCEPT !.pc = "drain"]) /\ UNCHANGED client
  BY <1>2, ShapeMove
<1> QED
  BY <1>1, <1>2 DEF TooManyCalls, Fail, Close, Drained

LEMMA ShapeDecide == ASSUME IInv, ShapeInv, NEW q \in Request, Decide(q) PROVE ShapeInv'
<1> DEFINE t == request[q]
<1>1. PICK p \in FirstPending(t.list) :
        /\ t.pc = "decide" /\ p \in Pending(t.list)
        /\ \/ End(q, t, "error", t.list)
           \/ \E u, m : \E o \in {"result", "denied"} :
                /\ u \in Served /\ Set(q, u) /\ u.pc \in {"step", "decide"}
                /\ u.list = Decided(t.list, p, m) /\ AnswerTo(m, IdOf(t.list, p), o)
                /\ client' = client
  BY DecideEffect
<1>2. CASE End(q, t, "error", t.list)
  BY <1>2, ShapeError
<1>3. ASSUME NEW u, NEW m, NEW o \in {"result", "denied"}, Set(q, u), u.pc \in {"step", "decide"},
             u.list = Decided(t.list, p, m), AnswerTo(m, IdOf(t.list, p), o), client' = client
      PROVE  ShapeInv'
  <2>1. ListOK(t.list, q, t.step) /\ Neat(t.list)
    BY <1>1, StepLemma DEF ShapeInv, Shape
  <2>2. t.list \in Seq(Message) /\ p[1] \in DOMAIN t.list /\ Fits(t.list[p[1]])
    BY <1>1, <2>1 DEF ListOK, Pending
  <2> HIDE DEF t
  <2>3. Neat(u.list)
    BY <1>3, <2>1, <2>2, NeatDecided
  <2>4. Shape(q, u)
    BY <1>3, <2>3 DEF Shape
  <2> QED
    BY <1>3, <2>4, ShapeLemma
<1> QED
  BY <1>1, <1>2, <1>3

LEMMA ShapeSend == ASSUME IInv, ShapeInv, NEW q \in Request, Send(q) PROVE ShapeInv'
<1> DEFINE t == request[q]
           next == [t EXCEPT !.pc = "llm", !.step = @ + 1]
<1>1. /\ t \in Served /\ ListOK(t.list, q, t.step) /\ t.step \in 0..MaxSteps /\ Neat(t.list)
      /\ client' = client
  BY TypesLemma, StepLemma DEF Send, ShapeInv, Shape
<1>2. \/ Set(q, next)
      \/ \E m \in LastQuestion(t.list) :
           Set(q, [next EXCEPT !.list = Compacted(m, <<q, t.step>>)])
  BY DEF Send
<1>3. t.list \in Seq(Message) /\ (\A i \in DOMAIN t.list : Fits(t.list[i])) /\ <<q, t.step>> \in Turn
  BY <1>1 DEF ListOK, Turn
<1>4. ASSUME NEW u, u.pc = "llm", Neat(u.list), Set(q, u) PROVE ShapeInv'
  <2>1. Shape(q, u)
    BY <1>4 DEF Shape
  <2> QED
    BY <1>1, <1>4, <2>1, ShapeLemma
<1> HIDE DEF t
<1>5. next.pc = "llm" /\ next.list = t.list
  BY <1>1 DEF Served
<1>6. CASE Set(q, next)
  <2> HIDE DEF next
  <2> QED
    BY <1>1, <1>4, <1>5, <1>6
<1>7. ASSUME NEW m \in LastQuestion(t.list),
             Set(q, [next EXCEPT !.list = Compacted(m, <<q, t.step>>)])
      PROVE  ShapeInv'
  <2> DEFINE d == Compacted(m, <<q, t.step>>)
             u == [next EXCEPT !.list = d]
  <2>1. Neat(d)
    BY <1>1, <1>3, NeatCompacted
  <2>2. Set(q, u)
    BY <1>7
  <2> HIDE DEF d
  <2>3. u.pc = "llm" /\ u.list = d
    BY <1>1 DEF Served
  <2> HIDE DEF u
  <2> QED
    BY <1>4, <2>1, <2>2, <2>3
<1> QED
  BY <1>2, <1>6, <1>7

LEMMA ShapeAnswer == ASSUME IInv, ShapeInv, NEW q \in Request, Answer(q) PROVE ShapeInv'
<1> DEFINE t == request[q]
           m == Plain("assistant", <<q, t.step>>)
           d == Append(t.list, m)
<1>1. t \in Served /\ t.list \in Seq(Message) /\ t.step \in 0..MaxSteps /\ Neat(t.list)
  BY TypesLemma, StepLemma DEF Answer, ShapeInv, Shape, ListOK
<1>2. <<q, t.step>> \in Turn
  BY <1>1 DEF Turn
<1>3. m \in Message /\ m.role # "tool" /\ m.calls = <<>> /\ m.pending = {}
  BY <1>2, PlainLemma
<1>4. End(q, t, "answer", d)
  BY DEF Answer
<1> HIDE DEF m, t
<1>5. Neat(d) /\ d \in Seq(Message)
  BY <1>1, <1>3, NeatPlain
<1> QED
  BY <1>1, <1>4, <1>5, ShapeEnd

LEMMA ShapeRespond == ASSUME IInv, ShapeInv, NEW q \in Request, Respond(q) PROVE ShapeInv'
<1> DEFINE t == request[q]
           turn == <<q, t.step>>
<1>1. PICK u, m :
        /\ u \in Served /\ Set(q, u) /\ u.pc = "tools" /\ Keeps(u, t)
        /\ u.list = Append(t.list, m)
        /\ m \in Message /\ m.role = "assistant" /\ m.turn = turn
        /\ m.calls # <<>> /\ m.pending = {} /\ m.remember = FALSE
        /\ DOMAIN u.worker = DOMAIN m.calls
        /\ \A k \in DOMAIN u.worker : u.worker[k].state = "running"
  BY RespondEffect
<1>2. t.pc = "llm" /\ client' = client
  BY RespondEffect
<1>3. ListOK(t.list, q, t.step - 1) /\ Neat(t.list) /\ t.step \in Nat /\ q \in Nat
  <2>1. q \in Nat /\ MaxSteps \in Nat /\ ServedOK(q, t) /\ Shape(q, t) /\ t.step \in 0..MaxSteps
    BY TypesLemma, StepLemma DEF ShapeInv
  <2> HIDE DEF t
  <2> QED
    BY <1>2, <2>1 DEF ServedOK, Latest, Shape
<1> HIDE DEF t
<1>4. t.list \in Seq(Message) /\ \A i \in DOMAIN t.list : t.list[i].turn # m.turn
  <2>1. \A i \in DOMAIN t.list : t.list[i].turn # <<q, t.step>>
    BY <1>3, FreshTurn
  <2> QED
    BY <1>1, <1>3, <2>1 DEF ListOK
<1>5. OpenCalls(q, u) = {<<m.turn, k>> : k \in DOMAIN m.calls}
  BY <1>1 DEF OpenCalls, Keeps
<1>6. Tidy(u.list, OpenCalls(q, u))
  <2>1. Tidy(t.list, {})
    BY <1>3 DEF Neat
  <2>2. Tidy(Append(t.list, m), OpenCalls(q, u))
    BY ONLY <1>1, <1>4, <1>5, <2>1, TidyCalling
  <2> QED
    BY <1>1, <2>2
<1>7. Unasked(u.list)
  BY <1>1, <1>3, <1>4, UnaskedAppend DEF Neat
<1> DEFINE h == Len(t.list) + 1
<1>8. h \in DOMAIN u.list /\ u.list[h] = m /\ \A l \in DOMAIN u.list : ~(h < l)
  BY <1>1, <1>4
<1> HIDE DEF h
<1>9. AtEnd(u.list, turn, h) /\ DOMAIN u.list[h].calls = DOMAIN u.worker
  BY <1>1, <1>8 DEF AtEnd
<1>10. \E i \in DOMAIN u.list :
         AtEnd(u.list, <<q, u.step>>, i) /\ DOMAIN u.list[i].calls = DOMAIN u.worker
  BY <1>1, <1>8, <1>9 DEF Keeps
<1>11. \A k \in DOMAIN u.worker : u.worker[k].state \notin {"approval", "held"}
  BY <1>1
<1>12. Shape(q, u)
  BY <1>1, <1>6, <1>7, <1>10, <1>11 DEF Shape
<1> QED
  BY <1>1, <1>2, <1>12, ShapeLemma

LEMMA ShapeEndTool ==
  ASSUME IInv, ShapeInv, NEW q \in Request, NEW k \in DOMAIN request[q].worker, EndTool(q, k)
  PROVE  ShapeInv'
<1> DEFINE t == request[q]
<1>1. PICK u, x : Returns(q, k, u, x)
  BY EndToolEffect
<1>2. /\ x \in {"result", "approval", "raised"}
      /\ Set(q, u) /\ u.pc = t.pc /\ u.list = t.list /\ Keeps(u, t)
      /\ Becomes(u, t, k, x)
      /\ x = "approval" => ~Remembered(t.list)
  BY <1>1 DEF Returns
<1>3. t.worker[k].state = "running" /\ client' = client /\ Shape(q, t)
  BY EndToolEffect DEF ShapeInv
<1>4. OpenCalls(q, u) = OpenCalls(q, t)
  <2>1. \A j \in DOMAIN t.worker : u.worker[j].state # "taken" <=> t.worker[j].state # "taken"
    BY <1>2, <1>3 DEF Becomes
  <2>2. DOMAIN u.worker = DOMAIN t.worker /\ u.step = t.step
    BY <1>2 DEF Becomes, Keeps
  <2>3. {j \in DOMAIN u.worker : u.worker[j].state # "taken"} = {j \in DOMAIN t.worker : t.worker[j].state # "taken"}
    BY <2>1, <2>2
  <2> QED
    BY <2>2, <2>3 DEF OpenCalls
<1>5. \A j \in DOMAIN u.worker : u.worker[j].state \in {"approval", "held"} =>
        (j # k /\ j \in DOMAIN t.worker /\ t.worker[j].state \in {"approval", "held"}) \/ ~Remembered(t.list)
  BY <1>2 DEF Becomes
<1> HIDE DEF t
<1>6. Shape(q, u)
  BY <1>2, <1>3, <1>4, <1>5 DEF Shape, Keeps, Becomes
<1> QED
  BY <1>2, <1>3, <1>6, ShapeLemma

\* What collecting a result leaves has its shape.
LEMMA ShapeCollected ==
  ASSUME IInv, ShapeInv, NEW q \in Request, NEW k \in DOMAIN request[q].worker,
         request[q].pc = "tools", request[q].worker[k].state \in {"result", "approval"}
  PROVE  Shape(q, Collected(q, request[q], k))
<1> DEFINE t == request[q]
           u == Collected(q, t, k)
           turn == <<q, t.step>>
<1>1. /\ u.pc = "tools" /\ Keeps(u, t)
      /\ \/ /\ t.worker[k].state = "approval" /\ u.list = t.list
            /\ Becomes(u, t, k, "held")
         \/ \E m : \E o :
              /\ u.list = Append(t.list, m) /\ Becomes(u, t, k, "taken") /\ ~m.remember
              /\ AnswerTo(m, <<turn, k>>, o)
  BY CollectedEffect
<1>2. /\ t.list \in Seq(Message) /\ Tidy(t.list, OpenCalls(q, t)) /\ Unasked(t.list)
      /\ \A j \in DOMAIN t.worker : t.worker[j].state \in {"approval", "held"} => ~Remembered(t.list)
  BY StepLemma DEF ShapeInv, Shape, ListOK
<1>3. PICK h \in DOMAIN t.list : AtEnd(t.list, turn, h) /\ DOMAIN t.list[h].calls = DOMAIN t.worker
  BY DEF ShapeInv, Shape
<1>4. k \in DOMAIN t.worker /\ t.worker[k].state \in {"result", "approval"}
  OBVIOUS
<1> HIDE DEF u, t, turn
<1>5. CASE t.worker[k].state = "approval" /\ u.list = t.list /\ Becomes(u, t, k, "held")
  <2>1. \A j \in DOMAIN t.worker : u.worker[j].state # "taken" <=> t.worker[j].state # "taken"
    BY <1>5 DEF Becomes
  <2>2. DOMAIN u.worker = DOMAIN t.worker /\ u.step = t.step
    BY <1>1, <1>5 DEF Becomes, Keeps
  <2>3. {j \in DOMAIN u.worker : u.worker[j].state # "taken"} = {j \in DOMAIN t.worker : t.worker[j].state # "taken"}
    BY <2>1, <2>2
  <2>4. OpenCalls(q, u) = OpenCalls(q, t)
    BY <2>2, <2>3 DEF OpenCalls
  <2>5. \A j \in DOMAIN u.worker : u.worker[j].state \in {"approval", "held"} => ~Remembered(u.list)
    BY <1>2, <1>4, <1>5 DEF Becomes
  <2>6. <<q, u.step>> = turn
    BY <2>2 DEF turn
  <2>7. Shape(q, u)
    BY <1>1, <1>2, <1>3, <1>5, <2>2, <2>4, <2>5, <2>6 DEF Shape
  <2> QED
    BY <2>7 DEF u, t
<1>6. ASSUME NEW m, NEW o, u.list = Append(t.list, m), Becomes(u, t, k, "taken"), ~m.remember,
             AnswerTo(m, <<turn, k>>, o)
      PROVE  Shape(q, u)
  <2>1. /\ m \in Message /\ m.role = "tool" /\ m.calls = <<>> /\ m.pending = {}
        /\ m.turn = turn /\ m.place = k
    BY <1>6 DEF AnswerTo
  <2>2. DOMAIN u.worker = DOMAIN t.worker /\ u.step = t.step /\ <<q, u.step>> = turn
    BY <1>1, <1>6 DEF Becomes, Keeps, turn
  <2>3. {j \in DOMAIN u.worker : u.worker[j].state # "taken"} = {j \in DOMAIN t.worker : t.worker[j].state # "taken"} \ {k}
    BY <1>6 DEF Becomes
  <2>4. OpenCalls(q, u) = OpenCalls(q, t) \ {<<turn, k>>} /\ <<turn, k>> \in OpenCalls(q, t)
    <3>1. OpenCalls(q, u) = {<<turn, j>> : j \in {j \in DOMAIN t.worker : t.worker[j].state # "taken"} \ {k}}
      BY <2>2, <2>3 DEF OpenCalls
    <3>2. OpenCalls(q, t) = {<<turn, j>> : j \in {j \in DOMAIN t.worker : t.worker[j].state # "taken"}}
      BY DEF OpenCalls, turn
    <3>3. k \in {j \in DOMAIN t.worker : t.worker[j].state # "taken"}
      BY <1>4
    <3> QED
      BY <3>1, <3>2, <3>3
  <2>5. Tidy(u.list, OpenCalls(q, u)) /\ AtEnd(u.list, turn, h)
    <3>1. AtEnd(t.list, m.turn, h) /\ m.place \in DOMAIN t.list[h].calls /\ <<m.turn, m.place>> \in OpenCalls(q, t)
      BY <1>3, <1>4, <2>1, <2>4
    <3>2. /\ Tidy(Append(t.list, m), OpenCalls(q, t) \ {<<m.turn, m.place>>})
          /\ AtEnd(Append(t.list, m), m.turn, h)
      BY <1>2, <2>1, <3>1, TidyAnswer
    <3> QED
      BY <1>6, <2>1, <2>4, <3>2
  <2>6. Unasked(u.list) /\ (Remembered(u.list) <=> Remembered(t.list))
    BY <1>2, <1>6, <2>1, UnaskedAppend, RememberedAppend
  <2>7. h \in DOMAIN u.list /\ u.list[h] = t.list[h]
    BY <1>2, <1>6
  <2>8. \A j \in DOMAIN u.worker : u.worker[j].state \in {"approval", "held"} => ~Remembered(u.list)
    BY <1>2, <1>6, <2>6 DEF Becomes
  <2>9. \E i \in DOMAIN u.list : AtEnd(u.list, <<q, u.step>>, i) /\ DOMAIN u.list[i].calls = DOMAIN u.worker
    BY <1>3, <2>2, <2>5, <2>7
  <2> QED
    BY <1>1, <2>5, <2>6, <2>8, <2>9 DEF Shape
<1> QED
  BY <1>1, <1>5, <1>6 DEF u, t

\* When the batch is over only the calls held back are open.
LEMMA OverLemma ==
  ASSUME NEW q, NEW u, BatchOver(u.worker)
  PROVE  OpenCalls(q, u) = {<<<<q, u.step>>, k>> : k \in {j \in DOMAIN u.worker : u.worker[j].state = "held"}}
<1>1. {j \in DOMAIN u.worker : u.worker[j].state # "taken"} = {j \in DOMAIN u.worker : u.worker[j].state = "held"}
  BY DEF BatchOver
<1> QED
  BY <1>1 DEF OpenCalls

\* The calls held back are calls of the message that made the batch.
LEMMA HeldLemma ==
  ASSUME IInv, NEW q \in Request, NEW k \in DOMAIN request[q].worker,
         request[q].pc = "tools", request[q].worker[k].state \in {"result", "approval"}
  PROVE  LET t == request[q]
             u == Collected(q, t, k)
             held == {j \in DOMAIN u.worker : u.worker[j].state = "held"}
         IN held \in SUBSET Place /\ Marked(u.list, <<q, t.step>>, held) \in Seq(Message)
<1> DEFINE t == request[q]
           turn == <<q, t.step>>
           u == Collected(q, t, k)
           held == {j \in DOMAIN u.worker : u.worker[j].state = "held"}
<1>1. /\ u \in Served /\ Batch(u, turn) /\ Len(u.worker) = Len(t.worker)
      /\ ListOK(u.list, q, t.step) /\ Len(t.worker) <= MaxCalls /\ MaxCalls \in Nat
  BY CollectedLemma, TypesLemma DEF ServedOK
<1>2. u.worker \in Seq(WorkerType) /\ u.list \in Seq(Message)
  BY <1>1 DEF Served, WorkerType
<1> HIDE DEF u
<1>3. held \subseteq Place
  BY <1>1, <1>2 DEF Place
<1>4. ASSUME NEW i \in DOMAIN u.list, u.list[i].role = "assistant", u.list[i].turn = turn
      PROVE  held \subseteq DOMAIN u.list[i].calls
  <2>1. Len(u.list[i].calls) = Len(u.worker)
    BY <1>1, <1>4 DEF Batch
  <2>2. u.list[i] \in Message
    BY <1>2
  <2>3. u.list[i].calls \in Seq(Kind)
    BY <2>2 DEF Message
  <2>4. DOMAIN u.list[i].calls = DOMAIN u.worker
    BY <1>2, <2>1, <2>3
  <2> QED
    BY <2>4
<1> HIDE DEF held, turn
<1>5. ListOK(Marked(u.list, turn, held), q, t.step)
  BY <1>1, <1>3, <1>4, MarkedLemma
<1> QED
  BY <1>3, <1>5 DEF ListOK, held, turn, u

LEMMA ShapeCollect ==
  ASSUME IInv, ShapeInv, NEW q \in Request, NEW k \in DOMAIN request[q].worker, Collect(q, k)
  PROVE  ShapeInv'
<1> DEFINE t == request[q]
           turn == <<q, t.step>>
           u == Collected(q, t, k)
           held == {j \in DOMAIN u.worker : u.worker[j].state = "held"}
<1>1. /\ t \in Served /\ t.pc = "tools" /\ t.worker[k].state \in {"result", "approval", "raised"}
      /\ k \in DOMAIN t.worker /\ t.step \in 0..MaxSteps
      /\ Len(t.worker) <= MaxCalls /\ MaxCalls \in Nat
  BY TypesLemma, StepLemma DEF Collect, ServedOK
<1>2. CASE t.worker[k].state = "raised"
  <2>1. Set(q, [t EXCEPT !.pc = "drain"]) /\ client' = client
    BY <1>2 DEF Collect
  <2> QED
    BY <2>1, ShapeMove
<1>3. CASE t.worker[k].state # "raised"
  <2>1. Shape(q, u)
    BY <1>1, <1>3, ShapeCollected
  <2>2. /\ u \in Served /\ u.pc = "tools" /\ u.step = t.step /\ Batch(u, turn)
        /\ Len(u.worker) = Len(t.worker) /\ ListOK(u.list, q, t.step)
    BY <1>1, <1>3, CollectedLemma
  <2>3. \/ Set(q, u) /\ client' = client
        \/ /\ Set(q, [u EXCEPT !.pc = "step", !.worker = <<>>]) /\ client' = client
           /\ BatchOver(u.worker) /\ held = {}
        \/ /\ End(q, u, "approval", Marked(u.list, turn, held))
           /\ BatchOver(u.worker) /\ held # {}
    BY <1>3 DEF Collect
  <2>4. u.worker \in Seq(WorkerType) /\ t.worker \in Seq(WorkerType) /\ u.list \in Seq(Message)
    BY <1>1, <2>2 DEF Served, WorkerType, ListOK
  <2>5. held \subseteq Place /\ Len(u.worker) # 0
    BY <1>1, <2>2, <2>4 DEF Place
  <2>6. BatchOver(u.worker) => OpenCalls(q, u) = {<<turn, j>> : j \in held}
    BY <2>2, OverLemma
  <2>7. Tidy(u.list, OpenCalls(q, u)) /\ Unasked(u.list)
    BY <2>1, <2>2 DEF Shape
  <2>8. \E h \in DOMAIN u.list : AtEnd(u.list, turn, h)
    BY <2>1, <2>2 DEF Shape
  <2>9. held # {} => ~Remembered(u.list)
    BY <2>1, <2>2 DEF Shape
  <2>13. Marked(u.list, turn, held) \in Seq(Message)
    BY <1>1, <1>3, HeldLemma
  <2> HIDE DEF u, t, held
  <2>10. CASE Set(q, u) /\ client' = client
    BY <2>1, <2>10, ShapeLemma
  <2>11. CASE /\ Set(q, [u EXCEPT !.pc = "step", !.worker = <<>>]) /\ client' = client
              /\ BatchOver(u.worker) /\ held = {}
    <3> DEFINE w == <<>>
               v == [u EXCEPT !.pc = "step", !.worker = w]
    <3>1. Set(q, v)
      BY <2>11
    <3> HIDE DEF w
    <3>2. v.pc = "step" /\ v.list = u.list
      BY <2>2 DEF Served
    <3> HIDE DEF v
    <3>3. OpenCalls(q, u) = {}
      BY <2>6, <2>11
    <3>4. Shape(q, v)
      BY <2>7, <3>2, <3>3 DEF Shape, Neat
    <3> QED
      BY <2>11, <3>1, <3>4, ShapeLemma
  <2>12. CASE /\ End(q, u, "approval", Marked(u.list, turn, held))
              /\ BatchOver(u.worker) /\ held # {}
    <3>1. PICK h \in DOMAIN u.list : AtEnd(u.list, turn, h)
      BY <2>8
    <3>2. ASSUME NEW i \in DOMAIN u.list, u.list[i].role = "assistant", u.list[i].turn = turn
          PROVE  u.list[i].calls # <<>>
      <4>1. Len(u.list[i].calls) = Len(u.worker)
        BY <2>2, <3>2 DEF Batch
      <4> QED
        BY <2>5, <4>1
    <3>3. Neat(Marked(u.list, turn, held))
      BY <2>4, <2>5, <2>6, <2>7, <2>9, <2>12, <3>1, <3>2, NeatMarked
    <3> QED
      BY <2>2, <2>12, <3>3, <2>13, ShapeEnd
  <2> QED
    BY <2>3, <2>10, <2>11, <2>12
<1> QED
  BY <1>2, <1>3

\* A new request, with a question at the end of the client's conversation.
LEMMA SubmitEffect ==
  ASSUME IInv, Submit
  PROVE  \E q \in Request : \E u, m :
           /\ q = client.sent + 1 /\ ~client.waiting /\ Set(q, u)
           /\ u.pc = "sent" /\ u.end = "none" /\ u.gone = FALSE /\ u.step = 0
           /\ u.worker = <<>> /\ u.list = Append(client.history, m)
           /\ m \in Message /\ m.role = "user" /\ m.calls = <<>> /\ m.pending = {}
           /\ client'.sent = q /\ client'.waiting = TRUE /\ client'.history = client.history
           /\ ran' = ran
<1> DEFINE Sent(n, decides, enable, approve, save) ==
             [request EXCEPT ![n] =
                [Unsent EXCEPT !.pc = "sent", !.decides = decides, !.enable = enable,
                               !.approve = approve, !.save = save,
                               !.list = Append(client.history, Plain("user", <<n, 0>>))]]
<1>q. PICK q : q = client.sent + 1
  OBVIOUS
<1>0. \E decides \in BOOLEAN, enable \in Approvals :
      \E approve \in SUBSET PendingIds(client.history) : \E save \in {{}, approve} :
        /\ ~decides => approve = {}
        /\ request' = Sent(client.sent + 1, decides, enable, approve, save)
  BY Zenon DEF Submit
<1> HIDE DEF Sent
<1>1. PICK decides \in BOOLEAN, enable \in Approvals :
      \E approve \in SUBSET PendingIds(client.history) : \E save \in {{}, approve} :
        request' = Sent(q, decides, enable, approve, save)
  BY <1>q, <1>0
<1>2. PICK approve \in SUBSET PendingIds(client.history) : \E save \in {{}, approve} :
        request' = Sent(q, decides, enable, approve, save)
  BY <1>1
<1>3. PICK save \in {{}, approve} : request' = Sent(q, decides, enable, approve, save)
  BY <1>2
<1> DEFINE m == Plain("user", <<q, 0>>)
           x == Unsent
           u == [x EXCEPT !.pc = "sent", !.decides = decides, !.enable = enable,
                          !.approve = approve, !.save = save, !.list = Append(client.history, m)]
<1>4. q \in Request /\ <<q, 0>> \in Turn /\ client \in Client /\ ~client.waiting
  <2>1. q \in Request /\ ~client.waiting
    BY <1>q DEF Submit
  <2>2. MaxSteps \in Nat
    BY LimitsAssumption
  <2>3. client \in Client
    BY DEF IInv, TypeOK, Client
  <2> HIDE DEF IInv
  <2> QED
    BY <2>1, <2>2, <2>3 DEF Turn
<1>5. client' = [client EXCEPT !.waiting = TRUE, !.sent = q] /\ ran' = ran
  BY <1>q DEF Submit
<1>6. m \in Message /\ m.role = "user" /\ m.calls = <<>> /\ m.pending = {}
  BY <1>4, PlainLemma
<1>7. Set(q, u)
  BY <1>3 DEF Sent, Set
<1>8. x \in Served /\ x.step = 0 /\ x.gone = FALSE /\ x.end = "none" /\ x.worker = <<>>
  BY UnsentLemma DEF Unsent
<1> HIDE DEF m, x
<1>9. /\ u.pc = "sent" /\ u.end = "none" /\ u.gone = FALSE /\ u.step = 0
      /\ u.worker = <<>> /\ u.list = Append(client.history, m)
  BY <1>8 DEF Served
<1> HIDE DEF u
<1>10. client'.sent = q /\ client'.waiting = TRUE /\ client'.history = client.history
  BY <1>4, <1>5 DEF Client
<1> QED
  BY <1>q, <1>4, <1>5, <1>6, <1>7, <1>9, <1>10

LEMMA ShapeSubmit == ASSUME IInv, ShapeInv, Submit PROVE ShapeInv'
<1>1. PICK q \in Request : \E u, m :
        /\ Set(q, u) /\ u.pc = "sent" /\ u.list = Append(client.history, m)
        /\ m \in Message /\ m.role = "user" /\ m.calls = <<>> /\ m.pending = {}
        /\ client'.history = client.history
  BY SubmitEffect
<1>2. PICK u, m :
        /\ Set(q, u) /\ u.pc = "sent" /\ u.list = Append(client.history, m)
        /\ m \in Message /\ m.role = "user" /\ m.calls = <<>> /\ m.pending = {}
        /\ client'.history = client.history
  BY <1>1
<1>3. client.history \in Seq(Message) /\ Neat(client.history)
  BY DEF IInv, ListOK, ShapeInv
<1>4. Neat(u.list)
  BY <1>2, <1>3, NeatPlain
<1>5. Shape(q, u)
  BY <1>2, <1>4 DEF Shape
<1> QED
  BY <1>2, <1>5, ShapeLemma

\* A client that gives up changes nothing but that.
LEMMA GiveUpEffect ==
  ASSUME IInv, GiveUp, client.sent \in Request
  PROVE  LET t == request[client.sent] IN
         /\ client.waiting /\ ran' = ran
         /\ client'.waiting = FALSE /\ client'.sent = client.sent /\ client'.history = client.history
         /\ \E u : /\ Set(client.sent, u) /\ u.gone = TRUE
                   /\ u.pc = t.pc /\ u.end = t.end /\ u.step = t.step
                   /\ u.list = t.list /\ u.worker = t.worker
<1>1. PICK q : q = client.sent
  OBVIOUS
<1> DEFINE t == request[q]
           u == [t EXCEPT !.gone = TRUE]
<1>2. t \in Served /\ client \in Client
  BY <1>1 DEF IInv, TypeOK, Client
<1>3. Set(q, u)
  BY <1>1 DEF GiveUp, Set
<1>4. client.waiting /\ ran' = ran /\ client' = [client EXCEPT !.waiting = FALSE]
  BY DEF GiveUp
<1>5. client'.waiting = FALSE /\ client'.sent = client.sent /\ client'.history = client.history
  BY <1>2, <1>4 DEF Client
<1> HIDE DEF t
<1>6. /\ u.gone = TRUE /\ u.pc = t.pc /\ u.end = t.end /\ u.step = t.step
      /\ u.list = t.list /\ u.worker = t.worker
  BY <1>2 DEF Served
<1> HIDE DEF u
<1> QED
  BY <1>1, <1>3, <1>4, <1>5, <1>6 DEF t

LEMMA ShapeGiveUp == ASSUME IInv, ShapeInv, GiveUp PROVE ShapeInv'
<1>1. CASE client.sent \in Request
  <2> DEFINE t == request[client.sent]
  <2>1. PICK u : /\ Set(client.sent, u) /\ u.pc = t.pc /\ u.step = t.step
                 /\ u.list = t.list /\ u.worker = t.worker
    BY <1>1, GiveUpEffect
  <2>2. client'.history = client.history
    BY <1>1, GiveUpEffect
  <2>3. Shape(client.sent, t)
    BY <1>1 DEF ShapeInv
  <2> HIDE DEF t
  <2>4. Shape(client.sent, u)
    BY <2>1, <2>3 DEF Shape, OpenCalls
  <2> QED
    BY <1>1, <2>1, <2>2, <2>4, ShapeLemma
<1>2. CASE client.sent \notin Request
  <2>1. request' = request /\ client' = [client EXCEPT !.waiting = FALSE] /\ client \in Client
    BY <1>2 DEF IInv, TypeOK, GiveUp, Client
  <2>2. client'.history = client.history
    BY <2>1 DEF Client
  <2> QED
    BY <2>1, <2>2 DEF ShapeInv
<1> QED
  BY <1>1, <1>2

LEMMA NeatEmpty == Neat(<<>>)
BY NoCalls DEF Neat, Tidy, OneCaller, OneAnswer, Accounted, Following, Unasked

LEMMA ShapeInit == Init => ShapeInv
<1> SUFFICES ASSUME Init PROVE ShapeInv
  OBVIOUS
<1>1. \A q \in Request : request[q] = Unsent
  BY DEF Init
<1>2. client.history = <<>>
  BY DEF Init
<1>3. \A q : Shape(q, Unsent)
  BY UnsentLemma DEF Shape
<1> QED
  BY <1>1, <1>2, <1>3, NeatEmpty DEF ShapeInv

LEMMA ShapeNext == IInv /\ ShapeInv /\ [Next]_vars => ShapeInv'
<1> SUFFICES ASSUME IInv, ShapeInv, [Next]_vars PROVE ShapeInv'
  OBVIOUS
<1>1. CASE Submit
  BY <1>1, ShapeSubmit
<1>2. CASE GiveUp
  BY <1>2, ShapeGiveUp
<1>3. ASSUME NEW q \in Request, Serve(q) PROVE ShapeInv'
  BY <1>3, ShapeBegin, ShapeDecide, ShapeSend, ShapeStop, ShapeAnswer, ShapeRespond,
     ShapeCollect, ShapeEndTool DEF Serve
<1>4. CASE UNCHANGED vars
  BY <1>4 DEF vars, ShapeInv
<1> QED
  BY <1>1, <1>2, <1>3, <1>4 DEF Next

LEMMA Shaped == Spec => [](IInv /\ ShapeInv)
<1>1. Init => IInv /\ ShapeInv
  BY InitInv, ShapeInit
<1>2. IInv /\ ShapeInv /\ [Next]_vars => (IInv /\ ShapeInv)'
  BY NextInv, ShapeNext
<1> QED
  BY <1>1, <1>2, PTL DEF Spec

\* Whatever the client sends, decides or ignores, and whichever requests fail or are
\* given up, each call of the conversation that it has is answered once, or is pending
\* and has no answer (process_tool_decisions, call_stream).
THEOREM ConversationContinues == Spec => []ClientCanContinue
<1>1. IInv /\ ShapeInv => ClientCanContinue
  BY TidyContinues DEF IInv, ListOK, ShapeInv, Neat, ClientCanContinue
<1> QED
  BY <1>1, Shaped, PTL

\* What the LLM gets has one answer for each call, among the messages right after the
\* one that asked, unless calls are left pending: also where answers are inserted into
\* the middle of the list (process_tool_decisions).
THEOREM LLMGetsWellFormed == Spec => []SentWellFormed
<1>1. ASSUME IInv, ShapeInv, NEW q \in Request, request[q].pc = "llm"
      PROVE  Continues(request[q].list) /\ Ordered(request[q].list)
  <2>1. request[q].list \in Seq(Message) /\ Tidy(request[q].list, {})
    BY <1>1, StepLemma DEF ListOK, ShapeInv, Shape, Neat
  <2> QED
    BY <2>1, TidyContinues, TidyOrdered
<1>2. IInv /\ ShapeInv => SentWellFormed
  BY <1>1 DEF SentWellFormed
<1> QED
  BY <1>2, Shaped, PTL

\* Nothing is pending after an answer that remembers the prefix for the session, as
\* long as that answer is kept (extract_bash_session_prefixes).
THEOREM NotAskedAgain == Spec => []RememberedIsNotAsked
<1>1. IInv /\ ShapeInv => RememberedIsNotAsked
  BY DEF ShapeInv, Neat, Unasked, RememberedIsNotAsked
<1> QED
  BY <1>1, Shaped, PTL
-----------------------------------------------------------------------------
(* What a conversation says of its calls *)

\* The requests that have delivered their messages, and those that have or still may.
Gave == {q \in Request : Delivered(q)}
MayGive == {q \in Request : ~request[q].gone /\ request[q].end # "error"}

Running(q) == request[q].pc \notin {"none", "done"}

\* The client waits for the one request that runs and that it has not given up.
Alone ==
  /\ client.waiting => /\ client.sent \in Request /\ Running(client.sent)
                       /\ ~request[client.sent].gone
  /\ \A q \in Request :
       /\ Running(q) /\ ~request[q].gone => client.waiting /\ q = client.sent
       /\ request[q].pc = "done" <=> request[q].end # "none"
       /\ q <= client.sent => request[q].pc # "none"
       /\ request[q].pc \notin {"tools", "drain"} => request[q].worker = <<>>

\* A run is of a call that its request, or an earlier one, has made.
RunsDated ==
  \A e \in ran : \/ e.call[1][1] < e.by
                 \/ e.call[1][1] = e.by /\ e.call[1][2] <= Latest(request[e.by])

\* No call is run by two requests that may deliver.
Once(R, C) == \A e \in R : \A f \in R : e.call = f.call /\ e.by \in C /\ f.by \in C => e.by = f.by

\* No call of s is pending that one of C has run.
NonePending(s, R, C) == \A e \in R : e.by \in C => e.call \notin PendingIds(s)

\* A result in s is that of a run; a call with another answer was not run by any of C.
ResultsRan(s, R) ==
  \A j \in DOMAIN s : s[j].role = "tool" /\ s[j].outcome = "result" =>
    \E e \in R : e.call = <<s[j].turn, s[j].place>>
OthersNot(s, R, C) ==
  \A j \in DOMAIN s : s[j].role = "tool" /\ s[j].outcome # "result" =>
    \A e \in R : e.call = <<s[j].turn, s[j].place>> => e.by \notin C

\* The same of a request that has this history, and of its batch.
Serving == {"sent", "decide", "step", "llm", "tools"}
True(q, t, R, C, H) ==
  /\ t.pc \in Serving => ResultsRan(t.list, R)
  /\ t.pc = "tools" =>
       \A k \in DOMAIN t.worker : t.worker[k].state = "result" =>
         \E e \in R : e.call = <<<<q, t.step>>, k>>
  /\ t.pc \in Serving /\ ~t.gone =>
       /\ PendingIds(t.list) \subseteq PendingIds(H)
       /\ OthersNot(t.list, R, C)
       /\ NonePending(t.list, R, {q})
       /\ t.pc = "tools" =>
            \A e \in R : \A k \in DOMAIN t.worker :
              e.by = q /\ e.call = <<<<q, t.step>>, k>> => t.worker[k].state \in {"result", "taken"}

TruthInv ==
  /\ Alone /\ RunsDated
  /\ Once(ran, MayGive)
  /\ \A q \in Request : True(q, request[q], ran, MayGive, client.history)
  /\ NonePending(client.history, ran, Gave)
  /\ ResultsRan(client.history, ran) /\ OthersNot(client.history, ran, Gave)
-----------------------------------------------------------------------------
\* A message without calls that is no answer.
LEMMA TruePlain ==
  ASSUME NEW s \in Seq(Message), NEW m, m \in Message, m.pending = {}
  PROVE  /\ PendingIds(Append(s, m)) = PendingIds(s)
         /\ \A R : ResultsRan(s, R)
              /\ (m.role = "tool" /\ m.outcome = "result" => \E e \in R : e.call = <<m.turn, m.place>>)
              => ResultsRan(Append(s, m), R)
         /\ \A R, C : OthersNot(s, R, C)
              /\ (m.role = "tool" /\ m.outcome # "result" =>
                    \A e \in R : e.call = <<m.turn, m.place>> => e.by \notin C)
              => OthersNot(Append(s, m), R, C)
<1> DEFINE d == Append(s, m)
           n == Len(s) + 1
<1>1. /\ DOMAIN d = DOMAIN s \union {n} /\ n \notin DOMAIN s /\ d[n] = m
      /\ \A i \in DOMAIN s : d[i] = s[i]
  OBVIOUS
<1> HIDE DEF d, n
<1>2. Pending(d) = Pending(s) /\ \A p \in Pending(s) : IdOf(d, p) = IdOf(s, p)
  BY <1>1 DEF Pending, IdOf
<1>3. PendingIds(d) = PendingIds(s)
  BY <1>2 DEF PendingIds
<1>4. ASSUME NEW R, ResultsRan(s, R),
             m.role = "tool" /\ m.outcome = "result" => \E e \in R : e.call = <<m.turn, m.place>>
      PROVE  ResultsRan(d, R)
  BY <1>1, <1>4 DEF ResultsRan
<1>5. ASSUME NEW R, NEW C, OthersNot(s, R, C),
             m.role = "tool" /\ m.outcome # "result" =>
               \A e \in R : e.call = <<m.turn, m.place>> => e.by \notin C
      PROVE  OthersNot(d, R, C)
  BY <1>1, <1>5 DEF OthersNot
<1> QED
  BY <1>3, <1>4, <1>5 DEF d

\* What is pending in a list, said of messages.
LEMMA PendingIdsLemma ==
  ASSUME NEW s \in Seq(Message), NEW c
  PROVE  c \in PendingIds(s)
           <=> \E i \in DOMAIN s : \E k \in s[i].pending : c = <<s[i].turn, k>>
<1>1. ASSUME NEW i \in DOMAIN s, NEW k \in s[i].pending
      PROVE  <<s[i].turn, k>> \in PendingIds(s)
  <2>1. s[i] \in Message
    OBVIOUS
  <2>2. k \in Place
    BY <2>1 DEF Message
  <2>3. <<i, k>> \in Pending(s) /\ IdOf(s, <<i, k>>) = <<s[i].turn, k>>
    BY <2>2 DEF Pending, IdOf
  <2> QED
    BY <2>3 DEF PendingIds
<1>2. ASSUME NEW p \in Pending(s)
      PROVE  \E i \in DOMAIN s : \E k \in s[i].pending : IdOf(s, p) = <<s[i].turn, k>>
  BY DEF Pending, IdOf
<1> QED
  BY <1>1, <1>2 DEF PendingIds

\* Deciding call c.
LEMMA TrueDecided ==
  ASSUME NEW s \in Seq(Message), Tidy(s, {}), \A i \in DOMAIN s : Fits(s[i]),
         NEW p \in Pending(s), NEW m, NEW o, AnswerTo(m, IdOf(s, p), o)
  PROVE  LET c == IdOf(s, p)
             d == Decided(s, p, m)
         IN /\ PendingIds(d) \subseteq PendingIds(s) \ {c}
            /\ c \in PendingIds(s)
            /\ \A R : ResultsRan(s, R) /\ (o = "result" => \E e \in R : e.call = c) => ResultsRan(d, R)
            /\ \A R, C : OthersNot(s, R, C) /\ (o # "result" => \A e \in R : e.call = c => e.by \notin C)
                 => OthersNot(d, R, C)
            /\ \A R, C : \A e : OthersNot(s, R, C) /\ e.call = c => OthersNot(s, R \union {e}, C)
<1> DEFINE c == IdOf(s, p)
           d == Decided(s, p, m)
           h == p[1]
           k == p[2]
<1>1. m \in Message /\ m.role = "tool" /\ m.pending = {} /\ m.turn = c[1] /\ m.place = c[2] /\ m.outcome = o
  BY DEF AnswerTo
<1>2. m \in Message
  BY <1>1
<1>21. d \in Seq(Message)
  BY <1>2, DecidedInserts
<1>22. \A i \in DOMAIN d :
           \/ d[i] = m
           \/ \E j \in DOMAIN s : /\ Like(d[i], s[j]) /\ d[i].pending \subseteq s[j].pending
                                  /\ j = h => k \notin d[i].pending
  BY <1>2, DecidedLemma
<1>3. h \in DOMAIN s /\ k \in s[h].pending /\ c = <<s[h].turn, k>> /\ c[1] = s[h].turn /\ c[2] = k
  BY DEF Pending, IdOf
<1>4. k \in DOMAIN s[h].calls
  BY <1>3 DEF Fits
<1>5. s[h].calls # <<>>
  BY <1>4, NoCalls
<1> HIDE DEF c, d, h, k
<1>6. c \in PendingIds(s)
  BY <1>3, PendingIdsLemma
<1>7. ASSUME NEW x \in PendingIds(d) PROVE x \in PendingIds(s) /\ x # c
  <2>1. PICK i \in DOMAIN d : \E a \in d[i].pending : x = <<d[i].turn, a>>
    BY <1>21, PendingIdsLemma
  <2>2. PICK a \in d[i].pending : x = <<d[i].turn, a>>
    BY <2>1
  <2>3. PICK j \in DOMAIN s : /\ Like(d[i], s[j]) /\ d[i].pending \subseteq s[j].pending
                              /\ j = h => k \notin d[i].pending
    BY <1>1, <1>22
  <2>4. x = <<s[j].turn, a>> /\ a \in s[j].pending
    BY <2>2, <2>3 DEF Like
  <2>5. x # c
    <3> SUFFICES ASSUME x = c PROVE FALSE
      OBVIOUS
    <3>1. s[j].turn = s[h].turn /\ a = k
      BY <1>3, <2>4
    <3>2. k \in DOMAIN s[j].calls
      BY <2>4, <3>1 DEF Fits
    <3>3. s[j].calls # <<>>
      BY <3>2, NoCalls
    <3>4. j = h
      BY <1>3, <1>5, <3>1, <3>3 DEF Tidy, OneCaller
    <3> QED
      BY <2>2, <2>3, <3>1, <3>4
  <2> QED
    BY <2>4, <2>5, PendingIdsLemma
<1>8. ASSUME NEW R, ResultsRan(s, R), o = "result" => \E e \in R : e.call = c
      PROVE  ResultsRan(d, R)
  <2> SUFFICES ASSUME NEW i \in DOMAIN d, d[i].role = "tool", d[i].outcome = "result"
               PROVE  \E e \in R : e.call = <<d[i].turn, d[i].place>>
    BY DEF ResultsRan
  <2>1. CASE d[i] = m
    BY <1>1, <1>3, <1>8, <2>1
  <2>2. CASE \E j \in DOMAIN s : Like(d[i], s[j])
    BY <1>8, <2>2 DEF ResultsRan, Like
  <2> QED
    BY <1>22, <2>1, <2>2
<1>9. ASSUME NEW R, NEW C, OthersNot(s, R, C), o # "result" => \A e \in R : e.call = c => e.by \notin C
      PROVE  OthersNot(d, R, C)
  <2> SUFFICES ASSUME NEW i \in DOMAIN d, d[i].role = "tool", d[i].outcome # "result",
                      NEW e \in R, e.call = <<d[i].turn, d[i].place>>
               PROVE  e.by \notin C
    BY DEF OthersNot
  <2>1. CASE d[i] = m
    BY <1>1, <1>3, <1>9, <2>1
  <2>2. CASE \E j \in DOMAIN s : Like(d[i], s[j])
    BY <1>9, <2>2 DEF OthersNot, Like
  <2> QED
    BY <1>22, <2>1, <2>2
<1>10. ASSUME NEW R, NEW C, NEW e, OthersNot(s, R, C), e.call = c
       PROVE  OthersNot(s, R \union {e}, C)
  <2>1. \A j \in DOMAIN s : ~IsAnswer(s[j], s[h].turn, k)
    BY <1>3, <1>4 DEF Tidy, Accounted
  <2>2. \A j \in DOMAIN s : s[j].role = "tool" => c # <<s[j].turn, s[j].place>>
    BY <1>3, <2>1 DEF IsAnswer
  <2> QED
    BY <1>10, <2>2 DEF OthersNot
<1> QED
  BY <1>6, <1>7, <1>8, <1>9, <1>10 DEF c, d

\* Who ran a call: the request that the client waits for, or one that has delivered.
LEMMA CountedLemma ==
  ASSUME IInv, TruthInv, NEW q \in Request, Running(q), ~request[q].gone,
         NEW e \in ran, e.by \in MayGive, e.by # q
  PROVE  e.by \in Gave
<1>1. e.by \in Request /\ e.by <= client.sent /\ request[e.by] \in Served
  BY DEF MayGive, IInv, TypeOK, Numbered
<1>2. request[e.by].pc # "none" /\ q = client.sent /\ (Running(e.by) => e.by = client.sent)
  BY <1>1 DEF TruthInv, Alone, MayGive
<1>3. request[e.by].pc = "done"
  BY <1>2 DEF Running
<1>4. request[e.by].end # "none"
  BY <1>1, <1>3 DEF TruthInv, Alone
<1> QED
  BY <1>1, <1>4 DEF MayGive, Gave, Delivered, Served

\* A call that is pending in the list of the request that the client waits for was not
\* run by a request that counts.
LEMMA PendingNotRun ==
  ASSUME IInv, TruthInv, NEW q \in Request, request[q].pc \in Serving, ~request[q].gone,
         NEW e \in ran, e.by \in MayGive
  PROVE  e.call \notin PendingIds(request[q].list)
<1>1. Running(q)
  BY DEF Serving, Running
<1>2. CASE e.by = q
  BY <1>2 DEF TruthInv, True, NonePending
<1>3. CASE e.by # q
  <2>1. e.by \in Gave
    BY <1>1, <1>3, CountedLemma
  <2> QED
    BY <2>1 DEF TruthInv, True, NonePending
<1> QED
  BY <1>2, <1>3

\* A call of the batch was run by no other request that counts.
LEMMA OwnBatch ==
  ASSUME IInv, TruthInv, NEW q \in Request, Running(q), ~request[q].gone,
         NEW k, NEW n, NEW e \in ran, e.call = <<<<q, n>>, k>>
  PROVE  e.by = q
<1>1. q = client.sent /\ e.by <= client.sent /\ q \in Nat /\ e.by \in Nat
  BY TypesLemma DEF TruthInv, Alone, IInv, Numbered, Runs, Request
<1>2. q < e.by \/ q = e.by
  BY DEF TruthInv, RunsDated
<1> QED
  BY <1>1, <1>2

\* The step of its list, seen from the parts that a step of a request leaves alone.
Later(u, q) == Latest(request[q]) <= Latest(u)

\* What may be added to ran by a step of request q.
Adds(q, u) ==
  \/ ran' = ran
  \/ \E r \in Runs :
       /\ ran' = ran \union {r} /\ r.by = q
       /\ r.call[1][1] < q \/ (r.call[1][1] = q /\ r.call[1][2] <= Latest(u))

\* Runs keep their date.
LEMMA DatedLemma ==
  ASSUME IInv, RunsDated, NEW q \in Request, NEW u \in Served, Set(q, u), Later(u, q), Adds(q, u)
  PROVE  RunsDated'
<1>1. request' = [request EXCEPT ![q] = u] /\ request \in [Request -> Served] /\ ran \subseteq Runs
      /\ q \in Nat
  BY TypesLemma DEF Set, IInv, TypeOK
<1>2. ASSUME NEW e \in ran
      PROVE  \/ e.call[1][1] < e.by
             \/ e.call[1][1] = e.by /\ e.call[1][2] <= Latest(request'[e.by])
  <2>1. e.by \in Request /\ e.call[1][2] \in Int
    <3>1. e \in Runs
      BY <1>1
    <3>2. e.by \in Request /\ e.call \in CallId
      BY <3>1 DEF Runs
    <3>3. MaxSteps \in Nat
      BY LimitsAssumption
    <3> QED
      BY <3>2, <3>3 DEF CallId, Turn
  <2>2. CASE e.by = q
    <3>1. Latest(request[q]) \in Int /\ Latest(u) \in Int
      <4>1. request[q].step \in Int /\ u.step \in Int
        BY <1>1, LimitsAssumption DEF Served
      <4> QED
        BY <4>1 DEF Latest
    <3> QED
      BY <1>1, <2>1, <2>2, <3>1 DEF RunsDated, Later
  <2>3. CASE e.by # q
    BY <1>1, <2>1, <2>3 DEF RunsDated
  <2> QED
    BY <2>2, <2>3
<1>3. CASE ran' = ran
  BY <1>2, <1>3 DEF RunsDated, Latest
<1>4. ASSUME NEW r \in Runs, ran' = ran \union {r}, r.by = q,
             r.call[1][1] < q \/ (r.call[1][1] = q /\ r.call[1][2] <= Latest(u))
      PROVE  RunsDated'
  BY <1>1, <1>2, <1>4 DEF RunsDated, Latest
<1> QED
  BY <1>3, <1>4 DEF Adds

\* More runs confirm what fewer confirmed.
LEMMA ResultsGrow ==
  ASSUME NEW s, NEW R, NEW X, ResultsRan(s, R) PROVE ResultsRan(s, R \union X)
BY DEF ResultsRan

\* Fewer requests that count have done less.
LEMMA CountersShrink ==
  ASSUME NEW s, NEW R, NEW C, NEW B, B \subseteq C
  PROVE  /\ OthersNot(s, R, C) => OthersNot(s, R, B)
         /\ NonePending(s, R, C) => NonePending(s, R, B)
         /\ Once(R, C) => Once(R, B)
BY DEF OthersNot, NonePending, Once

\* A run by a request that does not count changes nothing of this.
LEMMA OneMoreRun ==
  ASSUME NEW s, NEW R, NEW C, NEW r, r.by \notin C
  PROVE  /\ OthersNot(s, R, C) => OthersNot(s, R \union {r}, C)
         /\ NonePending(s, R, C) => NonePending(s, R \union {r}, C)
         /\ Once(R, C) => Once(R \union {r}, C)
BY DEF OthersNot, NonePending, Once

\* Another request's part: it is given up, or the request at work is.
LEMMA TrueOther ==
  ASSUME NEW p, NEW t, NEW R, NEW C, NEW H, True(p, t, R, C, H),
         NEW B, B \subseteq C, NEW r, r.by # p,
         t.gone \/ r.by \notin B
  PROVE  True(p, t, R, B, H) /\ True(p, t, R \union {r}, B, H)
<1>1. t.pc \in Serving => ResultsRan(t.list, R) /\ ResultsRan(t.list, R \union {r})
  BY ResultsGrow DEF True
<1>2. t.pc = "tools" =>
        \A k \in DOMAIN t.worker : t.worker[k].state = "result" =>
          \E e \in R : e.call = <<<<p, t.step>>, k>>
  BY DEF True
<1>3. ASSUME t.pc \in Serving, ~t.gone
      PROVE  /\ PendingIds(t.list) \subseteq PendingIds(H)
             /\ OthersNot(t.list, R, B) /\ OthersNot(t.list, R \union {r}, B)
             /\ NonePending(t.list, R, {p}) /\ NonePending(t.list, R \union {r}, {p})
  <2>1. PendingIds(t.list) \subseteq PendingIds(H) /\ OthersNot(t.list, R, C) /\ NonePending(t.list, R, {p})
    BY <1>3 DEF True
  <2>2. OthersNot(t.list, R, B)
    BY <2>1, CountersShrink
  <2>3. OthersNot(t.list, R \union {r}, B)
    BY <1>3, <2>2, OneMoreRun
  <2>4. NonePending(t.list, R \union {r}, {p})
    BY <2>1, OneMoreRun
  <2> QED
    BY <2>1, <2>2, <2>3, <2>4
<1>4. ASSUME t.pc = "tools", ~t.gone
      PROVE  \A e \in R \union {r} : \A k \in DOMAIN t.worker :
               e.by = p /\ e.call = <<<<p, t.step>>, k>> => t.worker[k].state \in {"result", "taken"}
  BY <1>4 DEF True, Serving
<1> QED
  BY <1>1, <1>2, <1>3, <1>4 DEF True
-----------------------------------------------------------------------------
\* A step of request q that does not end it.
LEMMA TruthLemma ==
  ASSUME IInv, TruthInv, NEW q \in Request, Running(q), NEW u \in Served, Set(q, u),
         client' = client, u.pc \notin {"none", "done"},
         u.gone = request[q].gone, u.end = request[q].end,
         u.pc \notin {"tools", "drain"} => u.worker = <<>>,
         Later(u, q), Adds(q, u),
         ~u.gone => \A e \in ran : \A r \in ran' : r \notin ran /\ e.call = r.call /\ e.by # q => e.by \notin MayGive,
         True(q, u, ran', MayGive, client.history)
  PROVE  TruthInv'
<1>1. request' = [request EXCEPT ![q] = u] /\ request \in [Request -> Served] /\ ran \subseteq Runs
  BY TypesLemma DEF Set, IInv, TypeOK
<1>2. request'[q] = u /\ \A p \in Request : p # q => request'[p] = request[p]
  BY <1>1
<1>3. request[q].end = "none" /\ request[q].pc \notin {"none", "done"}
  BY DEF TruthInv, Alone, Running
<1>4. MayGive' = MayGive /\ Gave' = Gave
  <2>1. \A p \in Request : request'[p].gone = request[p].gone /\ request'[p].end = request[p].end
    BY <1>2
  <2> QED
    BY <2>1 DEF MayGive, Gave, Delivered
<1>5. q \notin Gave /\ (u.gone => q \notin MayGive)
  BY <1>3 DEF Gave, Delivered, MayGive
<1>6. Alone'
  <2>1. Alone
    BY DEF TruthInv
  <2>2. \A p \in Request : (Running(p) <=> request'[p].pc \notin {"none", "done"})
    BY <1>2, <1>3 DEF Running
  <2> QED
    BY <1>2, <1>3, <2>1, <2>2 DEF Alone, Running
<1>7. RunsDated'
  BY DatedLemma DEF TruthInv
<1>8. PICK r : r.by = q /\ (ran' = ran \/ ran' = ran \union {r})
      /\ (~u.gone => \A e \in ran : e.call = r.call /\ e.by # q /\ ran' # ran => e.by \notin MayGive)
  <2>1. CASE ran' = ran
    <3>1. [by |-> q].by = q
      OBVIOUS
    <3> QED
      BY <2>1, <3>1
  <2>2. CASE ran' # ran
    <3>1. PICK r \in Runs : ran' = ran \union {r} /\ r.by = q
      BY <2>2 DEF Adds
    <3>2. r \in ran' /\ r \notin ran
      BY <2>2, <3>1
    <3> QED
      BY <3>1, <3>2
  <2> QED
    BY <2>1, <2>2
<1>9. Once(ran', MayGive)
  <2>1. Once(ran, MayGive)
    BY DEF TruthInv
  <2>2. CASE u.gone
    BY <1>5, <1>8, <2>1, <2>2, OneMoreRun
  <2>3. CASE ~u.gone
    BY <1>8, <2>1, <2>3 DEF Once
  <2> QED
    BY <2>2, <2>3
<1>10. ASSUME NEW p \in Request PROVE True(p, request[p]', ran', MayGive, client.history)
  <2>1. CASE p = q
    BY <1>2, <2>1
  <2>2. CASE p # q
    <3>1. True(p, request[p], ran, MayGive, client.history)
      BY DEF TruthInv
    <3>2. request[p].pc \in Serving /\ ~request[p].gone => u.gone
      BY <1>3, <2>2 DEF TruthInv, Alone, Running, Serving
    <3>3. request[p].pc \notin Serving => True(p, request[p], ran', MayGive, client.history)
      BY DEF True, Serving
    <3>4. CASE request[p].gone \/ r.by \notin MayGive
      BY <1>2, <1>8, <2>2, <3>1, <3>4, TrueOther
    <3> QED
      BY <1>2, <1>5, <1>8, <2>2, <3>2, <3>3, <3>4
  <2> QED
    BY <2>1, <2>2
<1>11. /\ NonePending(client.history, ran', Gave)
       /\ ResultsRan(client.history, ran') /\ OthersNot(client.history, ran', Gave)
  <2>1. /\ NonePending(client.history, ran, Gave)
        /\ ResultsRan(client.history, ran) /\ OthersNot(client.history, ran, Gave)
    BY DEF TruthInv
  <2>2. r.by \notin Gave
    BY <1>5, <1>8
  <2>3. ran' = ran \/ ran' = ran \union {r}
    BY <1>8
  <2> HIDE DEF Gave
  <2>4. ResultsRan(client.history, ran')
    BY ONLY <2>1, <2>3, ResultsGrow
  <2>5. NonePending(client.history, ran', Gave) /\ OthersNot(client.history, ran', Gave)
    BY ONLY <2>1, <2>2, <2>3, OneMoreRun
  <2> QED
    BY <2>4, <2>5
<1> QED
  BY <1>4, <1>6, <1>7, <1>9, <1>10, <1>11 DEF TruthInv

\* The end of request q: it fails, or it delivers s unless the client has given up.
LEMMA TruthEnd ==
  ASSUME IInv, TruthInv, NEW q \in Request, Running(q), NEW t, NEW u, NEW s,
         t.gone = request[q].gone, t.step = request[q].step, u \in Served,
         NEW how \in {"answer", "approval", "error"}, Ends(q, t, how, s, u),
         Later(u, q), Adds(q, u), how # "error" => ran' = ran,
         how # "error" /\ ~t.gone =>
           /\ ResultsRan(s, ran) /\ OthersNot(s, ran, MayGive) /\ NonePending(s, ran, MayGive)
  PROVE  TruthInv'
<1>1. request' = [request EXCEPT ![q] = u] /\ request \in [Request -> Served] /\ ran \subseteq Runs
  BY TypesLemma DEF Ends, Set, IInv, TypeOK
<1>2. request'[q] = u /\ \A p \in Request : p # q => request'[p] = request[p]
  BY <1>1
<1>3. request[q].end = "none" /\ request[q].pc \notin {"none", "done"}
  BY DEF TruthInv, Alone, Running
<1>4. u.pc = "done" /\ u.end = how /\ u.gone = request[q].gone /\ u.worker = <<>>
  BY DEF Ends
<1>5. /\ MayGive' \subseteq MayGive
      /\ how = "error" => q \notin MayGive'
      /\ u.gone => q \notin MayGive'
  BY <1>2, <1>3, <1>4 DEF MayGive
<1>6. /\ how = "error" \/ u.gone => Gave' = Gave
      /\ q \notin Gave
      /\ Gave' \subseteq MayGive'
  <2>1. \A p \in Request : p # q => request'[p].gone = request[p].gone /\ request'[p].end = request[p].end
    BY <1>2
  <2>2. q \notin Gave
    BY <1>3 DEF Gave, Delivered
  <2>3. ASSUME how = "error" \/ u.gone PROVE Gave' = Gave
    <3>1. q \notin Gave'
      BY <1>2, <1>4, <2>3 DEF Gave, Delivered
    <3> QED
      BY <2>1, <2>2, <3>1 DEF Gave, Delivered
  <2> QED
    BY <2>2, <2>3 DEF Gave, MayGive, Delivered
<1>7. Alone'
  <2>1. Alone
    BY DEF TruthInv
  <2>2. \A p \in Request : p # q => (Running(p) <=> request'[p].pc \notin {"none", "done"})
    BY <1>2 DEF Running
  <2>3. client'.sent = client.sent /\ (u.gone => client' = client) /\ (~u.gone => client'.waiting = FALSE)
    BY <1>4 DEF Ends
  <2> QED
    BY <1>2, <1>3, <1>4, <2>1, <2>2, <2>3 DEF Alone, Running
<1>8. RunsDated'
  <2>1. Set(q, u)
    BY DEF Ends
  <2> QED
    BY <2>1, DatedLemma DEF TruthInv
<1>9. PICK r : r.by = q /\ (ran' = ran \/ ran' = ran \union {r}) /\ (how # "error" => ran' = ran)
  <2>1. CASE ran' = ran
    <3>1. [by |-> q].by = q
      OBVIOUS
    <3> QED
      BY <2>1, <3>1
  <2>2. CASE ran' # ran
    <3>1. PICK r \in Runs : ran' = ran \union {r} /\ r.by = q
      BY <2>2 DEF Adds
    <3> QED
      BY <2>2, <3>1
  <2> QED
    BY <2>1, <2>2
<1>10. Once(ran', MayGive')
  <2>1. Once(ran, MayGive')
    BY <1>5, CountersShrink DEF TruthInv
  <2> QED
    BY <1>5, <1>9, <2>1, OneMoreRun
<1>11. u.gone => client' = client
  BY <1>4 DEF Ends
<1>12. ASSUME NEW p \in Request PROVE True(p, request[p]', ran', MayGive', client'.history)
  <2>1. CASE p = q
    BY <1>2, <1>4, <2>1 DEF True, Serving
  <2>2. CASE p # q
    <3>1. True(p, request[p], ran, MayGive, client.history)
      BY DEF TruthInv
    <3>2. request[p].pc \in Serving /\ ~request[p].gone => u.gone
      BY <1>3, <1>4, <2>2 DEF TruthInv, Alone, Running, Serving
    <3>3. request[p].pc \notin Serving => True(p, request[p], ran', MayGive', client'.history)
      BY DEF True, Serving
    <3>4. ASSUME request[p].gone \/ u.gone
          PROVE  True(p, request[p], ran', MayGive', client.history)
      <4>1. request[p].gone \/ r.by \notin MayGive'
        BY <1>5, <1>9, <3>4
      <4>2. r.by # p /\ MayGive' \subseteq MayGive /\ (ran' = ran \/ ran' = ran \union {r})
        BY <1>5, <1>9, <2>2
      <4>3. PICK B, X : B = MayGive' /\ X = request[p]
        OBVIOUS
      <4>4. X.gone \/ r.by \notin B
        BY <4>1, <4>3
      <4>5. True(p, X, ran, MayGive, client.history)
        BY <3>1, <4>3
      <4>6. True(p, X, ran, B, client.history) /\ True(p, X, ran \union {r}, B, client.history)
        BY <4>2, <4>3, <4>4, <4>5, TrueOther
      <4> QED
        BY <4>2, <4>3, <4>6
    <3>5. ASSUME request[p].gone PROVE True(p, request[p], ran', MayGive', client'.history)
      BY <3>4, <3>5 DEF True
    <3>6. True(p, request[p], ran', MayGive', client'.history)
      BY <1>11, <3>2, <3>3, <3>4, <3>5
    <3> QED
      BY <1>2, <2>2, <3>6
  <2> QED
    BY <2>1, <2>2
<1>13. /\ NonePending(client'.history, ran', Gave')
       /\ ResultsRan(client'.history, ran') /\ OthersNot(client'.history, ran', Gave')
  <2>1. /\ NonePending(client.history, ran, Gave)
        /\ ResultsRan(client.history, ran) /\ OthersNot(client.history, ran, Gave)
    BY DEF TruthInv
  <2>2. CASE how = "error" \/ u.gone
    <3>1. client'.history = client.history /\ Gave' = Gave /\ r.by \notin Gave
      BY <1>4, <1>6, <1>9, <2>2 DEF Ends
    <3>2. ran' = ran \/ ran' = ran \union {r}
      BY <1>9
    <3> HIDE DEF Gave
    <3>3. ResultsRan(client.history, ran')
      BY ONLY <2>1, <3>2, ResultsGrow
    <3>4. NonePending(client.history, ran', Gave) /\ OthersNot(client.history, ran', Gave)
      BY ONLY <2>1, <3>1, <3>2, OneMoreRun
    <3> QED
      BY <3>1, <3>3, <3>4
  <2>3. CASE how # "error" /\ ~u.gone
    <3>1. client'.history = s /\ ran' = ran
      BY <1>4, <2>3 DEF Ends
    <3>2. ResultsRan(s, ran) /\ OthersNot(s, ran, MayGive) /\ NonePending(s, ran, MayGive)
      BY <1>4, <2>3 DEF Ends
    <3>3. Gave' \subseteq MayGive
      BY <1>5, <1>6
    <3>4. OthersNot(s, ran, Gave') /\ NonePending(s, ran, Gave')
      BY <3>2, <3>3, CountersShrink
    <3> QED
      BY <3>1, <3>2, <3>4
  <2> QED
    BY <2>2, <2>3
<1> QED
  BY <1>7, <1>8, <1>10, <1>12, <1>13 DEF TruthInv

\* What holds of the request that acts.
LEMMA AtWork ==
  ASSUME IInv, TruthInv, NEW q \in Request, Running(q)
  PROVE  /\ request[q] \in Served /\ request[q].end = "none" /\ request[q].step \in 0..MaxSteps
         /\ request[q].list \in Seq(Message) /\ ListOK(request[q].list, q, Latest(request[q]))
         /\ q \in Nat /\ MaxSteps \in Nat
         /\ Latest(request[q]) <= request[q].step
         /\ True(q, request[q], ran, MayGive, client.history)
<1>1. request[q] \in Served /\ ServedOK(q, request[q]) /\ request[q].step \in 0..MaxSteps
      /\ q \in Nat /\ MaxSteps \in Nat
  BY TypesLemma, StepLemma
<1>2. request[q].end = "none"
  BY <1>1 DEF TruthInv, Alone, Running, Served
<1>3. Latest(request[q]) <= request[q].step
  BY <1>1 DEF Latest
<1> QED
  BY <1>1, <1>2, <1>3 DEF TruthInv, ServedOK, ListOK

\* A request is served after its step.
LEMMA TypeNext ==
  ASSUME TypeOK', NEW q \in Request, NEW u, Set(q, u), request \in [Request -> Served]
  PROVE  u \in Served
<1>1. request'[q] = u
  BY DEF Set
<1> QED
  BY <1>1 DEF TypeOK

\* It ends in an error, and may have run a last call.
LEMMA TruthError ==
  ASSUME IInv, TruthInv, TypeOK', NEW q \in Request, Running(q),
         End(q, request[q], "error", request[q].list),
         \/ ran' = ran
         \/ \E r \in Runs :
              /\ ran' = ran \union {r} /\ r.by = q
              /\ r.call[1][1] < q \/ (r.call[1][1] = q /\ r.call[1][2] <= request[q].step)
  PROVE  TruthInv'
<1> DEFINE t == request[q]
<1>1. t \in Served /\ t.list \in Seq(Message) /\ Latest(t) <= t.step
  BY AtWork
<1>2. PICK u : Ends(q, t, "error", t.list, u)
  BY <1>1, EndEffect
<1>3. Latest(u) = t.step
  BY <1>2 DEF Ends, Latest
<1>4. Later(u, q) /\ Adds(q, u)
  BY <1>1, <1>3 DEF Later, Adds
<1>5. u \in Served
  BY <1>2, TypeNext DEF Ends, IInv, TypeOK
<1> QED
  BY <1>2, <1>4, <1>5, TruthEnd

LEMMA TruthMove ==
  ASSUME IInv, TruthInv, TypeOK', NEW q \in Request, NEW pc,
         Set(q, [request[q] EXCEPT !.pc = pc]), client' = client, ran' = ran,
         \/ pc \in {"decide", "step"} /\ request[q].pc = "sent"
         \/ pc = "drain" /\ request[q].pc = "tools"
  PROVE  TruthInv'
<1> DEFINE t == request[q]
           u == [t EXCEPT !.pc = pc]
<1>1. Running(q)
  BY DEF Running
<1>2. /\ t \in Served /\ True(q, t, ran, MayGive, client.history)
      /\ (t.pc \notin {"tools", "drain"} => t.worker = <<>>)
  BY <1>1, AtWork DEF TruthInv, Alone
<1>3. Set(q, u) /\ t.step \in Int
  BY <1>1, AtWork
<1>4. u \in Served
  BY <1>3, TypeNext DEF IInv, TypeOK
<1> HIDE DEF t
<1>5. u.pc = pc /\ u.list = t.list /\ u.worker = t.worker /\ u.gone = t.gone /\ u.end = t.end
      /\ u.step = t.step
  BY <1>2 DEF Served
<1> HIDE DEF u
<1>6. Later(u, q) /\ Adds(q, u) /\ t.pc \in {"sent", "tools"}
  BY <1>3, <1>5 DEF Later, Latest, Adds, t
<1>7. True(q, u, ran, MayGive, client.history)
  <2>1. CASE pc = "drain"
    BY <1>5, <2>1 DEF True, Serving
  <2>2. CASE pc \in {"decide", "step"}
    BY <1>2, <1>5, <1>6, <2>2 DEF True, Serving
  <2> QED
    BY <2>1, <2>2
<1>8. u.gone = request[q].gone /\ u.end = request[q].end
  BY <1>5 DEF t
<1>9. u.pc \notin {"none", "done"} /\ (u.pc \notin {"tools", "drain"} => u.worker = <<>>)
  BY <1>2, <1>5 DEF t
<1> QED
  BY <1>1, <1>3, <1>4, <1>6, <1>7, <1>8, <1>9, TruthLemma

LEMMA TruthBegin == ASSUME IInv, TruthInv, TypeOK', NEW q \in Request, Begin(q) PROVE TruthInv'
<1>1. request[q].pc = "sent" /\ ran' = ran
  BY DEF Begin
<1>2. Running(q)
  BY <1>1 DEF Running
<1>3. CASE End(q, request[q], "error", request[q].list)
  BY <1>1, <1>2, <1>3, TruthError
<1>4. CASE Set(q, [request[q] EXCEPT !.pc = IF request[q].decides THEN "decide" ELSE "step"])
            /\ UNCHANGED <<client, budget>>
  <2>1. PICK pc \in {"decide", "step"} : Set(q, [request[q] EXCEPT !.pc = pc])
    BY <1>4
  <2> QED
    BY <1>1, <1>4, <2>1, TruthMove
<1> QED
  BY <1>3, <1>4 DEF Begin

LEMMA TruthStop ==
  ASSUME IInv, TruthInv, TypeOK', NEW q \in Request,
         TooManyCalls(q) \/ Fail(q) \/ Close(q) \/ Drained(q)
  PROVE  TruthInv'
<1>1. ran' = ran /\ Running(q)
  BY DEF TooManyCalls, Fail, Close, Drained, Running
<1>2. CASE End(q, request[q], "error", request[q].list)
  BY <1>1, <1>2, TruthError
<1>3. CASE request[q].pc = "tools" /\ Set(q, [request[q] EXCEPT !.pc = "drain"]) /\ UNCHANGED client
  BY <1>1, <1>3, TruthMove
<1> QED
  BY <1>2, <1>3 DEF TooManyCalls, Fail, Close, Drained

LEMMA TruthDecide ==
  ASSUME IInv, ShapeInv, TruthInv, TypeOK', NEW q \in Request, Decide(q) PROVE TruthInv'
<1> DEFINE t == request[q]
<1>1. PICK p \in FirstPending(t.list) :
           LET c == IdOf(t.list, p)
           IN
           /\ t.pc = "decide" /\ p \in Pending(t.list) /\ c \in CallId
           /\ \/ /\ End(q, t, "error", t.list)
                 /\ \E run \in Runs : run.call = c /\ run.by = q /\ ran' = ran \union {run}
              \/ \E u, m : \E o \in {"result", "denied"} :
                   /\ u \in Served /\ Set(q, u) /\ u.pc \in {"step", "decide"} /\ Keeps(u, t)
                   /\ u.list = Decided(t.list, p, m) /\ AnswerTo(m, c, o)
                   /\ u.worker = t.worker /\ client' = client
                   /\ o = "denied" => ran' = ran
                   /\ o = "result" =>
                        \E run \in Runs : run.call = c /\ run.by = q /\ ran' = ran \union {run}
  BY DecideEffect
<1> DEFINE c == IdOf(t.list, p)
<1>2. Running(q) /\ t.pc = "decide" /\ t.pc \in Serving
  BY <1>1 DEF Running, Serving
<1>3. /\ t.list \in Seq(Message) /\ ListOK(t.list, q, Latest(t)) /\ Latest(t) = t.step
      /\ True(q, t, ran, MayGive, client.history) /\ t.step \in Int
  BY <1>2, AtWork DEF Latest
<1>4. Tidy(t.list, {}) /\ (\A i \in DOMAIN t.list : Fits(t.list[i])) /\ p \in Pending(t.list)
  BY <1>1, <1>2, <1>3 DEF ShapeInv, Shape, Neat, ListOK
<1>5. c[1][1] < q \/ (c[1][1] = q /\ c[1][2] <= t.step)
  <2>1. p[1] \in DOMAIN t.list /\ c[1] = t.list[p[1]].turn
    BY <1>4 DEF Pending, IdOf
  <2> QED
    BY <1>3, <2>1 DEF ListOK, Dated
<1>6. ASSUME ~t.gone, NEW e \in ran, e.call = c PROVE e.by \notin MayGive
  <2>1. c \in PendingIds(t.list)
    BY <1>4 DEF PendingIds
  <2> QED
    BY <1>2, <1>6, <2>1, PendingNotRun
<1>7. CASE /\ End(q, t, "error", t.list)
           /\ \E run \in Runs : run.call = c /\ run.by = q /\ ran' = ran \union {run}
  BY <1>2, <1>5, <1>7, TruthError
<1>8. ASSUME NEW u, NEW m, NEW o \in {"result", "denied"},
             u \in Served, Set(q, u), u.pc \in {"step", "decide"}, Keeps(u, t),
             u.list = Decided(t.list, p, m), AnswerTo(m, c, o),
             u.worker = t.worker, client' = client,
             o = "denied" => ran' = ran,
             o = "result" => \E run \in Runs : run.call = c /\ run.by = q /\ ran' = ran \union {run}
      PROVE  TruthInv'
  <2> DEFINE d == Decided(t.list, p, m)
             s == t.list
  <2>1. /\ PendingIds(d) \subseteq PendingIds(s) \ {c}
        /\ c \in PendingIds(s)
        /\ \A R : ResultsRan(s, R) /\ (o = "result" => \E e \in R : e.call = c) => ResultsRan(d, R)
        /\ \A R, C : OthersNot(s, R, C) /\ (o # "result" => \A e \in R : e.call = c => e.by \notin C)
             => OthersNot(d, R, C)
        /\ \A R, C : \A e : OthersNot(s, R, C) /\ e.call = c => OthersNot(s, R \union {e}, C)
    BY <1>3, <1>4, <1>8, TrueDecided
  <2>2. u.worker = <<>> /\ u.gone = t.gone /\ u.end = t.end /\ u.step = t.step
    BY <1>2, <1>8 DEF TruthInv, Alone, Keeps
  <2>3. Later(u, q) /\ Adds(q, u) /\ Latest(u) = t.step
    <3>1. Latest(u) = t.step
      BY <1>8, <2>2 DEF Latest
    <3> QED
      BY <1>3, <1>5, <1>8, <3>1 DEF Later, Adds
  <2>4. ASSUME ~u.gone, NEW e \in ran, NEW r \in ran', r \notin ran, e.call = r.call
        PROVE  e.by \notin MayGive
    <3>1. r.call = c
      BY <1>8, <2>4
    <3> QED
      BY <1>6, <2>2, <2>4, <3>1
  <2> HIDE DEF d, c
  <2>5. d = u.list /\ ResultsRan(s, ran) /\ ran \subseteq ran'
    BY <1>2, <1>3, <1>8 DEF True, d
  <2>6. ResultsRan(u.list, ran')
    <3>1. ResultsRan(s, ran')
      BY <2>5 DEF ResultsRan
    <3>2. o = "result" => \E e \in ran' : e.call = c
      BY <1>8
    <3> QED
      BY <2>1, <2>5, <3>1, <3>2
  <2>7. ASSUME ~t.gone
        PROVE  /\ PendingIds(u.list) \subseteq PendingIds(client.history)
               /\ OthersNot(u.list, ran', MayGive)
               /\ NonePending(u.list, ran', {q})
    <3>1. /\ PendingIds(s) \subseteq PendingIds(client.history)
          /\ OthersNot(s, ran, MayGive) /\ NonePending(s, ran, {q})
      BY <1>2, <1>3, <2>7 DEF True
    <3>2. CASE o = "denied"
      <4>1. OthersNot(u.list, ran', MayGive)
        BY <1>6, <1>8, <2>1, <2>5, <2>7, <3>1, <3>2
      <4>2. NonePending(u.list, ran', {q})
        BY <1>8, <2>1, <2>5, <3>1, <3>2 DEF NonePending
      <4> QED
        BY <2>1, <2>5, <3>1, <4>1, <4>2
    <3>3. CASE o = "result"
      <4>1. PICK run : run.call = c /\ run.by = q /\ ran' = ran \union {run}
        BY <1>8, <3>3
      <4>2. OthersNot(s, ran', MayGive)
        BY <2>1, <3>1, <4>1
      <4>3. OthersNot(u.list, ran', MayGive)
        BY <2>1, <2>5, <3>3, <4>2
      <4>4. NonePending(u.list, ran', {q})
        BY <2>1, <2>5, <3>1, <4>1 DEF NonePending
      <4> QED
        BY <2>1, <2>5, <3>1, <4>3, <4>4
    <3> QED
      BY <3>2, <3>3
  <2>8. True(q, u, ran', MayGive, client.history)
    BY <1>8, <2>2, <2>6, <2>7 DEF True
  <2>9. u.pc \notin {"none", "done"} /\ u.gone = request[q].gone /\ u.end = request[q].end
    BY <1>8, <2>2
  <2> QED
    BY <1>2, <1>8, <2>2, <2>3, <2>4, <2>8, <2>9, TruthLemma
<1> QED
  BY <1>1, <1>7, <1>8

\* A list without answers and pending calls claims nothing.
LEMMA TrueSilent ==
  ASSUME NEW s, \A i \in DOMAIN s : s[i].role # "tool" /\ s[i].pending = {}
  PROVE  /\ PendingIds(s) = {}
         /\ \A R : ResultsRan(s, R)
         /\ \A R, C : OthersNot(s, R, C) /\ NonePending(s, R, C)
BY DEF PendingIds, Pending, ResultsRan, OthersNot, NonePending

LEMMA TruthSend ==
  ASSUME IInv, ShapeInv, TruthInv, TypeOK', NEW q \in Request, Send(q) PROVE TruthInv'
<1> DEFINE t == request[q]
           next == [t EXCEPT !.pc = "llm", !.step = @ + 1]
<1>1. t.pc = "step" /\ client' = client /\ ran' = ran
  BY DEF Send
<1>2. Running(q) /\ t.worker = <<>>
  BY <1>1 DEF Running, TruthInv, Alone
<1>3. /\ t \in Served /\ t.list \in Seq(Message) /\ True(q, t, ran, MayGive, client.history)
      /\ t.step \in Int /\ Latest(t) = t.step /\ <<q, t.step>> \in Turn
  BY <1>1, <1>2, AtWork DEF Latest, Turn
<1>4. Neat(t.list) /\ \A i \in DOMAIN t.list : Fits(t.list[i])
  <2>1. ListOK(t.list, q, Latest(t))
    BY <1>2, AtWork
  <2> QED
    BY <1>1, <2>1 DEF ShapeInv, Shape, ListOK
<1>5. ASSUME NEW u, Set(q, u), u.pc = "llm",
             u.step = t.step + 1, u.gone = t.gone, u.end = t.end, u.worker = t.worker,
             ResultsRan(u.list, ran), PendingIds(u.list) \subseteq PendingIds(t.list),
             ~t.gone => OthersNot(u.list, ran, MayGive) /\ NonePending(u.list, ran, {q})
      PROVE  TruthInv'
  <2>1. u \in Served
    BY <1>5, TypeNext DEF IInv, TypeOK
  <2>2. Later(u, q) /\ Adds(q, u)
    BY <1>1, <1>3, <1>5 DEF Later, Latest, Adds
  <2>3. True(q, u, ran', MayGive, client.history)
    BY <1>1, <1>3, <1>5 DEF True, Serving
  <2>4. u.pc \notin {"none", "done"} /\ u.gone = request[q].gone /\ u.end = request[q].end
        /\ u.worker = <<>>
    BY <1>2, <1>5
  <2> QED
    BY <1>1, <1>2, <1>5, <2>1, <2>2, <2>3, <2>4, TruthLemma
<1>6. \/ Set(q, next)
      \/ \E m \in LastQuestion(t.list) :
           Set(q, [next EXCEPT !.list = Compacted(m, <<q, t.step>>)])
  BY DEF Send
<1>7. /\ next.pc = "llm" /\ next.list = t.list /\ next.step = t.step + 1 /\ next.gone = t.gone
      /\ next.end = t.end /\ next.worker = t.worker
  BY <1>3 DEF Served
<1>8. CASE Set(q, next)
  <2>1. /\ ResultsRan(t.list, ran)
        /\ ~t.gone => OthersNot(t.list, ran, MayGive) /\ NonePending(t.list, ran, {q})
    BY <1>1, <1>3 DEF True, Serving
  <2> HIDE DEF next
  <2> QED
    BY <1>5, <1>7, <1>8, <2>1
<1>9. ASSUME NEW m \in LastQuestion(t.list),
             Set(q, [next EXCEPT !.list = Compacted(m, <<q, t.step>>)])
      PROVE  TruthInv'
  <2> DEFINE d == Compacted(m, <<q, t.step>>)
             u == [next EXCEPT !.list = d]
  <2>1. \A j \in DOMAIN d : d[j].role # "tool" /\ d[j].pending = {}
    BY <1>3, <1>4, SilentCompacted
  <2>2. Set(q, u)
    BY <1>9
  <2> HIDE DEF d
  <2>3. /\ u.pc = "llm" /\ u.list = d /\ u.step = t.step + 1 /\ u.gone = t.gone
        /\ u.end = t.end /\ u.worker = t.worker
    BY <1>3 DEF Served
  <2> HIDE DEF u
  <2>4. /\ ResultsRan(u.list, ran) /\ PendingIds(u.list) = {}
        /\ OthersNot(u.list, ran, MayGive) /\ NonePending(u.list, ran, {q})
    BY <2>1, <2>3, TrueSilent
  <2> QED
    BY <1>5, <2>2, <2>3, <2>4
<1> QED
  BY <1>6, <1>8, <1>9

LEMMA TruthAnswer ==
  ASSUME IInv, TruthInv, TypeOK', NEW q \in Request, Answer(q) PROVE TruthInv'
<1> DEFINE t == request[q]
           m == Plain("assistant", <<q, t.step>>)
           d == Append(t.list, m)
<1>1. t.pc = "llm" /\ ran' = ran /\ End(q, t, "answer", d)
  BY DEF Answer
<1>2. Running(q) /\ t.pc \in Serving
  BY <1>1 DEF Running, Serving
<1>3. /\ t \in Served /\ t.list \in Seq(Message) /\ True(q, t, ran, MayGive, client.history)
      /\ t.step \in Int /\ Latest(t) <= t.step /\ <<q, t.step>> \in Turn
  BY <1>2, AtWork DEF Turn
<1>4. m \in Message /\ m.role = "assistant" /\ m.pending = {}
  BY <1>3, PlainLemma
<1> HIDE DEF m
<1>5. PICK e : e = d
  OBVIOUS
<1>6. e \in Seq(Message) /\ End(q, t, "answer", e)
  BY <1>1, <1>3, <1>4, <1>5
<1>7. /\ PendingIds(e) = PendingIds(t.list)
      /\ \A R : ResultsRan(t.list, R) => ResultsRan(e, R)
      /\ \A R, C : OthersNot(t.list, R, C) => OthersNot(e, R, C)
  BY <1>3, <1>4, <1>5, TruePlain
<1>8. PICK u : Ends(q, t, "answer", e, u)
  BY <1>3, <1>6, EndEffect
<1>9. ResultsRan(e, ran)
  BY <1>2, <1>3, <1>7 DEF True
<1>10. ASSUME ~t.gone PROVE OthersNot(e, ran, MayGive) /\ NonePending(e, ran, MayGive)
  <2>1. OthersNot(t.list, ran, MayGive)
    BY <1>2, <1>3, <1>10 DEF True
  <2>2. \A f \in ran : f.by \in MayGive => f.call \notin PendingIds(t.list)
    BY <1>2, <1>10, PendingNotRun
  <2> QED
    BY <1>7, <2>1, <2>2 DEF NonePending
<1>11. u \in Served
  BY <1>8, TypeNext DEF Ends, IInv, TypeOK
<1>12. Later(u, q) /\ Adds(q, u)
  BY <1>1, <1>3, <1>8 DEF Later, Latest, Adds, Ends
<1> QED
  BY <1>1, <1>2, <1>8, <1>9, <1>10, <1>11, <1>12, TruthEnd

LEMMA TruthRespond ==
  ASSUME IInv, TruthInv, NEW q \in Request, Respond(q) PROVE TruthInv'
<1> DEFINE t == request[q]
<1>1. t.pc = "llm" /\ client' = client /\ ran' = ran
  BY RespondEffect
<1>2. PICK u, m :
        /\ u \in Served /\ Set(q, u) /\ u.pc = "tools" /\ Keeps(u, t)
        /\ u.list = Append(t.list, m)
        /\ m \in Message /\ m.role = "assistant" /\ m.turn = <<q, t.step>>
        /\ m.calls # <<>> /\ m.pending = {} /\ m.remember = FALSE
        /\ DOMAIN u.worker = DOMAIN m.calls
        /\ \A k \in DOMAIN u.worker : u.worker[k].state = "running"
  BY RespondEffect
<1>3. Running(q) /\ t.pc \in Serving
  BY <1>1 DEF Running, Serving
<1>4. /\ t.list \in Seq(Message) /\ True(q, t, ran, MayGive, client.history)
      /\ t.step \in Int /\ Latest(t) = t.step - 1 /\ q \in Nat
  BY <1>1, <1>3, AtWork DEF Latest
<1>5. /\ PendingIds(u.list) = PendingIds(t.list)
      /\ \A R : ResultsRan(t.list, R) => ResultsRan(u.list, R)
      /\ \A R, C : OthersNot(t.list, R, C) => OthersNot(u.list, R, C)
  BY <1>2, <1>4, TruePlain
<1>6. ASSUME NEW e \in ran, NEW k, e.by = q PROVE e.call # <<<<q, t.step>>, k>>
  <2>1. SUFFICES ASSUME e.call = <<<<q, t.step>>, k>> PROVE FALSE
    OBVIOUS
  <2>2. e.call[1][1] = q /\ e.call[1][2] = t.step
    BY <2>1
  <2> QED
    BY <1>4, <1>6, <2>2 DEF TruthInv, RunsDated
<1>7. u.step = t.step /\ u.gone = t.gone /\ u.end = t.end
  BY <1>2 DEF Keeps
<1>8. True(q, u, ran', MayGive, client.history)
  <2>1. /\ ResultsRan(t.list, ran)
        /\ ~t.gone => /\ PendingIds(t.list) \subseteq PendingIds(client.history)
                      /\ OthersNot(t.list, ran, MayGive) /\ NonePending(t.list, ran, {q})
    BY <1>3, <1>4 DEF True
  <2>2. ResultsRan(u.list, ran') /\ (~t.gone => OthersNot(u.list, ran', MayGive) /\ NonePending(u.list, ran', {q}))
    BY <1>1, <1>5, <2>1 DEF NonePending
  <2>3. \A k \in DOMAIN u.worker : u.worker[k].state # "result"
    BY <1>2
  <2>4. \A e \in ran' : \A k \in DOMAIN u.worker : e.by = q => e.call # <<<<q, u.step>>, k>>
    BY <1>1, <1>6, <1>7
  <2> QED
    BY <1>2, <1>5, <1>7, <2>1, <2>2, <2>3, <2>4 DEF True
<1>9. Later(u, q) /\ Adds(q, u)
  BY <1>1, <1>2, <1>4, <1>7 DEF Later, Latest, Adds
<1>10. u.pc \notin {"none", "done"} /\ u.pc \in {"tools", "drain"}
  BY <1>2
<1> QED
  BY <1>1, <1>2, <1>3, <1>7, <1>8, <1>9, <1>10, TruthLemma

\* A call at work has no answer yet, and is not pending.
LEMMA OpenCall ==
  ASSUME NEW s \in Seq(Message), NEW turn, NEW k, NEW open, Tidy(s, open), <<turn, k>> \in open,
         NEW h \in DOMAIN s, AtEnd(s, turn, h), k \in DOMAIN s[h].calls,
         \A i \in DOMAIN s : Fits(s[i])
  PROVE  /\ \A j \in DOMAIN s : ~IsAnswer(s[j], turn, k)
         /\ <<turn, k>> \notin PendingIds(s)
<1>1. \A j \in DOMAIN s : ~IsAnswer(s[j], turn, k)
  <2>1. s[h].turn = turn
    BY DEF AtEnd
  <2>2. Accounted(s, open)
    BY DEF Tidy
  <2> QED
    BY <2>1, <2>2 DEF Accounted
<1>2. ASSUME NEW i \in DOMAIN s, NEW a \in s[i].pending, <<turn, k>> = <<s[i].turn, a>> PROVE FALSE
  <2>1. s[i].turn = turn /\ a \in DOMAIN s[i].calls
    BY <1>2 DEF Fits
  <2>2. s[i].calls # <<>>
    BY <2>1, NoCalls
  <2>3. s[h].turn = turn /\ s[h].calls # <<>> /\ OneCaller(s)
    BY DEF AtEnd, Tidy
  <2>4. i = h
    BY <2>1, <2>2, <2>3 DEF OneCaller
  <2> QED
    BY <1>2, <2>4 DEF AtEnd
<1>3. <<turn, k>> \notin PendingIds(s)
  BY <1>2, PendingIdsLemma
<1> QED
  BY <1>1, <1>3

LEMMA TruthEndTool ==
  ASSUME IInv, ShapeInv, TruthInv, NEW q \in Request, NEW k \in DOMAIN request[q].worker, EndTool(q, k)
  PROVE  TruthInv'
<1> DEFINE t == request[q]
           turn == <<q, t.step>>
           c == <<turn, k>>
<1>1. t.worker[k].state = "running" /\ client' = client
  BY EndToolEffect
<1>2. PICK u, x : Returns(q, k, u, x)
  BY EndToolEffect
<1>3. /\ x \in {"result", "approval", "raised"}
      /\ u \in Served /\ Set(q, u) /\ u.pc = t.pc /\ u.list = t.list /\ Keeps(u, t)
      /\ Becomes(u, t, k, x)
      /\ x = "result" =>
           \E run \in Runs : run.call = c /\ run.by = q /\ ran' = ran \union {run}
      /\ x # "result" => ran' = ran
  BY <1>2 DEF Returns
<1>4. t.pc \in {"tools", "drain"}
  <2>1. t.worker # <<>>
    BY NoCalls
  <2> QED
    BY <2>1 DEF TruthInv, Alone
<1>5. Running(q)
  BY <1>4 DEF Running
<1>6. /\ t.list \in Seq(Message) /\ True(q, t, ran, MayGive, client.history)
      /\ t.step \in Int /\ Latest(t) = t.step /\ q \in Nat /\ ListOK(t.list, q, Latest(t))
  BY <1>4, <1>5, AtWork DEF Latest
<1>7. u.step = t.step /\ u.gone = t.gone /\ u.end = t.end
  BY <1>3 DEF Keeps
<1>8. Later(u, q) /\ Adds(q, u)
  <2>1. c[1][1] = q /\ c[1][2] = t.step
    OBVIOUS
  <2>2. Latest(u) = t.step
    BY <1>3, <1>4, <1>7 DEF Latest
  <2> HIDE DEF c, t
  <2>3. Later(u, q)
    BY <1>6, <2>2 DEF Later, t
  <2>4. Adds(q, u)
    BY <1>3, <1>6, <2>1, <2>2 DEF Adds
  <2> QED
    BY <2>3, <2>4
<1>9. ASSUME ~u.gone, NEW e \in ran, NEW r \in ran', r \notin ran, e.call = r.call, e.by # q
      PROVE  e.by \notin MayGive
  <2>1. r.call = c
    BY <1>3, <1>9
  <2>2. e.by = q
    BY <1>5, <1>7, <1>9, <2>1, OwnBatch
  <2> QED
    BY <1>9, <2>2
<1>10. CASE t.pc = "drain"
  <2>1. True(q, u, ran', MayGive, client.history)
    BY <1>3, <1>10 DEF True, Serving
  <2> QED
    BY <1>1, <1>3, <1>5, <1>7, <1>8, <1>9, <1>10, <2>1, TruthLemma
<1>11. CASE t.pc = "tools"
  <2>1. c \in OpenCalls(q, t)
    BY <1>1 DEF OpenCalls
  <2>2. PICK h \in DOMAIN t.list :
          AtEnd(t.list, turn, h) /\ DOMAIN t.list[h].calls = DOMAIN t.worker
    BY <1>11 DEF ShapeInv, Shape
  <2>3. Tidy(t.list, OpenCalls(q, t)) /\ \A i \in DOMAIN t.list : Fits(t.list[i])
    BY <1>6, <1>11 DEF ShapeInv, Shape, ListOK
  <2>4. k \in DOMAIN t.list[h].calls
    BY <2>2
  <2>5. /\ \A j \in DOMAIN t.list : ~IsAnswer(t.list[j], turn, k)
        /\ c \notin PendingIds(t.list)
    <3> HIDE DEF t, turn
    <3> QED
      BY <1>6, <2>1, <2>2, <2>3, <2>4, OpenCall
  <2>6. /\ ResultsRan(t.list, ran)
        /\ \A j \in DOMAIN t.worker : t.worker[j].state = "result" =>
             \E e \in ran : e.call = <<turn, j>>
        /\ ~t.gone =>
             /\ PendingIds(t.list) \subseteq PendingIds(client.history)
             /\ OthersNot(t.list, ran, MayGive)
             /\ NonePending(t.list, ran, {q})
             /\ \A e \in ran : \A j \in DOMAIN t.worker :
                  e.by = q /\ e.call = <<turn, j>> => t.worker[j].state \in {"result", "taken"}
    BY <1>6, <1>11 DEF True, Serving
  <2>7. PICK r : /\ ran' = ran \/ (ran' = ran \union {r} /\ x = "result")
                 /\ r.call = c /\ r.by = q
                 /\ x = "result" => r \in ran'
    <3>1. CASE x = "result"
      BY <1>3, <3>1
    <3>2. CASE x # "result"
      <4>1. [call |-> c, by |-> q].call = c /\ [call |-> c, by |-> q].by = q
        OBVIOUS
      <4> HIDE DEF c
      <4> QED
        BY <1>3, <3>2, <4>1
    <3> QED
      BY <3>1, <3>2
  <2> USE <1>7
  <2>8. ResultsRan(u.list, ran')
    <3>1. ran \subseteq ran'
      BY <2>7
    <3> QED
      BY <1>3, <2>6, <3>1 DEF ResultsRan
  <2>9. \A j \in DOMAIN u.worker : u.worker[j].state = "result" =>
          \E e \in ran' : e.call = <<<<q, u.step>>, j>>
    <3> SUFFICES ASSUME NEW j \in DOMAIN u.worker, u.worker[j].state = "result"
                 PROVE  \E e \in ran' : e.call = <<turn, j>>
      OBVIOUS
    <3>1. CASE j = k
      BY <1>3, <2>7, <3>1 DEF Becomes
    <3>2. CASE j # k
      <4>1. j \in DOMAIN t.worker /\ t.worker[j].state = "result"
        BY <1>3, <3>2 DEF Becomes
      <4>2. PICK e \in ran : e.call = <<turn, j>>
        BY <2>6, <4>1
      <4> QED
        BY <2>7, <4>2
    <3> QED
      BY <3>1, <3>2
  <2>10. ASSUME ~t.gone
         PROVE  /\ PendingIds(u.list) \subseteq PendingIds(client.history)
                /\ OthersNot(u.list, ran', MayGive)
                /\ NonePending(u.list, ran', {q})
    <3>1. OthersNot(t.list, ran', MayGive)
      <4> SUFFICES ASSUME NEW j \in DOMAIN t.list, t.list[j].role = "tool", t.list[j].outcome # "result",
                          NEW e \in ran', e.call = <<t.list[j].turn, t.list[j].place>>
                   PROVE  e.by \notin MayGive
        BY DEF OthersNot
      <4>1. e.call # c
        BY <2>5 DEF IsAnswer
      <4>2. e \in ran
        BY <2>7, <4>1
      <4> QED
        BY <2>6, <2>10, <4>2 DEF OthersNot
    <3>2. NonePending(t.list, ran', {q})
      BY <2>5, <2>6, <2>7, <2>10 DEF NonePending
    <3> QED
      BY <1>3, <2>6, <2>10, <3>1, <3>2
  <2>11. ASSUME ~t.gone, NEW e \in ran', NEW j \in DOMAIN u.worker,
                e.by = q, e.call = <<<<q, u.step>>, j>>
         PROVE  u.worker[j].state \in {"result", "taken"}
    <3>1. CASE e = r
      <4>1. j = k
        BY <2>7, <2>11, <3>1
      <4>2. CASE x = "result"
        BY <1>3, <4>1, <4>2 DEF Becomes
      <4>3. CASE x # "result"
        <5>1. e \in ran
          BY <2>7, <2>11, <4>3
        <5> QED
          BY <1>1, <1>3, <2>6, <2>11, <4>1, <5>1
      <4> QED
        BY <4>2, <4>3
    <3>2. CASE e # r
      <4>1. e \in ran /\ t.worker[j].state \in {"result", "taken"} /\ j \in DOMAIN t.worker
        BY <1>3, <2>6, <2>7, <2>11, <3>2 DEF Becomes
      <4>2. j # k
        BY <1>1, <4>1
      <4> QED
        BY <1>3, <4>1, <4>2 DEF Becomes
    <3> QED
      BY <3>1, <3>2
  <2>12. True(q, u, ran', MayGive, client.history)
    BY <1>7, <2>8, <2>9, <2>10, <2>11 DEF True
  <2> QED
    BY <1>1, <1>3, <1>5, <1>7, <1>8, <1>9, <1>11, <2>12, TruthLemma
<1> QED
  BY <1>4, <1>10, <1>11

\* What collecting a result leaves is true.
LEMMA TrueCollected ==
  ASSUME IInv, TruthInv, NEW q \in Request, NEW k \in DOMAIN request[q].worker,
         request[q].pc = "tools", request[q].worker[k].state \in {"result", "approval"}
  PROVE  True(q, Collected(q, request[q], k), ran, MayGive, client.history)
<1> DEFINE t == request[q]
           turn == <<q, t.step>>
           c == <<turn, k>>
           u == Collected(q, t, k)
<1>1. /\ u.pc = "tools" /\ Keeps(u, t)
      /\ \/ /\ t.worker[k].state = "approval" /\ u.list = t.list
            /\ Becomes(u, t, k, "held")
         \/ \E m : /\ u.list = Append(t.list, m) /\ Becomes(u, t, k, "taken")
                   /\ AnswerTo(m, c, IF t.worker[k].state = "result" THEN "result" ELSE "refused")
  BY CollectedEffect
<1>2. Running(q)
  BY DEF Running
<1>3. t.list \in Seq(Message) /\ True(q, t, ran, MayGive, client.history)
  BY <1>2, AtWork
<1>4. /\ ResultsRan(t.list, ran)
      /\ \A j \in DOMAIN t.worker : t.worker[j].state = "result" =>
           \E e \in ran : e.call = <<turn, j>>
      /\ ~t.gone =>
           /\ PendingIds(t.list) \subseteq PendingIds(client.history)
           /\ OthersNot(t.list, ran, MayGive)
           /\ NonePending(t.list, ran, {q})
           /\ \A e \in ran : \A j \in DOMAIN t.worker :
                e.by = q /\ e.call = <<turn, j>> => t.worker[j].state \in {"result", "taken"}
  BY <1>3 DEF True, Serving
<1>5. u.step = t.step /\ u.gone = t.gone
  BY <1>1 DEF Keeps
<1>6. ASSUME ~t.gone, t.worker[k].state = "approval", NEW e \in ran PROVE e.call # c
  <2>1. SUFFICES ASSUME e.call = c PROVE FALSE
    OBVIOUS
  <2>2. e.by = q
    BY <1>2, <1>6, <2>1, OwnBatch
  <2>3. t.worker[k].state \in {"result", "taken"}
    BY <1>4, <1>6, <2>1, <2>2
  <2> QED
    BY <1>6, <2>3
<1>7. t.worker[k].state \in {"result", "approval"} /\ k \in DOMAIN t.worker
  OBVIOUS
<1>8. \/ Becomes(u, t, k, "held") /\ t.worker[k].state = "approval"
      \/ Becomes(u, t, k, "taken")
  BY <1>1
<1>9. \A j \in DOMAIN u.worker : u.worker[j].state = "result" =>
          \E e \in ran : e.call = <<<<q, u.step>>, j>>
  BY <1>4, <1>5, <1>8 DEF Becomes
<1>10. ASSUME ~t.gone, NEW e \in ran, NEW j \in DOMAIN u.worker,
              e.by = q, e.call = <<<<q, u.step>>, j>>
       PROVE  u.worker[j].state \in {"result", "taken"}
  <2>1. j \in DOMAIN t.worker /\ e.call = <<turn, j>>
    BY <1>5, <1>8, <1>10 DEF Becomes
  <2>2. t.worker[j].state \in {"result", "taken"}
    BY <1>4, <1>10, <2>1
  <2>3. Becomes(u, t, k, "held") => j # k
    BY <1>1, <1>8, <2>2 DEF Becomes
  <2> QED
    BY <1>8, <2>1, <2>2, <2>3 DEF Becomes
<1>11. /\ ResultsRan(u.list, ran) /\ PendingIds(u.list) = PendingIds(t.list)
       /\ ~t.gone => OthersNot(u.list, ran, MayGive)
  <2>1. CASE u.list = t.list
    BY <1>4, <2>1
  <2>2. ASSUME NEW m, u.list = Append(t.list, m),
               AnswerTo(m, c, IF t.worker[k].state = "result" THEN "result" ELSE "refused")
        PROVE  /\ ResultsRan(u.list, ran) /\ PendingIds(u.list) = PendingIds(t.list)
               /\ ~t.gone => OthersNot(u.list, ran, MayGive)
    <3>1. /\ m \in Message /\ m.pending = {} /\ <<m.turn, m.place>> = c
          /\ m.outcome = "result" <=> t.worker[k].state = "result"
      BY <2>2 DEF AnswerTo
    <3>2. m.outcome = "result" => \E e \in ran : e.call = <<m.turn, m.place>>
      BY <1>4, <1>7, <3>1
    <3>3. ~t.gone /\ m.outcome # "result" => \A e \in ran : e.call # <<m.turn, m.place>>
      BY <1>6, <1>7, <3>1
    <3> HIDE DEF c, t, turn
    <3>4. /\ PendingIds(Append(t.list, m)) = PendingIds(t.list)
          /\ ResultsRan(Append(t.list, m), ran)
      BY <1>3, <1>4, <3>1, <3>2, TruePlain
    <3>5. ~t.gone => OthersNot(Append(t.list, m), ran, MayGive)
      <4> SUFFICES ASSUME ~t.gone PROVE OthersNot(Append(t.list, m), ran, MayGive)
        OBVIOUS
      <4>1. m.role = "tool" /\ m.outcome # "result" =>
              \A e \in ran : e.call = <<m.turn, m.place>> => e.by \notin MayGive
        BY <3>3
      <4>2. OthersNot(t.list, ran, MayGive)
        BY <1>4
      <4> QED
        BY <1>3, <3>1, <4>1, <4>2, TruePlain
    <3> QED
      BY <2>2, <3>4, <3>5
  <2> QED
    BY <1>1, <2>1, <2>2
<1> HIDE DEF u, t
<1>12. True(q, u, ran, MayGive, client.history)
  BY <1>1, <1>4, <1>5, <1>9, <1>10, <1>11 DEF True, NonePending
<1> QED
  BY <1>12 DEF u, t

\* Marking calls adds them to what is pending, and nothing else.
LEMMA TrueMarked ==
  ASSUME NEW s \in Seq(Message), NEW turn, NEW held \in SUBSET Place,
         Marked(s, turn, held) \in Seq(Message)
  PROVE  LET d == Marked(s, turn, held) IN
         /\ \A x \in PendingIds(d) : x \in PendingIds(s) \/ \E k \in held : x = <<turn, k>>
         /\ \A R : ResultsRan(s, R) => ResultsRan(d, R)
         /\ \A R, C : OthersNot(s, R, C) => OthersNot(d, R, C)
<1> DEFINE d == Marked(s, turn, held)
<1>1. DOMAIN d = DOMAIN s /\ d \in Seq(Message)
  BY DEF Marked
<1>2. \A i \in DOMAIN s :
        \/ d[i] = s[i]
        \/ s[i].turn = turn /\ s[i] \in Message /\ d[i] = [s[i] EXCEPT !.pending = held]
  <2>1. \A i \in DOMAIN s : s[i] \in Message
    OBVIOUS
  <2> QED
    BY <2>1 DEF Marked
<1>3. \A i \in DOMAIN s :
        /\ d[i].role = s[i].role /\ d[i].turn = s[i].turn /\ d[i].place = s[i].place
        /\ d[i].outcome = s[i].outcome
        /\ d[i].pending = s[i].pending \/ (s[i].turn = turn /\ d[i].pending = held)
  BY <1>2 DEF Message
<1> HIDE DEF d
<1>4. ASSUME NEW x \in PendingIds(d) PROVE x \in PendingIds(s) \/ \E k \in held : x = <<turn, k>>
  <2>1. PICK i \in DOMAIN d : \E a \in d[i].pending : x = <<d[i].turn, a>>
    BY <1>1, PendingIdsLemma
  <2>2. PICK a \in d[i].pending : x = <<d[i].turn, a>>
    BY <2>1
  <2>3. i \in DOMAIN s /\ x = <<s[i].turn, a>> /\ (a \in s[i].pending \/ (s[i].turn = turn /\ a \in held))
    BY <1>1, <1>3, <2>2
  <2>4. a \in s[i].pending => x \in PendingIds(s)
    BY <2>3, PendingIdsLemma
  <2> QED
    BY <2>3, <2>4
<1>5. \A R : ResultsRan(s, R) => ResultsRan(d, R)
  BY <1>1, <1>3 DEF ResultsRan
<1>6. \A R, C : OthersNot(s, R, C) => OthersNot(d, R, C)
  BY <1>1, <1>3 DEF OthersNot
<1> QED
  BY <1>4, <1>5, <1>6 DEF d

LEMMA TruthCollect ==
  ASSUME IInv, TruthInv, TypeOK', NEW q \in Request, NEW k \in DOMAIN request[q].worker, Collect(q, k)
  PROVE  TruthInv'
<1> DEFINE t == request[q]
           turn == <<q, t.step>>
           u == Collected(q, t, k)
           held == {j \in DOMAIN u.worker : u.worker[j].state = "held"}
<1>1. t.pc = "tools" /\ t.worker[k].state \in {"result", "approval", "raised"} /\ ran' = ran
  BY DEF Collect
<1>2. Running(q)
  BY <1>1 DEF Running
<1>3. CASE t.worker[k].state = "raised"
  <2>1. Set(q, [t EXCEPT !.pc = "drain"]) /\ client' = client
    BY <1>3 DEF Collect
  <2> QED
    BY <1>1, <1>2, <2>1, TruthMove
<1>4. CASE t.worker[k].state # "raised"
  <2>1. True(q, u, ran, MayGive, client.history)
    BY <1>1, <1>4, TrueCollected
  <2>2. u \in Served /\ u.pc = "tools" /\ Keeps(u, t)
    BY <1>1, <1>4, CollectedEffect
  <2>3. held \in SUBSET Place /\ Marked(u.list, turn, held) \in Seq(Message)
    BY <1>1, <1>4, HeldLemma
  <2>4. \/ Set(q, u) /\ client' = client
        \/ Set(q, [u EXCEPT !.pc = "step", !.worker = <<>>]) /\ client' = client
        \/ End(q, u, "approval", Marked(u.list, turn, held))
    BY <1>4 DEF Collect
  <2>5. u.list \in Seq(Message) /\ u.step = t.step /\ u.gone = t.gone /\ u.end = t.end /\ t.step \in Int
        /\ Latest(t) = t.step
    BY <1>1, <1>2, <2>2, AtWork DEF Served, Keeps, Latest
  <2> HIDE DEF u, held
  <2>6. ASSUME NEW v \in Served, Set(q, v), client' = client, v.pc \in {"tools", "step"},
               v.step = t.step, v.gone = t.gone, v.end = t.end,
               v.pc = "step" => v.worker = <<>>,
               True(q, v, ran, MayGive, client.history)
        PROVE  TruthInv'
    <3>1. Later(v, q) /\ Adds(q, v)
      BY <1>1, <2>5, <2>6 DEF Later, Latest, Adds
    <3>2. \A e \in ran : \A r \in ran' : r \in ran
      BY <1>1
    <3>3. v.pc \notin {"none", "done"} /\ (v.pc \notin {"tools", "drain"} => v.worker = <<>>)
      BY <2>6
    <3> QED
      BY <1>1, <1>2, <2>6, <3>1, <3>2, <3>3, TruthLemma
  <2>7. CASE Set(q, u) /\ client' = client
    BY <2>1, <2>2, <2>5, <2>6, <2>7
  <2>8. CASE Set(q, [u EXCEPT !.pc = "step", !.worker = <<>>]) /\ client' = client
    <3> DEFINE w == <<>>
               v == [u EXCEPT !.pc = "step", !.worker = w]
    <3>1. Set(q, v)
      BY <2>8
    <3> HIDE DEF w
    <3>2. /\ v.pc = "step" /\ v.list = u.list /\ v.worker = w /\ v.step = u.step
          /\ v.gone = u.gone /\ v.end = u.end
      BY <2>2 DEF Served
    <3> HIDE DEF v
    <3>3. v \in Served
      BY <3>1, TypeNext DEF IInv, TypeOK
    <3>4. True(q, v, ran, MayGive, client.history)
      BY <2>1, <2>2, <3>2 DEF True, Serving
    <3>5. v.worker = <<>>
      BY <3>2 DEF w
    <3> QED
      BY <2>5, <2>6, <2>8, <3>1, <3>2, <3>3, <3>4, <3>5
  <2>9. CASE End(q, u, "approval", Marked(u.list, turn, held))
    <3>1. PICK d : d = Marked(u.list, turn, held)
      OBVIOUS
    <3>2. PICK v : Ends(q, u, "approval", d, v)
      BY <2>2, <2>3, <2>9, <3>1, EndEffect
    <3>3. v \in Served
      BY <3>2, TypeNext DEF Ends, IInv, TypeOK
    <3>4. Later(v, q) /\ Adds(q, v)
      BY <1>1, <2>5, <3>2 DEF Later, Latest, Adds, Ends
    <3>5. /\ \A c \in PendingIds(d) : c \in PendingIds(u.list) \/ \E j \in held : c = <<turn, j>>
          /\ \A R : ResultsRan(u.list, R) => ResultsRan(d, R)
          /\ \A R, C : OthersNot(u.list, R, C) => OthersNot(d, R, C)
      BY <2>3, <2>5, <3>1, TrueMarked
    <3>6. ResultsRan(d, ran)
      BY <2>1, <2>2, <3>5 DEF True, Serving
    <3>7. ASSUME ~t.gone PROVE OthersNot(d, ran, MayGive) /\ NonePending(d, ran, MayGive)
      <4>1. /\ PendingIds(u.list) \subseteq PendingIds(client.history)
            /\ OthersNot(u.list, ran, MayGive) /\ NonePending(u.list, ran, {q})
            /\ \A e \in ran : \A j \in DOMAIN u.worker :
                 e.by = q /\ e.call = <<turn, j>> => u.worker[j].state \in {"result", "taken"}
        BY <2>1, <2>2, <2>5, <3>7 DEF True, Serving
      <4>2. ASSUME NEW e \in ran, e.by \in MayGive, e.call \in PendingIds(u.list) PROVE FALSE
        <5>1. CASE e.by = q
          BY <4>1, <4>2, <5>1 DEF NonePending
        <5>2. CASE e.by # q
          <6>1. e.by \in Gave
            BY <1>2, <3>7, <4>2, <5>2, CountedLemma
          <6> QED
            BY <4>1, <4>2, <6>1 DEF NonePending, TruthInv
        <5> QED
          BY <5>1, <5>2
      <4>3. ASSUME NEW e \in ran, NEW j \in held, e.call = <<turn, j>> PROVE FALSE
        <5>1. e.by = q
          BY <1>2, <3>7, <4>3, OwnBatch
        <5>2. j \in DOMAIN u.worker /\ u.worker[j].state = "held"
          BY DEF held
        <5> QED
          BY <4>1, <4>3, <5>1, <5>2
      <4>4. NonePending(d, ran, MayGive)
        BY <3>5, <4>2, <4>3 DEF NonePending
      <4>5. OthersNot(d, ran, MayGive)
        BY <3>5, <4>1
      <4> QED
        BY <4>4, <4>5
    <3> QED
      BY <1>1, <1>2, <2>5, <3>2, <3>3, <3>4, <3>6, <3>7, TruthEnd
  <2> QED
    BY <2>4, <2>7, <2>8, <2>9
<1> QED
  BY <1>3, <1>4

LEMMA TruthSubmit == ASSUME IInv, TruthInv, Submit PROVE TruthInv'
<1>1. PICK q \in Request : \E u, m :
           /\ q = client.sent + 1 /\ ~client.waiting /\ Set(q, u)
           /\ u.pc = "sent" /\ u.end = "none" /\ u.gone = FALSE /\ u.step = 0
           /\ u.worker = <<>> /\ u.list = Append(client.history, m)
           /\ m \in Message /\ m.role = "user" /\ m.calls = <<>> /\ m.pending = {}
           /\ client'.sent = q /\ client'.waiting = TRUE /\ client'.history = client.history
           /\ ran' = ran
  BY SubmitEffect
<1>2. PICK u, m :
           /\ q = client.sent + 1 /\ ~client.waiting /\ Set(q, u)
           /\ u.pc = "sent" /\ u.end = "none" /\ u.gone = FALSE /\ u.step = 0
           /\ u.worker = <<>> /\ u.list = Append(client.history, m)
           /\ m \in Message /\ m.role = "user" /\ m.calls = <<>> /\ m.pending = {}
           /\ client'.sent = q /\ client'.waiting = TRUE /\ client'.history = client.history
           /\ ran' = ran
  BY <1>1
<1>3. /\ request' = [request EXCEPT ![q] = u] /\ request \in [Request -> Served] /\ ran \subseteq Runs
      /\ client.sent \in Nat /\ q \in Nat /\ client.history \in Seq(Message)
  BY <1>2, TypesLemma DEF Set, IInv, TypeOK, ListOK
<1>4. request'[q] = u /\ \A p \in Request : p # q => request'[p] = request[p]
  BY <1>3
<1>5. request[q] = Unsent
  BY <1>2, <1>3 DEF IInv, Numbered
<1>6. request[q].end = "none" /\ request[q].gone = FALSE
  BY <1>5 DEF Unsent
<1>7. MayGive' = MayGive /\ Gave' = Gave
  <2>1. \A p \in Request : request'[p].gone = request[p].gone /\ request'[p].end = request[p].end
    BY <1>2, <1>4, <1>6
  <2> QED
    BY <2>1 DEF MayGive, Gave, Delivered
<1>8. \A e \in ran : e.by # q /\ e.by \in Request
  BY <1>2, <1>3 DEF IInv, Numbered, Runs
<1>9. \A e \in ran : e.by \in MayGive => e.by \in Gave
  <2> SUFFICES ASSUME NEW e \in ran, e.by \in MayGive PROVE e.by \in Gave
    OBVIOUS
  <2>1. e.by \in Request /\ e.by <= client.sent /\ request[e.by] \in Served
    BY <1>3, <1>8 DEF IInv, Numbered
  <2>2. request[e.by].pc = "done"
    BY <1>2, <2>1 DEF TruthInv, Alone, MayGive, Running
  <2>3. request[e.by].end # "none"
    BY <2>1, <2>2 DEF TruthInv, Alone
  <2> QED
    BY <2>1, <2>3 DEF MayGive, Gave, Delivered, Served
<1>10. Alone'
  <2>1. Alone
    BY DEF TruthInv
  <2>2. \A p \in Request : p # q => (Running(p) <=> request'[p].pc \notin {"none", "done"})
    BY <1>4 DEF Running
  <2>3. \A p \in Request : p <= q /\ p # q => p <= client.sent
    BY <1>2, <1>3 DEF Request
  <2> QED
    BY <1>2, <1>4, <2>1, <2>2, <2>3 DEF Alone, Running
<1>11. RunsDated'
  <2>1. \A e \in ran : request'[e.by] = request[e.by]
    BY <1>4, <1>8
  <2> QED
    BY <1>2, <2>1 DEF TruthInv, RunsDated, Latest
<1>12. /\ NonePending(client.history, ran, Gave)
       /\ ResultsRan(client.history, ran) /\ OthersNot(client.history, ran, Gave)
       /\ Once(ran, MayGive)
  BY DEF TruthInv
<1>13. ASSUME NEW p \in Request PROVE True(p, request[p]', ran, MayGive, client.history)
  <2>1. CASE p # q
    BY <1>4, <2>1 DEF TruthInv
  <2>2. True(q, u, ran, MayGive, client.history)
    <3>1. OthersNot(client.history, ran, MayGive)
      BY <1>9, <1>12 DEF OthersNot
    <3>2. /\ PendingIds(u.list) = PendingIds(client.history)
          /\ ResultsRan(u.list, ran) /\ OthersNot(u.list, ran, MayGive)
      BY <1>2, <1>3, <1>12, <3>1, TruePlain
    <3>3. NonePending(u.list, ran, {q})
      BY <1>8 DEF NonePending
    <3> QED
      BY <1>2, <3>2, <3>3 DEF True
  <2> QED
    BY <1>4, <2>1, <2>2
<1> QED
  BY <1>2, <1>7, <1>10, <1>11, <1>12, <1>13 DEF TruthInv

LEMMA TruthGiveUp == ASSUME IInv, TruthInv, GiveUp PROVE TruthInv'
<1> DEFINE q == client.sent
<1>1. q \in Request /\ Running(q)
  BY DEF GiveUp, TruthInv, Alone
<1> DEFINE t == request[q]
<1>q. q = client.sent
  OBVIOUS
<1>2. /\ client.waiting /\ ran' = ran
      /\ client'.waiting = FALSE /\ client'.sent = client.sent /\ client'.history = client.history
  BY <1>1, GiveUpEffect
<1>3. PICK u : /\ Set(q, u) /\ u.gone = TRUE /\ u.pc = t.pc /\ u.end = t.end /\ u.step = t.step
               /\ u.list = t.list /\ u.worker = t.worker
  BY <1>1, GiveUpEffect
<1>4. request' = [request EXCEPT ![q] = u] /\ request \in [Request -> Served]
  BY <1>3 DEF Set, IInv, TypeOK
<1> HIDE DEF q
<1>5. request'[q] = u /\ \A p \in Request : p # q => request'[p] = request[p]
  BY <1>1, <1>4
<1>6. t.end = "none"
  BY <1>1, AtWork
<1>7. MayGive' \subseteq MayGive /\ Gave' = Gave
  <2>1. q \notin Gave /\ q \notin Gave' /\ q \notin MayGive'
    BY <1>3, <1>5, <1>6 DEF Gave, MayGive, Delivered
  <2>2. \A p \in Request : p # q => request'[p].gone = request[p].gone /\ request'[p].end = request[p].end
    BY <1>5
  <2> QED
    BY <2>1, <2>2 DEF Gave, MayGive, Delivered
<1>8. Alone'
  <2>1. Alone
    BY DEF TruthInv
  <2>2. \A p \in Request : request'[p].pc = request[p].pc /\ request'[p].worker = request[p].worker
          /\ request'[p].end = request[p].end
    BY <1>3, <1>5
  <2>3. \A p \in Request : request'[p].gone = request[p].gone \/ (p = q /\ request'[p].gone)
    BY <1>3, <1>5
  <2> QED
    BY <1>q, <1>2, <1>3, <1>5, <2>1, <2>2, <2>3 DEF Alone, Running
<1>9. RunsDated'
  <2>1. \A e \in ran : e.by \in Request
    BY DEF IInv, TypeOK
  <2>2. \A e \in ran : Latest(request[e.by])' = Latest(request[e.by])
    BY <1>3, <1>5, <2>1 DEF Latest
  <2> QED
    BY <1>2, <2>2 DEF TruthInv, RunsDated
<1>10. Once(ran, MayGive')
  BY <1>7, CountersShrink DEF TruthInv
<1>11. ASSUME NEW p \in Request PROVE True(p, request[p]', ran, MayGive', client.history)
  <2>1. True(p, request[p], ran, MayGive, client.history)
    BY DEF TruthInv
  <2>2. CASE p = q
    <3>1. True(q, u, ran, MayGive', client.history)
      BY <1>3, <2>1, <2>2 DEF True
    <3> QED
      BY <1>5, <2>2, <3>1
  <2>3. CASE p # q
    <3>1. OthersNot(request[p].list, ran, MayGive) => OthersNot(request[p].list, ran, MayGive')
      BY <1>7, CountersShrink
    <3> QED
      BY <1>5, <2>1, <2>3, <3>1 DEF True
  <2> QED
    BY <2>2, <2>3
<1> QED
  BY <1>2, <1>7, <1>8, <1>9, <1>10, <1>11 DEF TruthInv

LEMMA TruthInit == Init => TruthInv
<1> SUFFICES ASSUME Init PROVE TruthInv
  OBVIOUS
<1>1. /\ client.waiting = FALSE /\ client.sent = 0 /\ client.history = <<>> /\ ran = {}
      /\ \A q \in Request : request[q] = Unsent
  BY DEF Init
<1>2. /\ Unsent.pc = "none" /\ Unsent.end = "none" /\ Unsent.worker = <<>>
  BY DEF Unsent
<1>3. Alone
  BY <1>1, <1>2 DEF Alone, Running, Request
<1>4. RunsDated /\ Once(ran, MayGive) /\ NonePending(client.history, ran, Gave)
  BY <1>1 DEF RunsDated, Once, NonePending
<1>5. ResultsRan(client.history, ran) /\ OthersNot(client.history, ran, Gave)
  BY <1>1, NoCalls DEF ResultsRan, OthersNot
<1>6. \A q \in Request : True(q, request[q], ran, MayGive, client.history)
  BY <1>1, <1>2 DEF True, Serving
<1> QED
  BY <1>3, <1>4, <1>5, <1>6 DEF TruthInv

LEMMA TruthNext == IInv /\ ShapeInv /\ TruthInv /\ [Next]_vars => TruthInv'
<1> SUFFICES ASSUME IInv, ShapeInv, TruthInv, [Next]_vars PROVE TruthInv'
  OBVIOUS
<1>0. TypeOK'
  BY NextInv DEF IInv
<1>1. CASE Submit
  BY <1>1, TruthSubmit
<1>2. CASE GiveUp
  BY <1>2, TruthGiveUp
<1>3. ASSUME NEW q \in Request, Serve(q) PROVE TruthInv'
  <2>1. CASE Begin(q)
    BY <1>0, <2>1, TruthBegin
  <2>2. CASE Decide(q)
    BY <1>0, <2>2, TruthDecide
  <2>3. CASE Send(q)
    BY <1>0, <2>3, TruthSend
  <2>4. CASE TooManyCalls(q) \/ Fail(q) \/ Close(q) \/ Drained(q)
    BY <1>0, <2>4, TruthStop
  <2>5. CASE Answer(q)
    BY <1>0, <2>5, TruthAnswer
  <2>6. CASE Respond(q)
    BY <2>6, TruthRespond
  <2>7. ASSUME NEW k \in DOMAIN request[q].worker, Collect(q, k) PROVE TruthInv'
    BY <1>0, <2>7, TruthCollect
  <2>8. ASSUME NEW k \in DOMAIN request[q].worker, EndTool(q, k) PROVE TruthInv'
    BY <2>8, TruthEndTool
  <2> QED
    BY <1>3, <2>1, <2>2, <2>3, <2>4, <2>5, <2>6, <2>7, <2>8 DEF Serve
<1>4. CASE UNCHANGED vars
  <2>1. client' = client /\ request' = request /\ ran' = ran
    BY <1>4 DEF vars
  <2>2. MayGive' = MayGive /\ Gave' = Gave
    BY <2>1 DEF MayGive, Gave, Delivered
  <2> QED
    BY <2>1, <2>2 DEF TruthInv, Alone, Running, RunsDated, Latest
<1> QED
  BY <1>1, <1>2, <1>3, <1>4 DEF Next

LEMMA Truthful == Spec => []TruthInv
<1>1. Spec => [](IInv /\ ShapeInv)
  BY Shaped
<1> QED
  BY <1>1, TruthInit, TruthNext, PTL DEF Spec

\* No two requests that both ran a call have both delivered their messages, however
\* often the client sends a decision again and however requests overlap.
THEOREM CallsRunOnce == Spec => []RunsOnce
<1>1. IInv /\ TruthInv => RunsOnce
  <2> SUFFICES ASSUME IInv, TruthInv, NEW e \in ran, NEW f \in ran, e.call = f.call, e.by # f.by,
                      Delivered(e.by), Delivered(f.by)
               PROVE  FALSE
    BY DEF RunsOnce
  <2>1. e.by \in Request /\ f.by \in Request
    BY TypesLemma DEF Runs, IInv, TypeOK
  <2> QED
    BY <2>1 DEF TruthInv, Once, MayGive, Delivered
<1> QED
  BY <1>1, Inductive, Truthful, PTL

\* What the conversation of the client says of a call is what happened to it: a result
\* is that of a run, and a call that was denied or refused was not run by any request
\* that delivered its messages.
THEOREM ConversationIsTrue == Spec => []AnswersAreTrue
<1>1. IInv /\ TruthInv => AnswersAreTrue
  <2> SUFFICES ASSUME IInv, TruthInv, NEW j \in DOMAIN client.history, client.history[j].role = "tool"
               PROVE  LET m == client.history[j]
                          by == {e.by : e \in {f \in ran : f.call = <<m.turn, m.place>>}}
                      IN /\ m.outcome = "result" => by # {}
                         /\ m.outcome # "result" => \A q \in by : ~Delivered(q)
    BY DEF AnswersAreTrue
  <2> DEFINE m == client.history[j]
             by == {e.by : e \in {f \in ran : f.call = <<m.turn, m.place>>}}
  <2>1. ASSUME m.outcome = "result" PROVE by # {}
    BY <2>1 DEF TruthInv, ResultsRan
  <2>2. ASSUME m.outcome # "result", NEW q \in by PROVE ~Delivered(q)
    <3>1. PICK e \in ran : e.call = <<m.turn, m.place>> /\ q = e.by
      OBVIOUS
    <3>2. e.by \notin Gave
      BY <2>2, <3>1 DEF TruthInv, OthersNot
    <3>3. e.by \in Request
      BY <3>1 DEF IInv, TypeOK
    <3> QED
      BY <3>1, <3>2, <3>3 DEF Gave
  <2> QED
    BY <2>1, <2>2
<1> QED
  BY <1>1, Inductive, Truthful, PTL
=============================================================================
