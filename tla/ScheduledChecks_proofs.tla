----------------------- MODULE ScheduledChecks_proofs -----------------------
(***************************************************************************)
(* Proofs about ScheduledChecks for every set of checks and every value of *)
(* the limits: type correctness, that a recorded check is never active     *)
(* again, that lastResult is the result at the head of history, that the   *)
(* results in history are real ones, that a check is entered once but for  *)
(* failed requests, that conflicts of few writers leave none behind, and   *)
(* that the GET and PATCH protocol implements the ledger of StatusLedger.  *)
(*                                                                         *)
(* The heart is that a snapshot whose version is still the server's has    *)
(* still the server's contents, also for a PATCH in limbo (Snapshots,      *)
(* Delayed), so that a PATCH the server accepts starts from the latest     *)
(* status; and that the first record of a check always moves the version,  *)
(* which disarms a delayed announcement of that check (Disarmed).          *)
(***************************************************************************)
EXTENDS ScheduledChecks, FiniteSetTheorems, TLAPS

\* The coroutine has not got past the announcement of its check.
Early(t) ==
  \/ t.pc \in {"idle", "create", "uid"}
  \/ t.pc \in {"read", "write"} /\ t.call = "add"

\* Before and inside a call one more poll is left, unless the watcher is late.
PollsLeft(t) ==
  t.pc \in {"idle", "create", "uid"} \/ (t.pc \in {"read", "write"} /\ ~t.late)
    => t.polls < MaxPolls

TaskOK(t) == t \in Task /\ PollsLeft(t)

\* A snapshot with the server's version has the server's contents.
Snapshots ==
  \A c \in Check :
    task[c].pc = "write"
      => /\ seen[c].rv <= shc.rv
         /\ seen[c].rv = shc.rv => seen[c] = Snapshot(shc)

\* The patch is what modify_fn makes of the status the server has now.
UpToDate(p) ==
  /\ p.active = NewActive(p.call, p.check, shc.active)
  /\ p.history = NewHistory(p.call, p.check, p.verdict, shc.history)

Delayed ==
  \A p \in limbo : p.rv <= shc.rv /\ (p.rv = shc.rv => UpToDate(p))

HistoryRecorded ==
  \A i \in 1..Len(shc.history) : shc.history[i].check \in recorded

\* Nothing records a check before its coroutine has announced it.
EarlyUnrecorded ==
  \A c \in Check :
    Early(task[c]) => /\ c \notin recorded
                      /\ \A p \in limbo : p.check = c => p.call # "move"

\* A delayed announcement of a recorded check can no longer be accepted.
Disarmed ==
  \A p \in limbo : p.call = "add" /\ p.check \in recorded => p.rv < shc.rv

IInv ==
  /\ TypeOK
  /\ \A c \in Check : PollsLeft(task[c])
  /\ Snapshots
  /\ Delayed
  /\ HistoryRecorded
  /\ EarlyUnrecorded
  /\ Disarmed
  /\ RecordedNotActive
  /\ LastResultIsHead
-----------------------------------------------------------------------------
(* Lemmas about the operators *)

\* What Push returns: the new entry, then the old ones, at most MaxHistory.
LEMMA PushLemma ==
  ASSUME NEW e \in Entry, NEW h \in Histories
  PROVE  /\ Push(e, h) \in Histories
         /\ Len(Push(e, h)) = IF Len(h) < MaxHistory THEN Len(h) + 1 ELSE Len(h)
         /\ Push(e, h)[1] = e
         /\ \A i \in 2..Len(Push(e, h)) : Push(e, h)[i] = h[i - 1]
         /\ Push(e, h) # <<>>
<1> DEFINE n == IF Len(h) < MaxHistory THEN Len(h) + 1 ELSE MaxHistory
           s == <<e>> \o h
<1>1. h \in Seq(Entry) /\ Len(h) \in Nat /\ Len(h) <= MaxHistory
  BY DEF Histories
<1>2. MaxHistory \in Nat /\ MaxHistory >= 1
  BY HistoryAssumption
<1>3. /\ s \in Seq(Entry)
      /\ Len(s) = Len(h) + 1
      /\ s[1] = e
      /\ \A i \in 2..Len(s) : s[i] = h[i - 1]
  BY <1>1
<1>4. n \in 1..Len(s)
  BY <1>1, <1>2, <1>3
<1>5. /\ SubSeq(s, 1, n) \in Seq(Entry)
      /\ Len(SubSeq(s, 1, n)) = n
      /\ \A i \in 1..n : SubSeq(s, 1, n)[i] = s[i]
  BY <1>3, <1>4
<1>6. Push(e, h) = SubSeq(s, 1, n)
  BY DEF Push
<1> QED
  BY <1>1, <1>2, <1>3, <1>4, <1>5, <1>6 DEF Histories

\* What the server stores when it accepts a patch, and when the version moves.
LEMMA MergedLemma ==
  ASSUME TypeOK, NEW p \in Patch
  PROVE  /\ Merged(p) \in [exists : BOOLEAN, rv : Nat, active : SUBSET Check,
                           history : Histories, lastResult : Verdict \union {"unset"}]
         /\ Merged(p).exists = shc.exists
         /\ Merged(p).active = p.active
         /\ Merged(p).history = IF p.call = "move" THEN p.history ELSE shc.history
         /\ Merged(p).lastResult = IF p.call = "move" THEN p.verdict ELSE shc.lastResult
         /\ Merged(p).rv >= shc.rv
         /\ Merged(p).rv = shc.rv => Merged(p) = shc
<1> DEFINE new == [shc EXCEPT !.active = p.active,
                              !.history = IF p.call = "move" THEN p.history ELSE @,
                              !.lastResult = IF p.call = "move" THEN p.verdict ELSE @]
<1>1. /\ p.active \in SUBSET Check /\ p.history \in Histories /\ p.verdict \in Verdict
      /\ shc \in [exists : BOOLEAN, rv : Nat, active : SUBSET Check,
                  history : Histories, lastResult : Verdict \union {"unset"}]
  BY DEF TypeOK, Patch
<1>2. /\ new \in [exists : BOOLEAN, rv : Nat, active : SUBSET Check,
                  history : Histories, lastResult : Verdict \union {"unset"}]
      /\ new.exists = shc.exists
      /\ new.active = p.active
      /\ new.history = IF p.call = "move" THEN p.history ELSE shc.history
      /\ new.lastResult = IF p.call = "move" THEN p.verdict ELSE shc.lastResult
      /\ new.rv = shc.rv
  BY <1>1
<1>3. Merged(p) = IF new = shc THEN shc ELSE [new EXCEPT !.rv = @ + 1]
  BY DEF Merged
<1> HIDE DEF new
<1>4. CASE new = shc
  BY <1>1, <1>2, <1>3, <1>4
<1>5. CASE new # shc
  <2>1. Merged(p) = [new EXCEPT !.rv = new.rv + 1]
    BY <1>3, <1>5
  <2>2. Merged(p).rv = shc.rv + 1 /\ shc.rv \in Nat
    BY <2>1, <1>1, <1>2
  <2> QED
    BY <2>1, <2>2, <1>2
<1> QED
  BY <1>4, <1>5

\* The patch a coroutine sends is well formed and, while its snapshot has the
\* server's version, up to date.
LEMMA PatchLemma ==
  ASSUME TypeOK, Snapshots, NEW c \in Check, task[c].pc = "write"
  PROVE  /\ PatchOf(c) \in Patch
         /\ PatchOf(c).check = c /\ PatchOf(c).call = task[c].call
         /\ PatchOf(c).rv <= shc.rv
         /\ PatchOf(c).rv = shc.rv => UpToDate(PatchOf(c))
<1> DEFINE t == task[c]
           e == [check |-> c, result |-> t.verdict]
<1>1. /\ t \in Task
      /\ seen[c] \in [rv : Nat, active : SUBSET Check, history : Histories]
      /\ e \in Entry
  BY DEF TypeOK, Task, Entry
<1>2. NewActive(t.call, c, seen[c].active) \in SUBSET Check
  BY <1>1 DEF NewActive
<1>3. NewHistory(t.call, c, t.verdict, seen[c].history) \in Histories
  BY <1>1, PushLemma DEF NewHistory
<1>4. PatchOf(c) = [check |-> c, call |-> t.call, verdict |-> t.verdict, rv |-> seen[c].rv,
                    active |-> NewActive(t.call, c, seen[c].active),
                    history |-> NewHistory(t.call, c, t.verdict, seen[c].history)]
  BY DEF PatchOf
<1>5. PatchOf(c) \in Patch
  BY <1>1, <1>2, <1>3, <1>4 DEF Patch, Task
<1>6. PatchOf(c).rv = shc.rv => UpToDate(PatchOf(c))
  BY <1>4 DEF Snapshots, Snapshot, UpToDate
<1> QED
  BY <1>4, <1>5, <1>6 DEF Snapshots

\* The control-flow functions stay within Task, keep the poll budget and leave
\* the early stage, except that a retry of the announcement stays in it.
LEMMA TaskLemma ==
  ASSUME NEW t \in Task, PollsLeft(t), t.pc \in {"read", "write"}
  PROVE  /\ TaskOK(Returned(t)) /\ ~Early(Returned(t)) /\ Returned(t).pc # "write"
         /\ \A f \in {"gone", "error"} :
              TaskOK(Raised(t, f)) /\ ~Early(Raised(t, f)) /\ Raised(t, f).pc # "write"
         /\ TaskOK(Conflicted(t)) /\ Conflicted(t).pc # "write"
         /\ Early(Conflicted(t)) => Early(t)
<1> USE DEF TaskOK, PollsLeft, Early
<1> DEFINE Pcs == {"idle", "create", "uid", "read", "write", "poll", "done"}
<1>a. ASSUME NEW u \in Task
      PROVE  /\ u.pc \in Pcs /\ u.call \in Call /\ u.attempt \in 0..(MaxRetries - 1)
             /\ u.polls \in 0..MaxPolls /\ u.late \in BOOLEAN
             /\ u.failure \in {"gone", "error"}
  BY <1>a DEF Task
<1>b. NoTask \in Task /\ NoTask.late = FALSE /\ NoTask.call = "add"
  BY RetryAssumption, BoundsAssumption, VerdictAssumption DEF NoTask, Task, Call
<1>1. TaskOK(Done(t)) /\ Done(t).pc = "done"
  <2>1. PICK l \in BOOLEAN : l = t.late
    BY <1>a
  <2>2. Done(t) = [NoTask EXCEPT !.pc = "done", !.late = l]
    BY <2>1 DEF Done
  <2>3. Done(t) \in Task /\ Done(t).pc = "done"
    BY <1>b, <2>2 DEF Task
  <2> QED
    BY <2>3
<1>2. TaskOK(StartWatching(t)) /\ StartWatching(t).pc = "poll"
  <2>1. StartWatching(t) = [NoTask EXCEPT !.pc = "poll"]
    BY DEF StartWatching
  <2>2. StartWatching(t) \in Task /\ StartWatching(t).pc = "poll"
    BY <1>b, <2>1 DEF Task
  <2> QED
    BY <2>2
<1>3. ~t.late => TaskOK(NextPoll(t)) /\ NextPoll(t).pc = "poll"
  <2> SUFFICES ASSUME ~t.late
               PROVE  TaskOK(NextPoll(t)) /\ NextPoll(t).pc = "poll"
    OBVIOUS
  <2>1. t.polls + 1 \in 0..MaxPolls
    BY <1>a, BoundsAssumption
  <2>2. PICK n \in 0..MaxPolls : n = t.polls + 1
    BY <2>1
  <2>3. NextPoll(t) = [NoTask EXCEPT !.pc = "poll", !.polls = n]
    BY <2>2 DEF NextPoll
  <2>4. NextPoll(t) \in Task /\ NextPoll(t).pc = "poll"
    BY <1>b, <2>3 DEF Task
  <2> QED
    BY <2>4
<1>4. \A call \in {"cleanup", "remove"} :
        TaskOK(StartCall(t, call)) /\ StartCall(t, call).pc = "read" /\ StartCall(t, call).call = call
  <2> SUFFICES ASSUME NEW call \in {"cleanup", "remove"}
               PROVE  /\ TaskOK(StartCall(t, call))
                      /\ StartCall(t, call).pc = "read" /\ StartCall(t, call).call = call
    OBVIOUS
  <2>1. 0 \in 0..(MaxRetries - 1)
    BY RetryAssumption
  <2>2. StartCall(t, call) = [t EXCEPT !.pc = "read", !.call = call, !.attempt = 0]
    BY DEF StartCall
  <2>3. /\ StartCall(t, call) \in Task
        /\ StartCall(t, call).pc = "read" /\ StartCall(t, call).call = call
        /\ StartCall(t, call).late = t.late /\ StartCall(t, call).polls = t.polls
    BY <2>1, <2>2 DEF Task, Call
  <2> QED
    BY <2>3
<1>5. TaskOK(Reraised(t)) /\ ~Early(Reraised(t)) /\ Reraised(t).pc # "write"
  <2>1. CASE t.late
    BY <2>1, <1>1 DEF Reraised
  <2>2. CASE ~t.late /\ t.failure = "gone"
    BY <2>2, <1>4 DEF Reraised
  <2>3. CASE ~t.late /\ t.failure = "error"
    BY <2>3, <1>3 DEF Reraised
  <2> QED
    BY <2>1, <2>2, <2>3, <1>a
<1>6. TaskOK(Returned(t)) /\ ~Early(Returned(t)) /\ Returned(t).pc # "write"
  BY <1>1, <1>2, <1>5, <1>a DEF Returned, Call
<1>7. ASSUME NEW f \in {"gone", "error"}
      PROVE  TaskOK(Raised(t, f)) /\ ~Early(Raised(t, f)) /\ Raised(t, f).pc # "write"
  <2>1. CASE t.call = "move"
    <3> DEFINE u == StartCall(t, "cleanup")
    <3>1. Raised(t, f) = [u EXCEPT !.failure = f]
      BY <2>1 DEF Raised
    <3>2. TaskOK(u) /\ u.pc = "read" /\ u.call = "cleanup"
      BY <1>4
    <3> HIDE DEF u
    <3>3. /\ Raised(t, f) \in Task
          /\ Raised(t, f).pc = u.pc /\ Raised(t, f).call = u.call
          /\ Raised(t, f).late = u.late /\ Raised(t, f).polls = u.polls
      BY <3>1, <3>2 DEF Task
    <3> QED
      BY <3>2, <3>3
  <2>2. CASE t.call # "move"
    BY <2>2, <1>1, <1>2, <1>5, <1>a DEF Raised, Call
  <2> QED
    BY <2>1, <2>2
<1>8. /\ TaskOK(Conflicted(t)) /\ Conflicted(t).pc # "write"
      /\ Early(Conflicted(t)) => Early(t)
  <2>1. CASE t.attempt + 1 = MaxRetries
    BY <2>1, <1>7 DEF Conflicted
  <2>2. CASE t.attempt + 1 # MaxRetries
    <3>1. t.attempt + 1 \in 0..(MaxRetries - 1)
      BY <2>2, <1>a, RetryAssumption
    <3>2. PICK n \in 0..(MaxRetries - 1) : n = t.attempt + 1
      BY <3>1
    <3>3. Conflicted(t) = [t EXCEPT !.pc = "read", !.attempt = n]
      BY <2>2, <3>2 DEF Conflicted
    <3>4. /\ Conflicted(t) \in Task
          /\ Conflicted(t).pc = "read" /\ Conflicted(t).call = t.call
          /\ Conflicted(t).late = t.late /\ Conflicted(t).polls = t.polls
      BY <3>3 DEF Task
    <3> QED
      BY <3>4
  <2> QED
    BY <2>1, <2>2
<1> QED
  BY <1>6, <1>7, <1>8
-----------------------------------------------------------------------------
(* The effect of an accepted patch *)

Schedule == [exists : BOOLEAN, rv : Nat, active : SUBSET Check,
             history : Histories, lastResult : Verdict \union {"unset"}]

\* Accepting an up-to-date patch keeps the facts about the status, never moves
\* the version without a change, moves it when a check is recorded for the
\* first time, and is one step of the ledger.
LEMMA ApplyLemma ==
  ASSUME IInv, NEW p \in Patch, Current(p), UpToDate(p), Apply(p),
         p.call = "add" => p.check \notin recorded
  PROVE  /\ shc' \in Schedule
         /\ shc'.rv >= shc.rv
         /\ shc'.rv = shc.rv => shc' = shc
         /\ recorded' \subseteq Check /\ recorded \subseteq recorded'
         /\ recorded' \subseteq recorded \union {p.check}
         /\ p.call # "move" => recorded' = recorded
         /\ p.call = "move" /\ p.check \notin recorded => shc'.rv > shc.rv
         /\ HistoryRecorded' /\ RecordedNotActive' /\ LastResultIsHead'
         /\ [Ledger!Next]_(Ledger!ledger)
<1> DEFINE e == [check |-> p.check, result |-> p.verdict]
<1>1. /\ p.check \in Check /\ p.verdict \in Verdict /\ p.active \in SUBSET Check
      /\ p.history \in Histories /\ p.call \in Call /\ e \in Entry
      /\ shc.history \in Histories /\ recorded \subseteq Check /\ shc.active \subseteq Check
      /\ shc.rv \in Nat
  BY DEF IInv, TypeOK, Patch, Entry
<1>2. /\ shc' = Merged(p)
      /\ recorded' = IF p.call = "move" THEN recorded \union {p.check} ELSE recorded
  BY DEF Apply
<1>3. /\ shc' \in Schedule
      /\ shc'.active = p.active
      /\ shc'.history = IF p.call = "move" THEN p.history ELSE shc.history
      /\ shc'.lastResult = IF p.call = "move" THEN p.verdict ELSE shc.lastResult
      /\ shc'.rv \in Nat /\ shc'.rv >= shc.rv
      /\ shc'.rv = shc.rv => shc' = shc
  BY <1>2, MergedLemma DEF IInv, Schedule
<1>4. p.active = IF p.call = "add" THEN shc.active \union {p.check} ELSE shc.active \ {p.check}
  BY DEF UpToDate, NewActive
<1>5. p.call = "move" => p.history = Push(e, shc.history)
  BY DEF UpToDate, NewHistory
<1>6. /\ Push(e, shc.history) \in Histories
      /\ Len(Push(e, shc.history)) = IF Len(shc.history) < MaxHistory
                                     THEN Len(shc.history) + 1 ELSE Len(shc.history)
      /\ Push(e, shc.history)[1] = e
      /\ \A i \in 2..Len(Push(e, shc.history)) : Push(e, shc.history)[i] = shc.history[i - 1]
      /\ Push(e, shc.history) # <<>>
  BY <1>1, PushLemma
<1>7. /\ Len(shc.history) \in Nat /\ Len(Push(e, shc.history)) \in Nat
      /\ Len(shc.history) <= MaxHistory /\ MaxHistory \in Nat /\ MaxHistory >= 1
  BY <1>1, <1>6, HistoryAssumption DEF Histories
<1>8. p.call = "move" /\ p.check \notin recorded => shc'.rv > shc.rv
  <2> SUFFICES ASSUME p.call = "move", p.check \notin recorded, shc'.rv = shc.rv
               PROVE  FALSE
    BY <1>1, <1>3
  <2>1. shc'.history = Push(e, shc.history) /\ shc' = shc
    BY <1>3, <1>5
  <2>2. shc.history[1].check = p.check
    BY <2>1, <1>6
  <2>3. 1 \in 1..Len(shc.history)
    BY <2>1, <1>6, <1>7
  <2> QED
    BY <2>2, <2>3 DEF IInv, HistoryRecorded
<1>9. HistoryRecorded'
  <2> SUFFICES ASSUME NEW i \in 1..Len(shc'.history)
               PROVE  shc'.history[i].check \in recorded'
    BY DEF HistoryRecorded
  <2>1. CASE p.call # "move"
    BY <2>1, <1>2, <1>3 DEF IInv, HistoryRecorded
  <2>2. CASE p.call = "move" /\ i = 1
    BY <2>2, <1>2, <1>3, <1>5, <1>6
  <2>3. CASE p.call = "move" /\ i # 1
    <3>1. shc'.history = Push(e, shc.history)
      BY <2>3, <1>3, <1>5
    <3>2. i \in 2..Len(Push(e, shc.history)) /\ i - 1 \in 1..Len(shc.history)
      BY <2>3, <3>1, <1>6, <1>7
    <3>3. shc'.history[i] = shc.history[i - 1]
      BY <3>1, <3>2, <1>6
    <3> QED
      BY <2>3, <3>2, <3>3, <1>2 DEF IInv, HistoryRecorded
  <2> QED
    BY <2>1, <2>2, <2>3
<1>10. RecordedNotActive'
  BY <1>2, <1>3, <1>4 DEF IInv, RecordedNotActive
<1>11. LastResultIsHead'
  <2>1. CASE p.call # "move"
    BY <2>1, <1>3 DEF IInv, LastResultIsHead
  <2>2. CASE p.call = "move"
    <3>1. shc'.history[1] = e /\ shc'.lastResult = p.verdict
      BY <2>2, <1>3, <1>5, <1>6
    <3> QED
      BY <3>1 DEF LastResultIsHead
  <2> QED
    BY <2>1, <2>2
<1>12. [Ledger!Next]_(Ledger!ledger)
  <2>1. CASE p.call = "add"
    <3>1. Ledger!Announce(p.check)
      BY <2>1, <1>2, <1>3, <1>4 DEF Ledger!Announce
    <3> QED
      BY <3>1, <1>1 DEF Ledger!Next
  <2>2. CASE p.call = "move"
    <3>1. Ledger!Enter(p.check, p.verdict)
      BY <2>2, <1>2, <1>3, <1>4, <1>5, <1>6 DEF Ledger!Enter
    <3> QED
      BY <3>1, <1>1 DEF Ledger!Next
  <2>3. CASE p.call \notin {"add", "move"}
    <3>1. Ledger!Strike(p.check)
      BY <2>3, <1>2, <1>3, <1>4 DEF Ledger!Strike
    <3> QED
      BY <3>1, <1>1 DEF Ledger!Next
  <2> QED
    BY <2>1, <2>2, <2>3
<1> QED
  BY <1>1, <1>2, <1>3, <1>8, <1>9, <1>10, <1>11, <1>12
-----------------------------------------------------------------------------
(* Steps *)

HcType == [Check -> [phase : Phase, result : Verdict \union {"unset"},
                     reported : SUBSET Verdict]]
BudgetType == [faults : Nat, crashes : Nat, edits : Nat, reruns : Nat]
SeenType == [Check -> [rv : Nat, active : SUBSET Check, history : Histories]]

\* A step of one coroutine that sends no patch.
LEMMA LocalStep ==
  ASSUME IInv, NEW c \in Check, NEW t, TaskOK(t), Early(t) => Early(task[c]),
         Goto(c, t), UNCHANGED <<shc, limbo, recorded>>,
         hc' \in HcType, budget' \in BudgetType, seen' \in SeenType,
         \A d \in Check \ {c} : seen'[d] = seen[d],
         t.pc = "write" => seen'[c] = Snapshot(shc)
  PROVE  IInv'
<1>1. /\ task' = [task EXCEPT ![c] = t]
      /\ task \in [Check -> Task] /\ t \in Task /\ PollsLeft(t)
      /\ shc.rv \in Nat
  BY DEF Goto, IInv, TypeOK, TaskOK
<1>2. /\ task' \in [Check -> Task] /\ task'[c] = t
      /\ \A d \in Check \ {c} : task'[d] = task[d]
  BY <1>1
<1>3. TypeOK'
  BY <1>2 DEF IInv, TypeOK, HcType, BudgetType, SeenType
<1>4. \A d \in Check : PollsLeft(task'[d])
  BY <1>1, <1>2 DEF IInv
<1>5. Snapshots'
  <2> SUFFICES ASSUME NEW d \in Check, task'[d].pc = "write"
               PROVE  seen'[d].rv <= shc.rv /\ (seen'[d].rv = shc.rv => seen'[d] = Snapshot(shc))
    BY DEF Snapshots, Snapshot
  <2>1. CASE d = c
    BY <2>1, <1>1, <1>2 DEF Snapshot
  <2>2. CASE d # c
    BY <2>2, <1>2 DEF IInv, Snapshots
  <2> QED
    BY <2>1, <2>2
<1>6. Delayed' /\ Disarmed'
  BY DEF IInv, Delayed, Disarmed, UpToDate
<1>7. EarlyUnrecorded'
  BY <1>2 DEF IInv, EarlyUnrecorded
<1>8. HistoryRecorded' /\ RecordedNotActive' /\ LastResultIsHead'
  BY DEF IInv, HistoryRecorded, RecordedNotActive, LastResultIsHead
<1> QED
  BY <1>3, <1>4, <1>5, <1>6, <1>7, <1>8 DEF IInv

\* A step that leaves the coroutines alone and of the schedule changes at most
\* its existence or, to a newer one, its version.
LEMMA OutsideStep ==
  ASSUME IInv, UNCHANGED <<task, seen, limbo, recorded>>,
         hc' \in HcType, budget' \in BudgetType, shc' \in Schedule,
         shc'.active = shc.active, shc'.history = shc.history,
         shc'.lastResult = shc.lastResult, shc'.rv >= shc.rv
  PROVE  IInv'
<1>1. TypeOK'
  BY DEF IInv, TypeOK, HcType, BudgetType, Schedule
<1>2. (\A c \in Check : PollsLeft(task[c]))'
  BY DEF IInv
<1>3. shc.rv \in Nat /\ shc'.rv \in Nat
  BY DEF IInv, TypeOK, Schedule
<1>4. Snapshots'
  <2> SUFFICES ASSUME NEW c \in Check, task[c].pc = "write"
               PROVE  /\ seen[c].rv <= shc'.rv
                      /\ seen[c].rv = shc'.rv => seen[c] = Snapshot(shc)'
    BY DEF Snapshots
  <2>1. /\ seen[c].rv \in Nat /\ seen[c].rv <= shc.rv
        /\ seen[c].rv = shc.rv => seen[c] = Snapshot(shc)
    BY DEF IInv, TypeOK, Snapshots
  <2>2. CASE shc'.rv = shc.rv
    BY <2>1, <2>2 DEF Snapshot
  <2>3. CASE shc'.rv # shc.rv
    BY <2>1, <2>3, <1>3
  <2> QED
    BY <2>2, <2>3
<1>5. Delayed' /\ Disarmed'
  <2> SUFFICES ASSUME NEW p \in limbo
               PROVE  /\ p.rv <= shc'.rv /\ (p.rv = shc'.rv => UpToDate(p)')
                      /\ p.call = "add" /\ p.check \in recorded => p.rv < shc'.rv
    BY DEF Delayed, Disarmed
  <2>1. p.rv \in Nat
    BY DEF IInv, TypeOK, Patch
  <2>2. /\ p.rv <= shc.rv /\ (p.rv = shc.rv => UpToDate(p))
        /\ p.call = "add" /\ p.check \in recorded => p.rv < shc.rv
    BY DEF IInv, Delayed, Disarmed
  <2>3. UpToDate(p) => UpToDate(p)'
    BY DEF UpToDate
  <2> QED
    BY <2>1, <2>2, <2>3, <1>3
<1>6. EarlyUnrecorded'
  BY DEF IInv, EarlyUnrecorded
<1>7. HistoryRecorded' /\ RecordedNotActive' /\ LastResultIsHead'
  BY DEF IInv, HistoryRecorded, RecordedNotActive, LastResultIsHead
<1> QED
  BY <1>1, <1>2, <1>4, <1>5, <1>6, <1>7 DEF IInv

LEMMA FaultLemma ==
  ASSUME budget \in BudgetType, NEW kind, Fault(kind)
  PROVE  budget' \in BudgetType
BY DEF Fault, BudgetType

LEMMA InitInv == Init => IInv
<1> SUFFICES ASSUME Init PROVE IInv
  OBVIOUS
<1>1. NoTask \in Task /\ NoTask.pc = "idle" /\ NoTask.polls = 0 /\ MaxPolls \in Nat \ {0}
  BY RetryAssumption, BoundsAssumption, VerdictAssumption DEF NoTask, Task, Call
<1>2. <<>> \in Histories /\ Len(<<>>) = 0
  BY HistoryAssumption DEF Histories
<1>3. /\ task \in [Check -> Task]
      /\ \A c \in Check : task[c].pc = "idle" /\ PollsLeft(task[c])
      /\ limbo = {} /\ recorded = {} /\ shc.active = {} /\ shc.history = <<>>
  BY <1>1 DEF Init, PollsLeft
<1>4. TypeOK
  BY <1>2, <1>3 DEF Init, TypeOK, Phase, NoSnapshot
<1> QED
  BY <1>2, <1>3, <1>4 DEF IInv, Snapshots, Delayed, HistoryRecorded,
     EarlyUnrecorded, Disarmed, RecordedNotActive, LastResultIsHead

\* Execute, the HealthCheck and its watcher: no patch is sent.
LEMMA QuietSteps ==
  ASSUME IInv, NEW c \in Check,
         \/ Execute(c) \/ CreateHealthCheck(c) \/ GetUid(c) \/ ReadSchedule(c)
         \/ Poll(c) \/ WatchTimeout(c)
  PROVE  IInv'
<1> DEFINE t == task[c]
<1>1. /\ t \in Task /\ PollsLeft(t)
      /\ hc \in HcType /\ budget \in BudgetType /\ seen \in SeenType
      /\ task \in [Check -> Task]
  BY DEF IInv, TypeOK, HcType, BudgetType, SeenType
<1>2. /\ t.pc \in {"idle", "create", "uid", "read", "write", "poll", "done"}
      /\ t.call \in Call /\ t.polls \in 0..MaxPolls /\ t.late \in BOOLEAN
  BY <1>1 DEF Task
<1>3. NoTask \in Task /\ NoTask.late = FALSE /\ NoTask.polls = 0 /\ 0 \in 0..(MaxRetries - 1)
  BY RetryAssumption, BoundsAssumption, VerdictAssumption DEF NoTask, Task, Call
<1>4. TaskOK(Done(t)) /\ ~Early(Done(t)) /\ Done(t).pc # "write"
  <2>1. Done(t) \in Task /\ Done(t).pc = "done"
    BY <1>1, <1>2, <1>3 DEF Done, Task
  <2> QED
    BY <2>1 DEF TaskOK, PollsLeft, Early
<1>5. TaskOK(StartWatching(t)) /\ ~Early(StartWatching(t)) /\ StartWatching(t).pc # "write"
  <2>1. StartWatching(t) \in Task /\ StartWatching(t).pc = "poll"
    BY <1>3 DEF StartWatching, Task
  <2> QED
    BY <2>1 DEF TaskOK, PollsLeft, Early
<1>6. t.polls < MaxPolls =>
        TaskOK(NextPoll(t)) /\ ~Early(NextPoll(t)) /\ NextPoll(t).pc # "write"
  <2> SUFFICES ASSUME t.polls < MaxPolls
               PROVE  TaskOK(NextPoll(t)) /\ ~Early(NextPoll(t)) /\ NextPoll(t).pc # "write"
    OBVIOUS
  <2>1. PICK n \in 0..MaxPolls : n = t.polls + 1
    BY <1>2, BoundsAssumption
  <2>2. NextPoll(t) \in Task /\ NextPoll(t).pc = "poll"
    BY <1>3, <2>1 DEF NextPoll, Task
  <2> QED
    BY <2>2 DEF TaskOK, PollsLeft, Early
<1>7. ASSUME NEW call \in Call
      PROVE  /\ StartCall(t, call) \in Task
             /\ StartCall(t, call).pc = "read" /\ StartCall(t, call).call = call
             /\ StartCall(t, call).late = t.late /\ StartCall(t, call).polls = t.polls
  BY <1>1, <1>3 DEF StartCall, Task, Call
<1>8. CASE Execute(c)
  <2> DEFINE u == [t EXCEPT !.pc = "create"]
  <2>1. u \in Task /\ u.pc = "create" /\ u.polls = t.polls
    BY <1>1 DEF Task
  <2>2. TaskOK(u) /\ Goto(c, u) /\ t.pc = "idle"
    BY <2>1, <1>1, <1>8 DEF Execute, TaskOK, PollsLeft
  <2> HIDE DEF u
  <2> QED
    BY <2>1, <2>2, <1>1, <1>8, LocalStep DEF Execute, Early
<1>9. CASE CreateHealthCheck(c)
  <2>1. hc' \in HcType
    BY <1>1, <1>9 DEF CreateHealthCheck, HcType, Phase
  <2>2. budget' \in BudgetType /\ UNCHANGED <<shc, seen, limbo, recorded>> /\ t.pc = "create"
    BY <1>1, <1>9, FaultLemma DEF CreateHealthCheck
  <2>3. CASE Goto(c, Done(t))
    BY <2>1, <2>2, <2>3, <1>1, <1>4, LocalStep
  <2>4. CASE Goto(c, [t EXCEPT !.pc = "uid"])
    <3> DEFINE u == [t EXCEPT !.pc = "uid"]
    <3>1. u \in Task /\ u.pc = "uid" /\ u.polls = t.polls
      BY <1>1 DEF Task
    <3>2. TaskOK(u) /\ Goto(c, u) /\ Early(t)
      BY <3>1, <1>1, <2>2, <2>4 DEF TaskOK, PollsLeft, Early
    <3> HIDE DEF u
    <3> QED
      BY <3>1, <3>2, <2>1, <2>2, <1>1, LocalStep
  <2> QED
    BY <2>3, <2>4, <1>9 DEF CreateHealthCheck
<1>10. CASE GetUid(c)
  <2>1. /\ budget' \in BudgetType /\ UNCHANGED <<shc, hc, seen, limbo, recorded>>
        /\ t.pc = "uid"
    BY <1>1, <1>10, FaultLemma DEF GetUid
  <2>2. CASE Goto(c, StartWatching(t))
    BY <2>1, <2>2, <1>1, <1>5, LocalStep
  <2>3. CASE Goto(c, StartCall(t, "add"))
    <3>1. TaskOK(StartCall(t, "add")) /\ StartCall(t, "add").pc # "write" /\ Early(t)
      BY <2>1, <2>3, <1>1, <1>7 DEF TaskOK, PollsLeft, Early, Call
    <3> QED
      BY <3>1, <2>1, <2>3, <1>1, LocalStep
  <2> QED
    BY <2>2, <2>3, <1>10 DEF GetUid
<1>11. CASE ReadSchedule(c)
  <2>1. /\ budget' \in BudgetType /\ UNCHANGED <<shc, hc, limbo, recorded>> /\ t.pc = "read"
    BY <1>1, <1>11, FaultLemma DEF ReadSchedule
  <2>2. ASSUME NEW f \in {"gone", "error"}, Goto(c, Raised(t, f)), UNCHANGED seen
        PROVE  IInv'
    <3>1. TaskOK(Raised(t, f)) /\ ~Early(Raised(t, f)) /\ Raised(t, f).pc # "write"
      BY <2>1, <1>1, TaskLemma
    <3> QED
      BY <3>1, <2>1, <2>2, <1>1, LocalStep
  <2>3. CASE seen' = [seen EXCEPT ![c] = Snapshot(shc)] /\ Goto(c, [t EXCEPT !.pc = "write"])
    <3> DEFINE u == [t EXCEPT !.pc = "write"]
    <3>1. /\ u \in Task /\ u.pc = "write" /\ u.polls = t.polls /\ u.late = t.late
          /\ u.call = t.call
      BY <1>1 DEF Task
    <3>2. TaskOK(u) /\ (Early(u) => Early(t)) /\ Goto(c, u)
      BY <3>1, <1>1, <2>1, <2>3 DEF TaskOK, PollsLeft, Early
    <3>3. Snapshot(shc) \in [rv : Nat, active : SUBSET Check, history : Histories]
      BY DEF IInv, TypeOK, Snapshot
    <3>4. seen' \in SeenType /\ seen'[c] = Snapshot(shc) /\ \A d \in Check \ {c} : seen'[d] = seen[d]
      BY <3>3, <2>3, <1>1 DEF SeenType
    <3> HIDE DEF u
    <3> QED
      BY <3>1, <3>2, <3>4, <2>1, <1>1, LocalStep
  <2> QED
    BY <2>2, <2>3, <1>11 DEF ReadSchedule
<1>12. CASE Poll(c)
  <2>1. /\ budget' \in BudgetType /\ UNCHANGED <<shc, hc, seen, limbo, recorded>>
        /\ t.pc = "poll" /\ t.polls < MaxPolls
    BY <1>1, <1>12, FaultLemma DEF Poll
  <2>2. CASE Goto(c, NextPoll(t))
    BY <2>1, <2>2, <1>1, <1>6, LocalStep
  <2>3. CASE Goto(c, StartCall(t, "remove"))
    <3>1. TaskOK(StartCall(t, "remove")) /\ ~Early(StartCall(t, "remove"))
          /\ StartCall(t, "remove").pc # "write"
      BY <2>1, <1>7 DEF TaskOK, PollsLeft, Early, Call
    <3> QED
      BY <3>1, <2>1, <2>3, <1>1, LocalStep
  <2>4. CASE Goto(c, [StartCall(t, "move") EXCEPT !.verdict = ResultOf(c)])
    <3> DEFINE s == StartCall(t, "move")
               u == [s EXCEPT !.verdict = ResultOf(c)]
    <3>1. ResultOf(c) \in Verdict
      BY <1>1, VerdictAssumption DEF ResultOf, HcType
    <3>2. s \in Task /\ s.pc = "read" /\ s.call = "move" /\ s.polls = t.polls
      BY <1>7 DEF Call
    <3> HIDE DEF s
    <3>3. u \in Task /\ u.pc = "read" /\ u.call = "move" /\ u.polls = t.polls
      BY <3>1, <3>2 DEF Task
    <3>4. Goto(c, u)
      BY <2>4 DEF s
    <3> HIDE DEF u
    <3>5. TaskOK(u) /\ ~Early(u) /\ u.pc # "write"
      BY <3>3, <2>1 DEF TaskOK, PollsLeft, Early
    <3> QED
      BY <3>4, <3>5, <2>1, <1>1, LocalStep
  <2> QED
    BY <2>2, <2>3, <2>4, <1>12 DEF Poll
<1>13. CASE WatchTimeout(c)
  <2> DEFINE s == StartCall(t, "move")
             u == [s EXCEPT !.verdict = "error", !.late = TRUE]
  <2>1. s \in Task
    BY <1>7 DEF Call
  <2>2. s.pc = "read" /\ s.call = "move"
    BY <1>7 DEF Call
  <2>3. Goto(c, u) /\ UNCHANGED <<shc, hc, seen, limbo, recorded, budget>>
    BY <1>13 DEF WatchTimeout
  <2> HIDE DEF s
  <2>4. u \in Task /\ u.pc = "read" /\ u.call = "move" /\ u.late = TRUE
    BY <2>1, <2>2, VerdictAssumption DEF Task
  <2> HIDE DEF u
  <2>5. TaskOK(u) /\ ~Early(u) /\ u.pc # "write"
    BY <2>4 DEF TaskOK, PollsLeft, Early
  <2> QED
    BY <2>3, <2>5, <1>1, LocalStep
<1> QED
  BY <1>8, <1>9, <1>10, <1>11, <1>12, <1>13

\* The state after the server accepted p, whoever sent it.
LEMMA AcceptStep ==
  ASSUME IInv, NEW p \in Patch, Current(p), UpToDate(p), Apply(p),
         p.call = "add" => p.check \notin recorded,
         limbo' \subseteq limbo,
         hc' \in HcType, budget' \in BudgetType, seen' \in SeenType,
         task' \in [Check -> Task], \A d \in Check : PollsLeft(task'[d]),
         \A d \in Check : task'[d].pc = "write"
                            => task[d].pc = "write" /\ seen'[d] = seen[d],
         \A d \in Check : Early(task'[d])
                            => Early(task[d]) /\ (p.call = "move" => d # p.check)
  PROVE  IInv'
<1>1. /\ shc' \in Schedule
      /\ shc'.rv >= shc.rv
      /\ shc'.rv = shc.rv => shc' = shc
      /\ recorded' \subseteq Check /\ recorded \subseteq recorded'
      /\ recorded' \subseteq recorded \union {p.check}
      /\ p.call # "move" => recorded' = recorded
      /\ p.call = "move" /\ p.check \notin recorded => shc'.rv > shc.rv
      /\ HistoryRecorded' /\ RecordedNotActive' /\ LastResultIsHead'
  BY ApplyLemma
<1>2. /\ shc.rv \in Nat /\ shc'.rv \in Nat
      /\ limbo \subseteq Patch /\ \A q \in limbo : q.rv \in Nat
      /\ \A d \in Check : seen[d].rv \in Nat
  BY <1>1 DEF IInv, TypeOK, Schedule, Patch
<1>3. TypeOK'
  BY <1>1, <1>2 DEF TypeOK, Schedule, HcType, BudgetType, SeenType
<1>4. Snapshots'
  <2> SUFFICES ASSUME NEW d \in Check, task'[d].pc = "write"
               PROVE  /\ seen'[d].rv <= shc'.rv
                      /\ seen'[d].rv = shc'.rv => seen'[d] = Snapshot(shc)'
    BY DEF Snapshots
  <2>1. /\ seen'[d] = seen[d] /\ seen[d].rv <= shc.rv
        /\ seen[d].rv = shc.rv => seen[d] = Snapshot(shc)
    BY DEF IInv, Snapshots
  <2>2. CASE shc'.rv = shc.rv
    BY <2>1, <2>2, <1>1 DEF Snapshot
  <2>3. CASE shc'.rv # shc.rv
    BY <2>1, <2>3, <1>1, <1>2
  <2> QED
    BY <2>2, <2>3
<1>5. Delayed' /\ Disarmed'
  <2> SUFFICES ASSUME NEW q \in limbo'
               PROVE  /\ q.rv <= shc'.rv /\ (q.rv = shc'.rv => UpToDate(q)')
                      /\ q.call = "add" /\ q.check \in recorded' => q.rv < shc'.rv
    BY DEF Delayed, Disarmed
  <2>1. /\ q \in limbo /\ q.rv \in Nat
        /\ q.rv <= shc.rv /\ (q.rv = shc.rv => UpToDate(q))
        /\ q.call = "add" /\ q.check \in recorded => q.rv < shc.rv
    BY <1>2 DEF IInv, Delayed, Disarmed
  <2>2. q.rv = shc'.rv => UpToDate(q)'
    <3>1. CASE shc'.rv = shc.rv
      BY <2>1, <3>1, <1>1 DEF UpToDate
    <3>2. CASE shc'.rv # shc.rv
      BY <2>1, <3>2, <1>1, <1>2
    <3> QED
      BY <3>1, <3>2
  <2>3. q.call = "add" /\ q.check \in recorded' => q.rv < shc'.rv
    BY <2>1, <1>1, <1>2
  <2> QED
    BY <2>1, <2>2, <2>3, <1>1, <1>2
<1>6. EarlyUnrecorded'
  BY <1>1 DEF IInv, EarlyUnrecorded
<1> QED
  BY <1>1, <1>3, <1>4, <1>5, <1>6 DEF IInv

\* A step that adds to limbo patches of coroutines that were about to send them.
LEMMA GiveUpStep ==
  ASSUME IInv, UNCHANGED <<shc, recorded>>,
         hc' \in HcType, budget' \in BudgetType, seen' \in SeenType,
         task' \in [Check -> Task], \A d \in Check : PollsLeft(task'[d]),
         \A d \in Check : task'[d].pc = "write"
                            => task[d].pc = "write" /\ seen'[d] = seen[d],
         \A d \in Check : Early(task'[d]) => Early(task[d]),
         \A q \in limbo' : \/ q \in limbo
                           \/ \E c \in Check : /\ task[c].pc = "write" /\ ~Early(task'[c])
                                               /\ q = PatchOf(c)
  PROVE  IInv'
<1>1. ASSUME NEW q \in limbo'
      PROVE  /\ q \in Patch /\ q.rv <= shc.rv /\ (q.rv = shc.rv => UpToDate(q))
             /\ q.call = "add" /\ q.check \in recorded => q.rv < shc.rv
             /\ \A d \in Check : Early(task'[d]) /\ q.check = d => q.call # "move"
  <2>1. CASE q \in limbo
    BY <2>1 DEF IInv, TypeOK, Delayed, Disarmed, EarlyUnrecorded
  <2>2. CASE \E c \in Check : /\ task[c].pc = "write" /\ ~Early(task'[c])
                              /\ q = PatchOf(c)
    <3>1. PICK c \in Check : /\ task[c].pc = "write" /\ ~Early(task'[c])
                             /\ q = PatchOf(c)
      BY <2>2
    <3>2. /\ q \in Patch /\ q.check = c /\ q.call = task[c].call
          /\ q.rv <= shc.rv /\ (q.rv = shc.rv => UpToDate(q))
      BY <3>1, PatchLemma DEF IInv
    <3>3. q.call = "add" => c \notin recorded
      BY <3>1, <3>2 DEF IInv, EarlyUnrecorded, Early
    <3> QED
      BY <3>1, <3>2, <3>3
  <2> QED
    BY <2>1, <2>2
<1>2. TypeOK'
  BY <1>1 DEF IInv, TypeOK, HcType, BudgetType, SeenType
<1>3. Snapshots'
  BY DEF IInv, Snapshots, Snapshot
<1>4. Delayed' /\ Disarmed'
  BY <1>1 DEF Delayed, Disarmed, UpToDate
<1>5. EarlyUnrecorded'
  BY <1>1 DEF IInv, EarlyUnrecorded
<1>6. HistoryRecorded' /\ RecordedNotActive' /\ LastResultIsHead'
  BY DEF IInv, HistoryRecorded, RecordedNotActive, LastResultIsHead
<1> QED
  BY <1>2, <1>3, <1>4, <1>5, <1>6 DEF IInv

\* The PATCH of a coroutine, with each of its outcomes.
LEMMA WriteStep == ASSUME IInv, NEW c \in Check, WriteSchedule(c) PROVE IInv'
<1> DEFINE t == task[c]
           p == PatchOf(c)
<1>1. /\ t \in Task /\ PollsLeft(t) /\ t.pc = "write"
      /\ hc' \in HcType /\ budget \in BudgetType /\ seen \in SeenType
      /\ task \in [Check -> Task] /\ \A d \in Check : PollsLeft(task[d])
  BY DEF IInv, TypeOK, HcType, BudgetType, SeenType, WriteSchedule
<1>2. /\ p \in Patch /\ p.check = c /\ p.call = t.call
      /\ p.rv = shc.rv => UpToDate(p)
  BY <1>1, PatchLemma DEF IInv
<1>3. p.call = "add" => c \notin recorded
  BY <1>1, <1>2 DEF IInv, EarlyUnrecorded, Early
<1>4. /\ seen' \in SeenType
      /\ \A d \in Check \ {c} : seen'[d] = seen[d]
  <2>1. NoSnapshot \in [rv : Nat, active : SUBSET Check, history : Histories]
    BY HistoryAssumption DEF NoSnapshot, Histories
  <2> QED
    BY <2>1, <1>1 DEF WriteSchedule, SeenType
<1>5. budget' \in BudgetType
  BY <1>1, FaultLemma DEF WriteSchedule
<1>6. ASSUME NEW u, Goto(c, u), TaskOK(u), u.pc # "write", Early(u) => Early(t)
      PROVE  /\ task' \in [Check -> Task] /\ \A d \in Check : PollsLeft(task'[d])
             /\ task'[c] = u
             /\ \A d \in Check : task'[d].pc = "write" => task[d].pc = "write" /\ seen'[d] = seen[d]
             /\ \A d \in Check : Early(task'[d]) => Early(task[d])
  <2>1. task' = [task EXCEPT ![c] = u] /\ u \in Task /\ PollsLeft(u)
    BY <1>6 DEF Goto, TaskOK
  <2>2. task' \in [Check -> Task] /\ task'[c] = u /\ \A d \in Check \ {c} : task'[d] = task[d]
    BY <2>1, <1>1
  <2> QED
    BY <2>1, <2>2, <1>1, <1>4, <1>6
<1>7. /\ TaskOK(Returned(t)) /\ ~Early(Returned(t)) /\ Returned(t).pc # "write"
      /\ \A f \in {"gone", "error"} :
           TaskOK(Raised(t, f)) /\ ~Early(Raised(t, f)) /\ Raised(t, f).pc # "write"
      /\ TaskOK(Conflicted(t)) /\ Conflicted(t).pc # "write"
      /\ Early(Conflicted(t)) => Early(t)
  BY <1>1, TaskLemma
<1> HIDE DEF t, p
\* The server accepts the patch; the coroutine may or may not learn of it.
<1>8. ASSUME NEW u, Goto(c, u), TaskOK(u), u.pc # "write", ~Early(u),
             Current(p), Apply(p), limbo' = limbo
      PROVE  IInv'
  <2>1. /\ task' \in [Check -> Task] /\ \A d \in Check : PollsLeft(task'[d])
        /\ task'[c] = u
        /\ \A d \in Check : task'[d].pc = "write" => task[d].pc = "write" /\ seen'[d] = seen[d]
        /\ \A d \in Check : Early(task'[d]) => Early(task[d])
    BY <1>6, <1>8
  <2>2. UpToDate(p) /\ limbo' \subseteq limbo
    BY <1>2, <1>8 DEF Current
  <2>3. \A d \in Check : Early(task'[d]) => Early(task[d]) /\ (p.call = "move" => d # p.check)
    BY <2>1, <1>2, <1>8
  <2> QED
    BY <2>1, <2>2, <2>3, <1>1, <1>2, <1>3, <1>4, <1>5, <1>8, AcceptStep
\* The patch is not accepted.
<1>9. ASSUME NEW u, Goto(c, u), TaskOK(u), u.pc # "write", Early(u) => Early(t),
             UNCHANGED <<shc, recorded>>,
             limbo' = limbo \/ (limbo' = limbo \union {p} /\ ~Early(u))
      PROVE  IInv'
  <2>1. /\ task' \in [Check -> Task] /\ \A d \in Check : PollsLeft(task'[d])
        /\ task'[c] = u
        /\ \A d \in Check : task'[d].pc = "write" => task[d].pc = "write" /\ seen'[d] = seen[d]
        /\ \A d \in Check : Early(task'[d]) => Early(task[d])
    BY <1>6, <1>9
  <2>2. \A q \in limbo' : \/ q \in limbo
                          \/ \E d \in Check : /\ task[d].pc = "write" /\ ~Early(task'[d])
                                              /\ q = PatchOf(d)
    BY <2>1, <1>1, <1>9 DEF p, t
  <2> QED
    BY <2>1, <2>2, <1>1, <1>4, <1>5, <1>9, GiveUpStep
<1>10. CASE Current(p) /\ Apply(p) /\ Goto(c, Returned(t)) /\ UNCHANGED <<limbo, budget>>
  BY <1>7, <1>8, <1>10
<1>11. CASE Goto(c, Conflicted(t)) /\ UNCHANGED <<shc, recorded, limbo, budget>>
  BY <1>7, <1>9, <1>11
<1>12. CASE Goto(c, Raised(t, "gone")) /\ UNCHANGED <<shc, recorded, limbo, budget>>
  BY <1>7, <1>9, <1>12
<1>13. CASE Goto(c, Raised(t, "error")) /\ UNCHANGED <<shc, recorded, limbo>>
  BY <1>7, <1>9, <1>13
<1>14. CASE Current(p) /\ Apply(p) /\ Goto(c, Raised(t, "error")) /\ UNCHANGED limbo
  BY <1>7, <1>8, <1>14
<1>15. CASE limbo' = limbo \union {p} /\ Goto(c, Raised(t, "error")) /\ UNCHANGED <<shc, recorded>>
  BY <1>7, <1>9, <1>15
<1> QED
  BY <1>10, <1>11, <1>12, <1>13, <1>14, <1>15 DEF WriteSchedule, t, p

LEMMA LimboStep == ASSUME IInv, NEW p \in limbo, LimboArrives(p) PROVE IInv'
<1>1. /\ p \in Patch /\ (p.rv = shc.rv => UpToDate(p))
      /\ p.call = "add" /\ p.check \in recorded => p.rv < shc.rv
      /\ p.rv \in Nat /\ shc.rv \in Nat
      /\ limbo' = limbo \ {p} /\ UNCHANGED <<hc, task, seen, budget>>
      /\ hc \in HcType /\ budget \in BudgetType /\ seen \in SeenType
      /\ task \in [Check -> Task] /\ \A d \in Check : PollsLeft(task[d])
  BY DEF IInv, TypeOK, Delayed, Disarmed, LimboArrives, Patch, HcType, BudgetType, SeenType
<1>2. CASE Current(p) /\ Apply(p)
  <2>1. UpToDate(p) /\ (p.call = "add" => p.check \notin recorded)
    BY <1>1, <1>2 DEF Current
  <2>2. \A d \in Check : Early(task'[d])
                            => Early(task[d]) /\ (p.call = "move" => d # p.check)
    BY <1>1 DEF IInv, EarlyUnrecorded
  <2> QED
    BY <1>1, <1>2, <2>1, <2>2, AcceptStep
<1>3. CASE UNCHANGED <<shc, recorded>>
  BY <1>1, <1>3, GiveUpStep
<1> QED
  BY <1>2, <1>3 DEF LimboArrives

LEMMA CrashStep == ASSUME IInv, Crash PROVE IInv'
<1>1. /\ hc \in HcType /\ budget \in BudgetType /\ task \in [Check -> Task]
      /\ \A d \in Check : PollsLeft(task[d])
      /\ UNCHANGED <<shc, hc, recorded>>
  BY DEF IInv, TypeOK, HcType, BudgetType, Crash
<1>2. ASSUME NEW d \in Check
      PROVE  Done(task[d]) \in Task /\ Done(task[d]).pc = "done"
  <2>1. NoTask \in Task /\ task[d].late \in BOOLEAN
    BY <1>1, RetryAssumption, BoundsAssumption, VerdictAssumption DEF NoTask, Task, Call
  <2> QED
    BY <2>1 DEF Done, Task
<1>3. /\ task' \in [Check -> Task]
      /\ \A d \in Check : task'[d] = IF task[d].pc = "idle" THEN task[d] ELSE Done(task[d])
  BY <1>1, <1>2 DEF Crash
<1>4. /\ \A d \in Check : PollsLeft(task'[d])
      /\ \A d \in Check : Early(task'[d]) => Early(task[d])
      /\ \A d \in Check : task'[d].pc # "write"
      /\ \A d \in Check : task[d].pc = "write" => ~Early(task'[d])
  BY <1>1, <1>2, <1>3 DEF PollsLeft, Early
<1>5. budget' \in BudgetType
  BY <1>1 DEF Crash, BudgetType
<1>6. seen' \in SeenType
  <2>1. NoSnapshot \in [rv : Nat, active : SUBSET Check, history : Histories]
    BY HistoryAssumption DEF NoSnapshot, Histories
  <2> QED
    BY <2>1 DEF Crash, SeenType
<1>7. \A q \in limbo' : \/ q \in limbo
                        \/ \E d \in Check : /\ task[d].pc = "write" /\ ~Early(task'[d])
                                            /\ q = PatchOf(d)
  BY <1>4 DEF Crash
<1> QED
  BY <1>1, <1>3, <1>4, <1>5, <1>6, <1>7, GiveUpStep

\* The HealthCheck resources, other writers of the schedule, its deletion.
LEMMA WorldStep ==
  ASSUME IInv,
         \/ \E c \in Check : \/ CheckReruns(c) \/ CheckDeleted(c)
                             \/ \E r \in Verdict : CheckFinishes(c, r)
         \/ EditSchedule \/ DeleteSchedule
  PROVE  IInv'
<1>1. hc \in HcType /\ budget \in BudgetType /\ shc \in Schedule
  BY DEF IInv, TypeOK, HcType, BudgetType, Schedule
<1>2. UNCHANGED <<task, seen, limbo, recorded>>
  BY DEF CheckReruns, CheckDeleted, CheckFinishes, EditSchedule, DeleteSchedule
<1>3. CASE \E c \in Check : CheckReruns(c)
  BY <1>1, <1>2, <1>3, OutsideStep DEF CheckReruns, HcType, BudgetType, Phase, Schedule
<1>4. CASE \E c \in Check : CheckDeleted(c)
  BY <1>1, <1>2, <1>4, OutsideStep DEF CheckDeleted, HcType, Phase, Schedule
<1>5. CASE \E c \in Check, r \in Verdict : CheckFinishes(c, r)
  <2>1. PICK c \in Check, r \in Verdict : CheckFinishes(c, r)
    BY <1>5
  <2>2. PICK old \in SUBSET Verdict : old = hc[c].reported
    BY <1>1 DEF HcType
  <2>3. [phase |-> "finished", result |-> r, reported |-> old \union {r}]
          \in [phase : Phase, result : Verdict \union {"unset"}, reported : SUBSET Verdict]
    BY DEF Phase
  <2>4. hc' \in HcType
    BY <1>1, <2>1, <2>2, <2>3 DEF CheckFinishes, HcType
  <2> QED
    BY <1>1, <1>2, <2>1, <2>4, OutsideStep DEF CheckFinishes, Schedule
<1>6. CASE EditSchedule
  BY <1>1, <1>2, <1>6, OutsideStep DEF EditSchedule, BudgetType, Schedule
<1>7. CASE DeleteSchedule
  <2>1. PICK no \in BOOLEAN : no = FALSE
    OBVIOUS
  <2>2. shc' = [shc EXCEPT !.exists = no] /\ UNCHANGED <<hc, budget>>
    BY <1>7, <2>1 DEF DeleteSchedule
  <2>3. /\ shc' \in Schedule
        /\ shc'.active = shc.active /\ shc'.history = shc.history
        /\ shc'.lastResult = shc.lastResult /\ shc'.rv = shc.rv
        /\ shc.rv \in Nat
    BY <1>1, <2>2, SMT DEF Schedule
  <2>4. shc'.rv >= shc.rv /\ hc' \in HcType /\ budget' \in BudgetType
    BY <1>1, <2>2, <2>3
  <2> QED
    BY <1>2, <2>3, <2>4, OutsideStep
<1> QED
  BY <1>3, <1>4, <1>5, <1>6, <1>7
-----------------------------------------------------------------------------
(* The results in history are real: the invariant, on top of IInv *)

\* Whether v is a true result of a check in state h whose coroutine is at t.
Real(v, h, t) == v \in h.reported \/ (v = "error" /\ t.late)

Moving(t) == t.pc \in {"read", "write"} /\ t.call = "move"

\* A watcher that timed out makes its last move and its cleanup, no more.
LateLast(t) ==
  t.late => t.pc = "done" \/ (t.pc \in {"read", "write"} /\ t.call \in {"move", "cleanup"})

FinishedReported ==
  \A c \in Check : hc[c].phase = "finished" => hc[c].result \in hc[c].reported

\* Real results only, on their whole way: in the coroutine, in a delayed
\* PATCH and in the history.
RealInv ==
  /\ FinishedReported
  /\ \A c \in Check : LateLast(task[c])
  /\ \A c \in Check : Moving(task[c]) => Real(task[c].verdict, hc[c], task[c])
  /\ \A p \in limbo : p.call = "move" => Real(p.verdict, hc[p.check], task[p.check])
  /\ ResultsAreReal

\* From t to u the coroutine stays late and takes up no new verdict.
Follows(t, u) ==
  /\ t.late => u.late
  /\ LateLast(u)
  /\ Moving(u) => Moving(t) /\ u.verdict = t.verdict

\* The control-flow functions follow the task they are applied to.
LEMMA FollowLemma ==
  ASSUME NEW t \in Task, LateLast(t)
  PROVE  /\ Follows(t, Done(t))
         /\ ~t.late => Follows(t, StartWatching(t)) /\ Follows(t, NextPoll(t))
         /\ ~t.late => \A call \in {"add", "remove"} : Follows(t, StartCall(t, call))
         /\ t.pc \in {"read", "write"} =>
              /\ Follows(t, Returned(t)) /\ Follows(t, Conflicted(t))
              /\ \A f \in {"gone", "error"} : Follows(t, Raised(t, f))
<1> USE DEF Follows, Moving, LateLast
<1>1. /\ t.pc \in {"idle", "create", "uid", "read", "write", "poll", "done"}
      /\ t.call \in Call /\ t.late \in BOOLEAN /\ t.failure \in {"gone", "error"}
      /\ DOMAIN t = {"pc", "call", "attempt", "polls", "late", "verdict", "failure"}
  BY DEF Task
<1>2. Follows(t, Done(t))
  BY <1>1 DEF Done, NoTask
<1>3. ~t.late => Follows(t, StartWatching(t)) /\ Follows(t, NextPoll(t))
  BY <1>1 DEF StartWatching, NextPoll, NoTask
<1>4. ASSUME NEW call
      PROVE  /\ StartCall(t, call).pc = "read" /\ StartCall(t, call).call = call
             /\ StartCall(t, call).late = t.late
  BY <1>1 DEF StartCall, Task
<1>5. ~t.late => \A call \in {"add", "remove"} : Follows(t, StartCall(t, call))
  BY <1>4
<1>6. ASSUME t.pc \in {"read", "write"}, t.call = "cleanup"
      PROVE  Follows(t, Reraised(t))
  BY <1>1, <1>2, <1>3, <1>5, <1>6 DEF Reraised
<1>7. ASSUME t.pc \in {"read", "write"}
      PROVE  Follows(t, Returned(t))
  BY <1>1, <1>2, <1>3, <1>6, <1>7 DEF Returned, Call
<1>8. ASSUME t.pc \in {"read", "write"}, NEW f \in {"gone", "error"}
      PROVE  Follows(t, Raised(t, f))
  <2>1. CASE t.call = "move"
    <3> DEFINE s == StartCall(t, "cleanup")
    <3>1. Raised(t, f) = [s EXCEPT !.failure = f]
      BY <2>1 DEF Raised
    <3>2. s.pc = "read" /\ s.call = "cleanup" /\ s.late = t.late
      BY <1>4
    <3>3. DOMAIN s = DOMAIN t
      BY <1>1 DEF StartCall, Task
    <3> HIDE DEF s
    <3>4. /\ Raised(t, f).pc = s.pc /\ Raised(t, f).call = s.call
          /\ Raised(t, f).late = s.late
      BY <3>1, <3>3, <1>1
    <3> QED
      BY <3>2, <3>4
  <2>2. CASE t.call # "move"
    BY <2>2, <1>1, <1>2, <1>3, <1>6, <1>8 DEF Raised, Call
  <2> QED
    BY <2>1, <2>2
<1>9. ASSUME t.pc \in {"read", "write"}
      PROVE  Follows(t, Conflicted(t))
  <2>1. CASE t.attempt + 1 = MaxRetries
    BY <2>1, <1>8, <1>9 DEF Conflicted
  <2>2. CASE t.attempt + 1 # MaxRetries
    <3>1. Conflicted(t) = [t EXCEPT !.pc = "read", !.attempt = t.attempt + 1]
      BY <2>2 DEF Conflicted
    <3>2. /\ Conflicted(t).pc = "read" /\ Conflicted(t).call = t.call
          /\ Conflicted(t).late = t.late /\ Conflicted(t).verdict = t.verdict
      BY <3>1, <1>1 DEF Task
    <3> QED
      BY <3>2, <1>9
  <2> QED
    BY <2>1, <2>2
<1> QED
  BY <1>2, <1>3, <1>5, <1>7, <1>8, <1>9

\* What was real stays real, and so does the history that gains a real entry.
LEMMA RealStep ==
  ASSUME IInv, RealInv,
         FinishedReported',
         \A c \in Check : hc[c].reported \subseteq hc'[c].reported,
         \A c \in Check : task[c].late => task'[c].late,
         \A c \in Check : LateLast(task'[c]),
         \A c \in Check : Moving(task'[c]) => Real(task'[c].verdict, hc'[c], task'[c]),
         \A p \in limbo' : \/ p \in limbo
                           \/ \E c \in Check : task[c].pc = "write" /\ p = PatchOf(c),
         \/ shc'.history = shc.history
         \/ \E c \in Check, v \in Verdict :
              /\ Real(v, hc[c], task[c])
              /\ shc'.history = Push([check |-> c, result |-> v], shc.history)
  PROVE  RealInv'
<1>1. ASSUME NEW c \in Check, NEW v, Real(v, hc[c], task[c])
      PROVE  Real(v, hc'[c], task'[c])
  BY <1>1 DEF Real
<1>2. ASSUME NEW p \in limbo', p.call = "move"
      PROVE  Real(p.verdict, hc'[p.check], task'[p.check])
  <2>1. CASE p \in limbo
    BY <2>1, <1>1, <1>2 DEF RealInv, IInv, TypeOK, Patch
  <2>2. CASE \E c \in Check : task[c].pc = "write" /\ p = PatchOf(c)
    <3>1. PICK c \in Check : task[c].pc = "write" /\ p = PatchOf(c)
      BY <2>2
    <3>2. p.check = c /\ p.call = task[c].call /\ p.verdict = task[c].verdict
      BY <3>1 DEF PatchOf
    <3>3. Real(task[c].verdict, hc[c], task[c])
      BY <3>1, <3>2, <1>2 DEF RealInv, Moving
    <3> QED
      BY <3>2, <3>3, <1>1
  <2> QED
    BY <2>1, <2>2
<1>3. ASSUME NEW i \in 1..Len(shc.history)
      PROVE  /\ shc.history[i].check \in Check
             /\ Real(shc.history[i].result, hc[shc.history[i].check], task[shc.history[i].check])
  <2>1. shc.history \in Seq(Entry)
    BY DEF IInv, TypeOK, Histories
  <2>2. shc.history[i] \in Entry
    BY <2>1
  <2> QED
    BY <2>2 DEF RealInv, ResultsAreReal, Real, Entry
<1>4. ASSUME NEW i \in 1..Len(shc'.history)
      PROVE  Real(shc'.history[i].result, hc'[shc'.history[i].check], task'[shc'.history[i].check])
  <2>1. CASE shc'.history = shc.history
    BY <2>1, <1>1, <1>3
  <2>2. CASE \E c \in Check, v \in Verdict :
               /\ Real(v, hc[c], task[c])
               /\ shc'.history = Push([check |-> c, result |-> v], shc.history)
    <3>1. PICK c \in Check, v \in Verdict :
                 /\ Real(v, hc[c], task[c])
                 /\ shc'.history = Push([check |-> c, result |-> v], shc.history)
      BY <2>2
    <3> DEFINE e == [check |-> c, result |-> v]
               h == shc'.history
    <3>2. e \in Entry /\ shc.history \in Histories
      BY DEF Entry, IInv, TypeOK
    <3>3. /\ Len(h) = IF Len(shc.history) < MaxHistory
                      THEN Len(shc.history) + 1 ELSE Len(shc.history)
          /\ h[1] = e
          /\ \A j \in 2..Len(h) : h[j] = shc.history[j - 1]
      <4>1. h = Push(e, shc.history)
        BY <3>1
      <4> HIDE DEF e, h
      <4>2. /\ Len(Push(e, shc.history))
                 = IF Len(shc.history) < MaxHistory THEN Len(shc.history) + 1 ELSE Len(shc.history)
            /\ Push(e, shc.history)[1] = e
            /\ \A j \in 2..Len(Push(e, shc.history)) : Push(e, shc.history)[j] = shc.history[j - 1]
        BY ONLY <3>2, PushLemma, Zenon
      <4> QED
        BY ONLY <4>1, <4>2, Zenon
    <3>4. Len(shc.history) \in Nat
      BY <3>2 DEF Histories
    <3> HIDE DEF h
    <3>5. CASE i = 1
      <4>1. h[i].check = c /\ h[i].result = v
        BY <3>3, <3>5
      <4> QED
        BY <4>1, <3>1, <1>1 DEF h
    <3>6. CASE i # 1
      <4>1. i \in 2..Len(h) /\ i - 1 \in 1..Len(shc.history)
        BY <3>3, <3>4, <3>6, <1>4 DEF h
      <4>2. h[i] = shc.history[i - 1]
        BY <4>1, <3>3
      <4> QED
        BY <4>1, <4>2, <1>1, <1>3 DEF h
    <3> QED
      BY <3>5, <3>6
  <2> QED
    BY <2>1, <2>2
<1>5. ResultsAreReal'
  BY <1>4 DEF ResultsAreReal, Real
<1> QED
  BY <1>2, <1>5 DEF RealInv

\* A step of one coroutine that takes up no new verdict and sends its own
\* patch or none.
LEMMA FollowStep ==
  ASSUME IInv, RealInv, NEW c \in Check, NEW t, Goto(c, t), Follows(task[c], t),
         FinishedReported',
         \A d \in Check : hc[d].reported \subseteq hc'[d].reported,
         \A p \in limbo' : p \in limbo \/ (task[c].pc = "write" /\ p = PatchOf(c)),
         \/ shc'.history = shc.history
         \/ \E v \in Verdict :
              /\ Real(v, hc[c], task[c])
              /\ shc'.history = Push([check |-> c, result |-> v], shc.history)
  PROVE  RealInv'
<1>1. task'[c] = t /\ \A d \in Check \ {c} : task'[d] = task[d]
  BY DEF Goto, IInv, TypeOK
<1>2. \A d \in Check : (task[d].late => task'[d].late) /\ LateLast(task'[d])
  BY <1>1 DEF Follows, RealInv
<1>3. ASSUME NEW d \in Check, Moving(task'[d])
      PROVE  Real(task'[d].verdict, hc'[d], task'[d])
  <2>1. Moving(task[d]) /\ task'[d].verdict = task[d].verdict
    BY <1>1, <1>3 DEF Follows
  <2>2. Real(task[d].verdict, hc[d], task[d])
    BY <2>1 DEF RealInv
  <2> QED
    BY <2>1, <2>2, <1>2 DEF Real
<1> QED
  BY <1>2, <1>3, RealStep

\* The verdict of a finished check is one it reported.
LEMMA ResultLemma ==
  ASSUME IInv, RealInv, NEW c \in Check, HasFinished(c)
  PROVE  ResultOf(c) \in hc[c].reported
<1>1. hc[c].result \in hc[c].reported /\ hc[c].reported \subseteq Verdict
  BY DEF RealInv, FinishedReported, HasFinished, IInv, TypeOK
<1> QED
  BY <1>1, VerdictAssumption DEF ResultOf

\* A check that stops being finished keeps what it reported.
LEMMA UnfinishedLemma ==
  ASSUME IInv, RealInv, NEW c \in Check, NEW phase \in {"unfinished", "gone"},
         hc' = [hc EXCEPT ![c].phase = phase]
  PROVE  /\ \A d \in Check : hc[d].reported \subseteq hc'[d].reported
         /\ FinishedReported'
<1>1. hc \in HcType
  BY DEF IInv, TypeOK, HcType
<1>2. /\ \A d \in Check \ {c} : hc'[d] = hc[d]
      /\ hc'[c].phase = phase /\ hc'[c].reported = hc[c].reported
  BY <1>1 DEF HcType
<1>3. \A d \in Check : hc[d].reported \subseteq hc'[d].reported
  BY <1>2
<1>4. FinishedReported'
  BY <1>2 DEF RealInv, FinishedReported
<1> QED
  BY <1>3, <1>4

\* Execute, the HealthCheck and its watcher.
LEMMA RealQuiet ==
  ASSUME IInv, RealInv, NEW c \in Check,
         \/ Execute(c) \/ CreateHealthCheck(c) \/ GetUid(c) \/ ReadSchedule(c)
         \/ Poll(c) \/ WatchTimeout(c)
  PROVE  RealInv'
<1> DEFINE t == task[c]
<1>1. t \in Task /\ LateLast(t) /\ UNCHANGED <<shc, limbo>>
  BY DEF IInv, TypeOK, RealInv, Execute, CreateHealthCheck, GetUid, ReadSchedule, Poll,
         WatchTimeout
<1>2. /\ \A d \in Check : hc[d].reported \subseteq hc'[d].reported
      /\ FinishedReported'
  <2>1. CASE UNCHANGED hc
    BY <2>1 DEF RealInv, FinishedReported
  <2>2. CASE hc' = [hc EXCEPT ![c].phase = "unfinished"]
    BY <2>2, UnfinishedLemma
  <2> QED
    BY <2>1, <2>2 DEF Execute, CreateHealthCheck, GetUid, ReadSchedule, Poll, WatchTimeout
<1>3. ASSUME NEW u, Goto(c, u), Follows(t, u)
      PROVE  RealInv'
  BY <1>1, <1>2, <1>3, FollowStep
<1>4. ASSUME NEW u, NEW pc \in {"create", "uid", "write"}, u = [t EXCEPT !.pc = pc], Goto(c, u),
             t.pc \in {"idle", "create", "read"}, pc = "write" <=> t.pc = "read"
      PROVE  RealInv'
  <2>1. u.pc = pc /\ u.call = t.call /\ u.late = t.late /\ u.verdict = t.verdict
    BY <1>1, <1>4 DEF Task
  <2>2. Follows(t, u)
    <3>1. CASE t.pc = "read"
      BY <3>1, <2>1, <1>1, <1>4 DEF Follows, LateLast, Moving
    <3>2. CASE t.pc # "read"
      BY <3>2, <2>1, <1>1, <1>4 DEF Follows, LateLast, Moving
    <3> QED
      BY <3>1, <3>2
  <2> QED
    BY <2>2, <1>3, <1>4
<1>5. CASE Execute(c)
  BY <1>5, <1>4 DEF Execute
<1>6. CASE CreateHealthCheck(c)
  BY <1>6, <1>1, <1>3, <1>4, FollowLemma DEF CreateHealthCheck
<1>7. CASE GetUid(c)
  <2>1. ~t.late
    BY <1>7, <1>1 DEF GetUid, LateLast
  <2> QED
    BY <2>1, <1>7, <1>1, <1>3, FollowLemma DEF GetUid
<1>8. CASE ReadSchedule(c)
  BY <1>8, <1>1, <1>3, <1>4, FollowLemma DEF ReadSchedule
\* The two steps that take up a verdict.
<1>9. ASSUME NEW u, Goto(c, u), LateLast(u), t.late => u.late,
             u.verdict \in hc[c].reported \/ (u.verdict = "error" /\ u.late), UNCHANGED hc
      PROVE  RealInv'
  <2>1. task'[c] = u /\ \A d \in Check \ {c} : task'[d] = task[d]
    BY <1>9 DEF Goto, IInv, TypeOK
  <2>2. \A d \in Check : Moving(task'[d]) => Real(task'[d].verdict, hc'[d], task'[d])
    BY <2>1, <1>9 DEF RealInv, Real
  <2>3. \A d \in Check : (task[d].late => task'[d].late) /\ LateLast(task'[d])
    BY <2>1, <1>9 DEF RealInv
  <2> QED
    BY <2>2, <2>3, <1>1, <1>2, RealStep
<1>10. /\ StartCall(t, "move").pc = "read" /\ StartCall(t, "move").call = "move"
       /\ StartCall(t, "move").late = t.late /\ DOMAIN StartCall(t, "move") = DOMAIN t
       /\ DOMAIN t = {"pc", "call", "attempt", "polls", "late", "verdict", "failure"}
  BY <1>1 DEF StartCall, Task
<1>11. CASE Poll(c)
  <2>1. ~t.late
    BY <1>11, <1>1 DEF Poll, LateLast
  <2>2. CASE Goto(c, NextPoll(t)) \/ Goto(c, StartCall(t, "remove"))
    BY <2>1, <2>2, <1>1, <1>3, FollowLemma
  <2>3. CASE HasFinished(c) /\ Goto(c, [StartCall(t, "move") EXCEPT !.verdict = ResultOf(c)])
    <3> DEFINE s == StartCall(t, "move")
               u == [s EXCEPT !.verdict = ResultOf(c)]
    <3> HIDE DEF s
    <3>1. u.verdict = ResultOf(c) /\ u.late = s.late
      BY <1>10 DEF s
    <3>2. ResultOf(c) \in hc[c].reported
      BY <2>3, ResultLemma
    <3>3. Goto(c, u) /\ UNCHANGED hc
      BY <2>3, <1>11 DEF s, Poll
    <3>4. ~u.late /\ s.late = t.late
      BY <3>1, <2>1, <1>10 DEF s
    <3> HIDE DEF u
    <3> QED
      BY <3>1, <3>2, <3>3, <3>4, <2>1, <1>9 DEF LateLast
  <2> QED
    BY <2>2, <2>3, <1>11 DEF Poll
<1>12. CASE WatchTimeout(c)
  <2> DEFINE s == StartCall(t, "move")
             u == [s EXCEPT !.verdict = "error", !.late = TRUE]
  <2>1. Goto(c, u) /\ UNCHANGED hc
    BY <1>12 DEF WatchTimeout
  <2> HIDE DEF s
  <2>2. u.verdict = "error" /\ u.late = TRUE /\ u.pc = s.pc /\ u.call = s.call
    BY <1>10 DEF s
  <2>3. u.pc = "read" /\ u.call = "move"
    BY <2>2, <1>10 DEF s
  <2> HIDE DEF u
  <2> QED
    BY <2>1, <2>2, <2>3, <1>9 DEF LateLast
<1> QED
  BY <1>5, <1>6, <1>7, <1>8, <1>11, <1>12

\* What an accepted patch does to the history.
LEMMA RealAccept ==
  ASSUME IInv, NEW p \in Patch, UpToDate(p), Apply(p)
  PROVE  \/ shc'.history = shc.history
         \/ /\ p.call = "move"
            /\ shc'.history = Push([check |-> p.check, result |-> p.verdict], shc.history)
<1>1. shc'.history = IF p.call = "move" THEN p.history ELSE shc.history
  BY MergedLemma DEF IInv, Apply
<1> QED
  BY <1>1 DEF UpToDate, NewHistory

LEMMA RealWrite ==
  ASSUME IInv, RealInv, NEW c \in Check, WriteSchedule(c)
  PROVE  RealInv'
<1> DEFINE t == task[c]
           p == PatchOf(c)
<1>1. t \in Task /\ LateLast(t) /\ t.pc = "write" /\ UNCHANGED hc
  BY DEF IInv, TypeOK, RealInv, WriteSchedule
<1>2. /\ Follows(t, Returned(t)) /\ Follows(t, Conflicted(t))
      /\ \A f \in {"gone", "error"} : Follows(t, Raised(t, f))
  BY <1>1, FollowLemma
<1>3. FinishedReported' /\ \A d \in Check : hc[d].reported \subseteq hc'[d].reported
  BY <1>1 DEF RealInv, FinishedReported
<1>4. /\ p \in Patch /\ p.check = c /\ p.call = t.call /\ p.verdict = t.verdict
      /\ p.rv = shc.rv => UpToDate(p)
  <2>1. p.verdict = t.verdict
    BY DEF PatchOf
  <2> QED
    BY <2>1, <1>1, PatchLemma DEF IInv
<1>5. p.call = "move" => Real(p.verdict, hc[c], task[c]) /\ p.verdict \in Verdict
  BY <1>1, <1>4 DEF RealInv, Moving, Patch
<1> HIDE DEF t, p
<1>6. ASSUME NEW u, Goto(c, u), Follows(t, u),
             limbo' \subseteq limbo \union {p},
             UNCHANGED shc \/ (Current(p) /\ Apply(p))
      PROVE  RealInv'
  <2>1. \A q \in limbo' : q \in limbo \/ (task[c].pc = "write" /\ q = PatchOf(c))
    BY <1>1, <1>6 DEF p, t
  <2>2. \/ shc'.history = shc.history
        \/ \E v \in Verdict :
             /\ Real(v, hc[c], task[c])
             /\ shc'.history = Push([check |-> c, result |-> v], shc.history)
    <3>1. CASE UNCHANGED shc
      BY <3>1
    <3>2. CASE Current(p) /\ Apply(p)
      BY <3>2, <1>4, <1>5, RealAccept DEF Current
    <3> QED
      BY <3>1, <3>2, <1>6
  <2> QED
    BY <2>1, <2>2, <1>3, <1>6, FollowStep DEF t
<1>7. PICK u \in {Returned(t), Conflicted(t), Raised(t, "gone"), Raised(t, "error")} :
        /\ Goto(c, u)
        /\ limbo' \subseteq limbo \union {p}
        /\ UNCHANGED shc \/ (Current(p) /\ Apply(p))
  BY DEF WriteSchedule, t, p
<1> QED
  BY <1>2, <1>6, <1>7

\* Delayed patches, restarts, the checks themselves and other writers.
LEMMA RealWorld ==
  ASSUME IInv, RealInv,
         \/ \E p \in limbo : LimboArrives(p)
         \/ \E c \in Check : \/ CheckReruns(c) \/ CheckDeleted(c)
                             \/ \E r \in Verdict : CheckFinishes(c, r)
         \/ EditSchedule \/ DeleteSchedule \/ Crash
  PROVE  RealInv'
<1>1. ASSUME UNCHANGED hc
      PROVE  FinishedReported' /\ \A d \in Check : hc[d].reported \subseteq hc'[d].reported
  BY <1>1 DEF RealInv, FinishedReported
\* The coroutines are left alone.
<1>2. ASSUME UNCHANGED task, limbo' \subseteq limbo, FinishedReported',
             \A d \in Check : hc[d].reported \subseteq hc'[d].reported,
             \/ shc'.history = shc.history
             \/ \E c \in Check, v \in Verdict :
                  /\ Real(v, hc[c], task[c])
                  /\ shc'.history = Push([check |-> c, result |-> v], shc.history)
      PROVE  RealInv'
  <2>1. \A c \in Check : LateLast(task'[c]) /\ (task[c].late => task'[c].late)
    BY <1>2 DEF RealInv
  <2>2. \A c \in Check : Moving(task'[c]) => Real(task'[c].verdict, hc'[c], task'[c])
    BY <1>2 DEF RealInv, Real
  <2> QED
    BY <2>1, <2>2, <1>2, RealStep
<1>3. CASE \E p \in limbo : LimboArrives(p)
  <2>1. PICK p \in limbo : LimboArrives(p)
    BY <1>3
  <2>2. /\ p \in Patch /\ (p.rv = shc.rv => UpToDate(p))
        /\ p.call = "move" => Real(p.verdict, hc[p.check], task[p.check])
        /\ p.check \in Check /\ p.verdict \in Verdict
    BY DEF IInv, TypeOK, Delayed, RealInv, Patch
  <2>3. limbo' \subseteq limbo /\ UNCHANGED <<hc, task>>
    BY <2>1 DEF LimboArrives
  <2>4. \/ shc'.history = shc.history
        \/ \E c \in Check, v \in Verdict :
             /\ Real(v, hc[c], task[c])
             /\ shc'.history = Push([check |-> c, result |-> v], shc.history)
    <3>1. CASE Current(p) /\ Apply(p)
      BY <3>1, <2>2, RealAccept DEF Current
    <3>2. CASE UNCHANGED shc
      BY <3>2
    <3> QED
      BY <3>1, <3>2, <2>1 DEF LimboArrives
  <2> QED
    BY <2>3, <2>4, <1>1, <1>2
<1>4. CASE \E c \in Check : CheckReruns(c) \/ CheckDeleted(c)
  <2>1. /\ FinishedReported'
        /\ \A d \in Check : hc[d].reported \subseteq hc'[d].reported
        /\ UNCHANGED <<shc, task, limbo>>
    BY <1>4, UnfinishedLemma DEF CheckReruns, CheckDeleted
  <2> QED
    BY <2>1, <1>2
<1>5. CASE \E c \in Check, r \in Verdict : CheckFinishes(c, r)
  <2>1. /\ FinishedReported'
        /\ \A d \in Check : hc[d].reported \subseteq hc'[d].reported
        /\ UNCHANGED <<shc, task, limbo>>
    BY <1>5 DEF CheckFinishes, IInv, TypeOK, RealInv, FinishedReported
  <2> QED
    BY <2>1, <1>2
<1>6. CASE EditSchedule \/ DeleteSchedule
  <2>1. shc'.history = shc.history /\ UNCHANGED <<hc, task, limbo>>
    BY <1>6 DEF EditSchedule, DeleteSchedule, IInv, TypeOK
  <2> QED
    BY <2>1, <1>1, <1>2
<1>7. CASE Crash
  <2>1. /\ UNCHANGED <<shc, hc>>
        /\ \A q \in limbo' : \/ q \in limbo
                             \/ \E d \in Check : task[d].pc = "write" /\ q = PatchOf(d)
    BY <1>7 DEF Crash
  <2>2. ASSUME NEW c \in Check
        PROVE  /\ task[c].late => task'[c].late
               /\ LateLast(task'[c]) /\ ~Moving(task'[c])
    <3>1. /\ task'[c] = IF task[c].pc = "idle" THEN task[c] ELSE Done(task[c])
          /\ LateLast(task[c]) /\ task[c] \in Task
      BY <1>7 DEF Crash, RealInv, IInv, TypeOK
    <3>2. Done(task[c]).pc = "done" /\ Done(task[c]).late = task[c].late
      BY DEF Done, NoTask
    <3> QED
      BY <3>1, <3>2 DEF LateLast, Moving
  <2> QED
    BY <2>1, <2>2, <1>1, RealStep
<1> QED
  BY <1>3, <1>4, <1>5, <1>6, <1>7

\* Results stay real through every step.
LEMMA RealNext == IInv /\ RealInv /\ [Next]_vars => RealInv'
<1> SUFFICES ASSUME IInv, RealInv, [Next]_vars PROVE RealInv'
  OBVIOUS
<1>1. CASE UNCHANGED vars
  BY <1>1 DEF vars, RealInv, FinishedReported, LateLast, Moving, Real, ResultsAreReal
<1>2. CASE Next
  BY <1>2, RealQuiet, RealWrite, RealWorld DEF Next, Coroutine
<1> QED
  BY <1>1, <1>2
-----------------------------------------------------------------------------
(* The invariant is inductive *)

\* Every step of the model preserves the inductive invariant.
LEMMA NextInv == IInv /\ [Next]_vars => IInv'
<1> SUFFICES ASSUME IInv, [Next]_vars PROVE IInv'
  OBVIOUS
<1>1. CASE \E c \in Check : \/ Execute(c) \/ CreateHealthCheck(c) \/ GetUid(c)
                            \/ ReadSchedule(c) \/ Poll(c) \/ WatchTimeout(c)
  BY <1>1, QuietSteps
<1>2. CASE \E c \in Check : WriteSchedule(c)
  BY <1>2, WriteStep
<1>3. CASE \E p \in limbo : LimboArrives(p)
  BY <1>3, LimboStep
<1>4. CASE Crash
  BY <1>4, CrashStep
<1>5. CASE \/ \E c \in Check : \/ CheckReruns(c) \/ CheckDeleted(c)
                               \/ \E r \in Verdict : CheckFinishes(c, r)
           \/ EditSchedule \/ DeleteSchedule
  BY <1>5, WorldStep
<1>6. CASE UNCHANGED vars
  <2>1. UNCHANGED <<shc, hc, task, seen, limbo, recorded, budget>>
    BY <1>6 DEF vars
  <2> QED
    BY <2>1 DEF IInv, TypeOK, Snapshots, Delayed, Disarmed, RecordedNotActive,
                LastResultIsHead, HistoryRecorded, EarlyUnrecorded, PollsLeft, Early,
                UpToDate, Snapshot
<1> QED
  BY <1>1, <1>2, <1>3, <1>4, <1>5, <1>6 DEF Next, Coroutine

\* The inductive invariant holds in every reachable state.
LEMMA Inductive == Spec => []IInv
BY InitInv, NextInv, PTL DEF Spec

-----------------------------------------------------------------------------
(* A check is entered once: a potential that only a failed request raises *)

Entries(c, h) == {i \in 1..Len(h) : h[i].check = c}

\* The moves of a check that may still reach the server.
Pending(c, patches) == {p \in patches : p.check = c /\ p.call = "move"}

\* Whether a coroutine may still send a move.
Live(t) == IF t.pc = "done" THEN 0 ELSE 1

\* Entries made, moves under way and a coroutine that may make one more are
\* together at most one, plus one for every failed request.
Potential(c, h, patches, t, faults) ==
  /\ IsFiniteSet(Pending(c, patches))
  /\ Cardinality(Entries(c, h)) + Cardinality(Pending(c, patches)) + Live(t) <= 1 + faults

OnceInv == \A c \in Check : Potential(c, shc.history, limbo, task[c], budget.faults)

LEMMA EntriesFinite ==
  ASSUME NEW c, NEW h, Len(h) \in Nat
  PROVE  IsFiniteSet(Entries(c, h)) /\ Cardinality(Entries(c, h)) \in Nat
<1>1. IsFiniteSet(1..Len(h))
  <2>1. 1 \in Int /\ Len(h) \in Int
    OBVIOUS
  <2> QED
    BY <2>1, FS_Interval
<1>2. Entries(c, h) \in SUBSET (1..Len(h))
  BY DEF Entries
<1> QED
  BY <1>1, <1>2, FS_Subset, FS_CardinalityType

\* A new entry counts for its own check only; the slice may drop an old one.
LEMMA EntriesLemma ==
  ASSUME NEW c \in Check, NEW e \in Entry, NEW h \in Histories
  PROVE  /\ IsFiniteSet(Entries(c, h))
         /\ Cardinality(Entries(c, h)) \in Nat
         /\ Cardinality(Entries(c, Push(e, h))) \in Nat
         /\ Cardinality(Entries(c, Push(e, h))) <= Cardinality(Entries(c, h)) + 1
         /\ c # e.check => Cardinality(Entries(c, Push(e, h))) <= Cardinality(Entries(c, h))
<1> DEFINE S == Entries(c, h)
           g == Push(e, h)
           T == Entries(c, g)
           f == [i \in T \ {1} |-> i - 1]
<1>1. /\ Len(h) \in Nat /\ Len(g) \in Nat
      /\ Len(g) <= Len(h) + 1
      /\ g[1] = e /\ \A i \in 2..Len(g) : g[i] = h[i - 1]
  <2>1. Len(h) \in Nat
    BY DEF Histories
  <2>2. /\ Len(g) = IF Len(h) < MaxHistory THEN Len(h) + 1 ELSE Len(h)
        /\ g[1] = e /\ \A i \in 2..Len(g) : g[i] = h[i - 1]
    BY PushLemma
  <2> QED
    BY <2>1, <2>2, HistoryAssumption
<1> HIDE DEF g
<1>2. IsFiniteSet(S) /\ Cardinality(S) \in Nat
  BY <1>1, EntriesFinite
<1>3. IsFiniteSet(T) /\ Cardinality(T) \in Nat
  BY <1>1, EntriesFinite
<1>4. f \in Injection(T \ {1}, S)
  <2>1. ASSUME NEW i \in T \ {1}
        PROVE  i \in Int /\ i - 1 \in S
    <3>1. i \in 2..Len(g) /\ g[i].check = c
      BY <1>1 DEF Entries
    <3>2. i - 1 \in 1..Len(h) /\ h[i - 1].check = c
      BY <3>1, <1>1
    <3> QED
      BY <3>1, <3>2 DEF Entries
  <2>2. f \in [T \ {1} -> S]
    BY <2>1
  <2>3. \A i, j \in T \ {1} : f[i] = f[j] => i = j
    BY <2>1
  <2> QED
    BY <2>2, <2>3 DEF Injection, IsInjective
<1> HIDE DEF f
<1>5. Cardinality(T \ {1}) <= Cardinality(S)
  BY <1>2, <1>4, FS_Injection
<1>6. Cardinality(T \ {1}) = IF 1 \in T THEN Cardinality(T) - 1 ELSE Cardinality(T)
  BY <1>3, FS_RemoveElement
<1>7. 1 \in T => c = e.check
  BY <1>1 DEF Entries
<1> QED
  BY <1>2, <1>3, <1>5, <1>6, <1>7 DEF g

\* A history that is no longer for c, no more moves under way, no coroutine
\* come alive: the potential stays within what is allowed.
LEMMA PotentialKept ==
  ASSUME NEW c \in Check, NEW h \in Histories, NEW h2, NEW l, NEW l2, NEW t, NEW t2,
         NEW f \in Nat, NEW f2 \in Nat,
         Potential(c, h, l, t, f),
         h2 = h \/ \E e \in Entry : c # e.check /\ h2 = Push(e, h),
         Pending(c, l2) \subseteq Pending(c, l),
         Live(t2) <= Live(t), f <= f2
  PROVE  Potential(c, h2, l2, t2, f2)
<1>1. /\ Cardinality(Entries(c, h)) \in Nat /\ Cardinality(Entries(c, h2)) \in Nat
      /\ Cardinality(Entries(c, h2)) <= Cardinality(Entries(c, h))
  <2>1. CASE h2 = h
    BY <2>1, EntriesFinite DEF Histories
  <2>2. CASE \E e \in Entry : c # e.check /\ h2 = Push(e, h)
    BY <2>2, EntriesLemma
  <2> QED
    BY <2>1, <2>2
<1>2. /\ IsFiniteSet(Pending(c, l2))
      /\ Cardinality(Pending(c, l)) \in Nat /\ Cardinality(Pending(c, l2)) \in Nat
      /\ Cardinality(Pending(c, l2)) <= Cardinality(Pending(c, l))
  BY FS_Subset, FS_CardinalityType DEF Potential
<1>3. Live(t) \in 0..1 /\ Live(t2) \in 0..1
  BY DEF Live
<1> QED
  BY <1>1, <1>2, <1>3 DEF Potential

\* One entry more is paid by the coroutine that ends or by a fault.
LEMMA PotentialEntered ==
  ASSUME NEW c \in Check, NEW h \in Histories, NEW e \in Entry, NEW l, NEW t, NEW t2,
         NEW f \in Nat, NEW f2 \in Nat,
         Potential(c, h, l, t, f), t.pc # "done",
         (t2.pc = "done" /\ f2 = f) \/ f2 = f + 1
  PROVE  Potential(c, Push(e, h), l, t2, f2)
<1>1. /\ Cardinality(Entries(c, h)) \in Nat /\ Cardinality(Entries(c, Push(e, h))) \in Nat
      /\ Cardinality(Entries(c, Push(e, h))) <= Cardinality(Entries(c, h)) + 1
  BY EntriesLemma
<1>2. Cardinality(Pending(c, l)) \in Nat
  BY FS_CardinalityType DEF Potential
<1>3. Live(t) = 1 /\ Live(t2) \in 0..1 /\ (t2.pc = "done" => Live(t2) = 0)
  BY DEF Live
<1> QED
  BY <1>1, <1>2, <1>3 DEF Potential

\* And so is one move more under way.
LEMMA PotentialSent ==
  ASSUME NEW c \in Check, NEW h \in Histories, NEW l, NEW l2, NEW p, NEW t, NEW t2,
         NEW f \in Nat, NEW f2 \in Nat,
         Potential(c, h, l, t, f), t.pc # "done",
         Pending(c, l2) \subseteq Pending(c, l) \union {p},
         (t2.pc = "done" /\ f2 = f) \/ f2 = f + 1
  PROVE  Potential(c, h, l2, t2, f2)
<1>1. Cardinality(Entries(c, h)) \in Nat
  BY EntriesFinite DEF Histories
<1>2. /\ IsFiniteSet(Pending(c, l2))
      /\ Cardinality(Pending(c, l)) \in Nat /\ Cardinality(Pending(c, l2)) \in Nat
      /\ Cardinality(Pending(c, l2)) <= Cardinality(Pending(c, l)) + 1
  <2> DEFINE P == Pending(c, l)
  <2>1. IsFiniteSet(P) /\ Cardinality(P) \in Nat
    BY FS_CardinalityType DEF Potential
  <2>2. /\ IsFiniteSet(P \union {p})
        /\ Cardinality(P \union {p}) = IF p \in P THEN Cardinality(P) ELSE Cardinality(P) + 1
    BY <2>1, FS_AddElement
  <2>3. /\ IsFiniteSet(Pending(c, l2)) /\ Cardinality(Pending(c, l2)) \in Nat
        /\ Cardinality(Pending(c, l2)) <= Cardinality(P \union {p})
    BY <2>2, FS_Subset, FS_CardinalityType
  <2> QED
    BY <2>1, <2>2, <2>3
<1>3. Live(t) = 1 /\ Live(t2) \in 0..1 /\ (t2.pc = "done" => Live(t2) = 0)
  BY DEF Live
<1> QED
  BY <1>1, <1>2, <1>3 DEF Potential

\* A delayed move that arrives was counted already.
LEMMA PotentialArrived ==
  ASSUME NEW c \in Check, NEW h \in Histories, NEW e \in Entry, NEW l, NEW t,
         NEW f \in Nat, NEW p \in Pending(c, l),
         Potential(c, h, l, t, f)
  PROVE  Potential(c, Push(e, h), l \ {p}, t, f)
<1>1. /\ Cardinality(Entries(c, h)) \in Nat /\ Cardinality(Entries(c, Push(e, h))) \in Nat
      /\ Cardinality(Entries(c, Push(e, h))) <= Cardinality(Entries(c, h)) + 1
  BY EntriesLemma
<1>2. Pending(c, l \ {p}) = Pending(c, l) \ {p}
  BY DEF Pending
<1>3. /\ IsFiniteSet(Pending(c, l)) /\ Cardinality(Pending(c, l)) \in Nat
      /\ IsFiniteSet(Pending(c, l \ {p}))
      /\ Cardinality(Pending(c, l \ {p})) = Cardinality(Pending(c, l)) - 1
  <2> DEFINE P == Pending(c, l)
  <2>1. IsFiniteSet(P) /\ p \in P /\ Cardinality(P) \in Nat
    BY FS_CardinalityType DEF Potential
  <2> HIDE DEF P
  <2>2. IsFiniteSet(P \ {p}) /\ Cardinality(P \ {p}) = Cardinality(P) - 1
    BY <2>1, FS_RemoveElement
  <2> QED
    BY <2>1, <2>2, <1>2 DEF P
<1>4. Live(t) \in 0..1
  BY DEF Live
<1> QED
  BY <1>1, <1>3, <1>4 DEF Potential

\* Steps of others leave the potential of d as it is.
LEMMA OnceOthers ==
  ASSUME IInv, IInv', OnceInv, NEW d \in Check,
         Live(task'[d]) <= Live(task[d]), budget.faults <= budget'.faults,
         Pending(d, limbo') \subseteq Pending(d, limbo),
         \/ shc'.history = shc.history
         \/ \E e \in Entry : d # e.check /\ shc'.history = Push(e, shc.history)
  PROVE  Potential(d, shc'.history, limbo', task'[d], budget'.faults)
<1>1. shc.history \in Histories /\ budget.faults \in Nat /\ budget'.faults \in Nat
  BY DEF IInv, TypeOK
<1>2. Potential(d, shc.history, limbo, task[d], budget.faults)
  BY DEF OnceInv
<1> QED
  BY <1>1, <1>2, PotentialKept

\* Execute, the HealthCheck, its watcher, and whatever does not touch the
\* coroutines, the history or the patches under way.
LEMMA OnceQuiet ==
  ASSUME IInv, IInv', OnceInv,
         \/ \E c \in Check :
              \/ Execute(c) \/ CreateHealthCheck(c) \/ GetUid(c) \/ ReadSchedule(c)
              \/ Poll(c) \/ WatchTimeout(c) \/ CheckReruns(c) \/ CheckDeleted(c)
              \/ \E r \in Verdict : CheckFinishes(c, r)
         \/ EditSchedule \/ DeleteSchedule
  PROVE  OnceInv'
<1>1. limbo' = limbo /\ shc'.history = shc.history
  BY DEF IInv, TypeOK, Execute, CreateHealthCheck, GetUid, ReadSchedule, Poll, WatchTimeout,
         CheckReruns, CheckDeleted, CheckFinishes, EditSchedule, DeleteSchedule
<1>2. budget.faults <= budget'.faults
  <2>1. budget.faults \in Nat /\ budget \in BudgetType
    BY DEF IInv, TypeOK, BudgetType
  <2>2. CASE UNCHANGED budget
    BY <2>1, <2>2
  <2>3. CASE \E kind \in {"refused", "lost"} : Fault(kind)
    BY <2>1, <2>3 DEF Fault, BudgetType
  <2>4. CASE budget' = [budget EXCEPT !.reruns = @ + 1]
    BY <2>1, <2>4 DEF BudgetType
  <2>5. CASE budget' = [budget EXCEPT !.edits = @ + 1]
    BY <2>1, <2>5 DEF BudgetType
  <2> QED
    BY <2>2, <2>3, <2>4, <2>5
       DEF Execute, CreateHealthCheck, GetUid, ReadSchedule, Poll, WatchTimeout,
           CheckReruns, CheckDeleted, CheckFinishes, EditSchedule, DeleteSchedule
<1>3. ASSUME NEW d \in Check
      PROVE  Live(task'[d]) <= Live(task[d])
  <2>1. CASE UNCHANGED task
    BY <2>1 DEF Live
  <2>2. ASSUME NEW c \in Check, NEW t, Goto(c, t), task[c].pc # "done"
        PROVE  Live(task'[d]) <= Live(task[d])
    <3>1. d # c => task'[d] = task[d]
      BY <2>2 DEF Goto, IInv, TypeOK
    <3> QED
      BY <2>2, <3>1 DEF Live
  <2> QED
    BY <2>1, <2>2
       DEF Execute, CreateHealthCheck, GetUid, ReadSchedule, Poll, WatchTimeout,
           CheckReruns, CheckDeleted, CheckFinishes, EditSchedule, DeleteSchedule
<1> QED
  BY <1>1, <1>2, <1>3, OnceOthers DEF OnceInv

\* A PATCH is sent: a move that is accepted ends its coroutine, unless the
\* answer is lost; one that is delayed is a failed request.
LEMMA OnceWrite ==
  ASSUME IInv, IInv', OnceInv, NEW c \in Check, WriteSchedule(c)
  PROVE  OnceInv'
<1> DEFINE t == task[c]
           p == PatchOf(c)
           e == [check |-> c, result |-> t.verdict]
<1>1. /\ t.pc = "write" /\ t \in Task /\ e \in Entry
      /\ shc.history \in Histories /\ budget.faults \in Nat /\ budget'.faults \in Nat
      /\ Potential(c, shc.history, limbo, t, budget.faults)
      /\ \A d \in Check \ {c} : task'[d] = task[d]
  BY DEF IInv, TypeOK, OnceInv, WriteSchedule, Goto, Task, Entry
<1>2. /\ p \in Patch /\ p.check = c /\ p.call = t.call /\ p.verdict = t.verdict
      /\ p.rv = shc.rv => UpToDate(p)
  <2>1. p.verdict = t.verdict
    BY DEF PatchOf
  <2> QED
    BY <2>1, <1>1, PatchLemma DEF IInv
<1>3. budget.faults <= budget'.faults
  BY <1>1 DEF WriteSchedule, Fault, IInv, TypeOK
<1>4. /\ \A d \in Check \ {c} : Pending(d, limbo') \subseteq Pending(d, limbo)
      /\ Pending(c, limbo') \subseteq Pending(c, limbo) \union {p}
  BY <1>2 DEF WriteSchedule, Pending
<1>5. \/ shc'.history = shc.history
      \/ t.call = "move" /\ shc'.history = Push(e, shc.history)
  <2>1. CASE UNCHANGED shc
    BY <2>1
  <2>2. CASE Current(p) /\ Apply(p)
    BY <2>2, <1>2, RealAccept DEF Current
  <2> QED
    BY <2>1, <2>2 DEF WriteSchedule
<1>6. ASSUME NEW d \in Check \ {c}
      PROVE  Potential(d, shc'.history, limbo', task'[d], budget'.faults)
  <2>1. Live(task'[d]) <= Live(task[d])
    BY <1>1 DEF Live
  <2> QED
    BY <2>1, <1>1, <1>3, <1>4, <1>5, OnceOthers
<1>7. Potential(c, shc'.history, limbo', task'[c], budget'.faults)
  <2>1. CASE limbo' = limbo /\ shc'.history = shc.history
    <3>1. Live(task'[c]) <= Live(task[c])
      BY <1>1 DEF Live
    <3> QED
      BY <2>1, <3>1, <1>3, OnceOthers
  <2>2. CASE limbo' = limbo /\ shc'.history # shc.history
    <3>1. t.call = "move" /\ shc'.history = Push(e, shc.history)
      BY <2>2, <1>5
    <3>2. CASE Goto(c, Returned(t)) /\ UNCHANGED budget
      <4>1. task'[c] = Returned(t)
        BY <3>2 DEF Goto, IInv, TypeOK
      <4>2. task'[c].pc = "done"
        BY <4>1, <3>1 DEF Returned, Done, NoTask
      <4> QED
        BY <4>2, <3>1, <3>2, <2>2, <1>1, PotentialEntered
    <3>3. CASE budget'.faults = budget.faults + 1
      BY <3>3, <3>1, <2>2, <1>1, PotentialEntered
    <3> QED
      BY <3>2, <3>3, <2>2 DEF WriteSchedule, Fault, IInv, TypeOK
  <2>3. CASE limbo' # limbo
    <3>1. shc' = shc /\ budget'.faults = budget.faults + 1
      BY <2>3 DEF WriteSchedule, Fault, IInv, TypeOK
    <3> QED
      BY <3>1, <1>1, <1>4, PotentialSent
  <2> QED
    BY <2>1, <2>2, <2>3
<1> QED
  BY <1>6, <1>7 DEF OnceInv

LEMMA OnceLimbo ==
  ASSUME IInv, IInv', OnceInv, NEW p \in limbo, LimboArrives(p)
  PROVE  OnceInv'
<1> DEFINE e == [check |-> p.check, result |-> p.verdict]
<1>1. /\ p \in Patch /\ p.check \in Check /\ e \in Entry
      /\ p.rv = shc.rv => UpToDate(p)
      /\ shc.history \in Histories /\ budget.faults \in Nat
      /\ limbo' = limbo \ {p} /\ UNCHANGED <<task, budget>>
  BY DEF IInv, TypeOK, Delayed, Patch, Entry, LimboArrives
<1>2. \/ shc'.history = shc.history
      \/ p.call = "move" /\ shc'.history = Push(e, shc.history)
  <2>1. CASE UNCHANGED shc
    BY <2>1
  <2>2. CASE Current(p) /\ Apply(p)
    BY <2>2, <1>1, RealAccept DEF Current
  <2> QED
    BY <2>1, <2>2 DEF LimboArrives
<1>3. ASSUME NEW d \in Check
      PROVE  Potential(d, shc'.history, limbo', task'[d], budget'.faults)
  <2>1. CASE shc'.history = shc.history \/ d # p.check
    <3>1. Pending(d, limbo') \subseteq Pending(d, limbo)
      BY <1>1 DEF Pending
    <3>2. Live(task'[d]) <= Live(task[d]) /\ budget.faults <= budget'.faults
      BY <1>1 DEF Live
    <3> QED
      BY <2>1, <3>1, <3>2, <1>1, <1>2, OnceOthers
  <2>2. CASE shc'.history # shc.history /\ d = p.check
    <3>1. p \in Pending(d, limbo) /\ shc'.history = Push(e, shc.history)
      BY <2>2, <1>2 DEF Pending
    <3>2. Potential(d, shc.history, limbo, task[d], budget.faults)
      BY DEF OnceInv
    <3> QED
      BY <3>1, <3>2, <1>1, PotentialArrived
  <2> QED
    BY <2>1, <2>2
<1> QED
  BY <1>3 DEF OnceInv

\* A restart leaves at most the PATCH its coroutine had sent, and no coroutine.
LEMMA OnceCrash ==
  ASSUME IInv, IInv', OnceInv, Crash
  PROVE  OnceInv'
<1>1. /\ shc' = shc /\ budget'.faults = budget.faults
      /\ shc.history \in Histories /\ budget.faults \in Nat
      /\ \A d \in Check : task'[d] = IF task[d].pc = "idle" THEN task[d] ELSE Done(task[d])
  BY DEF Crash, IInv, TypeOK
<1>2. ASSUME NEW d \in Check
      PROVE  Potential(d, shc'.history, limbo', task'[d], budget'.faults)
  <2>1. Potential(d, shc.history, limbo, task[d], budget.faults)
    BY DEF OnceInv
  <2>2. Live(task'[d]) <= Live(task[d])
    <3>1. CASE task[d].pc = "idle"
      BY <3>1, <1>1 DEF Live
    <3>2. CASE task[d].pc # "idle"
      <4>1. task'[d].pc = "done"
        BY <3>2, <1>1 DEF Done, NoTask
      <4> QED
        BY <4>1 DEF Live
    <3> QED
      BY <3>1, <3>2
  <2>3. \A q \in limbo' : q \in limbo \/ \E c \in Check : task[c].pc = "write" /\ q = PatchOf(c)
    BY DEF Crash
  <2>4. CASE task[d].pc = "write"
    <3>1. task'[d].pc = "done"
      BY <2>4, <1>1 DEF Done, NoTask
    <3>2. Pending(d, limbo') \subseteq Pending(d, limbo) \union {PatchOf(d)}
      BY <2>3 DEF Pending, PatchOf
    <3> QED
      BY <3>1, <3>2, <2>1, <2>4, <1>1, PotentialSent
  <2>5. CASE task[d].pc # "write"
    <3>1. Pending(d, limbo') \subseteq Pending(d, limbo)
      BY <2>3, <2>5 DEF Pending, PatchOf
    <3> QED
      BY <3>1, <2>2, <1>1, OnceOthers
  <2> QED
    BY <2>4, <2>5
<1> QED
  BY <1>2 DEF OnceInv

LEMMA OnceNext == IInv /\ OnceInv /\ [Next]_vars => OnceInv'
<1> SUFFICES ASSUME IInv, OnceInv, [Next]_vars PROVE OnceInv'
  OBVIOUS
<1>1. IInv'
  BY NextInv
<1>2. CASE UNCHANGED vars
  BY <1>2 DEF vars, OnceInv
<1>3. CASE Next
  BY <1>1, <1>3, OnceQuiet, OnceWrite, OnceLimbo, OnceCrash DEF Next, Coroutine
<1> QED
  BY <1>2, <1>3
-----------------------------------------------------------------------------
(* No orphans while few others write the schedule *)

FiredIn(ts) == {d \in Check : ts[d].pc # "idle"}
Fired == FiredIn(task)

\* What may make every attempt of one call conflict: each foreign write once,
\* and each other execution twice, as it writes the status at its announcement
\* and at its end.
Few == budget.edits + 2 * Cardinality(Fired) < MaxRetries + 2

Past(ts, c) == {d \in Check \ {c} : ~Early(ts[d])}
Ended(ts, c) == {d \in Check \ {c} : ts[d].pc = "done"}

\* An upper bound on the writes the coroutine of c has competed with, after
\* the given number of foreign writes and with the coroutines in states ts.
Rivals(ts, edits, c) == edits + Cardinality(Past(ts, c)) + Cardinality(Ended(ts, c))

\* A coroutine in state t whose GET returned version rv, against status s: it
\* met at most n conflicts, counting the one that awaits it if it is overtaken,
\* and it ends only after taking its check out of active.
Sound(c, t, rv, s, n) ==
  /\ ~(t.pc \in {"read", "write"} /\ t.call = "cleanup")
  /\ t.pc = "done" => c \notin s.active
  /\ t.pc \in {"read", "write"} => t.attempt <= n
  /\ t.pc = "write" /\ rv # s.rv => t.attempt + 1 <= n

Calm == budget.faults = 0 /\ budget.crashes = 0 /\ Few

CrowdInv ==
  /\ IsFiniteSet(Fired)
  /\ Calm => /\ limbo = {}
             /\ shc.exists =>
                  \A c \in Check : Sound(c, task[c], seen[c].rv, shc, Rivals(task, budget.edits, c))

\* Executions stay fired, and finitely many have.
LEMMA FiredNext ==
  ASSUME IInv, IsFiniteSet(Fired), Next
  PROVE  IsFiniteSet(Fired') /\ Fired \subseteq Fired'
<1>1. ASSUME NEW c \in Check, NEW t, Goto(c, t), t.pc # "idle"
      PROVE  IsFiniteSet(Fired') /\ Fired \subseteq Fired'
  <2>1. Fired' = Fired \union {c}
    BY <1>1 DEF Fired, FiredIn, Goto, IInv, TypeOK
  <2> QED
    BY <2>1, FS_AddElement
<1>2. CASE UNCHANGED task
  BY <1>2 DEF Fired, FiredIn
<1>3. ASSUME NEW c \in Check, Execute(c) \/ CreateHealthCheck(c) \/ GetUid(c)
      PROVE  \E t : Goto(c, t) /\ t.pc # "idle"
  <2>1. /\ Done(task[c]).pc # "idle" /\ StartWatching(task[c]).pc # "idle"
        /\ StartCall(task[c], "add").pc # "idle"
        /\ [task[c] EXCEPT !.pc = "create"].pc # "idle"
        /\ [task[c] EXCEPT !.pc = "uid"].pc # "idle"
    BY DEF Done, StartWatching, StartCall, NoTask, IInv, TypeOK, Task
  <2> QED
    BY <1>3, <2>1 DEF Execute, CreateHealthCheck, GetUid
<1>4. ASSUME NEW c \in Check, ReadSchedule(c) \/ WriteSchedule(c)
      PROVE  \E t : Goto(c, t) /\ t.pc # "idle"
  <2>1. task[c] \in Task /\ PollsLeft(task[c]) /\ task[c].pc \in {"read", "write"}
    BY <1>4 DEF IInv, TypeOK, ReadSchedule, WriteSchedule
  <2>2. /\ Returned(task[c]).pc # "idle"
        /\ \A f \in {"gone", "error"} : Raised(task[c], f).pc # "idle"
    BY <2>1, TaskLemma DEF Early
  <2>3. Conflicted(task[c]).pc # "idle"
    BY <2>1, <2>2 DEF Conflicted, Task
  <2>4. [task[c] EXCEPT !.pc = "write"].pc # "idle"
    BY <2>1 DEF Task
  <2> QED
    BY <1>4, <2>2, <2>3, <2>4 DEF ReadSchedule, WriteSchedule
<1>5. ASSUME NEW c \in Check, Poll(c) \/ WatchTimeout(c)
      PROVE  \E t : Goto(c, t) /\ t.pc # "idle"
  <2>1. /\ [StartCall(task[c], "move") EXCEPT !.verdict = ResultOf(c)].pc = "read"
        /\ [StartCall(task[c], "move") EXCEPT !.verdict = "error", !.late = TRUE].pc = "read"
        /\ StartCall(task[c], "remove").pc = "read" /\ NextPoll(task[c]).pc = "poll"
    BY DEF StartCall, NextPoll, NoTask, IInv, TypeOK, Task
  <2> QED
    BY <1>5, <2>1 DEF Poll, WatchTimeout
<1>6. CASE Crash
  <2>1. ASSUME NEW d \in Check PROVE task[d].pc = "idle" <=> task'[d].pc = "idle"
    BY <1>6 DEF Crash, Done, NoTask
  <2>2. Fired' = Fired
    BY <2>1 DEF Fired, FiredIn
  <2> QED
    BY <2>2
<1>7. CASE \E c \in Check : Execute(c) \/ CreateHealthCheck(c) \/ GetUid(c)
                            \/ ReadSchedule(c) \/ WriteSchedule(c)
                            \/ Poll(c) \/ WatchTimeout(c)
  BY <1>7, <1>1, <1>3, <1>4, <1>5
<1> QED
  BY <1>2, <1>6, <1>7
     DEF Next, Coroutine, CheckReruns, CheckDeleted, CheckFinishes, LimboArrives,
         EditSchedule, DeleteSchedule

\* The failures, restarts, foreign writes and executions only add up.
LEMMA CalmBefore ==
  ASSUME IInv, IInv', IsFiniteSet(Fired), IsFiniteSet(Fired'), Fired \subseteq Fired',
         budget.faults <= budget'.faults, budget.crashes <= budget'.crashes,
         budget.edits <= budget'.edits, Calm'
  PROVE  Calm
<1>1. Cardinality(Fired) \in Nat /\ Cardinality(Fired') \in Nat
  BY FS_CardinalityType
<1>2. Cardinality(Fired) <= Cardinality(Fired')
  BY FS_Subset
<1>3. /\ budget.faults \in Nat /\ budget.crashes \in Nat
      /\ budget.edits \in Nat /\ budget'.edits \in Nat
  BY DEF IInv, TypeOK
<1>4. /\ budget'.faults = 0 /\ budget'.crashes = 0
      /\ budget'.edits + 2 * Cardinality(Fired') < MaxRetries + 2
  BY DEF Calm, Few
<1>5. MaxRetries \in Nat
  BY RetryAssumption
<1>6. budget.edits + 2 * Cardinality(Fired) < MaxRetries + 2
  BY <1>1, <1>2, <1>3, <1>4, <1>5
<1> QED
  BY <1>3, <1>4, <1>6 DEF Calm, Few

\* The rivals of an execution are among the others that fired.
LEMMA RivalsType ==
  ASSUME NEW ts, IsFiniteSet(FiredIn(ts)), NEW edits \in Nat, NEW c \in Check
  PROVE  /\ IsFiniteSet(Past(ts, c)) /\ Cardinality(Past(ts, c)) \in Nat
         /\ IsFiniteSet(Ended(ts, c)) /\ Cardinality(Ended(ts, c)) \in Nat
         /\ Rivals(ts, edits, c) \in Nat
         /\ ts[c].pc # "idle"
              => Rivals(ts, edits, c) + 2 <= edits + 2 * Cardinality(FiredIn(ts))
<1>1. Past(ts, c) \subseteq FiredIn(ts) \ {c} /\ Ended(ts, c) \subseteq FiredIn(ts) \ {c}
  BY DEF Past, Ended, FiredIn, Early
<1>2. IsFiniteSet(FiredIn(ts) \ {c}) /\ Cardinality(FiredIn(ts) \ {c}) \in Nat
  BY FS_RemoveElement, FS_CardinalityType
<1>3. /\ IsFiniteSet(Past(ts, c)) /\ Cardinality(Past(ts, c)) <= Cardinality(FiredIn(ts) \ {c})
      /\ IsFiniteSet(Ended(ts, c)) /\ Cardinality(Ended(ts, c)) <= Cardinality(FiredIn(ts) \ {c})
  BY <1>1, <1>2, FS_Subset
<1>4. Cardinality(Past(ts, c)) \in Nat /\ Cardinality(Ended(ts, c)) \in Nat
  BY <1>3, FS_CardinalityType
<1>5. ASSUME ts[c].pc # "idle"
      PROVE  Rivals(ts, edits, c) + 2 <= edits + 2 * Cardinality(FiredIn(ts))
  <2>1. c \in FiredIn(ts)
    BY <1>5 DEF FiredIn
  <2>2. Cardinality(FiredIn(ts)) \in Nat
    BY FS_CardinalityType
  <2>3. Cardinality(FiredIn(ts) \ {c}) = Cardinality(FiredIn(ts)) - 1
    BY <2>1, FS_RemoveElement
  <2> QED
    BY <1>2, <1>3, <1>4, <2>2, <2>3 DEF Rivals
<1> QED
  BY <1>3, <1>4, <1>5 DEF Rivals

\* Nobody stops being a rival; an announcement, an end and a foreign write
\* each make one more.
LEMMA RivalsGrow ==
  ASSUME NEW ts, NEW us, IsFiniteSet(FiredIn(ts)), IsFiniteSet(FiredIn(us)),
         NEW e \in Nat, NEW f \in Nat, NEW c \in Check, e <= f,
         \A d \in Check \ {c} : (~Early(ts[d]) => ~Early(us[d]))
                                /\ (ts[d].pc = "done" => us[d].pc = "done")
  PROVE  /\ Rivals(ts, e, c) <= Rivals(us, f, c)
         /\ e < f => Rivals(ts, e, c) + 1 <= Rivals(us, f, c)
         /\ (\E d \in Check \ {c} : Early(ts[d]) /\ ~Early(us[d]))
              => Rivals(ts, e, c) + 1 <= Rivals(us, f, c)
         /\ (\E d \in Check \ {c} : ts[d].pc # "done" /\ us[d].pc = "done")
              => Rivals(ts, e, c) + 1 <= Rivals(us, f, c)
<1>1. /\ IsFiniteSet(Past(ts, c)) /\ Cardinality(Past(ts, c)) \in Nat
      /\ IsFiniteSet(Ended(ts, c)) /\ Cardinality(Ended(ts, c)) \in Nat
  BY RivalsType
<1>2. /\ IsFiniteSet(Past(us, c)) /\ Cardinality(Past(us, c)) \in Nat
      /\ IsFiniteSet(Ended(us, c)) /\ Cardinality(Ended(us, c)) \in Nat
  BY RivalsType
<1>3. Past(ts, c) \subseteq Past(us, c) /\ Ended(ts, c) \subseteq Ended(us, c)
  BY DEF Past, Ended
<1>4. /\ Cardinality(Past(ts, c)) <= Cardinality(Past(us, c))
      /\ Cardinality(Past(us, c)) = Cardinality(Past(ts, c)) => Past(us, c) = Past(ts, c)
  BY <1>2, <1>3, FS_Subset
<1>5. /\ Cardinality(Ended(ts, c)) <= Cardinality(Ended(us, c))
      /\ Cardinality(Ended(us, c)) = Cardinality(Ended(ts, c)) => Ended(us, c) = Ended(ts, c)
  BY <1>2, <1>3, FS_Subset
<1>6. ASSUME NEW d \in Check \ {c}, Early(ts[d]), ~Early(us[d])
      PROVE  Past(us, c) # Past(ts, c)
  BY <1>6 DEF Past
<1>7. ASSUME NEW d \in Check \ {c}, ts[d].pc # "done", us[d].pc = "done"
      PROVE  Ended(us, c) # Ended(ts, c)
  BY <1>7 DEF Ended
<1>8. /\ Rivals(ts, e, c) = e + Cardinality(Past(ts, c)) + Cardinality(Ended(ts, c))
      /\ Rivals(us, f, c) = f + Cardinality(Past(us, c)) + Cardinality(Ended(us, c))
  BY DEF Rivals
<1>9. Rivals(ts, e, c) <= Rivals(us, f, c)
  BY <1>1, <1>2, <1>4, <1>5, <1>8
<1>10. e < f => Rivals(ts, e, c) + 1 <= Rivals(us, f, c)
  BY <1>1, <1>2, <1>4, <1>5, <1>8
<1>11. Past(us, c) # Past(ts, c) => Cardinality(Past(ts, c)) + 1 <= Cardinality(Past(us, c))
  BY <1>1, <1>2, <1>4
<1>12. Ended(us, c) # Ended(ts, c) => Cardinality(Ended(ts, c)) + 1 <= Cardinality(Ended(us, c))
  BY <1>1, <1>2, <1>5
<1>13. ASSUME \/ Cardinality(Past(ts, c)) + 1 <= Cardinality(Past(us, c))
              \/ Cardinality(Ended(ts, c)) + 1 <= Cardinality(Ended(us, c))
       PROVE  Rivals(ts, e, c) + 1 <= Rivals(us, f, c)
  <2> DEFINE p == Cardinality(Past(ts, c))
             q == Cardinality(Past(us, c))
             v == Cardinality(Ended(ts, c))
             w == Cardinality(Ended(us, c))
  <2>1. /\ p \in Nat /\ q \in Nat /\ v \in Nat /\ w \in Nat
        /\ p <= q /\ v <= w /\ (p + 1 <= q \/ v + 1 <= w)
        /\ Rivals(ts, e, c) = e + p + v /\ Rivals(us, f, c) = f + q + w
    BY <1>1, <1>2, <1>4, <1>5, <1>8, <1>13
  <2> HIDE DEF p, q, v, w
  <2> QED
    BY <2>1
<1> QED
  BY <1>6, <1>7, <1>9, <1>10, <1>11, <1>12, <1>13

\* An execution stays sound when others act: unless they leave the version
\* alone, they make one more rival.
LEMMA SoundOthers ==
  ASSUME NEW d \in Check, NEW t \in Task, NEW rv, NEW s, NEW u, NEW n \in Nat, NEW m \in Nat,
         Sound(d, t, rv, s, n), n <= m, d \in u.active => d \in s.active,
         u.rv = s.rv \/ n + 1 <= m
  PROVE  Sound(d, t, rv, u, m)
<1>1. t.attempt \in Nat
  BY RetryAssumption DEF Task
<1> QED
  BY <1>1 DEF Sound

\* A step of the coroutine of c: it keeps the schedule, or makes itself one more
\* rival of the others, and stays sound itself.
LEMMA CrowdCoroutine ==
  ASSUME IInv, IInv', CrowdInv, IsFiniteSet(Fired'), Calm', Calm,
         NEW c \in Check, NEW t, Goto(c, t), task[c].pc # "done",
         Early(t) => Early(task[c]), limbo' = limbo, budget'.edits = budget.edits,
         \A d \in Check \ {c} : seen'[d] = seen[d],
         \/ shc' = shc
         \/ /\ shc'.active \subseteq shc.active \union {c}
            /\ shc'.exists = shc.exists
            /\ (Early(task[c]) /\ ~Early(t)) \/ t.pc = "done",
         shc.exists => Sound(c, t, seen'[c].rv, shc', Rivals(task, budget.edits, c))
  PROVE  CrowdInv'
<1>1. /\ IsFiniteSet(FiredIn(task)) /\ IsFiniteSet(FiredIn(task'))
      /\ budget.edits \in Nat
      /\ task' \in [Check -> Task] /\ task \in [Check -> Task]
      /\ task'[c] = t /\ \A d \in Check \ {c} : task'[d] = task[d]
  BY DEF CrowdInv, Fired, IInv, TypeOK, Goto
<1>2. limbo' = {}
  BY DEF CrowdInv
<1>3. ASSUME shc'.exists, NEW d \in Check
      PROVE  Sound(d, task'[d], seen'[d].rv, shc', Rivals(task', budget'.edits, d))
  <2>1. shc.exists
    BY <1>3
  <2>2. \A b \in Check \ {d} : (~Early(task[b]) => ~Early(task'[b]))
                               /\ (task[b].pc = "done" => task'[b].pc = "done")
    BY <1>1
  <2>3. /\ Rivals(task, budget.edits, d) <= Rivals(task', budget.edits, d)
        /\ (\E b \in Check \ {d} : Early(task[b]) /\ ~Early(task'[b]))
             => Rivals(task, budget.edits, d) + 1 <= Rivals(task', budget.edits, d)
        /\ (\E b \in Check \ {d} : task[b].pc # "done" /\ task'[b].pc = "done")
             => Rivals(task, budget.edits, d) + 1 <= Rivals(task', budget.edits, d)
    <3>1. budget.edits <= budget.edits
      BY <1>1
    <3> QED
      BY <1>1, <2>2, <3>1, RivalsGrow
  <2>4. /\ Rivals(task, budget.edits, d) \in Nat
        /\ Rivals(task', budget.edits, d) \in Nat
    BY <1>1, RivalsType
  <2>5. CASE d = c
    <3>1. Sound(c, t, seen'[c].rv, shc', Rivals(task, budget.edits, c))
      BY <2>1
    <3>2. t \in Task
      BY <1>1
    <3>3. Sound(c, t, seen'[c].rv, shc', Rivals(task', budget.edits, c))
      BY <3>1, <3>2, <2>3, <2>4, <2>5, SoundOthers
    <3> QED
      BY <3>3, <2>5, <1>1
  <2>6. CASE d # c
    <3>1. Sound(d, task[d], seen[d].rv, shc, Rivals(task, budget.edits, d))
      BY <2>1 DEF CrowdInv
    <3>2. d \in shc'.active => d \in shc.active
      BY <2>6
    <3>3. \/ shc'.rv = shc.rv
          \/ Rivals(task, budget.edits, d) + 1 <= Rivals(task', budget.edits, d)
      BY <2>3, <2>6, <1>1
    <3>4. task[d] \in Task
      BY <1>1
    <3>5. Sound(d, task[d], seen[d].rv, shc', Rivals(task', budget.edits, d))
      BY <3>1, <3>2, <3>3, <3>4, <2>3, <2>4, SoundOthers
    <3> QED
      BY <3>5, <2>6, <1>1
  <2> QED
    BY <2>5, <2>6
<1>4. IsFiniteSet(Fired)'
  OBVIOUS
<1> QED
  BY <1>2, <1>3, <1>4 DEF CrowdInv

\* The steps of a coroutine that send no PATCH.
LEMMA CrowdQuiet ==
  ASSUME IInv, IInv', CrowdInv, IsFiniteSet(Fired'), Calm', Calm, NEW c \in Check,
         \/ Execute(c) \/ CreateHealthCheck(c) \/ GetUid(c) \/ ReadSchedule(c)
         \/ Poll(c) \/ WatchTimeout(c)
  PROVE  CrowdInv'
<1> DEFINE n == Rivals(task, budget.edits, c)
<1>1. /\ task[c] \in Task /\ n \in Nat /\ budget'.faults = 0 /\ budget.faults = 0
      /\ \A kind : ~Fault(kind)
  <2>1. n \in Nat
    BY RivalsType DEF CrowdInv, Fired, IInv, TypeOK
  <2> QED
    BY <2>1 DEF IInv, TypeOK, Calm, Fault
<1>2. shc.exists => Sound(c, task[c], seen[c].rv, shc, n)
  BY DEF CrowdInv
<1> HIDE DEF n
<1>3. ASSUME NEW t, Goto(c, t), task[c].pc # "done", Early(t) => Early(task[c]),
             UNCHANGED <<shc, limbo>>, budget'.edits = budget.edits,
             \A d \in Check \ {c} : seen'[d] = seen[d],
             shc.exists => Sound(c, t, seen'[c].rv, shc, n)
      PROVE  CrowdInv'
  BY <1>3, CrowdCoroutine DEF n
<1>4. ASSUME NEW call \in {"add", "move", "remove"}, NEW u,
             u.pc = "read", u.call = call, u.attempt = 0, NEW rv
      PROVE  Sound(c, u, rv, shc, n)
  BY <1>1, <1>4 DEF Sound
<1>5. ASSUME NEW u, u.pc \in {"create", "uid", "poll"}, NEW rv
      PROVE  Sound(c, u, rv, shc, n)
  BY <1>5 DEF Sound
<1>6. CASE Execute(c)
  <2> DEFINE t == [task[c] EXCEPT !.pc = "create"]
  <2>1. t.pc = "create" /\ task[c].pc = "idle"
    BY <1>1, <1>6 DEF Task, Execute
  <2>2. Goto(c, t) /\ UNCHANGED <<shc, limbo, seen, budget>>
    BY <1>6 DEF Execute
  <2> HIDE DEF t
  <2> QED
    BY <2>1, <2>2, <1>3, <1>5 DEF Early
<1>7. CASE CreateHealthCheck(c)
  <2> DEFINE t == [task[c] EXCEPT !.pc = "uid"]
  <2>1. t.pc = "uid" /\ task[c].pc = "create"
    BY <1>1, <1>7 DEF Task, CreateHealthCheck
  <2>2. Goto(c, t) /\ UNCHANGED <<shc, limbo, seen, budget>>
    BY <1>7, <1>1 DEF CreateHealthCheck
  <2> HIDE DEF t
  <2> QED
    BY <2>1, <2>2, <1>3, <1>5 DEF Early
<1>8. CASE GetUid(c)
  <2>1. task[c].pc = "uid" /\ UNCHANGED <<shc, limbo, seen, budget>>
    BY <1>8, <1>1 DEF GetUid
  <2>2. CASE Goto(c, StartCall(task[c], "add"))
    <3> DEFINE t == StartCall(task[c], "add")
    <3>1. t.pc = "read" /\ t.call = "add" /\ t.attempt = 0
      BY <1>1 DEF StartCall, Task
    <3> HIDE DEF t
    <3> QED
      BY <2>1, <2>2, <3>1, <1>3, <1>4 DEF Early, t
  <2>3. CASE Goto(c, StartWatching(task[c]))
    <3> DEFINE t == StartWatching(task[c])
    <3>1. t.pc = "poll"
      BY DEF StartWatching, NoTask
    <3> HIDE DEF t
    <3> QED
      BY <2>1, <2>3, <3>1, <1>3, <1>5 DEF Early, t
  <2> QED
    BY <2>2, <2>3, <1>8, <1>1 DEF GetUid
<1>9. CASE ReadSchedule(c)
  <2>1. task[c].pc = "read" /\ UNCHANGED <<shc, limbo, budget>>
    BY <1>9, <1>1 DEF ReadSchedule
  <2>2. CASE shc.exists
    <3> DEFINE t == [task[c] EXCEPT !.pc = "write"]
    <3>1. t.pc = "write" /\ t.call = task[c].call /\ t.attempt = task[c].attempt
      BY <1>1 DEF Task
    <3>2. Goto(c, t) /\ seen' = [seen EXCEPT ![c] = Snapshot(shc)]
      BY <1>9, <1>1, <2>2 DEF ReadSchedule
    <3>3. seen'[c].rv = shc.rv /\ \A d \in Check \ {c} : seen'[d] = seen[d]
      BY <3>2 DEF IInv, TypeOK, Snapshot
    <3> HIDE DEF t
    <3>4. Sound(c, t, seen'[c].rv, shc, n)
      BY <2>1, <2>2, <3>1, <3>3, <1>2 DEF Sound
    <3> QED
      BY <2>1, <3>1, <3>2, <3>3, <3>4, <1>3 DEF Early
  <2>3. CASE ~shc.exists
    <3>1. CrowdInv' <=> (Calm' => limbo' = {})
      BY <2>1, <2>3 DEF CrowdInv
    <3> QED
      BY <3>1, <2>1 DEF CrowdInv
  <2> QED
    BY <2>2, <2>3
<1>10. CASE Poll(c)
  <2>1. task[c].pc = "poll" /\ UNCHANGED <<shc, limbo, seen, budget>>
    BY <1>10, <1>1 DEF Poll
  <2>2. CASE Goto(c, [StartCall(task[c], "move") EXCEPT !.verdict = ResultOf(c)])
    <3> DEFINE t == [StartCall(task[c], "move") EXCEPT !.verdict = ResultOf(c)]
    <3>1. t.pc = "read" /\ t.call = "move" /\ t.attempt = 0
      BY <1>1 DEF StartCall, Task
    <3>2. Goto(c, t)
      BY <2>2
    <3> HIDE DEF t
    <3> QED
      BY <2>1, <3>1, <3>2, <1>3, <1>4 DEF Early
  <2>3. CASE Goto(c, StartCall(task[c], "remove"))
    <3> DEFINE t == StartCall(task[c], "remove")
    <3>1. t.pc = "read" /\ t.call = "remove" /\ t.attempt = 0
      BY <1>1 DEF StartCall, Task
    <3>2. Goto(c, t)
      BY <2>3
    <3> HIDE DEF t
    <3> QED
      BY <2>1, <3>1, <3>2, <1>3, <1>4 DEF Early
  <2>4. CASE Goto(c, NextPoll(task[c]))
    <3> DEFINE t == NextPoll(task[c])
    <3>1. t.pc = "poll"
      BY DEF NextPoll, NoTask
    <3>2. Goto(c, t)
      BY <2>4
    <3> HIDE DEF t
    <3> QED
      BY <2>1, <3>1, <3>2, <1>3, <1>5 DEF Early
  <2> QED
    BY <2>2, <2>3, <2>4, <1>10 DEF Poll
<1>11. CASE WatchTimeout(c)
  <2> DEFINE t == [StartCall(task[c], "move") EXCEPT !.verdict = "error", !.late = TRUE]
  <2>1. t.pc = "read" /\ t.call = "move" /\ t.attempt = 0 /\ task[c].pc = "poll"
    BY <1>1, <1>11 DEF StartCall, Task, WatchTimeout
  <2>2. Goto(c, t) /\ UNCHANGED <<shc, limbo, seen, budget>>
    BY <1>11 DEF WatchTimeout
  <2> HIDE DEF t
  <2> QED
    BY <2>1, <2>2, <1>3, <1>4 DEF Early
<1> QED
  BY <1>6, <1>7, <1>8, <1>9, <1>10, <1>11

\* A PATCH is answered: it is accepted and the call returns, or it was
\* overtaken, and then there is another attempt because rivals are few.
LEMMA CrowdWrite ==
  ASSUME IInv, IInv', CrowdInv, IsFiniteSet(Fired'), Calm', Calm,
         NEW c \in Check, WriteSchedule(c)
  PROVE  CrowdInv'
<1> DEFINE n == Rivals(task, budget.edits, c)
           t == task[c]
           p == PatchOf(c)
<1>1. /\ t \in Task /\ t.pc = "write" /\ n \in Nat /\ n < MaxRetries
      /\ \A kind : ~Fault(kind)
  <2>1. t.pc = "write"
    BY DEF WriteSchedule
  <2>2. /\ IsFiniteSet(FiredIn(task)) /\ budget.edits \in Nat
        /\ budget.edits + 2 * Cardinality(FiredIn(task)) < MaxRetries + 2
    BY DEF CrowdInv, Fired, IInv, TypeOK, Calm, Few
  <2>3. n \in Nat /\ n + 2 <= budget.edits + 2 * Cardinality(FiredIn(task))
    BY <2>1, <2>2, RivalsType
  <2>4. Cardinality(FiredIn(task)) \in Nat /\ MaxRetries \in Nat
    BY <2>2, FS_CardinalityType, RetryAssumption
  <2>5. n < MaxRetries
    BY <2>2, <2>3, <2>4
  <2> QED
    BY <2>1, <2>3, <2>5 DEF IInv, TypeOK, Calm, Fault
<1>2. /\ limbo' = limbo /\ limbo' = {} /\ budget' = budget
      /\ \A d \in Check \ {c} : seen'[d] = seen[d]
  BY <1>1 DEF WriteSchedule, CrowdInv, IInv, TypeOK
<1>3. CASE ~shc.exists
  <2>1. ~shc'.exists
    BY <1>1, <1>3 DEF WriteSchedule, Current
  <2>2. IsFiniteSet(Fired)'
    OBVIOUS
  <2> QED
    BY <1>2, <2>1, <2>2 DEF CrowdInv
<1>4. CASE shc.exists
  <2>1. Sound(c, t, seen[c].rv, shc, n)
    BY <1>4 DEF CrowdInv
  <2>2. t.call \in {"add", "move", "remove"} /\ t.attempt \in 0..(MaxRetries - 1)
    BY <1>1, <2>1 DEF Sound, Task, Call
  <2>3. /\ p \in Patch /\ p.check = c /\ p.call = t.call
        /\ p.rv = shc.rv => UpToDate(p)
    BY <1>1, PatchLemma DEF IInv
  <2>4. CASE Current(p) /\ Apply(p) /\ Goto(c, Returned(t))
    <3> DEFINE u == Returned(t)
    <3>1. IF t.call = "add" THEN u.pc = "poll" ELSE u.pc = "done"
      BY <2>2 DEF Returned, StartWatching, Done, NoTask
    <3>2. ~Early(u)
      BY <3>1 DEF Early
    <3>3. Early(t) <=> t.call = "add"
      BY <1>1 DEF Early
    <3>4. UpToDate(p) /\ shc' = Merged(p)
      BY <2>3, <2>4 DEF Current, Apply
    <3>5. shc'.active = p.active /\ shc'.exists = shc.exists
      BY <2>3, <3>4, MergedLemma DEF IInv
    <3>6. p.active = IF t.call = "add" THEN shc.active \union {c} ELSE shc.active \ {c}
      BY <2>3, <3>4 DEF UpToDate, NewActive
    <3> HIDE DEF u, p
    <3>7. Sound(c, u, seen'[c].rv, shc', n)
      BY <3>1, <3>5, <3>6 DEF Sound
    <3>8. shc'.active \subseteq shc.active \union {c}
      BY <3>5, <3>6
    <3>9. (Early(t) /\ ~Early(u)) \/ u.pc = "done"
      BY <3>1, <3>2, <3>3
    <3>10. Goto(c, u)
      BY <2>4 DEF u
    <3> HIDE DEF t, n
    <3>11. task[c].pc # "done" /\ t = task[c] /\ n = Rivals(task, budget.edits, c)
      BY <1>1 DEF t, n
    <3> QED
      BY <1>2, <3>2, <3>5, <3>7, <3>8, <3>9, <3>10, <3>11, CrowdCoroutine
  <2>5. CASE ~Current(p) /\ shc' = shc /\ Goto(c, Conflicted(t))
    <3> DEFINE u == Conflicted(t)
    <3>1. seen[c].rv # shc.rv
      BY <1>4, <2>5 DEF Current, PatchOf
    <3>2. t.attempt + 1 <= n
      BY <1>1, <2>1, <3>1 DEF Sound
    <3>3. t.attempt + 1 # MaxRetries
      BY <1>1, <2>2, <3>2, RetryAssumption
    <3>4. u = [t EXCEPT !.pc = "read", !.attempt = t.attempt + 1]
      BY <3>3 DEF Conflicted
    <3>5. u.pc = "read" /\ u.call = t.call /\ u.attempt = t.attempt + 1
      BY <1>1, <3>4 DEF Task
    <3>6. Early(u) => Early(t)
      BY <1>1, <3>5 DEF Early
    <3> HIDE DEF u, p
    <3>7. Sound(c, u, seen'[c].rv, shc', n)
      BY <2>2, <2>5, <3>2, <3>5 DEF Sound
    <3>8. Goto(c, u)
      BY <2>5 DEF u
    <3> HIDE DEF t, n
    <3>9. task[c].pc # "done" /\ t = task[c] /\ n = Rivals(task, budget.edits, c)
      BY <1>1 DEF t, n
    <3> QED
      BY <1>2, <2>5, <3>6, <3>7, <3>8, <3>9, CrowdCoroutine
  <2> QED
    BY <1>1, <1>4, <2>4, <2>5 DEF WriteSchedule
<1> QED
  BY <1>3, <1>4

\* A foreign write counts as a rival of everybody; a check and the deletion of
\* the schedule disturb nobody; and nothing is delayed that could arrive.
LEMMA CrowdWorld ==
  ASSUME IInv, IInv', CrowdInv, IsFiniteSet(Fired'), Calm', Calm,
         \/ \E c \in Check :
              CheckReruns(c) \/ CheckDeleted(c) \/ \E r \in Verdict : CheckFinishes(c, r)
         \/ EditSchedule \/ DeleteSchedule \/ Crash
         \/ \E p \in limbo : LimboArrives(p)
  PROVE  CrowdInv'
<1>1. /\ limbo = {} /\ IsFiniteSet(FiredIn(task))
      /\ budget \in BudgetType /\ task \in [Check -> Task]
      /\ budget.crashes = 0 /\ budget'.crashes = 0
  BY DEF CrowdInv, Calm, Fired, IInv, TypeOK, BudgetType
<1>2. ~Crash
  BY <1>1 DEF Crash, BudgetType
<1>3. CASE UNCHANGED <<shc, task, seen, limbo>> /\ budget'.edits = budget.edits
  BY <1>3 DEF CrowdInv, Fired
<1>4. CASE EditSchedule
  <2>1. /\ UNCHANGED <<task, seen, limbo>> /\ shc'.active = shc.active /\ shc.exists
        /\ budget'.edits = budget.edits + 1
    BY <1>1, <1>4 DEF EditSchedule, IInv, TypeOK, BudgetType
  <2>2. ASSUME NEW d \in Check
        PROVE  Sound(d, task'[d], seen'[d].rv, shc', Rivals(task', budget'.edits, d))
    <3> DEFINE n == Rivals(task, budget.edits, d)
               m == Rivals(task', budget'.edits, d)
    <3>1. Sound(d, task[d], seen[d].rv, shc, n)
      BY <2>1 DEF CrowdInv
    <3>2. n \in Nat /\ m = n + 1
      <4>1. /\ Cardinality(Past(task, d)) \in Nat /\ Cardinality(Ended(task, d)) \in Nat
            /\ budget.edits \in Nat
        BY <1>1, RivalsType DEF BudgetType
      <4> QED
        BY <4>1, <2>1 DEF Rivals
    <3>3. task[d] \in Task /\ task'[d] = task[d] /\ seen'[d] = seen[d]
      BY <1>1, <2>1
    <3> HIDE DEF n, m
    <3>4. m \in Nat /\ n <= m /\ n + 1 <= m
      BY <3>2
    <3>5. Sound(d, task[d], seen[d].rv, shc', m)
      BY <2>1, <3>1, <3>2, <3>3, <3>4, SoundOthers
    <3> QED
      BY <3>3, <3>5 DEF m
  <2>3. IsFiniteSet(Fired)' /\ limbo' = {}
    BY <1>1, <2>1
  <2> QED
    BY <2>2, <2>3 DEF CrowdInv
<1>5. CASE DeleteSchedule
  <2>1. ~shc'.exists /\ limbo' = {}
    BY <1>1, <1>5 DEF DeleteSchedule, IInv, TypeOK
  <2>2. IsFiniteSet(Fired)'
    OBVIOUS
  <2> QED
    BY <2>1, <2>2 DEF CrowdInv
<1>6. CASE \E c \in Check :
             CheckReruns(c) \/ CheckDeleted(c) \/ \E r \in Verdict : CheckFinishes(c, r)
  BY <1>1, <1>3, <1>6 DEF CheckReruns, CheckDeleted, CheckFinishes, BudgetType
<1> QED
  BY <1>1, <1>2, <1>4, <1>5, <1>6

LEMMA CrowdNext == IInv /\ CrowdInv /\ [Next]_vars => CrowdInv'
<1> SUFFICES ASSUME IInv, CrowdInv, [Next]_vars PROVE CrowdInv'
  OBVIOUS
<1>1. IInv'
  BY NextInv
<1>2. CASE UNCHANGED vars
  BY <1>2 DEF vars, CrowdInv, Calm, Few, Fired
<1>3. CASE Next
  <2>1. IsFiniteSet(Fired') /\ Fired \subseteq Fired'
    BY <1>3, FiredNext DEF CrowdInv
  <2>2. /\ budget.faults <= budget'.faults /\ budget.crashes <= budget'.crashes
        /\ budget.edits <= budget'.edits
    <3>1. budget \in BudgetType
      BY DEF IInv, TypeOK, BudgetType
    <3>2. CASE UNCHANGED budget
      BY <3>1, <3>2 DEF BudgetType
    <3>3. CASE \E kind : Fault(kind)
      BY <3>1, <3>3 DEF Fault, BudgetType
    <3>4. CASE Crash
      BY <3>1, <3>4 DEF Crash, BudgetType
    <3>5. CASE EditSchedule
      BY <3>1, <3>5 DEF EditSchedule, BudgetType
    <3>6. CASE \E c \in Check : CheckReruns(c)
      BY <3>1, <3>6 DEF CheckReruns, BudgetType
    <3> QED
      BY <1>3, <3>2, <3>3, <3>4, <3>5, <3>6
         DEF Next, Coroutine, Execute, CreateHealthCheck, GetUid, ReadSchedule, WriteSchedule,
             Poll, WatchTimeout, CheckDeleted, CheckFinishes, LimboArrives, DeleteSchedule
  <2>3. CASE ~Calm'
    <3>1. IsFiniteSet(Fired)'
      BY <2>1
    <3> QED
      BY <2>3, <3>1 DEF CrowdInv
  <2>4. CASE Calm'
    <3>1. Calm
      BY <1>1, <2>1, <2>2, <2>4, CalmBefore DEF CrowdInv
    <3>2. CASE \E c \in Check : Execute(c) \/ CreateHealthCheck(c) \/ GetUid(c)
                                \/ ReadSchedule(c) \/ Poll(c) \/ WatchTimeout(c)
      BY <1>1, <2>1, <2>4, <3>1, <3>2, CrowdQuiet
    <3>3. CASE \E c \in Check : WriteSchedule(c)
      BY <1>1, <2>1, <2>4, <3>1, <3>3, CrowdWrite
    <3>4. CASE \/ \E c \in Check :
                    CheckReruns(c) \/ CheckDeleted(c) \/ \E r \in Verdict : CheckFinishes(c, r)
               \/ EditSchedule \/ DeleteSchedule \/ Crash
               \/ \E p \in limbo : LimboArrives(p)
      BY <1>1, <2>1, <2>4, <3>1, <3>4, CrowdWorld
    <3> QED
      BY <1>3, <3>2, <3>3, <3>4 DEF Next, Coroutine
  <2> QED
    BY <2>3, <2>4
<1> QED
  BY <1>2, <1>3
-----------------------------------------------------------------------------
(* The refinement and the theorems *)

\* Every accepted PATCH is a step of the ledger, and nothing else moves it.
LEMMA LedgerStep == IInv /\ [Next]_vars => [Ledger!Next]_(Ledger!ledger)
<1> SUFFICES ASSUME IInv, [Next]_vars PROVE [Ledger!Next]_(Ledger!ledger)
  OBVIOUS
<1>1. ASSUME NEW p \in Patch, Current(p), UpToDate(p), Apply(p),
             p.call = "add" => p.check \notin recorded
      PROVE  [Ledger!Next]_(Ledger!ledger)
  BY <1>1, ApplyLemma
<1>2. ASSUME UNCHANGED <<shc.active, shc.history, recorded>>
      PROVE  [Ledger!Next]_(Ledger!ledger)
  BY <1>2 DEF Ledger!ledger
<1>3. CASE \E c \in Check : WriteSchedule(c)
  <2>1. PICK c \in Check : WriteSchedule(c)
    BY <1>3
  <2>2. task[c].pc = "write"
    BY <2>1 DEF WriteSchedule
  <2>3. /\ PatchOf(c) \in Patch
        /\ PatchOf(c).check = c /\ PatchOf(c).call = task[c].call
        /\ PatchOf(c).rv = shc.rv => UpToDate(PatchOf(c))
    BY <2>2, PatchLemma DEF IInv
  <2>4. PatchOf(c).call = "add" => PatchOf(c).check \notin recorded
    BY <2>2, <2>3 DEF IInv, EarlyUnrecorded, Early
  <2>5. CASE Current(PatchOf(c)) /\ Apply(PatchOf(c))
    BY <2>3, <2>4, <2>5, <1>1 DEF Current
  <2>6. CASE UNCHANGED <<shc, recorded>>
    BY <2>6, <1>2
  <2> QED
    BY <2>1, <2>5, <2>6 DEF WriteSchedule
<1>4. CASE \E p \in limbo : LimboArrives(p)
  <2>1. PICK p \in limbo : LimboArrives(p)
    BY <1>4
  <2>2. /\ p \in Patch
        /\ p.rv = shc.rv => UpToDate(p)
        /\ p.call = "add" /\ p.check \in recorded => p.rv < shc.rv
        /\ p.rv \in Nat /\ shc.rv \in Nat
    BY <2>1 DEF IInv, TypeOK, Delayed, Disarmed, Patch
  <2>3. CASE Current(p) /\ Apply(p)
    BY <2>2, <2>3, <1>1 DEF Current, IInv, TypeOK, Delayed, Patch
  <2>4. CASE UNCHANGED <<shc, recorded>>
    BY <2>4, <1>2
  <2> QED
    BY <2>1, <2>3, <2>4 DEF LimboArrives
<1>5. CASE EditSchedule \/ DeleteSchedule
  <2>1. shc.active' = shc.active /\ shc.history' = shc.history /\ recorded' = recorded
    BY <1>5 DEF EditSchedule, DeleteSchedule, IInv, TypeOK
  <2> QED
    BY <2>1, <1>2
<1>6. CASE UNCHANGED <<shc, recorded>>
  BY <1>6, <1>2
<1> QED
  BY <1>3, <1>4, <1>5, <1>6
     DEF Next, Coroutine, vars, Execute, CreateHealthCheck, GetUid, ReadSchedule, Poll,
         WatchTimeout, CheckReruns, CheckDeleted, CheckFinishes, Crash

\* The variables keep their types: above all, history stays within MaxHistory
\* entries, attempts within MaxRetries and versions natural numbers.
THEOREM TypeCorrect == Spec => []TypeOK
<1>1. IInv => TypeOK
  BY DEF IInv
<1> QED
  BY <1>1, Inductive, PTL

\* No interleaving of coroutines, faults, restarts and delayed PATCHes lists a
\* check in active once it has been entered in history.
THEOREM RecordedStaysInactive == Spec => []RecordedNotActive
<1>1. IInv => RecordedNotActive
  BY DEF IInv
<1> QED
  BY <1>1, Inductive, PTL

\* lastResult and the head of history always come from the same update.
THEOREM LastResultAgrees == Spec => []LastResultIsHead
<1>1. IInv => LastResultIsHead
  BY DEF IInv
<1> QED
  BY <1>1, Inductive, PTL

\* The GET and PATCH protocol with its retries, faults and restarts implements
\* the ledger: no update of the status is lost, invented or half applied.
THEOREM Refinement == Spec => ImplementsLedger
<1>1. Init => Ledger!Init
  BY DEF Init, Ledger!Init
<1>2. IInv /\ [Next]_vars => [Ledger!Next]_(Ledger!ledger)
  BY LedgerStep
<1> QED
  BY <1>1, <1>2, Inductive, PTL DEF Spec, ImplementsLedger, Ledger!Spec

\* Whatever overtakes, fails, arrives late or crashes, an entry of the history
\* is a result its check reported, or the error of a watcher that timed out.
THEOREM ResultsReal == Spec => []ResultsAreReal
<1>1. Init => RealInv
  <2> SUFFICES ASSUME Init PROVE RealInv
    OBVIOUS
  <2>1. /\ \A c \in Check : task[c].pc = "idle" /\ ~task[c].late /\ hc[c].phase = "none"
        /\ limbo = {} /\ shc.history = <<>>
    BY DEF Init, NoTask
  <2> QED
    BY <2>1 DEF RealInv, FinishedReported, LateLast, Moving, ResultsAreReal
<1>2. IInv /\ RealInv /\ [Next]_vars => RealInv'
  BY RealNext
<1>3. RealInv => ResultsAreReal
  BY DEF RealInv
<1> QED
  BY <1>1, <1>2, <1>3, Inductive, PTL DEF Spec

\* A second entry of a check in the history needs a failed request, whatever
\* restarts, reruns, conflicts and late arrivals there were.
THEOREM Once == Spec => []EnteredOnce
<1>1. Init => OnceInv
  <2> SUFFICES ASSUME Init, NEW c \in Check
               PROVE  Potential(c, shc.history, limbo, task[c], budget.faults)
    BY DEF OnceInv
  <2>1. shc.history = <<>> /\ limbo = {} /\ budget.faults = 0 /\ task[c].pc = "idle"
    BY DEF Init, NoTask
  <2>2. Entries(c, shc.history) = {} /\ Pending(c, limbo) = {} /\ Live(task[c]) = 1
    BY <2>1 DEF Entries, Pending, Live
  <2>3. /\ IsFiniteSet(Pending(c, limbo))
        /\ Cardinality(Entries(c, shc.history)) = 0 /\ Cardinality(Pending(c, limbo)) = 0
    BY <2>2, FS_EmptySet
  <2> QED
    BY <2>1, <2>2, <2>3 DEF Potential
<1>2. IInv /\ OnceInv /\ [Next]_vars => OnceInv'
  BY OnceNext
<1>3. IInv /\ OnceInv => EnteredOnce
  <2> SUFFICES ASSUME IInv, OnceInv, NEW c \in Check
               PROVE  Cardinality(Entries(c, shc.history)) <= 1 + budget.faults
    BY DEF EnteredOnce, Entries
  <2>1. shc.history \in Histories /\ budget.faults \in Nat
    BY DEF IInv, TypeOK
  <2>2. Cardinality(Entries(c, shc.history)) \in Nat
    BY <2>1, EntriesFinite DEF Histories
  <2>3. Cardinality(Pending(c, limbo)) \in Nat /\ Live(task[c]) \in 0..1
    BY FS_CardinalityType DEF OnceInv, Potential, Live
  <2> QED
    BY <2>1, <2>2, <2>3 DEF OnceInv, Potential
<1> QED
  BY <1>1, <1>2, <1>3, Inductive, PTL DEF Spec

\* Conflicts alone leave no check behind in active: as long as the foreign
\* writes and twice the other executions stay below MaxRetries, no coroutine
\* runs out of attempts, and each takes its check out of active as it ends.
THEOREM NoneLeftBehind == Spec => [](Few => NoOrphan)
<1>1. Init => CrowdInv
  <2> SUFFICES ASSUME Init PROVE CrowdInv
    OBVIOUS
  <2>1. Fired = {} /\ limbo = {} /\ \A c \in Check : task[c].pc = "idle"
    BY DEF Init, NoTask, Fired, FiredIn
  <2> QED
    BY <2>1, FS_EmptySet DEF CrowdInv, Sound
<1>2. IInv /\ CrowdInv /\ [Next]_vars => CrowdInv'
  BY CrowdNext
<1>3. IInv /\ CrowdInv => (Few => NoOrphan)
  <2> SUFFICES ASSUME IInv, CrowdInv, Calm, NEW c \in shc.active, shc.exists
               PROVE  task[c].pc # "done"
    BY DEF NoOrphan, Calm
  <2>1. c \in Check
    BY DEF IInv, TypeOK
  <2> QED
    BY <2>1 DEF CrowdInv, Sound
<1> QED
  BY <1>1, <1>2, <1>3, Inductive, PTL DEF Spec
=============================================================================
