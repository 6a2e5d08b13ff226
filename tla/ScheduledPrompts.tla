-------------------------- MODULE ScheduledPrompts --------------------------
(***************************************************************************)
(* Prompts that the platform schedules and Holmes servers execute:         *)
(* core/scheduled_prompts/executor.py and heartbeat_tracer.py, with the    *)
(* calls of the platform's database in core/supabase_dal.py.               *)
(*                                                                         *)
(* A server polls for a run, and the platform lets one server pull it.     *)
(* The server executes the prompt as a chat, sends heartbeats that call    *)
(* the run running while it does, and reports how it ended.  Every call    *)
(* of the database may fail, be applied with its answer lost, or be        *)
(* applied late, and all errors are swallowed.  A server may be killed at  *)
(* any time.                                                               *)
(*                                                                         *)
(* What the platform does is not part of the code: it is modelled from the *)
(* statuses that the code tells apart.  It gives out again a run whose     *)
(* heartbeats stop, and a run that failed and may be retried.              *)
(***************************************************************************)
EXTENDS Naturals, FiniteSets

CONSTANTS
  Run,         \* runs of scheduled prompts
  Holmes,      \* servers of one account and cluster
  None,        \* no run
  MaxFaults,   \* bound on lost and late calls, kills, and runs taken from a live server
  MaxRetries   \* bound on retries that the platform grants a failed run

ASSUME NoneAssumption == None \notin Run
ASSUME HolmesAssumption == IsFiniteSet(Holmes)
ASSUME BoundsAssumption == MaxFaults \in Nat /\ MaxRetries \in Nat

VARIABLES
  row,       \* ScheduledPromptsRuns: the status of each run, and its retries
  payload,   \* whether a run's payload is good, invalid, or names an unknown model
  holmes,    \* the executor thread of each server
  late,      \* updates of a row that were sent and will be applied later
  answered,  \* auxiliary: how often the chat of a run gave an answer
  faults     \* faults so far, for the bound and for the properties

vars == <<row, payload, holmes, late, answered, faults>>
-----------------------------------------------------------------------------
Final == {"completed", "failed", "failed_no_retry"}
Update == [run : Run, status : Final \union {"running"}]

TypeOK ==
  /\ row \in [Run -> [status : Final \union {"pending", "pulled", "running"}, retries : 0..MaxRetries]]
  /\ payload \in [Run -> {"good", "invalid", "unknown_model"}]
  /\ holmes \in [Holmes -> [pc : {"off", "poll", "parse", "execute", "chat", "report"},
                            run : Run \union {None}, outcome : Final \union {"none"}]]
  /\ late \subseteq Update
  /\ answered \in [Run -> Nat]
  /\ faults \in 0..MaxFaults

Polling == [pc |-> "poll", run |-> None, outcome |-> "none"]
Off == [Polling EXCEPT !.pc = "off"]

Init ==
  /\ row = [r \in Run |-> [status |-> "pending", retries |-> 0]]
  /\ payload \in [Run -> {"good", "invalid", "unknown_model"}]
  /\ holmes = [h \in Holmes |-> Off]
  /\ late = {}
  /\ answered = [r \in Run |-> 0]
  /\ faults = 0
-----------------------------------------------------------------------------
(* Calls of the database *)

Fault == faults < MaxFaults /\ faults' = faults + 1

Set(r, status) == row' = [row EXCEPT ![r].status = status]

\* An update is applied, lost on its way, or applied after the caller gave up on it.  The
\* caller goes on in the same way: supabase_dal logs the error and returns False.
Send(r, status) ==
  \/ Set(r, status) /\ UNCHANGED <<late, faults>>
  \/ Fault /\ UNCHANGED <<row, late>>
  \/ Fault /\ late' = late \union {[run |-> r, status |-> status]} /\ UNCHANGED row

Arrive(u) ==
  /\ late' = late \ {u}
  /\ Set(u.run, u.status)
  /\ UNCHANGED <<payload, holmes, answered, faults>>
-----------------------------------------------------------------------------
(* ScheduledPromptsExecutor *)

Become(h, pc) == holmes' = [holmes EXCEPT ![h].pc = pc]

\* start, when the server starts.
Start(h) ==
  /\ holmes[h].pc = "off"
  /\ Become(h, "poll")
  /\ UNCHANGED <<row, payload, late, answered, faults>>

\* claim_scheduled_prompt_run: the platform chooses a run; its answer may be lost, and the
\* server, which takes that for no run, polls again.
Claim(h, r) ==
  /\ holmes[h].pc = "poll"
  /\ row[r].status = "pending"
  /\ Set(r, "pulled")
  /\ \/ holmes' = [holmes EXCEPT ![h].pc = "parse", ![h].run = r] /\ UNCHANGED faults
     \/ Fault /\ UNCHANGED holmes
  /\ UNCHANGED <<payload, late, answered>>

\* Mutant: a payload that is not valid is skipped.
ParseSkip(h) ==
  /\ holmes[h].pc = "parse"
  /\ IF payload[holmes[h].run] = "invalid"
     THEN holmes' = [holmes EXCEPT ![h] = Polling]
     ELSE Become(h, "execute")
  /\ UNCHANGED <<row, late, faults, payload, answered>>

\* _process_next_prompt: a payload that is not valid is reported once, with a status that
\* is not tried again.
Parse(h) ==
  /\ holmes[h].pc = "parse"
  /\ IF payload[holmes[h].run] = "invalid"
     THEN /\ Send(holmes[h].run, "failed_no_retry")
          /\ holmes' = [holmes EXCEPT ![h] = Polling]
     ELSE /\ Become(h, "execute")
          /\ UNCHANGED <<row, late, faults>>
  /\ UNCHANGED <<payload, answered>>

Report(h, outcome) ==
  holmes' = [holmes EXCEPT ![h].pc = "report", ![h].outcome = outcome]

\* _execute_scheduled_prompt: the model is looked up first.
Execute(h) ==
  /\ holmes[h].pc = "execute"
  /\ IF payload[holmes[h].run] = "unknown_model" THEN Report(h, "failed") ELSE Become(h, "chat")
  /\ UNCHANGED <<row, payload, late, answered, faults>>

\* A span of the chat starts or logs, and the last heartbeat is long enough ago.
Heartbeat(h) ==
  /\ holmes[h].pc = "chat"
  /\ Send(holmes[h].run, "running")
  /\ UNCHANGED <<payload, holmes, answered>>

\* Mutant: what happens after the answer, too, is reported as a failure.
AnswerBroken(h) ==
  /\ holmes[h].pc = "chat"
  /\ answered' = [answered EXCEPT ![holmes[h].run] = @ + 1]
  /\ \E outcome \in {"completed", "failed"} : Report(h, outcome)
  /\ UNCHANGED <<row, payload, late, faults>>

\* _execute_prompt: the chat function returns.
Answer(h) ==
  /\ holmes[h].pc = "chat"
  /\ answered' = [answered EXCEPT ![holmes[h].run] = @ + 1]
  /\ Report(h, "completed")
  /\ UNCHANGED <<row, payload, late, faults>>

\* Mutant: the run is reported as done all the same.
RaiseDone(h) ==
  /\ holmes[h].pc \in {"execute", "chat"}
  /\ Report(h, "completed")
  /\ UNCHANGED <<row, payload, late, answered, faults>>

\* Anything on the way raises: the model list, the chat, an LLM or the tools' executor.
Raise(h) ==
  /\ holmes[h].pc \in {"execute", "chat"}
  /\ Report(h, "failed")
  /\ UNCHANGED <<row, payload, late, answered, faults>>

\* _finish_run, after which the loop polls again at once.
Finish(h) ==
  /\ holmes[h].pc = "report"
  /\ Send(holmes[h].run, holmes[h].outcome)
  /\ holmes' = [holmes EXCEPT ![h] = Polling]
  /\ UNCHANGED <<payload, answered>>

\* The server is killed; its thread is a daemon and leaves the run as it is.
Kill(h) ==
  /\ holmes[h].pc # "off"
  /\ Fault
  /\ holmes' = [holmes EXCEPT ![h] = Off]
  /\ UNCHANGED <<row, payload, late, answered>>
-----------------------------------------------------------------------------
(* The platform *)

Worked(r) == \E h \in Holmes : holmes[h].run = r

\* Heartbeats stopped; of a run that a server is at, because its chat was silent too long.
Expire(r) ==
  /\ row[r].status \in {"pulled", "running"}
  /\ IF Worked(r) THEN Fault ELSE UNCHANGED faults
  /\ Set(r, "pending")
  /\ UNCHANGED <<payload, holmes, late, answered>>

Retry(r) ==
  /\ row[r].status = "failed"
  /\ row[r].retries < MaxRetries
  /\ row' = [row EXCEPT ![r] = [status |-> "pending", retries |-> @.retries + 1]]
  /\ UNCHANGED <<payload, holmes, late, answered, faults>>

Step(h) == Start(h) \/ Parse(h) \/ Execute(h) \/ Answer(h) \/ Raise(h) \/ Finish(h)
Platform(r) == Expire(r) \/ Retry(r)

Next ==
  \/ \E h \in Holmes : Step(h) \/ Heartbeat(h) \/ Kill(h) \/ \E r \in Run : Claim(h, r)
  \/ \E r \in Run : Platform(r)
  \/ \E u \in late : Arrive(u)

\* Servers are started again, their loops go on whatever raises, and chats end; the
\* platform notices what is not worked on, and what is on its way arrives.
Fairness ==
  /\ \A h \in Holmes : WF_vars(Step(h))
  /\ \A r \in Run : WF_vars(\E h \in Holmes : Claim(h, r)) /\ WF_vars(Platform(r))
  /\ WF_vars(\E u \in late : Arrive(u))

Spec == Init /\ [][Next]_vars /\ Fairness
-----------------------------------------------------------------------------
(* Properties *)

\* What the platform shows as completed has been answered, and what it shows as not to
\* be retried has an invalid payload: reports tell what happened, late or not.
ReportsAreTrue ==
  \A r \in Run :
    /\ row[r].status = "completed" => answered[r] > 0
    /\ row[r].status = "failed_no_retry" => payload[r] = "invalid"

\* A prompt is answered again only after a fault of its own: a report that was lost, a
\* heartbeat that arrived after it, a kill, or a server that was silent too long.  The
\* retries of failed runs repeat nothing that was done.
RepeatedOnlyAfterFault == \A r \in Run : answered[r] <= 1 + faults

\* Every run comes to an end that stays: no payload, model, exception or fault makes the
\* servers pick a run up for ever or drop it.
RunsEnd == <>[](\A r \in Run : row[r].status \in Final)
=============================================================================
