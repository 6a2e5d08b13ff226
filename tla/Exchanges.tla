----------------------------- MODULE Exchanges ------------------------------
(***************************************************************************)
(* What a tool makes of the answers of the services it asks.  The tools    *)
(* (holmes/plugins/toolsets) differ in what they ask; what the agent gets  *)
(* back depends on a few decisions that each of them takes on its own:     *)
(* whether arguments that do not fit are refused or raise, whether an      *)
(* exchange that fails is an error, is named beside what was found, or     *)
(* passes for an empty answer, and whether an empty answer is one.  The    *)
(* operators below are those decisions; the modules of the tools put them  *)
(* together.                                                               *)
(***************************************************************************)
EXTENDS Naturals, FiniteSets

CONSTANTS
  Exchange,  \* the numbers of the exchanges of one call that are told apart: 1, 2, ...
  Reply      \* the replies told apart, a part of AnyReply

\* "full": data.  "vast": more data than the agent's context takes.  "none": an empty
\* answer.  "refused": an error status or exit code.  "busy": a rate limit.  "garbled": an
\* answer that cannot be parsed.  "lost": no answer, or a failure of the service.
AnyReply == {"full", "vast", "none", "refused", "busy", "garbled", "lost"}
Failed == {"refused", "busy", "garbled", "lost"}
Found == {"full", "vast"}

ASSUME ExchangeAssumption ==
  IsFiniteSet(Exchange) /\ Exchange = 1..Cardinality(Exchange) /\ 3 \in Exchange
ASSUME ReplyAssumption == Reply \subseteq AnyReply

\* The arguments of a call: they fit, they do not, only the jq filter in them is wrong, or
\* they ask for a part of the answer in which there is nothing.
Params == {"fit", "unfit", "bad_jq", "narrow"}
Call == [params : Params, got : [Exchange -> Reply]]

\* What prerequisites are checked on: the configuration of the toolset, and exchanges.
Setup == [config : {"valid", "invalid", "absent"}, got : [Exchange -> Reply]]

\* What a tool returns.  tells: the agent is shown which exchange failed.  big: it is as
\* long as a vast answer.  failed, found: auxiliary, what the exchanges were.
Result == [status : {"success", "no_data", "error", "approval_required", "raised"},
           tells : BOOLEAN, big : BOOLEAN, failed : BOOLEAN, found : BOOLEAN]

\* The replies to the first n exchanges of a call.
Got(c, n) == {c.got[i] : i \in 1..n}

\* One exchange that is tried again while its reply is in S: the first reply that is not,
\* or that of the last try.
Retried(c, S) ==
  IF \A i \in Exchange : c.got[i] \in S THEN {c.got[Cardinality(Exchange)]}
  ELSE {c.got[i] : i \in {j \in Exchange : c.got[j] \notin S /\ \A k \in 1..(j - 1) : c.got[k] \in S}}

Outcome(status, tells, R) ==
  [status |-> status, tells |-> tells,
   big |-> "vast" \in R /\ status \in {"success", "no_data"},
   failed |-> R \cap Failed # {}, found |-> R \cap Found # {}]

\* Nothing was asked.
Rejected == Outcome("error", TRUE, {})
Raised == Outcome("raised", TRUE, {})
Local == Outcome("success", FALSE, {"full"})

\* Arguments that do not fit end the call before an exchange.
Guarded(c, rejection, result) == IF c.params = "unfit" THEN rejection ELSE result

\* Replies that fail pass for empty answers; empty is the status of those.
Silent(R, empty) ==
  Outcome(IF R \cap Found # {} THEN "success" ELSE empty, FALSE, R)

\* The first reply that fails decides.
Answered(R, failure, empty) ==
  IF R \cap Failed # {} THEN Outcome(failure, TRUE, R) ELSE Silent(R, empty)

Strict(R, empty) == Answered(R, "error", empty)
Escaping(R, empty) == Answered(R, "raised", empty)

\* Replies that fail are named in an answer that succeeds.
Named(R) == Outcome("success", R \cap Failed # {}, R)

\* The first n replies of those that count are named when they fail, the others are not.
PartlyNamed(c, n) == Outcome("success", Got(c, n) \cap Failed # {}, Got(c, 3))

\* JsonFilterMixin.filter_result: an expression that jq does not take is all the agent
\* reads, whatever it was applied to.
Filtered(c, result) ==
  IF c.params = "bad_jq"
  THEN [result EXCEPT !.status = IF @ = "raised" THEN @ ELSE "error",
                      !.tells = result.status = "raised", !.big = FALSE]
  ELSE result

\* The filter of a tool that filters only what it found.
FilteredIfFound(c, result) ==
  IF result.status = "success" THEN Filtered(c, result) ELSE result

\* What a call of a tool may return.
Results(Invoke(_)) == {Invoke(c) : c \in Call}

\* What a check of prerequisites may come to.  dark: auxiliary, nobody answered it.
Probe == [checked : BOOLEAN, ready : BOOLEAN, dark : BOOLEAN]
Deferred == [checked |-> FALSE, ready |-> FALSE, dark |-> FALSE]
Probes(Ready(_)) ==
  {[checked |-> TRUE, ready |-> Ready(s), dark |-> Got(s, Cardinality(Exchange)) \subseteq {"refused", "busy", "lost"}] : s \in Setup}

\* A check of prerequisites that asks n times and wants replies in S; the exception a
\* callable raises is a failure too (Toolset.check_prerequisites).
Answers(s, n, S) == Got(s, n) \subseteq S
Accepted == {"full", "vast", "none"}
=============================================================================
