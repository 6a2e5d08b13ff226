----------------------------- MODULE MetricTools ----------------------------
(***************************************************************************)
(* The tools of the toolsets for metrics, logs and traces of a vendor:     *)
(* prometheus, datadog, newrelic and coralogix (holmes/plugins/toolsets).  *)
(* An operator named after the class of a tool is its _invoke: from the    *)
(* arguments of a call and the replies to its exchanges to its result.     *)
(***************************************************************************)
EXTENDS Exchanges

(* Prometheus *)

\* do_request, raise_for_status, json: whatever fails raises and is reported.
PrometheusAnswer(c) == Strict(Got(c, 1), "success")

ListPrometheusRules(c) == FilteredIfFound(c, PrometheusAnswer(c))
GetMetricNames(c) == Guarded(c, Rejected, PrometheusAnswer(c))
GetLabelValues(c) == Guarded(c, Rejected, PrometheusAnswer(c))
GetAllLabels(c) == PrometheusAnswer(c)
GetSeries(c) == Guarded(c, Rejected, PrometheusAnswer(c))
GetMetricMetadata(c) == PrometheusAnswer(c)

\* A result over the tool's own limit is replaced by a summary of it.
Summarized(R) == Outcome("no_data", FALSE, (R \ {"vast"}) \union {"full"})

\* An empty vector is an error; a summary leaves the field of the data empty, by which
\* create_structured_tool_result takes the answer for one without data.
QueryAnswer(R) ==
  IF R = {"vast"} THEN Summarized(R) ELSE Strict(R, "error")

ExecuteInstantQuery(c) == Guarded(c, Rejected, QueryAnswer(Got(c, 1)))
ExecuteRangeQuery(c) == Guarded(c, Rejected, QueryAnswer(Got(c, 1)))

\* _is_healthy looks at the status code alone; without a configuration the address comes
\* from the environment or from an exchange with the cluster.
PrometheusReady(s) ==
  \/ s.config = "valid" /\ Answers(s, 1, Accepted \union {"garbled"})
  \/ s.config = "absent" /\ s.got[1] \in Found /\ s.got[2] \in Accepted \union {"garbled"}

PrometheusToolset == [probes |-> Probes(PrometheusReady), tools |-> [
  ListPrometheusRules |-> Results(ListPrometheusRules),
  GetMetricNames |-> Results(GetMetricNames),
  GetLabelValues |-> Results(GetLabelValues),
  GetAllLabels |-> Results(GetAllLabels),
  GetSeries |-> Results(GetSeries),
  GetMetricMetadata |-> Results(GetMetricMetadata),
  ExecuteInstantQuery |-> Results(ExecuteInstantQuery),
  ExecuteRangeQuery |-> Results(ExecuteRangeQuery)]]
-----------------------------------------------------------------------------
(* Datadog *)

\* execute_datadog_http_request: tried again while the service limits the rate.
DatadogReplies(c) == Retried(c, {"busy"})
DatadogAnswer(c, empty) == Strict(DatadogReplies(c), empty)

\* Replies beyond max_response_size are refused, whatever the context would take.
Capped(result) == IF result.big THEN [result EXCEPT !.status = "error", !.big = FALSE] ELSE result

\* is_endpoint_allowed comes before the exchange.
DatadogAPIGet(c) == Guarded(c, Rejected, Capped(DatadogAnswer(c, "success")))
DatadogAPIPostSearch(c) == Guarded(c, Rejected, Capped(DatadogAnswer(c, "success")))
ListDatadogAPIResources(c) == Guarded(c, Rejected, Local)

ListActiveMetrics(c) ==
  LET r == DatadogAnswer(c, "error") IN
  IF r.status = "success" /\ c.params = "unfit" THEN [r EXCEPT !.status = "error", !.big = FALSE] ELSE r
QueryMetrics(c) == Guarded(c, Rejected, DatadogAnswer(c, "no_data"))

\* One exchange for each metric; an error only when none of them succeeds.
QueryMetricsMetadata(c) ==
  Guarded(c, Rejected,
    IF Got(c, 2) \subseteq Failed THEN Outcome("error", TRUE, Got(c, 2)) ELSE Named(Got(c, 2)))

ListMetricTags(c) == Guarded(c, Rejected, DatadogAnswer(c, "success"))
GetSpans(c) == Guarded(c, Rejected, DatadogAnswer(c, "success"))
AggregateSpans(c) == Guarded(c, Rejected, DatadogAnswer(c, "success"))
GetLogs(c) == Guarded(c, Rejected, DatadogAnswer(c, "success"))

\* The validate endpoint must say that the key is valid; of the search endpoints any
\* answer is enough.
DatadogGeneralReady(s) == s.config = "valid" /\ DatadogReplies(s) \subseteq Found
DatadogMetricsReady(s) == s.config = "valid" /\ DatadogReplies(s) \subseteq Found
DatadogTracesReady(s) == s.config = "valid" /\ DatadogReplies(s) \subseteq Accepted
DatadogLogsReady(s) == s.config = "valid" /\ DatadogReplies(s) \subseteq Accepted

DatadogGeneralToolset == [probes |-> Probes(DatadogGeneralReady), tools |-> [
  DatadogAPIGet |-> Results(DatadogAPIGet),
  DatadogAPIPostSearch |-> Results(DatadogAPIPostSearch),
  ListDatadogAPIResources |-> Results(ListDatadogAPIResources)]]

DatadogMetricsToolset == [probes |-> Probes(DatadogMetricsReady), tools |-> [
  ListActiveMetrics |-> Results(ListActiveMetrics),
  QueryMetrics |-> Results(QueryMetrics),
  QueryMetricsMetadata |-> Results(QueryMetricsMetadata),
  ListMetricTags |-> Results(ListMetricTags)]]

DatadogTracesToolset == [probes |-> Probes(DatadogTracesReady), tools |-> [
  GetSpans |-> Results(GetSpans),
  AggregateSpans |-> Results(AggregateSpans)]]

DatadogLogsToolset == [probes |-> Probes(DatadogLogsReady), tools |-> [
  GetLogs |-> Results(GetLogs)]]
-----------------------------------------------------------------------------
(* New Relic: what fails escapes from the tool.  The accounts are listed by a tool that *)
(* needs no argument.  The prerequisites ask nobody.                                     *)

NrqlAnswer(c) == Escaping(Got(c, 1), "success")
ExecuteNRQLQuery(c) == Guarded(c, Raised, NrqlAnswer(c))
ListOrganizationAccounts(c) == Escaping(Got(c, 1), "success")
NewRelicReady(s) == s.config = "valid"

NewRelicToolset == [probes |-> Probes(NewRelicReady), tools |-> [
  ExecuteNRQLQuery |-> Results(ExecuteNRQLQuery),
  ListOrganizationAccounts |-> Results(ListOrganizationAccounts)]]
-----------------------------------------------------------------------------
(* Coralogix *)

\* An answer of which no line can be parsed is taken for an empty one.
Unparsed(R) == IF R = {"garbled"} THEN Silent(R, "no_data") ELSE Strict(R, "no_data")

ExecuteDataPrimeQuery(c) == Guarded(c, Rejected, Unparsed(Got(c, 1)))
CoralogixReady(s) == s.config = "valid" /\ Answers(s, 1, Accepted \union {"garbled"})

CoralogixToolset == [probes |-> Probes(CoralogixReady), tools |-> [
  ExecuteDataPrimeQuery |-> Results(ExecuteDataPrimeQuery)]]
=============================================================================
