----------------------------- MODULE ToolResults ----------------------------
(***************************************************************************)
(* A conversation of the agent with one tool: from the calls the model     *)
(* asks for to the messages it is shown (holmes/core/tool_calling_llm.py,  *)
(* safeguards.py, tools.py, tools_utils).  The calls of a batch run in     *)
(* threads of their own; the thread of the loop collects their results in  *)
(* the order in which they end.  What a tool makes of the services it asks *)
(* is in the modules of the tools; here a call may return any result that  *)
(* its tool can.                                                           *)
(***************************************************************************)
EXTENDS MetricTools, SearchTools, StoreTools, ClusterTools, Sequences

CONSTANTS
  Filter,    \* the filters a call may have; a call without one has the argument NoFilter
  NoFilter,
  MaxCalls   \* bound: calls of the conversation

ASSUME FilterAssumption == NoFilter \notin Filter
ASSUME MaxCallsAssumption == MaxCalls \in Nat

Args == Filter \union {NoFilter}

Toolsets == [
  prometheus |-> PrometheusToolset,
  datadog_general |-> DatadogGeneralToolset, datadog_metrics |-> DatadogMetricsToolset,
  datadog_traces |-> DatadogTracesToolset, datadog_logs |-> DatadogLogsToolset,
  newrelic |-> NewRelicToolset, coralogix |-> CoralogixToolset,
  elasticsearch |-> ElasticsearchToolsets, opensearch |-> OpenSearchQueryAssistToolset,
  grafana |-> GrafanaToolset, loki |-> GrafanaLokiToolset, tempo |-> GrafanaTempoToolset,
  kafka |-> KafkaToolset, rabbitmq |-> RabbitMQToolset, mongodb |-> MongoDBAtlasToolset,
  servicenow |-> ServiceNowTablesToolset, database |-> DatabaseToolset, azure_sql |-> AzureSQLToolset,
  kubernetes_logs |-> KubernetesLogsToolset, bash |-> BashExecutorToolset,
  kubectl_run |-> KubectlRunToolset, yaml |-> YAMLToolset,
  connectivity |-> ConnectivityCheckToolset, investigator |-> CoreInvestigationToolset,
  mcp |-> RemoteMCPToolset, http |-> HttpToolset, internet |-> InternetToolset,
  notion |-> NotionToolset, robusta |-> RobustaToolset, runbook |-> RunbookToolset]

VARIABLES
  toolset,     \* whose tool the model calls
  tool,
  initialized, \* what the toolset's prerequisites came to, or Deferred
  calls,       \* the calls of the conversation, in the order they were asked for
  tool_calls,  \* those whose results the safeguards look at
  messages,    \* those whose results are in the conversation that is sent
  batch        \* the batches asked for

vars == <<toolset, tool, initialized, calls, tool_calls, messages, batch>>

NotYet == Outcome("success", FALSE, {})

\* A call: where it is; refused, ran: what became of it; remembered: its result
\* names the very arguments it was called with.
Asked(args) ==
  [args |-> args, batch |-> batch + 1, stage |-> "queued", refused |-> FALSE, ran |-> FALSE,
   remembered |-> TRUE, result |-> NotYet]

Collected == {i \in DOMAIN calls : calls[i].stage = "collected"}
Idle == Collected = DOMAIN calls

\* Prerequisites were checked when the executor was made (a toolset that failed is not in
\* it), or are left until the first call.
Init ==
  /\ toolset \in DOMAIN Toolsets
  /\ tool \in DOMAIN Toolsets[toolset].tools
  /\ initialized \in {p \in Toolsets[toolset].probes : p.ready} \union {Deferred}
  /\ calls = <<>> /\ tool_calls = {} /\ messages = {} /\ batch = 0

\* call: an answer of the model with one call, or two.
Ask(asked) ==
  /\ Idle
  /\ Len(calls) + Len(asked) <= MaxCalls
  /\ calls' = calls \o [k \in DOMAIN asked |-> Asked(asked[k])]
  /\ batch' = batch + 1
  /\ UNCHANGED <<toolset, tool, initialized, tool_calls, messages>>
-----------------------------------------------------------------------------
(* The thread of a call *)

\* Mutant: a result without data is no reason to refuse.
RepeatedWithData(args) ==
  \E i \in tool_calls :
    calls[i].remembered /\ calls[i].args = args /\ calls[i].result.status # "no_data"

\* _has_previous_exact_same_tool_call: of the results, whatever they are, one that names
\* the same arguments.
Repeated(args) == \E i \in tool_calls : calls[i].remembered /\ calls[i].args = args

\* _is_redundant_fetch_pod_logs: there were no logs without the filter.
Redundant(args) ==
  /\ tool = "FetchPodLogs"
  /\ args # NoFilter
  /\ \E i \in tool_calls : calls[i].result.status = "no_data" /\ calls[i].args = NoFilter

Refusal == Outcome("error", TRUE, {})

\* prevent_overly_repeated_tool_call
Check(i) ==
  /\ calls[i].stage = "queued"
  /\ LET refused == Repeated(calls[i].args) \/ Redundant(calls[i].args) IN
     calls' = [calls EXCEPT ![i].stage = IF refused THEN "ended" ELSE "cleared",
                            ![i].refused = refused,
                            ![i].result = IF refused THEN Refusal ELSE @]
  /\ UNCHANGED <<toolset, tool, initialized, tool_calls, messages, batch>>

\* ensure_toolset_initialized: the first call checks the prerequisites, under a lock.
Initialize(i) ==
  /\ calls[i].stage = "cleared" /\ ~initialized.checked
  /\ initialized' \in Toolsets[toolset].probes
  /\ UNCHANGED <<toolset, tool, calls, tool_calls, messages, batch>>

\* The tools whose results name other arguments than those of the call: defaults are
\* filled in, arguments taken out, or no arguments are given at all.
Forgetful ==
  {"FetchPodLogs", "DatadogAPIGet", "GetLogs", "GetRabbitMQClusterStatus", "ListConfiguredClusters",
   "ReturnProjectSlowQueries", "ReturnEventsFromProject", "ReturnEventTypeFromProject"}

\* _directly_invoke_tool_call: what a tool lets out is reported.
Caught(r) == IF r.status = "raised" THEN [r EXCEPT !.status = "error", !.tells = TRUE] ELSE r

\* _apply_transformers: a summary that is shorter may take the place of what was found;
\* the commands of YAML toolsets have transformers.
Transformed(r) ==
  {r} \union IF tool = "YAMLTool" /\ r.status = "success" THEN {[r EXCEPT !.big = FALSE]} ELSE {}

\* prevent_overly_big_tool_response: saved in a file, of which the agent is shown a part,
\* or dropped when there is no storage, no command to read it with, or saving fails.
Limited(r) ==
  IF r.big /\ r.status = "success"
  THEN {[r EXCEPT !.big = FALSE], [r EXCEPT !.big = FALSE, !.status = "error"]}
  ELSE {r}

Unavailable == Outcome("error", TRUE, {})

Returned(result, remembered) == [result |-> result, remembered |-> remembered]

\* What a call of the tool may come to: Tool.invoke.
Invoked ==
  IF initialized.ready
  THEN UNION {{Returned(t, r.status = "raised" \/ tool \notin Forgetful) : t \in Transformed(Caught(r))}
              : r \in Toolsets[toolset].tools[tool]}
  ELSE {Returned(Unavailable, TRUE)}

Ended(i, e, approved) ==
  calls' = [calls EXCEPT ![i] = [@ EXCEPT
    !.result = e.result, !.remembered = e.remembered,
    !.ran = initialized.ready,
    !.stage = IF approved THEN "collected" ELSE "ended"]]

\* _invoke_llm_tool_call
Invoke(i) ==
  /\ calls[i].stage = "cleared" /\ initialized.checked
  /\ \E e \in Invoked : \E shown \in Limited(e.result) : Ended(i, [e EXCEPT !.result = shown], FALSE)
  /\ UNCHANGED <<toolset, tool, initialized, tool_calls, messages, batch>>

\* A command outside the allow list: nothing runs before the user is asked.
NeedsApproval(i) ==
  /\ calls[i].stage = "cleared" /\ initialized.ready
  /\ tool = "RunBashCommand"
  /\ calls' = [calls EXCEPT ![i].stage = "asking",
                            ![i].result = Outcome("approval_required", TRUE, {})]
  /\ UNCHANGED <<toolset, tool, initialized, tool_calls, messages, batch>>
-----------------------------------------------------------------------------
(* The thread of the loop *)

Appended(i) ==
  /\ tool_calls' = tool_calls \union {i}
  /\ messages' = messages \union {i}
  /\ UNCHANGED <<toolset, tool, initialized, batch>>

Collect(i) ==
  /\ calls[i].stage = "ended"
  /\ calls' = [calls EXCEPT ![i].stage = "collected"]
  /\ Appended(i)

\* _handle_tool_call_approval: approved, the call runs in this thread, past the safeguards
\* and the limit.
Approve(i) ==
  /\ calls[i].stage = "asking"
  /\ \E e \in Invoked : Ended(i, e, TRUE)
  /\ Appended(i)

\* Denied, or there is nobody to ask.
Deny(i) ==
  /\ calls[i].stage = "asking"
  /\ calls' = [calls EXCEPT ![i].stage = "collected", ![i].result.status = "error"]
  /\ Appended(i)

\* Mutant: the safeguards look at results the conversation no longer has.
CompactOnly ==
  /\ Idle /\ messages # {} /\ Len(calls) < MaxCalls
  /\ messages' = {}
  /\ UNCHANGED <<toolset, tool, initialized, calls, tool_calls, batch>>

\* limit_input_context_window: the results leave the conversation, and with them the
\* grounds on which calls are refused.
Compact ==
  /\ Idle /\ messages # {} /\ Len(calls) < MaxCalls
  /\ messages' = {} /\ tool_calls' = {}
  /\ UNCHANGED <<toolset, tool, initialized, calls, batch>>

Batches == UNION {[1..n -> Args] : n \in {1, 2}}

Next ==
  \/ \E asked \in Batches : Ask(asked)
  \/ \E i \in DOMAIN calls :
       Check(i) \/ Initialize(i) \/ Invoke(i) \/ NeedsApproval(i) \/ Collect(i) \/ Approve(i) \/ Deny(i)
  \/ Compact

Spec == Init /\ [][Next]_vars
-----------------------------------------------------------------------------
(* Properties *)

\* Tools that take an exchange that fails for an empty answer, or leave it out of a
\* report: see README.md.
Quiet ==
  {"FindConsumerGroupsByTopic", "GetRabbitMQClusterStatus", "AnalyzeConnectionFailures",
   "AnalyzeDatabaseConnections", "AnalyzeDatabasePerformance", "AnalyzeDatabaseStorage", "FetchPodLogs",
   "ExecuteDataPrimeQuery", "FetchRobustaFinding", "FetchConfigurationChangesMetadata",
   "FetchResourceIssuesMetadata"}

\* Tools that answer a query with a summary, under the status of an answer without data.
Summarizing == {"ExecuteInstantQuery", "ExecuteRangeQuery"}

\* A service that fails never passes for one that has nothing to say, and data never for
\* none: when an exchange of a call failed, the agent is told, or the call is an error; and
\* a result without data is that of a call that found none.  The tools that do otherwise
\* are listed; no wrapper around them adds to the list.
AnswersAreTrue ==
  \A i \in Collected :
    LET r == calls[i].result IN
    /\ r.failed => r.tells \/ r.status = "error" \/ tool \in Quiet
    /\ r.status = "no_data" => ~r.found \/ tool \in Summarizing

\* Calls with the same arguments run twice only in one batch, when the result of the first
\* has left the conversation, or when the tool is forgetful: what the user approved counts.
RunsTwiceOnlyIf ==
  \A i, j \in DOMAIN calls :
    calls[i].batch < calls[j].batch /\ calls[i].args = calls[j].args /\ calls[i].ran /\ calls[j].ran =>
      i \notin messages \/ tool \in Forgetful

\* A call that is about to be collected as refused has its ground in the conversation: the
\* result of a call with its arguments, or one without a filter that found no logs.
RefusalIsFounded ==
  \A j \in DOMAIN calls :
    calls[j].refused /\ calls[j].stage = "ended" =>
      \E i \in messages :
        \/ calls[i].args = calls[j].args /\ ~calls[i].refused
        \/ tool = "FetchPodLogs" /\ calls[i].args = NoFilter /\ calls[i].ran /\ ~calls[i].result.found

\* The toolsets that become ready without asking anybody.
Unprobed ==
  {"newrelic", "opensearch", "mongodb", "bash", "kubectl_run", "connectivity", "investigator",
   "internet", "notion", "robusta", "runbook"}

\* A toolset whose tools run answered its prerequisites: they never take silence, or an
\* error, for an answer, on whatever path the configuration is found.
ReadyMeansAnswered ==
  \A i \in DOMAIN calls : calls[i].ran => ~initialized.dark \/ toolset \in Unprobed
=============================================================================
