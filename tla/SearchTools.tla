----------------------------- MODULE SearchTools ----------------------------
(***************************************************************************)
(* The tools of elasticsearch, opensearch and grafana: dashboards, loki    *)
(* and tempo (holmes/plugins/toolsets).  An operator named after the class *)
(* of a tool is its _invoke.                                               *)
(***************************************************************************)
EXTENDS Exchanges

(* Elasticsearch: BaseElasticsearchTool._make_request reports whatever fails; an *)
(* argument that is missing raises before it.                                     *)

ElasticAnswer(c) == Strict(Got(c, 1), "success")

ElasticsearchCat(c) == Guarded(c, Raised, ElasticAnswer(c))
ElasticsearchSearch(c) == Guarded(c, Raised, ElasticAnswer(c))
ElasticsearchClusterHealth(c) == ElasticAnswer(c)
ElasticsearchMappings(c) == Guarded(c, Raised, Filtered(c, ElasticAnswer(c)))
ElasticsearchIndexStats(c) == Guarded(c, Raised, ElasticAnswer(c))
ElasticsearchAllocationExplain(c) == ElasticAnswer(c)
ElasticsearchNodesStats(c) == ElasticAnswer(c)
ElasticsearchListIndices(c) == Filtered(c, ElasticAnswer(c))

\* Mutant: that the cluster answers is enough.
ElasticsearchReachable(s) == s.config = "valid" /\ s.got[1] # "lost"
ElasticsearchReady(s) == s.config = "valid" /\ Answers(s, 1, Accepted)

ElasticsearchToolsets == [probes |-> Probes(ElasticsearchReady), tools |-> [
  ElasticsearchCat |-> Results(ElasticsearchCat),
  ElasticsearchSearch |-> Results(ElasticsearchSearch),
  ElasticsearchClusterHealth |-> Results(ElasticsearchClusterHealth),
  ElasticsearchMappings |-> Results(ElasticsearchMappings),
  ElasticsearchIndexStats |-> Results(ElasticsearchIndexStats),
  ElasticsearchAllocationExplain |-> Results(ElasticsearchAllocationExplain),
  ElasticsearchNodesStats |-> Results(ElasticsearchNodesStats),
  ElasticsearchListIndices |-> Results(ElasticsearchListIndices)]]

\* The query of the assistant is what the agent wrote; nobody is asked.
OpenSearchQueryAssist(c) == Guarded(c, Rejected, Local)
OpenSearchQueryAssistReady(s) == s.config = "valid"

OpenSearchQueryAssistToolset == [probes |-> Probes(OpenSearchQueryAssistReady), tools |-> [
  OpenSearchQueryAssist |-> Results(OpenSearchQueryAssist)]]
-----------------------------------------------------------------------------
(* Grafana dashboards: _make_grafana_request lets whatever fails escape *)

GrafanaAnswer(c) == Escaping(Got(c, 1), "success")

SearchDashboards(c) == GrafanaAnswer(c)
GetDashboardByUID(c) == Guarded(c, Raised, Filtered(c, GrafanaAnswer(c)))
GetHomeDashboard(c) == Filtered(c, GrafanaAnswer(c))
GetDashboardTags(c) == GrafanaAnswer(c)

GrafanaReady(s) == s.config = "valid" /\ Answers(s, 1, Accepted)

GrafanaToolset == [probes |-> Probes(GrafanaReady), tools |-> [
  SearchDashboards |-> Results(SearchDashboards),
  GetDashboardByUID |-> Results(GetDashboardByUID),
  GetHomeDashboard |-> Results(GetHomeDashboard),
  GetDashboardTags |-> Results(GetDashboardTags)]]
-----------------------------------------------------------------------------
(* Loki: the decorator retries on exceptions of a class that execute_loki_query never *)
(* lets out, so it asks once.                                                          *)

LokiQuery(c) == Guarded(c, Raised, Strict(Got(c, 1), "no_data"))
LokiReady(s) == s.config = "valid" /\ Answers(s, 1, Accepted)

GrafanaLokiToolset == [probes |-> Probes(LokiReady), tools |-> [
  LokiQuery |-> Results(LokiQuery)]]
-----------------------------------------------------------------------------
(* Tempo *)

\* GrafanaTempoAPI._make_request: what gets no answer, or one that is not JSON, is asked
\* again, and an error of the service too.
TempoReplies(c) == Retried(c, {"lost", "garbled"})
TempoAnswer(c) == Strict(TempoReplies(c), "success")

\* build_k8s_filters reads the labels of a configuration that, as prerequisites_callable
\* builds it, has none.
K8sFilters(c, result) == IF c.params = "unfit" THEN Rejected ELSE result

\* Mutant: a trace that cannot be fetched is left out.
FetchTracesQuietly(c) ==
  K8sFilters(c,
    IF c.got[1] \in Failed THEN Outcome("error", TRUE, {c.got[1]})
    ELSE IF c.got[1] = "none" THEN Outcome("success", FALSE, {c.got[1]})
    ELSE Outcome("success", FALSE, Got(c, 3)))

\* The search, then some of the traces it found; each reply is that of the last try.  A
\* trace that cannot be fetched is named in the answer.  Calls without base_query fail.
FetchTracesSimpleComparison(c) ==
  K8sFilters(c,
    IF c.got[1] \in Failed THEN Outcome("error", TRUE, {c.got[1]})
    ELSE IF c.got[1] = "none" THEN Outcome("success", FALSE, {c.got[1]})
    ELSE Named(Got(c, 3)))

\* The times of a call are parsed before anything is caught.
SearchTracesByQuery(c) == Guarded(c, Raised, TempoAnswer(c))
SearchTracesByTags(c) == Guarded(c, Raised, TempoAnswer(c))
QueryTraceById(c) == Guarded(c, Raised, TempoAnswer(c))
SearchTagNames(c) == Guarded(c, Raised, TempoAnswer(c))
SearchTagValues(c) == Guarded(c, Raised, TempoAnswer(c))
QueryMetricsInstant(c) == Guarded(c, Raised, TempoAnswer(c))
QueryMetricsRange(c) == Guarded(c, Raised, TempoAnswer(c))

TempoReady(s) == s.config = "valid" /\ TempoReplies(s) \subseteq Accepted

GrafanaTempoToolset == [probes |-> Probes(TempoReady), tools |-> [
  FetchTracesSimpleComparison |-> Results(FetchTracesSimpleComparison),
  SearchTracesByQuery |-> Results(SearchTracesByQuery),
  SearchTracesByTags |-> Results(SearchTracesByTags),
  QueryTraceById |-> Results(QueryTraceById),
  SearchTagNames |-> Results(SearchTagNames),
  SearchTagValues |-> Results(SearchTagValues),
  QueryMetricsInstant |-> Results(QueryMetricsInstant),
  QueryMetricsRange |-> Results(QueryMetricsRange)]]
=============================================================================
