----------------------------- MODULE StoreTools -----------------------------
(***************************************************************************)
(* The tools of the toolsets for queues and stores: kafka, rabbitmq, mongo *)
(* atlas, servicenow, SQL databases and azure sql                          *)
(* (holmes/plugins/toolsets).  An operator named after the class of a tool *)
(* is its _invoke.                                                         *)
(***************************************************************************)
EXTENDS Exchanges

(* Kafka: an argument read before the try raises, the name of the cluster does not *)

\* The listing, then errors of single groups, which are appended to it.
GroupsListed(c) ==
  IF c.got[1] \in Failed THEN Outcome("error", TRUE, {c.got[1]}) ELSE Named(Got(c, 2))

ListKafkaConsumers(c) == Guarded(c, Rejected, GroupsListed(c))
DescribeConsumerGroup(c) == Guarded(c, Raised, Strict(Got(c, 1), "error"))
ListTopics(c) == Guarded(c, Rejected, Strict(Got(c, 1), "success"))

\* The configuration of the topic is asked for first and awaited last.
DescribeTopic(c) == Guarded(c, Raised, Strict(Got(c, 2), "success"))

\* group_has_topic: a group whose offsets cannot be read does not have the topic.
GroupHasTopic(c) == Silent(Got(c, 3), "success")

\* The groups are listed and described, then asked for their offsets.
FindConsumerGroupsByTopic(c) ==
  Guarded(c, Raised,
    IF Got(c, 2) \cap Failed # {} THEN Outcome("error", TRUE, Got(c, 2)) ELSE GroupHasTopic(c))

ListKafkaClusters(c) == Local

\* One cluster that answers is enough.
KafkaReady(s) == s.config = "valid" /\ Got(s, 3) \cap Accepted # {}

KafkaToolset == [probes |-> Probes(KafkaReady), tools |-> [
  ListKafkaConsumers |-> Results(ListKafkaConsumers),
  DescribeConsumerGroup |-> Results(DescribeConsumerGroup),
  ListTopics |-> Results(ListTopics),
  DescribeTopic |-> Results(DescribeTopic),
  FindConsumerGroupsByTopic |-> Results(FindConsumerGroupsByTopic),
  ListKafkaClusters |-> Results(ListKafkaClusters)]]
-----------------------------------------------------------------------------
(* RabbitMQ *)

\* get_status_from_node: the nodes that the cluster reports as down are asked themselves;
\* one that is not reached is left as it was reported.
NodeStatus(c) == {c.got[2], c.got[3]}

\* get_cluster_status: a cluster that is not reached has an empty status, with no
\* partition detected.
ClusterStatus(c) ==
  Silent(IF c.got[1] \in Failed THEN {c.got[1]} ELSE {c.got[1]} \union NodeStatus(c), "success")

GetRabbitMQClusterStatus(c) == Guarded(c, Rejected, ClusterStatus(c))

\* The clusters whose last request succeeded.
ListConfiguredClusters(c) == Local

\* Every cluster must return data; without a configuration the environment gives one.
RabbitMQReady(s) == s.config # "invalid" /\ Answers(s, 2, Found)

RabbitMQToolset == [probes |-> Probes(RabbitMQReady), tools |-> [
  ListConfiguredClusters |-> Results(ListConfiguredClusters),
  GetRabbitMQClusterStatus |-> Results(GetRabbitMQClusterStatus)]]
-----------------------------------------------------------------------------
(* MongoDB Atlas: return_result *)

AtlasAnswer(c) == Strict(Got(c, 1), "no_data")

ReturnProjectAlerts(c) == AtlasAnswer(c)
ReturnProjectProcesses(c) == AtlasAnswer(c)
ReturnProjectSlowQueries(c) == AtlasAnswer(c)
ReturnEventsFromProject(c) == AtlasAnswer(c)
ReturnLogsForProcessInProject(c) == Strict(Got(c, 1), "success")
ReturnEventTypeFromProject(c) == AtlasAnswer(c)

\* A session is set up, nobody is asked.
MongoDBAtlasReady(s) == s.config = "valid"

MongoDBAtlasToolset == [probes |-> Probes(MongoDBAtlasReady), tools |-> [
  ReturnProjectAlerts |-> Results(ReturnProjectAlerts),
  ReturnProjectProcesses |-> Results(ReturnProjectProcesses),
  ReturnProjectSlowQueries |-> Results(ReturnProjectSlowQueries),
  ReturnEventsFromProject |-> Results(ReturnEventsFromProject),
  ReturnLogsForProcessInProject |-> Results(ReturnLogsForProcessInProject),
  ReturnEventTypeFromProject |-> Results(ReturnEventTypeFromProject)]]
-----------------------------------------------------------------------------
(* ServiceNow: what fails escapes *)

ServiceNowAnswer(c) == Escaping(Got(c, 1), "success")
GetRecords(c) == Guarded(c, Raised, ServiceNowAnswer(c))
GetRecord(c) == Guarded(c, Raised, ServiceNowAnswer(c))
ServiceNowReady(s) == s.config = "valid" /\ Answers(s, 1, Accepted)

ServiceNowTablesToolset == [probes |-> Probes(ServiceNowReady), tools |-> [
  GetRecords |-> Results(GetRecords),
  GetRecord |-> Results(GetRecord)]]
-----------------------------------------------------------------------------
(* SQL databases *)

\* execute_query refuses statements that write.
ExecuteQuery(c) == Guarded(c, Rejected, Strict(Got(c, 1), "success"))
DatabaseQuery(c) == ExecuteQuery(c)
ListTables(c) == Strict(Got(c, 2), "success")

\* Columns, keys and indexes of the table.
DescribeTable(c) == Guarded(c, Rejected, Strict(Got(c, 3), "success"))
DatabaseReady(s) == s.config = "valid" /\ Answers(s, 1, Accepted)

DatabaseToolset == [probes |-> Probes(DatabaseReady), tools |-> [
  DatabaseQuery |-> Results(DatabaseQuery),
  ListTables |-> Results(ListTables),
  DescribeTable |-> Results(DescribeTable)]]
-----------------------------------------------------------------------------
(* Azure SQL: reports put together from several exchanges *)

\* Metrics and the activity log: what cannot be read has no failures.
ConnectionFailures(c) == Silent(Got(c, 3), "success")
AnalyzeConnectionFailures(c) == ConnectionFailures(c)

\* Summary, pool statistics; the connections that are active.
ConnectionMonitoring(c) == PartlyNamed(c, 2)
AnalyzeDatabaseConnections(c) == ConnectionMonitoring(c)

\* The active operations and the resource usage.
AnalyzeDatabaseHealthStatus(c) == Named(Got(c, 2))

\* Advisors and automatic tuning; the recommendations of each advisor.
AnalyzeDatabasePerformance(c) == PartlyNamed(c, 2)

\* Summary, growth and metrics; the files, the tables and tempdb.
StorageAnalysis(c) == PartlyNamed(c, 1)
AnalyzeDatabaseStorage(c) == StorageAnalysis(c)

\* The activity log stands in for the alerts, and is named as the source of the report.
ActiveAlerts(c) ==
  IF c.got[1] \notin Failed THEN Strict(Got(c, 1), "success")
  ELSE IF c.got[2] \in Failed THEN Outcome("error", TRUE, Got(c, 2))
  ELSE Named(Got(c, 2))
GetActiveAlerts(c) == ActiveAlerts(c)

\* AzureSQLAPIClient.execute_query, with a query for each of the tools.
AzureQuery(c) == Strict(Got(c, 1), "success")
GetSlowQueries(c) == AzureQuery(c)
GetTopCPUQueries(c) == AzureQuery(c)
GetTopDataIOQueries(c) == AzureQuery(c)
GetTopLogIOQueries(c) == AzureQuery(c)

\* Tokens for the two scopes; the database itself is not asked.
AzureSQLReady(s) == s.config = "valid" /\ Answers(s, 2, Found)

AzureSQLToolset == [probes |-> Probes(AzureSQLReady), tools |-> [
  AnalyzeConnectionFailures |-> Results(AnalyzeConnectionFailures),
  AnalyzeDatabaseConnections |-> Results(AnalyzeDatabaseConnections),
  AnalyzeDatabaseHealthStatus |-> Results(AnalyzeDatabaseHealthStatus),
  AnalyzeDatabasePerformance |-> Results(AnalyzeDatabasePerformance),
  AnalyzeDatabaseStorage |-> Results(AnalyzeDatabaseStorage),
  GetActiveAlerts |-> Results(GetActiveAlerts),
  GetSlowQueries |-> Results(GetSlowQueries),
  GetTopCPUQueries |-> Results(GetTopCPUQueries),
  GetTopDataIOQueries |-> Results(GetTopDataIOQueries),
  GetTopLogIOQueries |-> Results(GetTopLogIOQueries)]]
=============================================================================
