---------------------------- MODULE ClusterTools ----------------------------
(***************************************************************************)
(* The tools that run commands or ask a service near the agent: pod logs,  *)
(* bash, kubectl run, commands of YAML toolsets, MCP servers, HTTP, pages, *)
(* Robusta's data, runbooks (holmes/plugins/toolsets, holmes/core/tools).  *)
(* An operator named after the class of a tool is its _invoke.             *)
(***************************************************************************)
EXTENDS Exchanges

\* Text that is taken as it comes: nothing in it is garbled.
Text(R) == {IF r = "garbled" THEN "full" ELSE r : r \in R}

\* truncate_logs: the logs are cut to what one tool may return.
Truncated(result) == [result EXCEPT !.big = FALSE]

\* kubectl logs, for the container as it runs and as it ran before.
KubectlLogs(c) == Text(Got(c, 2))

\* filter_logs: the lines of the time and with the words that are asked for.
FilterLogs(c, R) == IF c.params = "narrow" THEN R \ Found ELSE R

\* An error only when both commands fail (there is no earlier container, as a rule).
FetchPodLogs(c) ==
  LET R == KubectlLogs(c) IN
  Guarded(c, Raised,
    IF R \subseteq Failed THEN Outcome("error", TRUE, R)
    ELSE Truncated(Silent(FilterLogs(c, R), "no_data")))

\* The client is there; the cluster is not asked.
KubernetesLogsReady(s) == Answers(s, 1, Accepted \union {"garbled"})

KubernetesLogsToolset == [probes |-> Probes(KubernetesLogsReady), tools |-> [
  FetchPodLogs |-> Results(FetchPodLogs)]]
-----------------------------------------------------------------------------
(* Commands *)

\* bash_result_to_structured: the exit code, then the output.
CommandResult(c) == Strict(Text(Got(c, 1)), "no_data")

\* validate_command: a part of the command is blocked, or not on the allow list.
ValidateCommand(c, result) == Guarded(c, Rejected, result)
RunBashCommand(c) == ValidateCommand(c, CommandResult(c))

\* An image or a command that validate_image_and_commands refuses.
KubectlRunImageCommand(c) == Guarded(c, Rejected, CommandResult(c))

\* _get_status: the exit code, then the output.
YAMLTool(c) == Strict(Text(Got(c, 1)), "no_data")
YAMLReady(s) == Answers(s, 1, Accepted \union {"garbled"})

YAMLToolset == [probes |-> Probes(YAMLReady), tools |-> [
  YAMLTool |-> Results(YAMLTool)]]

\* tcp_check reports a connection that fails in an answer.
TcpCheckTool(c) == Guarded(c, Rejected, Named(Got(c, 1)))

\* The list of tasks is what the agent wrote.
TodoWriteTool(c) == Local

\* The prerequisites of these toolsets ask nobody.
Unasked(s) == s.config # "invalid"

BashExecutorToolset == [probes |-> Probes(Unasked), tools |-> [
  RunBashCommand |-> Results(RunBashCommand)]]

KubectlRunToolset == [probes |-> Probes(Unasked), tools |-> [
  KubectlRunImageCommand |-> Results(KubectlRunImageCommand)]]

ConnectivityCheckToolset == [probes |-> Probes(Unasked), tools |-> [
  TcpCheckTool |-> Results(TcpCheckTool)]]

CoreInvestigationToolset == [probes |-> Probes(Unasked), tools |-> [
  TodoWriteTool |-> Results(TodoWriteTool)]]
-----------------------------------------------------------------------------
(* Services *)

\* A status of an error, in the answer or in its text, is one.
RemoteMCPTool(c) == Strict(Text(Got(c, 1)), "success")

\* The prerequisites list the server's tools.
MCPReady(s) == s.config = "valid" /\ Answers(s, 1, Accepted)

RemoteMCPToolset == [probes |-> Probes(MCPReady), tools |-> [
  RemoteMCPTool |-> Results(RemoteMCPTool)]]

\* match_endpoint and the allowed methods come before the request.
HttpRequest(c) ==
  Guarded(c, Rejected,
    LET result == Strict(Text(Got(c, 1)), "success") IN
    IF c.got[1] = "lost" THEN result ELSE Filtered(c, result))

\* The health check of the endpoints that have one.
HttpReady(s) == s.config = "valid" /\ Answers(s, 1, Accepted \union {"garbled"})

HttpToolset == [probes |-> Probes(HttpReady), tools |-> [
  HttpRequest |-> Results(HttpRequest)]]

\* scrape returns the text of the failure as if it were the page.
Scraped(R) ==
  IF R \cap Failed # {} THEN Named(R) ELSE Answered(R, "error", "error")

FetchWebpage(c) == Guarded(c, Raised, Scraped(Text(Got(c, 1))))

\* The page must be JSON; the text of a failure is not.
FetchNotion(c) ==
  Guarded(c, Raised,
    IF c.got[1] \in Failed THEN Outcome("raised", TRUE, Got(c, 1)) ELSE Scraped(Got(c, 1)))

InternetToolset == [probes |-> Probes(Unasked), tools |-> [
  FetchWebpage |-> Results(FetchWebpage)]]

NotionReady(s) == s.config = "valid"

NotionToolset == [probes |-> Probes(NotionReady), tools |-> [
  FetchNotion |-> Results(FetchNotion)]]
-----------------------------------------------------------------------------
(* Robusta: SupabaseDal *)

\* get_issue_data: an issue that cannot be read is one that is not there; its evidence,
\* read next, raises.
IssueData(c) ==
  IF c.got[1] \in Failed \union {"none"} THEN Silent({c.got[1]}, "no_data")
  ELSE IF c.got[2] \in Failed THEN Outcome("error", TRUE, Got(c, 2))
  ELSE Outcome("success", FALSE, Got(c, 2))

FetchRobustaFinding(c) == Guarded(c, Raised, IssueData(c))

\* get_resource_recommendation: the last scan, then its results.
ResourceRecommendation(c) == IF c.got[1] \in Found THEN {c.got[2]} ELSE {c.got[1]}
FetchResourceRecommendation(c) == Strict(ResourceRecommendation(c), "no_data")

\* get_issues_metadata returns nothing when it cannot ask.
IssuesMetadata(c) == Silent(Got(c, 1), "no_data")
FetchConfigurationChangesMetadata(c) == Guarded(c, Rejected, IssuesMetadata(c))
FetchResourceIssuesMetadata(c) == Guarded(c, Rejected, IssuesMetadata(c))

\* get_runbook_content, or a file: a runbook that is not there is an error.
RunbookContent(c) == Strict(Got(c, 1), "error")
RunbookFetcher(c) == Guarded(c, Rejected, RunbookContent(c))

\* The client was made when the process started.
RobustaReady(s) == s.config = "valid"

RobustaToolset == [probes |-> Probes(RobustaReady), tools |-> [
  FetchRobustaFinding |-> Results(FetchRobustaFinding),
  FetchResourceRecommendation |-> Results(FetchResourceRecommendation),
  FetchConfigurationChangesMetadata |-> Results(FetchConfigurationChangesMetadata),
  FetchResourceIssuesMetadata |-> Results(FetchResourceIssuesMetadata)]]

RunbookToolset == [probes |-> Probes(Unasked), tools |-> [
  RunbookFetcher |-> Results(RunbookFetcher)]]
=============================================================================
