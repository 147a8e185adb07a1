------------------------------ MODULE Fetchers -------------------------------
(***************************************************************************)
(* What the fetchers of direct_sync_service ask the vendors for, as far as *)
(* it decides which records a sync can miss.                               *)
(*                                                                         *)
(* log:   the fetcher filters on `since`, the integration's cursor.        *)
(* exact: the filter is on `since` itself; the others cut it down to a     *)
(*        whole second (CloudWatch to a millisecond) and ask from there.   *)
(* until: the request also ends at the last whole second.                  *)
(* parts: it asks part by part (repositories, channels, types of object,   *)
(*        files); a part the vendor refuses is left out, and one longer    *)
(*        than its own limit is cut, and the sync goes on.                 *)
(* limit: the records at which it stops and returns normally.              *)
(*                                                                         *)
(* The source is what the request's own filter selects (projects, log      *)
(* groups, levels), without the records that have no text.                 *)
(***************************************************************************)
EXTENDS Naturals

Fetcher == [log : BOOLEAN, exact : BOOLEAN, until : BOOLEAN, parts : BOOLEAN,
            limit : Nat]

(* The contextual sources: everything, the newest first.                    *)
Everything(limit) ==
  [log |-> FALSE, exact |-> TRUE, until |-> FALSE, parts |-> FALSE, limit |-> limit]
InParts(parts, each) == [Everything(parts * each) EXCEPT !.parts = TRUE]

(* Fifty repositories: the repository, two hundred issues and pull          *)
(* requests, a hundred commits of each.                                     *)
GitHub == InParts(50, 1 + 200 + 100)
(* Fifty repositories: the repository, thirty pull requests, twenty         *)
(* commits of each.                                                         *)
Bitbucket == InParts(50, 1 + 30 + 20)
(* Pages of fifty issues until there are two hundred.                       *)
Jira == Everything(200)
(* Ten channels, the last hundred messages of each.                         *)
Slack == InParts(10, 100)
(* Deals, contacts and companies, fifty of each.                            *)
HubSpot == InParts(3, 50)
(* Five pages of tickets.                                                   *)
Zendesk == Everything(5 * 100)
(* Two hundred files, each exported by a request of its own.                *)
GoogleDrive == InParts(200, 1)

(* The log sources, the oldest first but for Splunk.                        *)
From(limit) ==
  [log |-> TRUE, exact |-> FALSE, until |-> FALSE, parts |-> FALSE, limit |-> limit]
FromUntil(limit) == [From(limit) EXCEPT !.until = TRUE]

Elasticsearch == [From(20 * 500) EXCEPT !.exact = TRUE]
Datadog == FromUntil(10 * 1000)
(* _fetch_cloudwatch sets the times and makes the records;                  *)
(* _fetch_cloudwatch_sync asks log group by log group, where one that does  *)
(* not exist holds nothing, and goes on to a next page below five thousand. *)
CloudWatch == FromUntil(5000)
GCPLogging == From(10 * 1000)
Splunk == From(2000)
AzureMonitor == From(2000)

FetcherOf(type) ==
  CASE type = "github" -> GitHub
    [] type = "bitbucket" -> Bitbucket
    [] type = "jira" -> Jira
    [] type = "slack" -> Slack
    [] type = "hubspot" -> HubSpot
    [] type = "zendesk" -> Zendesk
    [] type = "google_drive" -> GoogleDrive
    [] type = "elasticsearch" -> Elasticsearch
    [] type = "datadog" -> Datadog
    [] type = "cloudwatch" -> CloudWatch
    [] type \in {"gcp", "gcp_logging"} -> GCPLogging
    [] type = "splunk" -> Splunk
    [] type \in {"azuremonitor", "azure_monitor"} -> AzureMonitor

SourceType == {"github", "bitbucket", "jira", "slack", "hubspot", "zendesk",
               "google_drive", "elasticsearch", "datadog", "cloudwatch", "gcp",
               "gcp_logging", "splunk", "azuremonitor", "azure_monitor"}

IsLog(type) == FetcherOf(type).log
=============================================================================
