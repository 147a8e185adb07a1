----------------------------- MODULE Normalizers -----------------------------
(***************************************************************************)
(* The NORMALIZERS of the staging task: which raw records make them raise, *)
(* which document a record is, and which are dropped for their severity.   *)
(*                                                                         *)
(* A raw record is told apart by the fields that decide this:              *)
(*   from    the normaliser                                                *)
(*   thing   the thing of the vendor's that it is a version of             *)
(*   has     "id", "alt": the fields that identify it; "dates": those that *)
(*           nothing stands in for; "parts": no value that the normaliser  *)
(*           reaches through or parses is null, empty or of another type   *)
(*   level   the severity it states, if any                                *)
(***************************************************************************)
EXTENDS Naturals, Sequences

CONSTANT MinLevel  \* INGEST_LOG_MIN_LEVEL

(* _LEVEL_RANK *)
LevelRank ==
  [DEBUG |-> 10, TRACE |-> 10, INFO |-> 20, NOTICE |-> 25, WARNING |-> 30, WARN |-> 30,
   ERROR |-> 40, CRITICAL |-> 50, FATAL |-> 50, ALERT |-> 50, EMERGENCY |-> 60]

Known(level) == level \in DOMAIN LevelRank

(* _min_level_rank *)
MinRank == LevelRank[IF Known(MinLevel) THEN MinLevel ELSE "WARNING"]

(* _LOG_SOURCE_TYPES *)
LogSourceTypes ==
  {"elasticsearch", "datadog", "cloudwatch", "gcp", "splunk", "azuremonitor"}

(* type: the source_type of the document; mark: what its source_id begins   *)
(* with; ids: the fields that it is taken from, the second if there is no   *)
(* first; shared: things can have the second in common; last: what stands   *)
(* in when there is neither ("hash" is Python's hash of the text, which is  *)
(* another one in every process); told: _should_ingest finds the level in   *)
(* the metadata.                                                            *)
Normaliser(type, needs, ids, last) ==
  [type |-> type, mark |-> "", needs |-> needs \cup {"parts"}, ids |-> ids,
   shared |-> FALSE, last |-> last, told |-> FALSE]

Slack   == Normaliser("slack", {"id"}, <<"ts">>, "blank")
Jira    == Normaliser("jira", {"id", "dates"}, <<"id">>, "blank")
GDrive  == Normaliser("gdrive", {"id", "dates"}, <<"id">>, "blank")
Zendesk == Normaliser("zendesk", {"id"}, <<"id">>, "blank")

JiraComment ==
  [Normaliser("jira", {}, <<"id", "self">>, "blank") EXCEPT !.mark = "comment:"]

(* GitHubNormalizer: a record with a "sha" is a commit, with a message of   *)
(* at least one line; any other is a pull request.                          *)
Commit == Normaliser("github", {"id"}, <<"sha">>, "blank")
PullRequest ==
  [Normaliser("github", {}, <<"id", "number">>, "blank") EXCEPT !.shared = TRUE]

Elasticsearch ==
  [Normaliser("elasticsearch", {}, <<"_id">>, "blank") EXCEPT !.told = TRUE]
Datadog == [Normaliser("datadog", {}, <<"id">>, "blank") EXCEPT !.told = TRUE]
Splunk ==
  [Normaliser("splunk", {}, <<"_cd", "_serial">>, "hash")
     EXCEPT !.shared = TRUE, !.told = TRUE]

(* CloudWatchNormalizer: a batch is its first event, an alarm its name.     *)
CloudWatchBatch ==
  [Normaliser("cloudwatch", {}, <<"id", "timestamp">>, "blank") EXCEPT !.shared = TRUE]
CloudWatchAlarm == Normaliser("cloudwatch", {}, <<"AlarmName">>, "blank")
CloudWatchLine  == Normaliser("cloudwatch", {}, <<"id", "eventId">>, "hash")

AzureMonitor ==
  [Normaliser("azure_monitor", {}, <<"id", "correlationId">>, "hash")
     EXCEPT !.shared = TRUE]
GCPLogging == Normaliser("gcp_logging", {}, <<"insertId">>, "hash")

(* NORMALIZERS, and the two places where the record decides.                *)
Normalisers ==
  [slack |-> Slack, jira |-> Jira, jira_comment |-> JiraComment, gdrive |-> GDrive,
   commit |-> Commit, pull_request |-> PullRequest, zendesk |-> Zendesk,
   elasticsearch |-> Elasticsearch, datadog |-> Datadog,
   batch |-> CloudWatchBatch, alarm |-> CloudWatchAlarm, line |-> CloudWatchLine,
   splunk |-> Splunk, azure_monitor |-> AzureMonitor, gcp_logging |-> GCPLogging]

RawRecord == [from : DOMAIN Normalisers, thing : 1 .. 2,
              has : SUBSET {"id", "alt", "dates", "parts"},
              level : {"none", "INFO", "ERROR", "TRIGGERED"}]

Of(raw) == Normalisers[raw.from]

-----------------------------------------------------------------------------
(* source_id, for a record handled by a process.                            *)
SourceId(raw, process) ==
  LET n == Of(raw)
  IN  IF "id" \in raw.has THEN <<n.mark, n.ids[1], raw.thing>>
      ELSE IF "alt" \in raw.has /\ Len(n.ids) = 2
      THEN <<n.mark, n.ids[2], IF n.shared THEN 0 ELSE raw.thing>>
      ELSE IF n.last = "hash" THEN <<n.mark, "hash", raw.thing, process>>
      ELSE <<n.mark>>

(* Mutant: a comment is taken for the issue with the same number.           *)
MutDocument(raw, process) == <<Of(raw).type, Tail(SourceId(raw, process))>>

(* The key that canonical_documents is unique in.                           *)
Document(raw, process) == <<Of(raw).type, SourceId(raw, process)>>

Malformed(raw) == ~(Of(raw).needs \subseteq raw.has)

(* _should_ingest; a level that is not known counts as INFO.                *)
ShouldIngest(raw) ==
  LET level == IF Of(raw).told /\ Known(raw.level) THEN raw.level ELSE "INFO"
  IN  Of(raw).type \notin LogSourceTypes \/ LevelRank[level] >= MinRank

(* What the staging task makes of it (StagingQueue's kinds).                *)
Outcome(raw) ==
  IF Malformed(raw) THEN "malformed"
  ELSE IF ShouldIngest(raw) THEN "good" ELSE "noise"

-----------------------------------------------------------------------------
(* Properties of two raw records, handled by two processes                  *)

IsStored(raw) == Outcome(raw) = "good"

(* A CloudWatch batch is a version of its first event.                      *)
SameThing(raw, other) ==
  /\ raw.thing = other.thing
  /\ raw.from = other.from \/ {raw.from, other.from} = {"batch", "line"}

(* Versions of one thing with an id are one document, so that the later one *)
(* replaces the earlier.  Two things are two documents, unless both came    *)
(* without an id: comments and issues, commits and pull requests, too.      *)
ToldApart(raw, other) ==
  IsStored(raw) /\ IsStored(other) =>
    IF "id" \in raw.has \cap other.has
    THEN SameThing(raw, other) <=> Document(raw, 1) = Document(other, 2)
    ELSE "id" \in raw.has \cup other.has => Document(raw, 1) # Document(other, 2)

(* A line that states a severity from the minimum on is stored, except for  *)
(* CloudWatch's, whose documents have no level; one that states a lower one *)
(* is dropped, except for the two whose documents have another source_type  *)
(* than the filter looks for.                                               *)
SeverityKept(raw) ==
  ~Malformed(raw) /\ Known(raw.level) =>
    CASE raw.from \in {"elasticsearch", "datadog", "splunk"} ->
           IsStored(raw) <=> LevelRank[raw.level] >= MinRank
      [] raw.from \in {"batch", "alarm", "line"} ->
           IsStored(raw) => MinRank <= LevelRank["INFO"]
      [] OTHER -> IsStored(raw)
=============================================================================
