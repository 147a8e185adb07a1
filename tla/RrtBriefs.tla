------------------------------ MODULE RrtBriefs ------------------------------
(***************************************************************************)
(* From a fast alert to a brief and an incident: enrich_and_alert and      *)
(* generate_rrt_brief on several workers, with the retries of both, lost   *)
(* webhooks, failing saves and dying workers.                              *)
(*                                                                         *)
(* One tenant.  An alert of the scan sends one enrich message per team with*)
(* a webhook, a log event pushed to the API sends one message in all; each *)
(* of them ends in a brief task that delivers to all the teams it was given*)
(* or, when none of them took it, to the channel of the Slack bot.         *)
(* alerted, posted, unheard, seen and faults are history; the others are   *)
(* rows and messages.                                                      *)
(***************************************************************************)
EXTENDS Naturals, Sequences, FiniteSets

CONSTANTS
  Worker, Team,
  Title, FirstLine,   \* the LLM's titles, and the default: the error's first line
  Cooldown,      \* LOG_INCIDENT_COOLDOWN_HOURS, in ticks
  MaxAlerts, MaxTime, MaxFaults   \* bounds

ASSUME BriefAssumption ==
  /\ IsFiniteSet(Team) /\ "bot" \notin Team
  /\ {Cooldown, MaxAlerts, MaxTime, MaxFaults} \subseteq Nat

VARIABLES
  now,
  tasks,      \* enrich and brief messages
  jobs,       \* the brief task each worker runs
  briefs,     \* rrt_briefs: the row of each brief id given out, oldest first
  posted,     \* where each brief was posted to
  unheard,    \* and where it was, although the worker was told otherwise
  incidents,  \* incidents, oldest first
  alerted, faults

briefVars == <<now, tasks, jobs, briefs, posted, unheard, incidents, alerted, faults>>

(* targets: the teams with a webhook among the routing targets; team: whose *)
(* webhook the context goes to, "first" for an ingested event.              *)
Task == [kind : {"enrich", "brief"}, alert : Nat, team : Team \cup {"first"},
         targets : SUBSET Team, tries : 0 .. 1]

Channel == Team \cup {"bot"}

IdleJob == [pc |-> "idle"]
Job ==
  {IdleJob} \cup
  [pc : {"deliver", "bot", "save", "check", "insert"}, task : Task, id : Nat,
   title : Title \cup {FirstLine}, detected : Nat, left : SUBSET Team,
   sent : SUBSET Channel, seen : Nat]

BriefStatus == {"unsaved", "open", "investigating", "resolved", "deleted"}
Brief == [status : BriefStatus, resolved : Nat, sent : SUBSET Channel, ticket : Nat]

IncidentStatus ==
  {"open", "investigating", "analysing", "resolved", "closed", "deleted"}
Incident ==
  [title : Title \cup {FirstLine}, at : Nat, detected : Nat, seen : Nat, brief : Nat,
   status : IncidentStatus, resolved : Nat, cause : {"given", "cleared"}]

NoBrief == [status |-> "unsaved", resolved |-> 0, sent |-> {}, ticket |-> 0]

(* Types; a worker's job has a brief id that was given out.                 *)
BriefTypeOK ==
  /\ now \in Nat /\ alerted \in Nat /\ faults \in Nat
  /\ tasks \subseteq Task
  /\ jobs \in [Worker -> Job]
  /\ briefs \in Seq(Brief)
  /\ posted \in Seq(SUBSET Channel) /\ Len(posted) = Len(briefs)
  /\ unheard \in Seq(SUBSET Channel) /\ Len(unheard) = Len(briefs)
  /\ incidents \in Seq(Incident)
  /\ \A w \in Worker : jobs[w].pc # "idle" => jobs[w].id \in DOMAIN briefs

BriefInit ==
  /\ now = 1
  /\ tasks = {}
  /\ jobs = [w \in Worker |-> IdleJob]
  /\ briefs = <<>>
  /\ posted = <<>>
  /\ unheard = <<>>
  /\ incidents = <<>>
  /\ alerted = 0
  /\ faults = 0

Fault == faults < MaxFaults /\ faults' = faults + 1

-----------------------------------------------------------------------------
(* fast_scan dispatches an enrichment per team it told.                     *)
Alert ==
  /\ alerted < MaxAlerts
  /\ alerted' = alerted + 1
  /\ tasks' = tasks \cup
       [kind : {"enrich"}, alert : {alerted + 1}, team : Team, targets : {Team},
        tries : {0}]
  /\ UNCHANGED <<now, jobs, briefs, posted, unheard, incidents, faults>>

(* POST ingest: an event that no known issue suppresses is dispatched once, *)
(* to the teams whose rules match or to the fallback webhook; the request   *)
(* is refused when there is none of these or when the broker is away.       *)
Ingest ==
  /\ alerted < MaxAlerts
  /\ alerted' = alerted + 1
  /\ \E targets \in SUBSET Team :
       tasks' = tasks \cup
         {[kind |-> "enrich", alert |-> alerted + 1, team |-> "first",
           targets |-> targets, tries |-> 0]}
  /\ UNCHANGED <<now, jobs, briefs, posted, unheard, incidents, faults>>

Again(t) == IF t.tries = 0 THEN {[t EXCEPT !.tries = 1]} ELSE {}

BriefTask(t) == [t EXCEPT !.kind = "brief", !.tries = 0]

(* enrich_and_alert posts the context and dispatches the brief.  The broker *)
(* may refuse that, which is only logged; the task may fail before it and   *)
(* be retried once; the worker may die after it, before the acknowledgement.*)
Enrich ==
  \E t \in tasks :
    /\ t.kind = "enrich"
    /\ \/ tasks' = (tasks \ {t}) \cup {BriefTask(t)} /\ UNCHANGED faults
       \/ tasks' = tasks \ {t} /\ Fault
       \/ tasks' = (tasks \ {t}) \cup Again(t) /\ Fault
       \/ tasks' = tasks \cup {BriefTask(t)} /\ Fault
    /\ UNCHANGED <<now, jobs, briefs, posted, unheard, incidents, alerted>>

(* _generate_brief_fields: the title of the LLM's object, or the error's    *)
(* first line when the LLM fails or answers anything but an object.         *)
GeneratedTitle == Title \cup {FirstLine}

(* Where a job goes on when it has told the teams but those left.           *)
Then(left, sent) ==
  IF left # {} THEN "deliver" ELSE IF sent = {} THEN "bot" ELSE "save"

(* generate_rrt_brief: a new id at every execution, the context, the fields.*)
Generate(w) ==
  \E t \in tasks, title \in GeneratedTitle :
    /\ t.kind = "brief"
    /\ jobs[w].pc = "idle"
    /\ tasks' = tasks \ {t}
    /\ briefs' = Append(briefs, NoBrief)
    /\ posted' = Append(posted, {})
    /\ unheard' = Append(unheard, {})
    /\ jobs' = [jobs EXCEPT ![w] =
         [pc |-> Then(t.targets, {}), task |-> t, id |-> Len(briefs) + 1, title |-> title,
          detected |-> now, left |-> t.targets, sent |-> {}, seen |-> 0]]
    /\ UNCHANGED <<now, incidents, alerted, faults>>

(* send_webhook to a channel c: what is posted, and whether the task is told*)
(* so.  A timeout after the post counts as a failure.                       *)
Send(id, c, told) ==
  \/ /\ told
     /\ posted' = [posted EXCEPT ![id] = @ \cup {c}]
     /\ UNCHANGED <<unheard, faults>>
  \/ /\ ~told /\ Fault
     /\ UNCHANGED <<posted, unheard>>
  \/ /\ ~told /\ Fault
     /\ posted' = [posted EXCEPT ![id] = @ \cup {c}]
     /\ unheard' = [unheard EXCEPT ![id] = @ \cup {c}]

(* Mutant: a refused webhook is taken for delivered.                        *)
MutDeliver(w) ==
  LET job == jobs[w] IN
  /\ job.pc = "deliver"
  /\ \E team \in job.left, told \in BOOLEAN :
       /\ Send(job.id, team, told)
       /\ jobs' = [jobs EXCEPT
            ![w].left = @ \ {team},
            ![w].sent = @ \cup {team},
            ![w].pc = Then(job.left \ {team}, {team})]
  /\ UNCHANGED <<now, tasks, briefs, incidents, alerted>>

(* One webhook; the teams are asked in the order of the rules, any here.    *)
Deliver(w) ==
  LET job == jobs[w] IN
  /\ job.pc = "deliver"
  /\ \E team \in job.left, told \in BOOLEAN :
       LET sent == IF told THEN job.sent \cup {team} ELSE job.sent
       IN  /\ Send(job.id, team, told)
           /\ jobs' = [jobs EXCEPT
                ![w].left = @ \ {team},
                ![w].sent = sent,
                ![w].pc = Then(job.left \ {team}, sent)]
  /\ UNCHANGED <<now, tasks, briefs, incidents, alerted>>

(* _notify_via_slack_bot, when no webhook took the brief: the bot posts to  *)
(* its channel, unless there is no Slack integration or the post fails.     *)
Fallback(w) ==
  /\ jobs[w].pc = "bot"
  /\ \/ \E told \in BOOLEAN :
          /\ Send(jobs[w].id, "bot", told)
          /\ jobs' = [jobs EXCEPT ![w].pc = "save",
                                  ![w].sent = IF told THEN {"bot"} ELSE @]
     \/ /\ jobs' = [jobs EXCEPT ![w].pc = "save"]
        /\ UNCHANGED <<posted, unheard, faults>>
  /\ UNCHANGED <<now, tasks, briefs, incidents, alerted>>

(* _save_rrt_brief: a failure is logged, and the brief stays unsaved.       *)
Save(w) ==
  LET job == jobs[w] IN
  /\ job.pc = "save"
  /\ \/ /\ briefs' = [briefs EXCEPT ![job.id] =
             [status |-> "open", resolved |-> 0, sent |-> job.sent, ticket |-> 0]]
        /\ UNCHANGED faults
     \/ UNCHANGED briefs /\ Fault
  /\ jobs' = [jobs EXCEPT ![w].pc = "check"]
  /\ UNCHANGED <<now, tasks, posted, unheard, incidents, alerted>>

Exists(i) == incidents[i].status # "deleted"

(* Mutant: only incidents that are still open count as duplicates.          *)
MutRecent(i, title, detected) ==
  /\ incidents[i].status = "open"
  /\ incidents[i].title = title
  /\ incidents[i].at + Cooldown >= detected

Recent(i, title, detected) ==
  /\ Exists(i)
  /\ incidents[i].title = title
  /\ incidents[i].at + Cooldown >= detected

(* _upsert_incident_from_brief, the check for a recent incident ...         *)
CheckIncident(w) ==
  LET job == jobs[w] IN
  /\ job.pc = "check"
  /\ jobs' = [jobs EXCEPT ![w] =
       IF \E i \in DOMAIN incidents : Recent(i, job.title, job.detected)
       THEN IdleJob
       ELSE [job EXCEPT !.pc = "insert", !.seen = Len(incidents)]]
  /\ UNCHANGED <<now, tasks, briefs, posted, unheard, incidents, alerted, faults>>

(* ... and the insert; its failure, and that of the check, is logged.       *)
InsertIncident(w) ==
  LET job == jobs[w] IN
  /\ job.pc = "insert"
  /\ incidents' = Append(incidents,
       [title |-> job.title, at |-> now, detected |-> job.detected,
        seen |-> job.seen, brief |-> job.id,
        status |-> "open", resolved |-> 0, cause |-> "given"])
  /\ jobs' = [jobs EXCEPT ![w] = IdleJob]
  /\ UNCHANGED <<now, tasks, briefs, posted, unheard, alerted, faults>>

SkipIncident(w) ==
  /\ jobs[w].pc \in {"check", "insert"}
  /\ Fault
  /\ jobs' = [jobs EXCEPT ![w] = IdleJob]
  /\ UNCHANGED <<now, tasks, briefs, posted, unheard, incidents, alerted>>

(* An exception or the soft time limit: the task is retried once, as a new  *)
(* brief.  A death of the worker returns the message as it was.             *)
FailBrief(w) ==
  /\ jobs[w].pc # "idle"
  /\ Fault
  /\ tasks' = tasks \cup Again(jobs[w].task)
  /\ jobs' = [jobs EXCEPT ![w] = IdleJob]
  /\ UNCHANGED <<now, briefs, posted, unheard, incidents, alerted>>

Die(w) ==
  /\ jobs[w].pc # "idle"
  /\ Fault
  /\ tasks' = tasks \cup {jobs[w].task}
  /\ jobs' = [jobs EXCEPT ![w] = IdleJob]
  /\ UNCHANGED <<now, briefs, posted, unheard, incidents, alerted>>

Tick ==
  /\ now < MaxTime
  /\ now' = now + 1
  /\ UNCHANGED <<tasks, jobs, briefs, posted, unheard, incidents, alerted, faults>>

BriefStep ==
  \/ Alert \/ Ingest \/ Enrich \/ Tick
  \/ \E w \in Worker :
       \/ Generate(w) \/ Deliver(w) \/ Fallback(w) \/ Save(w) \/ CheckIncident(w)
       \/ InsertIncident(w) \/ SkipIncident(w) \/ FailBrief(w) \/ Die(w)

-----------------------------------------------------------------------------
(* What a saved brief says of its deliveries is what was posted, but for the*)
(* posts that were taken for failures: the row is written after the last    *)
(* webhook and the bot, by the only task that knows the id.                 *)
ChannelsTruthful ==
  \A b \in DOMAIN briefs :
    briefs[b].status \notin {"unsaved", "deleted"} =>
      briefs[b].sent = posted[b] \ unheard[b]

(* Two incidents of one title within the cooldown come from tasks that      *)
(* overlapped: the later one looked before the earlier one was inserted.    *)
DuplicatesOverlap ==
  \A i, j \in DOMAIN incidents :
    /\ i < j
    /\ Exists(i)
    /\ incidents[i].title = incidents[j].title
    /\ incidents[i].at + Cooldown >= incidents[j].detected
    => incidents[j].seen < i
=============================================================================
