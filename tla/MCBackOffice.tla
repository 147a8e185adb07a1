---------------------------- MODULE MCBackOffice -----------------------------
(***************************************************************************)
(* Four parts that share no state, one of them in each behaviour:         *)
(*   - retention: a log document and a brief, two overlapping cleanups,    *)
(*     days that keep for ever or for one day, two edits of the policy;    *)
(*   - insights: two runs with data on either side of every threshold;     *)
(*   - billing: two tenants and up to four webhooks of one subscription;   *)
(*   - timeline: one kind of event in each behaviour, as their ids never   *)
(*     meet; a pull request is closed, opened again and merged.            *)
(***************************************************************************)
EXTENDS Retention, Insights, Billing, Timeline, TLC

CONSTANTS c1, c2, l1, b1, q1, q2

VARIABLE part

Found(incidents14, incidents30, days, deploys, documented) ==
  [incidents14 |-> incidents14, incidents30 |-> incidents30, days |-> days,
   deploys |-> deploys, documented |-> documented]

(* One incident and one day show a pattern, two and two a trend.            *)
MCData ==
  {Found(0, 0, 0, 0, {}), Found(1, 1, 0, 1, Detector), Found(0, 2, 2, 0, Detector),
   Found(2, 2, 1, 0, Detector)}

Kind(n) == events'[n].kind

MCTimeline ==
  /\ TimelineStep
  /\ \A n \in DOMAIN events' : Kind(n) = Kind(1)
  /\ Len(events') = MaxEvents => Kind(1) = "pr"
  /\ clock' # clock => events # <<>> /\ Kind(1) = "spike"

MCInit ==
  /\ part \in {"retention", "insights", "billing", "timeline"}
  /\ RetentionInit
  /\ InsightInit /\ (part # "insights" => data = CHOOSE d \in Data : TRUE)
  /\ BillingInit
  /\ TimelineInit

MCNext ==
  /\ UNCHANGED part
  /\ \/ /\ part = "retention" /\ RetentionNext
        /\ UNCHANGED <<insightVars, billingVars, timelineVars>>
     \/ /\ part = "insights" /\ InsightStep
        /\ UNCHANGED <<retentionVars, billingVars, timelineVars>>
     \/ /\ part = "billing" /\ BillingStep
        /\ UNCHANGED <<retentionVars, insightVars, timelineVars>>
     \/ /\ part = "timeline" /\ MCTimeline
        /\ UNCHANGED <<retentionVars, insightVars, billingVars>>

MCVars == <<retentionVars, insightVars, billingVars, timelineVars, part>>

MCSpec == MCInit /\ [][MCNext]_MCVars

Symmetry == Permutations({c1, c2}) \cup Permutations({q1, q2})
=============================================================================
