------------------------------ MODULE Insights -------------------------------
(***************************************************************************)
(* How a tenant gets insights: every hour, or when a member asks for all of*)
(* them, a task looks whether there is enough data and dispatches the      *)
(* detectors that may run; a member may also ask for one detector by name. *)
(* A detector reads its documents, asks the LLM and inserts a row.         *)
(*                                                                         *)
(* All tasks are acknowledged late: one whose worker dies runs again.  What*)
(* the LLM finds, its type, text and magnitude, is left out.  checked and  *)
(* died are history.                                                       *)
(***************************************************************************)
EXTENDS Naturals, Sequences, FiniteSets

CONSTANTS
  PatternIncidents, PatternDays,  \* the thresholds of insight_runner
  TrendIncidents, TrendDays,
  Deploys,
  MaxRetries,                     \* of a detector
  Data,                           \* the data a tenant may have
  MaxRuns, MaxDeaths, MaxMarks    \* bounds

Detector == {"complaint_spike", "feature_trend", "eng_bottleneck"}

(* incidents14, incidents30: of the last 14 and 30 days; days since the     *)
(* first one; deploys: documents from GitHub; documented: the detectors that*)
(* find as many documents as they need.                                     *)
ASSUME InsightAssumption ==
  /\ {PatternIncidents, PatternDays, TrendIncidents, TrendDays, Deploys,
      MaxRetries} \subseteq Nat
  /\ Data \subseteq
       [incidents14 : Nat, incidents30 : Nat, days : Nat, deploys : Nat,
        documented : SUBSET Detector]

VARIABLES
  data,
  dispatches,  \* messages to run all detectors
  detections,  \* messages to run one
  insights,
  checked,     \* what each run over all detectors found ready
  died,        \* runs with a task whose worker died
  runs, marks

insightVars ==
  <<data, dispatches, detections, insights, checked, died, runs, marks>>

Dispatch == [run : Nat]
Detection == [run : Nat, detector : Detector, named : BOOLEAN, tries : 0 .. MaxRetries]
Insight ==
  [run : Nat, detector : Detector, named : BOOLEAN, copy : Nat,
   status : {"active", "resolved", "snoozed"}]

InsightInit ==
  /\ data \in Data
  /\ dispatches = {} /\ detections = {}
  /\ insights = {}
  /\ checked = <<>>
  /\ died = {}
  /\ runs = 0 /\ marks = 0

(* Incidents, deploys and documents come and grow old.                      *)
Change ==
  /\ data' \in Data
  /\ UNCHANGED <<dispatches, detections, insights, checked, died, runs, marks>>

-----------------------------------------------------------------------------
NextRun ==
  /\ runs < MaxRuns
  /\ runs' = runs + 1
  /\ UNCHANGED <<data, insights, died, marks>>

(* run_all_tenants_insights on the hour; or trigger_generation without a    *)
(* type, or with one that has no detector.                                  *)
GenerateAll ==
  /\ NextRun
  /\ dispatches' = dispatches \cup {[run |-> runs + 1]}
  /\ checked' = Append(checked, {})
  /\ UNCHANGED detections

(* trigger_generation with the type of a detector.                          *)
GenerateNamed ==
  /\ NextRun
  /\ \E d \in Detector :
       detections' = detections \cup
         {[run |-> runs + 1, detector |-> d, named |-> TRUE, tries |-> 0]}
  /\ checked' = Append(checked, {})
  /\ UNCHANGED dispatches

Die(run) == Cardinality(died) < MaxDeaths /\ died' = died \cup {run}

(* _check_data_sufficiency: the kinds of insight with enough data.          *)
Ready(found) ==
  {kind \in {"pattern", "trend", "deploy"} :
     CASE kind = "pattern" -> /\ found.incidents14 >= PatternIncidents
                              /\ found.days >= PatternDays
       [] kind = "trend"   -> /\ found.incidents30 >= TrendIncidents
                              /\ found.days >= TrendDays
       [] kind = "deploy"  -> found.deploys >= Deploys}

(* Mutant: every detector runs as soon as anything is ready.                *)
MutDetectorsFor(ready) == IF ready # {} THEN Detector ELSE {}

DetectorsFor(ready) ==
  {d \in Detector :
     CASE d = "complaint_spike" -> ready \cap {"pattern", "deploy"} # {}
       [] d = "feature_trend"   -> "trend" \in ready
       [] d = "eng_bottleneck"  -> "pattern" \in ready}

Detections(run, detectors) ==
  {[run |-> run, detector |-> d, named |-> FALSE, tries |-> 0] : d \in detectors}

(* The detectors in the order they are dispatched in, up to the k-th.       *)
UpTo(k) == {<<"complaint_spike", "feature_trend", "eng_bottleneck">>[j] : j \in 1 .. k}

(* run_all_insights_for_tenant checks the data and dispatches one detector  *)
(* after the other.  A broker that is away for one ends the task; a worker's*)
(* death, after any of them, has it start again.                            *)
RunAll(m) ==
  /\ \E k \in 0 .. 3 :
       detections' = detections \cup Detections(m.run, DetectorsFor(Ready(data)) \cap UpTo(k))
  /\ \/ dispatches' = dispatches \ {m} /\ UNCHANGED died
     \/ UNCHANGED dispatches /\ Die(m.run)
  /\ checked' = [checked EXCEPT ![m.run] = Ready(data)]
  /\ UNCHANGED <<data, insights, runs, marks>>

-----------------------------------------------------------------------------
(* copy tells the insights of one message apart that ran more than once.    *)
Saved(m) ==
  LET before == {i \in insights : i.run = m.run /\ i.detector = m.detector}
  IN  IF m.detector \in data.documented
      THEN {insights,
            insights \cup {[run |-> m.run, detector |-> m.detector, named |-> m.named,
                           copy |-> Cardinality(before), status |-> "active"]}}
      ELSE {insights}

(* A detector: with too few documents, or when the LLM sees nothing, there  *)
(* is no row.  An exception before the commit sends it again, MaxRetries    *)
(* times at most.                                                           *)
Detect(m) ==
  /\ \/ /\ insights' \in Saved(m)
        /\ detections' = detections \ {m}
        /\ UNCHANGED died
     \/ /\ detections' = (detections \ {m}) \cup
             (IF m.tries < MaxRetries THEN {[m EXCEPT !.tries = @ + 1]} ELSE {})
        /\ UNCHANGED <<insights, died>>
     \/ insights' \in Saved(m) /\ UNCHANGED detections /\ Die(m.run)
  /\ UNCHANGED <<data, dispatches, checked, runs, marks>>

(* update_insight_status.  Nothing brings a snoozed insight back.           *)
UpdateInsightStatus(i) ==
  /\ marks < MaxMarks
  /\ marks' = marks + 1
  /\ \E status \in {"active", "resolved", "snoozed"} :
       insights' = (insights \ {i}) \cup {[i EXCEPT !.status = status]}
  /\ UNCHANGED <<data, dispatches, detections, checked, died, runs>>

InsightStep ==
  \/ Change \/ GenerateAll \/ GenerateNamed
  \/ \E m \in dispatches : RunAll(m)
  \/ \E m \in detections : Detect(m)
  \/ \E i \in insights : UpdateInsightStatus(i)

-----------------------------------------------------------------------------
(* "No insight is better than a wrong one": an insight nobody asked for by  *)
(* name belongs to a run that found what its detector needs, although the   *)
(* data has changed since, and a run gives each detector at most one,       *)
(* however often it is retried; all this unless a worker died.              *)
InsightsEarned ==
  \A i \in insights :
    LET ready == checked[i.run]
    IN  i.run \notin died =>
          /\ \/ i.named
             \/ i.detector = "feature_trend" /\ "trend" \in ready
             \/ i.detector # "feature_trend" /\ "pattern" \in ready
             \/ i.detector = "complaint_spike" /\ "deploy" \in ready
          /\ \A j \in insights \ {i} : j.run = i.run => j.detector # i.detector
=============================================================================
