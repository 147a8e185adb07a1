------------------------------ MODULE Retention ------------------------------
(***************************************************************************)
(* How the data of one tenant goes away: the nightly cleanup, which may    *)
(* overlap a run an admin starts, and the purge of everything, while       *)
(* records still arrive, are staged and are embedded, briefs are resolved  *)
(* and reopened, and the policy is edited.                                 *)
(*                                                                         *)
(* Two kinds of rows stand for the categories: log documents, which come   *)
(* through the queue and have points in Qdrant, and briefs, which only go  *)
(* once they are resolved.  No point carries indexed_at, so the cleanup of *)
(* Qdrant by age deletes nothing.  excused and seen are history.           *)
(***************************************************************************)
EXTENDS Naturals, FiniteSets

CONSTANTS
  Log, Brief,          \* names of log documents and of briefs
  Cleaner,             \* overlapping executions of run_cleanup
  Days, DefaultDays,   \* the days a policy may have, and _DEFAULTS
  MaxTime, MaxEdits    \* bounds: ticks (days), edits of the policy

ASSUME RetentionAssumption ==
  /\ Log \cap Brief = {}
  /\ Days \subseteq Nat /\ DefaultDays \in Nat
  /\ MaxTime \in Nat /\ MaxEdits \in Nat

VARIABLES
  now,
  policy,    \* the retention_policies row
  queue,     \* ingestion_queue: the records not processed yet, when created
  rows,      \* canonical_documents and rrt_briefs rows
  points,    \* documents with points in Qdrant
  messages,  \* documents named in an embedding message
  working,   \* documents whose embedding job has read the row
  cleaners,  \* the policy each execution has loaded
  purge,     \* the request that purges the tenant
  excused,   \* what a finished purge left, or what came since
  edits

retentionVars ==
  <<now, policy, queue, rows, points, messages, working, cleaners, purge, excused, edits>>

Item == Log \cup Brief
NoPolicy == [exists |-> FALSE, active |-> FALSE, log |-> 0, brief |-> 0]
Policy == [exists : BOOLEAN, active : BOOLEAN, log : Nat, brief : Nat]
NoRow == [exists |-> FALSE, at |-> 0, resolved |-> FALSE]
Row == [exists : BOOLEAN, at : Nat, resolved : BOOLEAN]
IdleCleaner == [pc |-> "idle", log |-> 0, brief |-> 0, seen |-> {}]
CleanerState ==
  [pc : {"idle", "loaded"}, log : Nat, brief : Nat, seen : SUBSET Policy]

(* Every variable keeps its type.                                           *)
RetentionTypeOK ==
  /\ now \in Nat /\ edits \in Nat
  /\ policy \in Policy
  /\ queue \subseteq [item : Log, at : Nat]
  /\ rows \in [Item -> Row]
  /\ points \subseteq Log /\ messages \subseteq Log /\ working \subseteq Log
  /\ cleaners \in [Cleaner -> CleanerState]
  /\ purge \in {"none", "rows", "done"}
  /\ excused \subseteq Item

RetentionInit ==
  /\ now = 1
  /\ policy = NoPolicy
  /\ queue = {}
  /\ rows = [i \in Item |-> NoRow]
  /\ points = {} /\ messages = {} /\ working = {}
  /\ cleaners = [c \in Cleaner |-> IdleCleaner]
  /\ purge = "none"
  /\ excused = {}
  /\ edits = 0

Tick ==
  /\ now < MaxTime
  /\ now' = now + 1
  /\ UNCHANGED <<policy, queue, rows, points, messages, working, cleaners, purge,
                 excused, edits>>

-----------------------------------------------------------------------------
(* Data comes                                                               *)

(* A record is queued, possibly long after it was created at its source.    *)
Arrive(i) ==
  /\ ~rows[i].exists /\ i \notin points \cup messages \cup working
  /\ \A m \in queue : m.item # i
  /\ \E at \in 1 .. now : queue' = queue \cup {[item |-> i, at |-> at]}
  /\ excused' = excused \cup {i}
  /\ UNCHANGED <<now, policy, rows, points, messages, working, cleaners, purge, edits>>

(* process_staging_batch; the dispatch after the commit may be lost.        *)
Stage ==
  \E m \in queue :
    /\ queue' = queue \ {m}
    /\ rows' = [rows EXCEPT ![m.item] = [NoRow EXCEPT !.exists = TRUE, !.at = m.at]]
    /\ messages' \in {messages, messages \cup {m.item}}
    /\ UNCHANGED <<now, policy, points, working, cleaners, purge, excused, edits>>

(* process_document reads the row; one that is gone ends the job.           *)
StartEmbedding(i) ==
  /\ i \in messages
  /\ messages' = messages \ {i}
  /\ working' = IF rows[i].exists THEN working \cup {i} ELSE working
  /\ UNCHANGED <<now, policy, queue, rows, points, cleaners, purge, excused, edits>>

(* It writes the points, in a collection it creates when there is none.     *)
FinishEmbedding(i) ==
  /\ i \in working
  /\ working' = working \ {i}
  /\ points' \in {points, points \cup {i}}
  /\ UNCHANGED <<now, policy, queue, rows, messages, cleaners, purge, excused, edits>>

NewBrief(i) ==
  /\ ~rows[i].exists
  /\ rows' = [rows EXCEPT ![i] = [NoRow EXCEPT !.exists = TRUE, !.at = now]]
  /\ excused' = excused \cup {i}
  /\ UNCHANGED <<now, policy, queue, points, messages, working, cleaners, purge, edits>>

SetBrief(i) ==
  /\ rows[i].exists
  /\ rows' = [rows EXCEPT ![i].resolved = ~@]
  /\ UNCHANGED <<now, policy, queue, points, messages, working, cleaners, purge,
                 excused, edits>>

-----------------------------------------------------------------------------
(* The policy and the cleanup                                               *)

(* upsert_retention_policy.  An execution that is under way keeps what it   *)
(* loaded; seen collects what held meanwhile.                               *)
SetPolicy ==
  /\ edits < MaxEdits
  /\ edits' = edits + 1
  /\ policy' \in [exists : {TRUE}, active : BOOLEAN, log : Days, brief : Days]
  /\ cleaners' = [c \in Cleaner |->
       IF cleaners[c].pc = "idle" THEN cleaners[c]
       ELSE [cleaners[c] EXCEPT !.seen = @ \cup {policy'}]]
  /\ UNCHANGED <<now, queue, rows, points, messages, working, purge, excused>>

(* The days that hold for a kind of rows; without an active policy the      *)
(* defaults do.                                                             *)
Ttl(p, kind) ==
  IF ~p.active THEN DefaultDays ELSE IF kind = "log" THEN p.log ELSE p.brief

(* _run_cleanup_async loads the policies of all tenants first.              *)
LoadPolicy(c) ==
  /\ cleaners[c].pc = "idle"
  /\ cleaners' = [cleaners EXCEPT ![c] =
       [pc |-> "loaded", log |-> Ttl(policy, "log"), brief |-> Ttl(policy, "brief"),
        seen |-> {policy}]]
  /\ UNCHANGED <<now, policy, queue, rows, points, messages, working, purge,
                 excused, edits>>

(* Mutant: zero days are a cutoff of now.                                   *)
MutExpired(i, c) ==
  LET days == IF i \in Log THEN cleaners[c].log ELSE cleaners[c].brief
  IN  /\ rows[i].exists
      /\ rows[i].at + days <= now
      /\ i \in Brief => rows[i].resolved

(* Zero days keep a row for ever; only resolved briefs expire.              *)
Expired(i, c) ==
  LET days == IF i \in Log THEN cleaners[c].log ELSE cleaners[c].brief
  IN  /\ rows[i].exists
      /\ days > 0
      /\ rows[i].at + days <= now
      /\ i \in Brief => rows[i].resolved

(* The tenant's transaction: a statement that fails is only logged, but the *)
(* commit then keeps none of the others.                                    *)
Clean(c) ==
  /\ cleaners[c].pc = "loaded"
  /\ cleaners' = [cleaners EXCEPT ![c] = IdleCleaner]
  /\ \/ rows' = [i \in Item |-> IF Expired(i, c) THEN NoRow ELSE rows[i]]
     \/ UNCHANGED rows
  /\ UNCHANGED <<now, policy, queue, points, messages, working, purge, excused, edits>>

-----------------------------------------------------------------------------
(* The purge                                                                *)

(* What no statement of the purge reaches: records in the queue and         *)
(* embeddings under way.                                                    *)
Underway == {m.item : m \in queue} \cup messages \cup working

(* Mutant: the documents are not among the tables.                          *)
MutPurgeRows ==
  /\ purge = "none"
  /\ purge' = "rows"
  /\ rows' = [i \in Item |-> IF i \in Brief THEN NoRow ELSE rows[i]]
  /\ policy' = NoPolicy
  /\ excused' = Underway
  /\ UNCHANGED <<now, queue, points, messages, working, cleaners, edits>>

(* purge_tenant_data commits the deletion of the tenant's tables.           *)
PurgeRows ==
  /\ purge = "none"
  /\ purge' = "rows"
  /\ rows' = [i \in Item |-> NoRow]
  /\ policy' = NoPolicy
  /\ excused' = Underway
  /\ UNCHANGED <<now, queue, points, messages, working, cleaners, edits>>

(* Then it drops the collection; when Qdrant fails it still says purged.    *)
PurgePoints ==
  /\ purge = "rows"
  /\ purge' = "done"
  /\ \/ points' = {} /\ UNCHANGED excused
     \/ UNCHANGED points /\ excused' = excused \cup points
  /\ UNCHANGED <<now, policy, queue, rows, messages, working, cleaners, edits>>

(* A statement fails: nothing is deleted but the points, and the answer is  *)
(* partial.                                                                 *)
PurgeFails ==
  /\ purge = "none"
  /\ points' \in {points, {}}
  /\ points' # points
  /\ UNCHANGED <<now, policy, queue, rows, messages, working, cleaners, purge,
                 excused, edits>>

RetentionNext ==
  \/ \E i \in Log : Arrive(i) \/ StartEmbedding(i) \/ FinishEmbedding(i)
  \/ \E i \in Brief : NewBrief(i) \/ SetBrief(i)
  \/ Stage \/ SetPolicy \/ Tick
  \/ \E c \in Cleaner : LoadPolicy(c) \/ Clean(c)
  \/ PurgeRows \/ PurgePoints \/ PurgeFails

RetentionSpec == RetentionInit /\ [][RetentionNext]_retentionVars

-----------------------------------------------------------------------------
(* Properties                                                               *)

(* Outside a purge a row goes only when it has expired under a policy that  *)
(* held since the cleanup began, never one that is kept for ever and never  *)
(* an open brief, although the policy is edited and the brief reopened      *)
(* while cleanups run.                                                      *)
KeptLongEnough ==
  [][\A i \in Item :
       rows[i].exists /\ ~rows'[i].exists /\ purge' = purge
       => /\ i \in Brief => rows[i].resolved
          /\ \E c \in Cleaner : \E p \in cleaners[c].seen :
               LET days == Ttl(p, IF i \in Log THEN "log" ELSE "brief")
               IN  days > 0 /\ rows[i].at + days <= now]_retentionVars

(* After a purge the tenant has only what came since, what was in the queue *)
(* or being embedded at the time, and the points a failing Qdrant kept.     *)
ErasureExplained ==
  purge = "done" =>
    {i \in Item : rows[i].exists} \cup points \subseteq excused
=============================================================================
