---------------------------- MODULE StagingQueue -----------------------------
(***************************************************************************)
(* The staging queue (opslens.ingestion_queue) and the Celery task         *)
(* process_staging_batch that drains it for one (tenant, source_type).     *)
(*                                                                         *)
(* A run of the task is one SELECT without row locks, then one transaction *)
(* over the selected rows, then the dispatch of one embedding message.     *)
(* Every row statement locks its row until the commit, so after the SELECT *)
(* the transactions of overlapping runs serialise: a run is modelled as    *)
(* Select (what it read), then CommitBatch or AbortBatch (its transaction) *)
(* and then Dispatch, with anything in between.                            *)
(***************************************************************************)
EXTENDS CanonicalDocs

CONSTANTS
  Record,       \* primary keys of queue rows, numbered in created_at order
  Payload,      \* Payload[r]: what the raw record of row r is
  Run,          \* process_staging_batch executions that may overlap
  BatchLimit,   \* LIMIT of the SELECT
  MaxRetries,   \* max_retries column
  MaxTaskRetries

(* What the pipeline makes of a raw record.  "good" is normalised and       *)
(* stored; "malformed" makes the Python side raise (normalise, hashing,     *)
(* json.dumps); "noise" is a log line below the minimum level; "rejected"   *)
(* is normalised, but PostgreSQL refuses the INSERT (an author longer than  *)
(* 255 characters, a source id longer than 512).                            *)
Kind == {"good", "malformed", "noise", "rejected"}

(* Finitely many rows are ever inserted, so any of them have a newest.      *)
ASSUME QueueAssumption ==
  /\ Record \subseteq Nat
  /\ \A R \in SUBSET Record : R # {} => \E r \in R : \A q \in R : q <= r
  /\ Payload \in [Record -> [kind : Kind, doc : Doc, content : Content]]
  /\ \A r \in Record : Payload[r].content \in Source[Payload[r].doc]
  /\ IsFiniteSet(Run) /\ Run # {}
  /\ BatchLimit \in Nat \ {0}
  /\ MaxRetries \in Nat \ {0}
  /\ MaxTaskRetries \in Nat

VARIABLES
  queue,   \* queue[r]: the row, with the columns the code reads
  runs,    \* runs[u]: where execution u stands and what it holds in memory
  docs,    \* canonical_documents
  broker   \* embedding messages waiting in Redis

vars == <<queue, runs, docs, broker>>

(* row: not inserted yet, in the table, or deleted by retention.            *)
(* processed, failed: processed_at / failed_at IS NOT NULL.                 *)
(* due: next_retry_at is NULL or has passed.                                *)
Row == [row : {"absent", "present", "purged"}, processed : BOOLEAN,
        failed : BOOLEAN, retries : Nat, due : BOOLEAN]

(* live / spent: selected rows whose retry_count was read below / at the    *)
(* cap.  out: pending_doc_ids.                                              *)
RunState == [pc : {"idle", "open", "dispatch"},
             live : SUBSET Record, spent : SUBSET Record, out : SUBSET Doc]

IdleRun == [pc |-> "idle", live |-> {}, spent |-> {}, out |-> {}]

(* Every variable keeps its type.                                           *)
TypeOK ==
  /\ queue \in [Record -> Row]
  /\ runs \in [Run -> RunState]
  /\ docs \in [Doc -> DocRow]
  /\ broker \subseteq Message(MaxTaskRetries)

Init ==
  /\ queue = [r \in Record |-> [row |-> "absent", processed |-> FALSE,
                                failed |-> FALSE, retries |-> 0, due |-> TRUE]]
  /\ runs = [u \in Run |-> IdleRun]
  /\ docs = [d \in Doc |-> NoDoc]
  /\ broker = {}

-----------------------------------------------------------------------------
(* The table's other writers.                                               *)

(* The producer inserts the next raw record.                                *)
Arrive(r) ==
  /\ queue[r].row = "absent"
  /\ \A q \in Record : q < r => queue[q].row # "absent"
  /\ queue' = [queue EXCEPT ![r].row = "present"]
  /\ UNCHANGED <<runs, docs, broker>>

(* Time reaches the next_retry_at of a row.                                 *)
BackoffElapses(r) ==
  /\ queue[r].row = "present" /\ ~queue[r].due
  /\ queue' = [queue EXCEPT ![r].due = TRUE]
  /\ UNCHANGED <<runs, docs, broker>>

(* POST /dead-letter/requeue, for the rows an administrator names.          *)
Requeue(R) ==
  /\ R # {}
  /\ \A r \in R : queue[r].row = "present" /\ queue[r].failed
  /\ queue' = [r \in Record |->
                 IF r \in R THEN [queue[r] EXCEPT !.failed = FALSE, !.retries = 0]
                 ELSE queue[r]]
  /\ UNCHANGED <<runs, docs, broker>>

(* Retention deletes the processed rows that have grown old.                *)
Purge(R) ==
  /\ R # {}
  /\ \A r \in R : queue[r].row = "present" /\ queue[r].processed
  /\ queue' = [r \in Record |->
                 IF r \in R THEN [queue[r] EXCEPT !.row = "purged"] ELSE queue[r]]
  /\ UNCHANGED <<runs, docs, broker>>

-----------------------------------------------------------------------------
(* One execution of process_staging_batch.                                  *)

Eligible(r) ==
  /\ queue[r].row = "present" /\ ~queue[r].processed /\ ~queue[r].failed
  /\ queue[r].due

(* Mutant: ORDER BY created_at DESC.                                        *)
MutSelectedNewestFirst ==
  LET E == {r \in Record : Eligible(r)}
  IN  {r \in E : Cardinality({q \in E : q > r}) < BatchLimit}

(* ORDER BY created_at LIMIT BatchLimit                                     *)
Selected ==
  LET E == {r \in Record : Eligible(r)}
  IN  {r \in E : Cardinality({q \in E : q < r}) < BatchLimit}

(* Mutant: the cap is compared with > instead of >=.                        *)
MutSelectCapOffByOne(u) ==
  /\ runs[u].pc = "idle"
  /\ Selected # {}
  /\ LET spent == {r \in Selected : queue[r].retries > MaxRetries}
     IN  runs' = [runs EXCEPT ![u] = [pc |-> "open", live |-> Selected \ spent,
                                      spent |-> spent, out |-> {}]]
  /\ UNCHANGED <<queue, docs, broker>>

Select(u) ==
  /\ runs[u].pc = "idle"
  /\ Selected # {}
  /\ LET spent == {r \in Selected : queue[r].retries >= MaxRetries}
     IN  runs' = [runs EXCEPT ![u] = [pc |-> "open", live |-> Selected \ spent,
                                      spent |-> spent, out |-> {}]]
  /\ UNCHANGED <<queue, docs, broker>>

OfKind(R, kind) == {r \in R : Payload[r].kind = kind}

(* Mutant: a failed record counts its retries down.                         *)
MutSettledCountsDown(r, live, spent) ==
  IF r \in OfKind(live, "malformed")
  THEN [queue[r] EXCEPT !.retries = @ - 1, !.due = FALSE]
  ELSE queue[r]

(* Mutant: the dead-letter UPDATE is forgotten.                             *)
MutSettledNoDeadLetter(r, live, spent) ==
  IF queue[r].row # "present" THEN queue[r]
  ELSE IF r \in OfKind(live, "malformed")
       THEN [queue[r] EXCEPT !.retries = @ + 1, !.due = FALSE]
  ELSE IF r \in live THEN [queue[r] EXCEPT !.processed = TRUE]
  ELSE queue[r]

(* What the transaction makes of a selected row.  The purged row of an      *)
(* earlier overlapping run is no longer there to update.                    *)
Settled(r, live, spent) ==
  IF queue[r].row # "present" THEN queue[r]
  ELSE IF r \in spent THEN [queue[r] EXCEPT !.processed = TRUE, !.failed = TRUE]
  ELSE IF r \in OfKind(live, "malformed")
       THEN [queue[r] EXCEPT !.retries = @ + 1, !.due = FALSE]
  ELSE IF r \in live THEN [queue[r] EXCEPT !.processed = TRUE]
  ELSE queue[r]

(* The good rows of the batch for document d, and whether one of them was   *)
(* an insert or an update (an upsert that changes nothing returns no row).  *)
GoodFor(R, d) == {r \in OfKind(R, "good") : Payload[r].doc = d}

Touched(R, d) == \E r \in GoodFor(R, d) : Payload[r].content # docs[d].content

Latest(R) == CHOOSE r \in R : \A q \in R : q <= r

Stored(R, d) ==
  IF Touched(R, d)
  THEN Rewritten(docs[d], Payload[Latest(GoodFor(R, d))].content)
  ELSE docs[d]

CommitBatch(u) ==
  /\ runs[u].pc = "open"
  /\ OfKind(runs[u].live, "rejected") = {}
  /\ LET live == runs[u].live
         out  == {d \in Doc : Touched(live, d)}
     IN  /\ queue' = [r \in Record |-> Settled(r, live, runs[u].spent)]
         /\ docs' = [d \in Doc |-> Stored(live, d)]
         /\ runs' = [runs EXCEPT ![u] =
                       IF out = {} THEN IdleRun
                       ELSE [IdleRun EXCEPT !.pc = "dispatch", !.out = out]]
  /\ UNCHANGED broker

(* Mutant: the marks of the queue rows are committed before the upserts.    *)
MutAbortAfterMarks(u) ==
  /\ runs[u].pc = "open"
  /\ queue' = [r \in Record |-> Settled(r, runs[u].live, runs[u].spent)]
  /\ runs' = [runs EXCEPT ![u] = IdleRun]
  /\ UNCHANGED <<docs, broker>>

(* Mutant: each upsert is committed on its own.                             *)
MutAbortAfterUpserts(u) ==
  /\ runs[u].pc = "open"
  /\ docs' = [d \in Doc |-> Stored(runs[u].live, d)]
  /\ runs' = [runs EXCEPT ![u] = IdleRun]
  /\ UNCHANGED <<queue, broker>>

(* Mutant: the message is sent although the transaction was rolled back.    *)
MutAbortThenDispatch(u) ==
  /\ runs[u].pc = "open"
  /\ LET out == {d \in Doc : Touched(runs[u].live, d)}
     IN  runs' = [runs EXCEPT ![u] = [IdleRun EXCEPT !.pc = "dispatch", !.out = out]]
  /\ UNCHANGED <<queue, docs, broker>>

(* A statement fails in PostgreSQL, the connection is lost or the process   *)
(* dies.  The failed statement aborts the transaction, so the handler's own *)
(* UPDATE of retry_count fails too and nothing of the batch remains.        *)
AbortBatch(u) ==
  /\ runs[u].pc = "open"
  /\ runs' = [runs EXCEPT ![u] = IdleRun]
  /\ UNCHANGED <<queue, docs, broker>>

(* process_documents_batch.delay(pending_doc_ids), after the commit.        *)
Dispatch(u) ==
  /\ runs[u].pc = "dispatch"
  /\ broker' = broker \cup {BatchMessage(runs[u].out)}
  /\ runs' = [runs EXCEPT ![u] = IdleRun]
  /\ UNCHANGED <<queue, docs>>

(* The process dies, or the broker is away, between commit and dispatch.    *)
LoseDispatch(u) ==
  /\ runs[u].pc = "dispatch"
  /\ runs' = [runs EXCEPT ![u] = IdleRun]
  /\ UNCHANGED <<queue, docs, broker>>

-----------------------------------------------------------------------------
RunStep(u) ==
  \/ Select(u)
  \/ CommitBatch(u)
  \/ AbortBatch(u)
  \/ Dispatch(u)
  \/ LoseDispatch(u)

TableStep ==
  \/ \E r \in Record : Arrive(r) \/ BackoffElapses(r)
  \/ \E R \in SUBSET Record : Requeue(R) \/ Purge(R)

Next == TableStep \/ \E u \in Run : RunStep(u)

(* Beat starts a run every five minutes and its time limit ends it; time    *)
(* passes; and a transaction that can commit is not aborted for ever.       *)
Fairness ==
  /\ \A u \in Run : WF_vars(Select(u)) /\ WF_vars(RunStep(u)) /\ SF_vars(CommitBatch(u))
  /\ \A r \in Record : WF_vars(BackoffElapses(r))

Spec == Init /\ [][Next]_vars

FairSpec == Spec /\ Fairness

-----------------------------------------------------------------------------
(* Properties                                                               *)

(* A record marked processed has left its document behind and was not       *)
(* dead-lettered: whatever run marked it, from whatever stale SELECT, the   *)
(* mark and the upsert were one transaction, and an outage of the database  *)
(* costs a good record no retry.                                            *)
StoredWhenSettled ==
  \A r \in OfKind(Record, "good") : queue[r].processed =>
    Exists(docs[Payload[r].doc]) /\ ~queue[r].failed

(* A document's content came from a record that is marked processed: a      *)
(* transaction that is rolled back leaves nothing behind.                   *)
ContentHasRecord ==
  \A d \in Doc : Exists(docs[d]) =>
    \E r \in GoodFor(Record, d) :
      queue[r].processed /\ Payload[r].content = docs[d].content

(* Overlapping runs each count the retry they saw coming, so retry_count    *)
(* can pass max_retries, but by no more than the other runs that overlap.   *)
RetryOvershoot ==
  \A r \in Record : queue[r].retries <= MaxRetries + Cardinality(Run) - 1

(* Without overlapping runs a document carries its newest processed record. *)
(* (With them an older edit can overwrite a newer one, so the runs that     *)
(* check this have a single member of Run.)                                 *)
NewestWins ==
  \A d \in Doc :
    LET seen == {r \in GoodFor(Record, d) : queue[r].processed}
    IN  seen # {} => docs[d].content = Payload[Latest(seen)].content

Waiting(r) ==
  queue[r].row = "present" /\ ~queue[r].processed /\ ~queue[r].failed

(* Every record is settled in the end, stored or dead-lettered, unless the  *)
(* queue holds a row that PostgreSQL refuses to store.                      *)
Settles ==
  \A r \in Record :
    Waiting(r) ~> \/ ~Waiting(r)
                 \/ \E q \in OfKind(Record, "rejected") : Waiting(q)
=============================================================================
