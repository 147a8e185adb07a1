---------------------------- MODULE DocEmbedding -----------------------------
(***************************************************************************)
(* The embedding stage: the Celery tasks process_document and              *)
(* process_documents_batch, which turn rows of canonical_documents into    *)
(* Qdrant points, and the two that send them work again,                   *)
(* retry_pending_embeddings (beat) and POST requeue-embeddings.            *)
(*                                                                         *)
(* A worker executes one message at a time, in the steps another process   *)
(* can observe or fall between: it reads each row, commits what the parse  *)
(* decided, writes points group by group, and commits the outcome.         *)
(* ContentArrives and Dispatched are what the writers of canonical_        *)
(* documents may do meanwhile; IngestionPipeline puts StagingQueue there.  *)
(***************************************************************************)
EXTENDS CanonicalDocs

CONSTANTS
  Worker,          \* processes of the Celery worker
  MaxTaskRetries,  \* max_retries of the two tasks
  RetryLimit,      \* LIMIT of retry_pending_embeddings
  MaxGroups        \* bound: point groups of a document, in the index

ASSUME EmbeddingAssumption ==
  /\ MaxTaskRetries \in Nat /\ RetryLimit \in Nat /\ MaxGroups \in Nat \ {0}
  /\ \A c \in Content : Groups[c] <= MaxGroups

VARIABLES
  docs,    \* canonical_documents
  index,   \* index[d][i]: whose vectors the points of group i of d hold
  jobs,    \* jobs[w]: what worker w is doing
  broker   \* messages waiting in Redis

vars == <<docs, index, jobs, broker>>

Slot == 0 .. MaxGroups - 1

(* todo: rows still to read; held: the contents read; left: groups of       *)
(* points still to write.                                                   *)
Job == [pc   : {"idle", "read", "parse", "write", "commit"},
        msg  : Message(MaxTaskRetries),
        todo : SUBSET Doc,
        held : [Doc -> Content \cup {NoContent}],
        left : SUBSET (Doc \X Slot)]

IdleJob == [pc |-> "idle", msg |-> BatchMessage({}), todo |-> {},
            held |-> [d \in Doc |-> NoContent], left |-> {}]

(* Every variable keeps its type.                                           *)
TypeOK ==
  /\ docs \in [Doc -> DocRow]
  /\ index \in [Doc -> [Slot -> Content \cup {NoContent}]]
  /\ jobs \in [Worker -> Job]
  /\ broker \subseteq Message(MaxTaskRetries)

Init ==
  /\ docs = [d \in Doc |-> NoDoc]
  /\ index = [d \in Doc |-> [i \in Slot |-> NoContent]]
  /\ jobs = [w \in Worker |-> IdleJob]
  /\ broker = {}

-----------------------------------------------------------------------------
(* The environment: the upserts of a staging transaction, and the message   *)
(* it sends, some time later or never.                                      *)

ContentArrives(new) ==
  /\ \A d \in Doc : new[d] # NoContent =>
        new[d] \in Source[d] /\ Source[d] # {docs[d].content}
  /\ docs' = [d \in Doc |-> IF new[d] = NoContent THEN docs[d]
                            ELSE Rewritten(docs[d], new[d])]
  /\ UNCHANGED <<index, jobs, broker>>

Dispatched(D) ==
  /\ D # {}
  /\ \A d \in D : Exists(docs[d])
  /\ broker' = broker \cup {BatchMessage(D)}
  /\ UNCHANGED <<docs, index, jobs>>

-----------------------------------------------------------------------------
(* One message on one worker.                                               *)

Start(w, m) ==
  /\ jobs[w].pc = "idle"
  /\ m \in broker
  /\ broker' = broker \ {m}
  /\ jobs' = [jobs EXCEPT ![w] = [IdleJob EXCEPT !.pc = "read", !.msg = m,
                                                 !.todo = m.docs]]
  /\ UNCHANGED <<docs, index>>

(* process_document skips a row that is done; the batch also one that has   *)
(* failed.                                                                  *)
Wanted(op, row) ==
  /\ Exists(row)
  /\ row.status # "done"
  /\ op = "batch" => row.status # "failed"

Read(w, d) ==
  /\ jobs[w].pc = "read" /\ d \in jobs[w].todo
  /\ LET job  == jobs[w]
         todo == job.todo \ {d}
         held == IF Wanted(job.msg.op, docs[d])
                 THEN [job.held EXCEPT ![d] = docs[d].content] ELSE job.held
     IN  jobs' = [jobs EXCEPT ![w] =
                    [job EXCEPT !.todo = todo, !.held = held,
                                !.pc = IF todo = {} THEN "parse" ELSE "read"]]
  /\ UNCHANGED <<docs, index, broker>>

Holding(held) == {d \in Doc : held[d] # NoContent}

GroupsOf(held) ==
  {g \in Doc \X Slot : held[g[1]] # NoContent /\ g[2] < Groups[held[g[1]]]}

(* The job goes on with the documents it holds, or is done without any.     *)
GoOn(job, held) ==
  LET left == GroupsOf(held)
  IN  IF Holding(held) = {} THEN IdleJob
      ELSE [job EXCEPT !.held = held, !.left = left,
                       !.pc = IF left = {} THEN "commit" ELSE "write"]

(* process_document: structural_parse raises on an unparsable content, and  *)
(* nothing is committed before the points are written.                      *)
ParseOne(w) ==
  /\ jobs[w].pc = "parse" /\ jobs[w].msg.op = "one"
  /\ \A d \in Doc : jobs[w].held[d] \notin Unparsable
  /\ jobs' = [jobs EXCEPT ![w] = GoOn(@, @.held)]
  /\ UNCHANGED <<docs, index, broker>>

(* Mutant: the first session already marks what will be embedded.           *)
MutParseMarksDone(w) ==
  /\ jobs[w].pc = "parse" /\ jobs[w].msg.op = "batch"
  /\ LET held == jobs[w].held
     IN  /\ docs' = [d \in Doc |-> IF held[d] # NoContent
                                    THEN [docs[d] EXCEPT !.status = "done"]
                                    ELSE docs[d]]
         /\ jobs' = [jobs EXCEPT ![w] = GoOn(@, held)]
  /\ UNCHANGED <<index, broker>>

(* process_documents_batch: the first session marks the blank documents     *)
(* done and the unparsable ones failed, and commits; the rest goes on.      *)
ParseBatch(w) ==
  /\ jobs[w].pc = "parse" /\ jobs[w].msg.op = "batch"
  /\ LET held == jobs[w].held
     IN  /\ docs' = [d \in Doc |->
                       IF held[d] \in Blank THEN [docs[d] EXCEPT !.status = "done"]
                       ELSE IF held[d] \in Unparsable
                       THEN Counted([docs[d] EXCEPT !.status = "failed"])
                       ELSE docs[d]]
         /\ jobs' = [jobs EXCEPT ![w] =
                       GoOn(@, [d \in Doc |-> IF held[d] \in Blank \cup Unparsable
                                              THEN NoContent ELSE held[d]])]
  /\ UNCHANGED <<index, broker>>

(* Mutant: embed_and_upsert returns after its first batch of chunks.        *)
MutPutFirstGroup(w, S) ==
  /\ index' = [d \in Doc |-> [i \in Slot |->
                 IF <<d, i>> \in S THEN jobs[w].held[d] ELSE index[d][i]]]
  /\ jobs' = [jobs EXCEPT ![w].left = {}, ![w].pc = "commit"]
  /\ UNCHANGED <<docs, broker>>

(* Qdrant upsert of the groups S of a job's points, under point ids that    *)
(* depend only on the document and the position.                            *)
Put(w, S) ==
  /\ index' = [d \in Doc |-> [i \in Slot |->
                 IF <<d, i>> \in S THEN jobs[w].held[d] ELSE index[d][i]]]
  /\ LET left == jobs[w].left \ S
     IN  jobs' = [jobs EXCEPT ![w].left = left,
                              ![w].pc = IF left = {} THEN "commit" ELSE "write"]
  /\ UNCHANGED <<docs, broker>>

(* embed_and_upsert: each group is embedded and upserted before the next.   *)
WriteGroup(w, d, i) ==
  /\ jobs[w].pc = "write" /\ jobs[w].msg.op = "one"
  /\ <<d, i>> \in jobs[w].left
  /\ \A g \in jobs[w].left : i <= g[2]
  /\ jobs[w].held[d] \notin Oversize
  /\ Put(w, {<<d, i>>})

(* embed_and_upsert_batch: everything is embedded before the first upsert,  *)
(* which is one call for each document.                                     *)
WriteDoc(w, d) ==
  /\ jobs[w].pc = "write" /\ jobs[w].msg.op = "batch"
  /\ \A e \in Doc : jobs[w].held[e] \notin Oversize
  /\ \E g \in jobs[w].left : g[1] = d
  /\ Put(w, {g \in jobs[w].left : g[1] = d})

(* The outcome, by primary key.  The batch counts the attempt and fails the *)
(* documents that got no points.                                            *)
Finished(op, row, c) ==
  IF op = "one" THEN [row EXCEPT !.status = "done"]
  ELSE Counted([row EXCEPT !.status = IF Groups[c] > 0 THEN "done" ELSE "failed"])

Commit(w) ==
  /\ jobs[w].pc = "commit"
  /\ docs' = [d \in Doc |->
                IF jobs[w].held[d] # NoContent
                THEN Finished(jobs[w].msg.op, docs[d], jobs[w].held[d])
                ELSE docs[d]]
  /\ jobs' = [jobs EXCEPT ![w] = IdleJob]
  /\ UNCHANGED <<index, broker>>

(* Mutant: any exception marks the documents failed.                        *)
MutFailMarksFailed(w) ==
  /\ jobs[w].pc # "idle"
  /\ docs' = [d \in Doc |-> IF jobs[w].held[d] # NoContent
                             THEN Counted([docs[d] EXCEPT !.status = "failed"])
                             ELSE docs[d]]
  /\ jobs' = [jobs EXCEPT ![w] = IdleJob]
  /\ UNCHANGED <<index, broker>>

(* An exception: what is not committed is lost, written points stay.  Past  *)
(* max_retries, retry(exc=exc) raises exc itself, so the handler that would *)
(* mark the document failed is not entered.                                 *)
Fail(w) ==
  /\ jobs[w].pc # "idle"
  /\ LET m == jobs[w].msg
     IN  broker' = IF m.tries < MaxTaskRetries
                   THEN broker \cup {[m EXCEPT !.tries = @ + 1]} ELSE broker
  /\ jobs' = [jobs EXCEPT ![w] = IdleJob]
  /\ UNCHANGED <<docs, index>>

(* The process dies.  The message is redelivered when the whole node went   *)
(* down, and acknowledged when only the pool's child did.                   *)
Crash(w) ==
  /\ jobs[w].pc # "idle"
  /\ \/ broker' = broker \cup {jobs[w].msg}
     \/ UNCHANGED broker
  /\ jobs' = [jobs EXCEPT ![w] = IdleJob]
  /\ UNCHANGED <<docs, index>>

-----------------------------------------------------------------------------
(* The tasks that send documents again.                                     *)

Pending == {d \in Doc : Exists(docs[d]) /\ docs[d].status = "pending"}

Retriable == {d \in Doc : docs[d].status = "failed" /\ docs[d].attempts < MaxAttempts}

AtMost(n, S) == {T \in SUBSET S : Cardinality(T) = IF Cardinality(S) < n
                                                   THEN Cardinality(S) ELSE n}

(* Mutant: only failed rows are sent again.                                 *)
MutRetryFailedOnly ==
  \E F \in SUBSET Retriable :
    /\ F # {}
    /\ Cardinality(F) <= RetryLimit
    /\ broker' = broker \cup {OneMessage(d) : d \in F}
    /\ UNCHANGED <<docs, index, jobs>>

(* retry_pending_embeddings: pending rows first, up to the limit, then      *)
(* failed rows whose backoff has run out (which ones has is left open).     *)
RetryPending ==
  \E P \in AtMost(RetryLimit, Pending) :
    \E F \in SUBSET Retriable :
      /\ P \cup F # {}
      /\ Cardinality(F) <= RetryLimit - Cardinality(P)
      /\ broker' = broker \cup {OneMessage(d) : d \in P \cup F}
      /\ UNCHANGED <<docs, index, jobs>>

(* POST /dead-letter/requeue-embeddings commits, then sends; the request    *)
(* may end before the last message is sent.                                 *)
RequeueFailed(D, sent) ==
  /\ D # {} /\ sent \subseteq D
  /\ \A d \in D : docs[d].status = "failed"
  /\ docs' = [d \in Doc |-> IF d \in D THEN [docs[d] EXCEPT !.status = "pending"]
                            ELSE docs[d]]
  /\ broker' = broker \cup {OneMessage(d) : d \in sent}
  /\ UNCHANGED <<index, jobs>>

-----------------------------------------------------------------------------
Work(w) ==
  \/ \E d \in Doc : Read(w, d) \/ WriteDoc(w, d)
  \/ \E d \in Doc, i \in Slot : WriteGroup(w, d, i)
  \/ ParseOne(w)
  \/ ParseBatch(w)
  \/ Commit(w)

WorkerStep(w) ==
  \/ \E m \in broker : Start(w, m)
  \/ Work(w)
  \/ Fail(w)
  \/ Crash(w)

Resend ==
  \/ RetryPending
  \/ \E D \in SUBSET Doc : \E sent \in SUBSET D : RequeueFailed(D, sent)

Environment ==
  \/ \E new \in [Doc -> Content \cup {NoContent}] : ContentArrives(new)
  \/ \E D \in SUBSET Doc : Dispatched(D)

Next == Environment \/ Resend \/ \E w \in Worker : WorkerStep(w)

Spec == Init /\ [][Next]_vars

(* A job that cannot succeed: its content does not parse, or the embeddings *)
(* API refuses it.                                                          *)
Doomed(w) ==
  \/ /\ jobs[w].pc = "parse" /\ jobs[w].msg.op = "one"
     /\ \E d \in Doc : jobs[w].held[d] \in Unparsable
  \/ /\ jobs[w].pc = "write"
     /\ \E d \in Doc : jobs[w].held[d] \in Oversize

(* Every job ends (its time limit sees to that); the broker queue is first  *)
(* in, first out, so a message is not passed over for ever; beat runs       *)
(* retry_pending_embeddings every 30 minutes.                               *)
Fairness ==
  /\ \A w \in Worker : WF_vars(Work(w) \/ Fail(w) \/ Crash(w))
  /\ \A d \in Doc : SF_vars(\E w \in Worker : Start(w, OneMessage(d)))
  /\ WF_vars(RetryPending)

(* From some time on, only the jobs that cannot succeed fail.               *)
OutagesEnd ==
  <>[][\A w \in Worker : Fail(w) \/ Crash(w) => Doomed(w) \/ Work(w)]_vars

FairSpec == Spec /\ Fairness /\ OutagesEnd

-----------------------------------------------------------------------------
(* Properties                                                               *)

Fixed(d) == \E c \in Content : Source[d] = {c}

(* A document whose content never changes (a log record, a commit) is       *)
(* marked done only when every point of it is in the index, whatever jobs   *)
(* for it overlapped, failed half way or were redelivered: the status the   *)
(* commit writes relies on a read several steps earlier.                    *)
ImmutableVectorised ==
  \A d \in Doc : Fixed(d) /\ docs[d].status = "done" =>
    \A i \in Slot : i < Groups[docs[d].content] => index[d][i] = docs[d].content

(* A document that is edited may be marked done with the vectors of an      *)
(* older edit, but not with none: whichever job marked it done wrote its    *)
(* first points.                                                            *)
SearchableWhenDone ==
  \A d \in Doc :
    (\A c \in Source[d] : Groups[c] > 0) /\ docs[d].status = "done" =>
      index[d][0] # NoContent

(* A document ends in "failed" for a reason in its content, never for an    *)
(* outage of OpenAI, Qdrant or a worker: those leave it pending, where      *)
(* retry_pending_embeddings finds it.                                       *)
FailedForCause ==
  \A d \in Doc : Fixed(d) /\ docs[d].status = "failed" =>
    docs[d].content \in Unparsable \/ Groups[docs[d].content] = 0
=============================================================================
