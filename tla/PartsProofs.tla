---------------------------- MODULE PartsProofs -----------------------------
(***************************************************************************)
(* Proofs about parts that are taken on their own.                         *)
(*                                                                         *)
(* The embedding stage: DocEmbedding, whose Spec this is, for every set of *)
(* documents, contents and workers, and every limit.                       *)
(*                                                                         *)
(* The four of the back office: Retention, whose specification is          *)
(* RetentionSpec, and Insights, Billing and Timeline, of which the theorems*)
(* name the initial predicate and the steps.  They hold for any number of  *)
(* rows, cleanups, runs, tenants, webhooks and requests.                   *)
(*                                                                         *)
(* Membership, whose specification is MembershipSpec, for any number of    *)
(* people, requests, rows and invites, with or without unique external ids.*)
(***************************************************************************)
EXTENDS DocEmbedding, Retention, Insights, Billing, Timeline, Membership,
        FiniteSetTheorems, WellFoundedInduction, TLAPS

-----------------------------------------------------------------------------
(* The embedding stage                                                      *)

Held == [Doc -> Content \cup {NoContent}]

LEMMA MessageTypes ==
  /\ \A d \in Doc : OneMessage(d) \in Message(MaxTaskRetries)
  /\ \A D \in SUBSET Doc : BatchMessage(D) \in Message(MaxTaskRetries)
BY EmbeddingAssumption DEF OneMessage, BatchMessage, Message

LEMMA IdleJobType == IdleJob \in Job
BY MessageTypes, DocsAssumption DEF IdleJob, Job, NoContent

(* A row whose status is assigned, and its attempt counted, is a row.       *)
LEMMA RowTypes ==
  ASSUME NEW row \in DocRow, NEW s \in EmbeddingStatus
  PROVE  /\ [row EXCEPT !.status = s] \in DocRow
         /\ Counted([row EXCEPT !.status = s]) \in DocRow
<1>1. [row EXCEPT !.status = s] \in DocRow
  BY DEF DocRow
<1>2. ASSUME NEW x \in DocRow
      PROVE  Counted(x) \in DocRow
  BY DocsAssumption DEF Counted, DocRow
<1> QED
  BY <1>1, <1>2

LEMMA GoOnType ==
  ASSUME NEW job \in Job, NEW held \in Held
  PROVE  GoOn(job, held) \in Job
<1>1. GroupsOf(held) \in SUBSET (Doc \X Slot)
  BY DEF GroupsOf
<1> QED
  BY <1>1, IdleJobType DEF GoOn, Job, Held

(* Every step keeps every variable in its type.                             *)
LEMMA TypeStep ==
  ASSUME TypeOK, [Next]_vars
  PROVE  TypeOK'
<1> USE DEF TypeOK
<1>1. ASSUME NEW new \in [Doc -> Content \cup {NoContent}], ContentArrives(new)
      PROVE  TypeOK'
  BY <1>1 DEF ContentArrives, Rewritten, DocRow, EmbeddingStatus
<1>2. ASSUME NEW D \in SUBSET Doc, Dispatched(D)
      PROVE  TypeOK'
  BY <1>2, MessageTypes DEF Dispatched
<1>3. CASE RetryPending
  BY <1>3, MessageTypes DEF RetryPending, AtMost, Pending, Retriable
<1>4. ASSUME NEW D \in SUBSET Doc, NEW resent \in SUBSET D, RequeueFailed(D, resent)
      PROVE  TypeOK'
  <2>1. docs' \in [Doc -> DocRow]
    BY <1>4, RowTypes DEF RequeueFailed, EmbeddingStatus
  <2> QED
    BY <1>4, <2>1, MessageTypes DEF RequeueFailed
<1>5. ASSUME NEW w \in Worker, NEW m \in broker, Start(w, m)
      PROVE  TypeOK'
  <2>1. m \in Message(MaxTaskRetries) /\ m.docs \in SUBSET Doc
    BY DEF Message
  <2>2. [IdleJob EXCEPT !.pc = "read", !.msg = m, !.todo = m.docs] \in Job
    BY <2>1, IdleJobType DEF Job
  <2> QED
    BY <1>5, <2>2 DEF Start
<1>6. ASSUME NEW w \in Worker, NEW d \in Doc, Read(w, d)
      PROVE  TypeOK'
  <2>1. docs[d].content \in Content \cup {NoContent}
    BY DEF DocRow
  <2>2. jobs'[w] \in Job
    BY <1>6, <2>1 DEF Read, Job
  <2> QED
    BY <1>6, <2>2 DEF Read
<1>7. ASSUME NEW w \in Worker, ParseOne(w)
      PROVE  TypeOK'
  <2>1. jobs[w] \in Job /\ jobs[w].held \in Held
    BY DEF Job, Held
  <2> QED
    BY <1>7, <2>1, GoOnType DEF ParseOne
<1>8. ASSUME NEW w \in Worker, ParseBatch(w)
      PROVE  TypeOK'
  <2> DEFINE held == jobs[w].held
             kept == [d \in Doc |-> IF held[d] \in Blank \cup Unparsable
                                    THEN NoContent ELSE held[d]]
  <2>1. jobs[w] \in Job /\ kept \in Held
    BY DEF Job, Held
  <2>2. jobs' = [jobs EXCEPT ![w] = GoOn(jobs[w], kept)]
    BY <1>8 DEF ParseBatch
  <2>3. jobs' \in [Worker -> Job]
    BY <2>1, <2>2, GoOnType
  <2>4. docs' \in [Doc -> DocRow]
    BY <1>8, RowTypes DEF ParseBatch, EmbeddingStatus
  <2> QED
    BY <1>8, <2>3, <2>4 DEF ParseBatch
<1>9. ASSUME NEW w \in Worker, NEW S \in SUBSET (Doc \X Slot), Put(w, S)
      PROVE  TypeOK'
  <2>1. index' \in [Doc -> [Slot -> Content \cup {NoContent}]]
    BY <1>9 DEF Put, Job
  <2>2. jobs'[w] \in Job
    BY <1>9 DEF Put, Job
  <2> QED
    BY <1>9, <2>1, <2>2 DEF Put
<1>10. ASSUME NEW w \in Worker, NEW d \in Doc, NEW i \in Slot, WriteGroup(w, d, i)
       PROVE  TypeOK'
  BY <1>9, <1>10 DEF WriteGroup
<1>11. ASSUME NEW w \in Worker, NEW d \in Doc, WriteDoc(w, d)
       PROVE  TypeOK'
  <2>1. {g \in jobs[w].left : g[1] = d} \in SUBSET (Doc \X Slot)
    BY DEF Job
  <2> QED
    BY <1>9, <1>11, <2>1 DEF WriteDoc
<1>12. ASSUME NEW w \in Worker, Commit(w)
       PROVE  TypeOK'
  <2>1. docs' \in [Doc -> DocRow]
    BY <1>12, RowTypes DEF Commit, Finished, EmbeddingStatus
  <2> QED
    BY <1>12, <2>1, IdleJobType DEF Commit
<1>13. ASSUME NEW w \in Worker, Fail(w)
       PROVE  TypeOK'
  <2> DEFINE m == jobs[w].msg
  <2>1. m \in Message(MaxTaskRetries)
    BY DEF Job
  <2>2. m.tries < MaxTaskRetries => [m EXCEPT !.tries = @ + 1] \in Message(MaxTaskRetries)
    BY <2>1, EmbeddingAssumption DEF Message
  <2> QED
    BY <1>13, <2>2, IdleJobType DEF Fail
<1>14. ASSUME NEW w \in Worker, Crash(w)
       PROVE  TypeOK'
  BY <1>14, IdleJobType DEF Crash, Job
<1>15. CASE UNCHANGED vars
  BY <1>15 DEF vars
<1> QED
  BY <1>1, <1>2, <1>3, <1>4, <1>5, <1>6, <1>7, <1>8, <1>10, <1>11, <1>12, <1>13, <1>14,
     <1>15 DEF Next, Environment, Resend, WorkerStep, Work

LEMMA TypeInit ==
  ASSUME Init
  PROVE  TypeOK
BY DocsAssumption, IdleJobType
   DEF Init, TypeOK, DocRow, NoDoc, EmbeddingStatus, NoContent

(* Every variable keeps its type.                                           *)
THEOREM TypeCorrect == Spec => []TypeOK
BY TypeInit, TypeStep, PTL DEF Spec

-----------------------------------------------------------------------------
(* The vectors behind a status.                                             *)
(*                                                                          *)
(* A commit writes a status that was decided several steps earlier, so what *)
(* the index holds must be known of every job in between: a group of the    *)
(* job's points is still to be written, or it is in the index, and a group  *)
(* once in the index stays there, because later jobs only write over it.    *)
(* The job may hold an older content than the row by then, so the invariant *)
(* says of a done row only that some content of its source was written in   *)
(* full; with a single content in the source this is the row's own.         *)

Written(c, written) == \A i \in Slot : i < Groups[c] => written[i] # NoContent

Stored(d, row) ==
  /\ row.content \in Source[d] \cup {NoContent}
  /\ row.status # "pending" => Exists(row)

DoneHasVectors(d, row, written) ==
  row.status = "done" => \E c \in Source[d] : Written(c, written)

FailedHasCause(d, row) ==
  row.status = "failed" => \E c \in Source[d] : c \in Unparsable \/ Groups[c] = 0

HeldOK(held, ds) ==
  \A d \in Doc : held[d] # NoContent => held[d] \in Source[d] /\ Exists(ds[d])

JobOK(job, ds, ix) ==
  /\ HeldOK(job.held, ds)
  /\ \A g \in job.left : job.held[g[1]] # NoContent
  /\ job.pc = "commit" => job.left = {}
  /\ job.pc \in {"write", "commit"} =>
       \A d \in Doc, i \in Slot :
         job.held[d] # NoContent /\ i < Groups[job.held[d]] =>
           <<d, i>> \in job.left \/ ix[d][i] # NoContent

VectorInv ==
  /\ TypeOK
  /\ \A d \in Doc : Stored(d, docs[d])
  /\ \A d \in Doc : DoneHasVectors(d, docs[d], index[d])
  /\ \A d \in Doc : FailedHasCause(d, docs[d])
  /\ \A d \in Doc, i \in Slot : index[d][i] \in Source[d] \cup {NoContent}
  /\ \A w \in Worker : JobOK(jobs[w], docs, index)

LEMMA GroupsType == \A c \in Content : Groups[c] \in Nat
BY DocsAssumption

LEMMA SourceType == \A d \in Doc : Source[d] \subseteq Content /\ NoContent \notin Source[d]
BY DocsAssumption DEF NoContent

(* A job goes on as it should when rows stay stored and points stay.        *)
LEMMA JobKept ==
  ASSUME NEW job, NEW ds, NEW ix, NEW ds2, NEW ix2, JobOK(job, ds, ix),
         \A d \in Doc : Exists(ds[d]) => Exists(ds2[d]),
         \A d \in Doc, i \in Slot : ix[d][i] # NoContent => ix2[d][i] # NoContent
  PROVE  JobOK(job, ds2, ix2)
BY DEF JobOK, HeldOK

LEMMA IdleOK == JobOK(IdleJob, docs, index)
BY DEF JobOK, HeldOK, IdleJob

LEMMA GoOnOK ==
  ASSUME NEW job \in Job, NEW held \in Held, NEW ds, HeldOK(held, ds)
  PROVE  JobOK(GoOn(job, held), ds, index)
<1>1. CASE Holding(held) = {}
  BY <1>1 DEF GoOn, JobOK, HeldOK, IdleJob
<1>2. CASE Holding(held) # {}
  <2> DEFINE left == GroupsOf(held)  next == GoOn(job, held)
  <2>1. /\ next.held = held
        /\ next.left = left
        /\ next.pc = IF left = {} THEN "commit" ELSE "write"
    <3>1. next = [job EXCEPT !.held = held, !.left = left,
                             !.pc = IF left = {} THEN "commit" ELSE "write"]
      BY <1>2 DEF GoOn
    <3>2. job = [pc |-> job.pc, msg |-> job.msg, todo |-> job.todo,
                 held |-> job.held, left |-> job.left]
      BY DEF Job
    <3> HIDE DEF next, left
    <3> QED
      BY <3>1, <3>2
  <2>2. \A g \in left : held[g[1]] # NoContent
    BY DEF GroupsOf
  <2>3. \A d \in Doc, i \in Slot :
          held[d] # NoContent /\ i < Groups[held[d]] => <<d, i>> \in left
    BY DEF GroupsOf
  <2> SUFFICES JobOK(next, ds, index)
    OBVIOUS
  <2> HIDE DEF next, left
  <2> QED
    BY <2>1, <2>2, <2>3 DEF JobOK
<1> QED
  BY <1>1, <1>2

(* Steps that leave index and jobs alone, but for jobs that become idle.    *)
LEMMA RowsChange ==
  ASSUME VectorInv, TypeOK', UNCHANGED index,
         \A w \in Worker : jobs'[w] = jobs[w] \/ jobs'[w] = IdleJob,
         \A d \in Doc : /\ Exists(docs[d]) => Exists(docs'[d])
                        /\ Stored(d, docs'[d])
                        /\ DoneHasVectors(d, docs'[d], index[d])
                        /\ FailedHasCause(d, docs'[d])
  PROVE  VectorInv'
<1>1. ASSUME NEW w \in Worker
      PROVE  JobOK(jobs'[w], docs', index')
  <2>1. JobOK(jobs[w], docs', index')
    <3>1. JobOK(jobs[w], docs, index)
      BY DEF VectorInv
    <3> QED
      BY <3>1, JobKept
  <2>2. JobOK(IdleJob, docs', index')
    BY DEF JobOK, HeldOK, IdleJob
  <2> QED
    BY <2>1, <2>2
<1> QED
  BY <1>1 DEF VectorInv

(* A job's own step: the others keep theirs.                                *)
LEMMA JobChanges ==
  ASSUME VectorInv, TypeOK', NEW w \in Worker,
         \A v \in Worker \ {w} : jobs'[v] = jobs[v],
         JobOK(jobs'[w], docs', index'),
         \A d \in Doc : Exists(docs[d]) => Exists(docs'[d]),
         \A d \in Doc, i \in Slot : index[d][i] # NoContent => index'[d][i] # NoContent
  PROVE  \A v \in Worker : JobOK(jobs'[v], docs', index')
<1>1. ASSUME NEW v \in Worker \ {w}
      PROVE  JobOK(jobs'[v], docs', index')
  <2>1. JobOK(jobs[v], docs, index)
    BY DEF VectorInv
  <2>2. JobOK(jobs[v], docs', index')
    BY <2>1, JobKept
  <2> QED
    BY <2>2
<1> QED
  BY <1>1

LEMMA VectorStep ==
  ASSUME VectorInv, [Next]_vars
  PROVE  VectorInv'
<1>0. TypeOK /\ TypeOK'
  BY TypeStep DEF VectorInv
<1>a. ASSUME NEW d \in Doc
      PROVE  /\ docs[d] \in DocRow
             /\ Stored(d, docs[d])
             /\ DoneHasVectors(d, docs[d], index[d])
             /\ FailedHasCause(d, docs[d])
  BY DEF VectorInv, TypeOK
<1>b. ASSUME NEW w \in Worker
      PROVE  JobOK(jobs[w], docs, index) /\ jobs[w] \in Job
  BY DEF VectorInv, TypeOK
<1>1. ASSUME NEW new \in [Doc -> Content \cup {NoContent}], ContentArrives(new)
      PROVE  VectorInv'
  <2>1. ASSUME NEW d \in Doc
        PROVE  \/ docs'[d] = docs[d]
               \/ /\ docs'[d].content \in Source[d] /\ docs'[d].content # NoContent
                  /\ docs'[d].status = "pending"
    BY <1>1, <1>a DEF ContentArrives, Rewritten, DocRow
  <2> QED
    BY <1>0, <1>1, <1>a, <2>1, RowsChange
       DEF ContentArrives, Exists, Stored, DoneHasVectors, FailedHasCause
<1>2. ASSUME NEW D \in SUBSET Doc, Dispatched(D)
      PROVE  VectorInv'
  BY <1>0, <1>2, <1>a, RowsChange DEF Dispatched
<1>3. CASE RetryPending
  BY <1>0, <1>3, <1>a, RowsChange DEF RetryPending
<1>4. ASSUME NEW D \in SUBSET Doc, NEW resent \in SUBSET D, RequeueFailed(D, resent)
      PROVE  VectorInv'
  <2>1. ASSUME NEW d \in Doc
        PROVE  \/ docs'[d] = docs[d]
               \/ docs'[d].content = docs[d].content /\ docs'[d].status = "pending"
    BY <1>4, <1>a DEF RequeueFailed, DocRow
  <2> QED
    BY <1>0, <1>4, <1>a, <2>1, RowsChange
       DEF RequeueFailed, Exists, Stored, DoneHasVectors, FailedHasCause
<1>5. ASSUME NEW w \in Worker, NEW m \in broker, Start(w, m)
      PROVE  VectorInv'
  <2>1. jobs'[w] = [IdleJob EXCEPT !.pc = "read", !.msg = m, !.todo = m.docs]
    BY <1>0, <1>5 DEF Start, TypeOK
  <2>2. JobOK(jobs'[w], docs', index')
    BY <2>1 DEF IdleJob, JobOK, HeldOK
  <2>3. \A v \in Worker : JobOK(jobs'[v], docs', index')
    BY <1>0, <1>5, <2>2, JobChanges DEF Start, TypeOK
  <2> QED
    BY <1>0, <1>5, <2>3 DEF VectorInv, Start
<1>6. ASSUME NEW w \in Worker, NEW d \in Doc, Read(w, d)
      PROVE  VectorInv'
  <2>1. /\ jobs'[w].pc \in {"read", "parse"}
        /\ jobs'[w].left = jobs[w].left
        /\ jobs'[w].held \in {jobs[w].held, [jobs[w].held EXCEPT ![d] = docs[d].content]}
        /\ jobs'[w].held # jobs[w].held => Exists(docs[d])
    BY <1>6, <1>b DEF Read, Wanted, Job, TypeOK
  <2>2. JobOK(jobs'[w], docs', index')
    BY <1>6, <2>1, <1>a, <1>b DEF Read, JobOK, HeldOK, Stored, Exists, Job
  <2>3. \A v \in Worker : JobOK(jobs'[v], docs', index')
    BY <1>0, <1>6, <2>2, JobChanges DEF Read, TypeOK
  <2> QED
    BY <1>0, <1>6, <2>3 DEF VectorInv, Read
<1>7. ASSUME NEW w \in Worker, ParseOne(w)
      PROVE  VectorInv'
  <2>1. jobs[w].held \in Held /\ HeldOK(jobs[w].held, docs)
    BY <1>b DEF JobOK, Job, Held
  <2>2. jobs'[w] = GoOn(jobs[w], jobs[w].held)
    BY <1>0, <1>7 DEF ParseOne, TypeOK
  <2>3. JobOK(jobs'[w], docs', index')
    BY <1>7, <1>b, <2>1, <2>2, GoOnOK DEF ParseOne
  <2>4. \A v \in Worker : JobOK(jobs'[v], docs', index')
    BY <1>0, <1>7, <2>3, JobChanges DEF ParseOne, TypeOK
  <2> QED
    BY <1>0, <1>7, <2>4 DEF VectorInv, ParseOne
<1>8. ASSUME NEW w \in Worker, ParseBatch(w)
      PROVE  VectorInv'
  <2> DEFINE held == jobs[w].held
             kept == [d \in Doc |-> IF held[d] \in Blank \cup Unparsable
                                    THEN NoContent ELSE held[d]]
  <2>1. held \in Held /\ kept \in Held /\ HeldOK(held, docs)
    BY <1>b DEF JobOK, Job, Held
  <2>2. ASSUME NEW d \in Doc
        PROVE  \/ docs'[d] = docs[d]
               \/ held[d] \in Blank /\ docs'[d] = [docs[d] EXCEPT !.status = "done"]
               \/ /\ held[d] \in Unparsable
                  /\ docs'[d] = Counted([docs[d] EXCEPT !.status = "failed"])
    BY <1>8 DEF ParseBatch
  <2>3. ASSUME NEW d \in Doc
        PROVE  /\ docs'[d].content = docs[d].content
               /\ \/ docs'[d] = docs[d]
                  \/ held[d] \in Blank /\ docs'[d].status = "done"
                  \/ held[d] \in Unparsable /\ docs'[d].status = "failed"
    BY <1>a, <2>2 DEF Counted, DocRow
  <2>4. ASSUME NEW d \in Doc
        PROVE  /\ Exists(docs[d]) => Exists(docs'[d])
               /\ Stored(d, docs'[d])
               /\ DoneHasVectors(d, docs'[d], index[d])
               /\ FailedHasCause(d, docs'[d])
    <3>1. CASE docs'[d] = docs[d]
      BY <1>a, <3>1
    <3>2. CASE docs'[d] # docs[d]
      <4>1. held[d] \in Source[d] /\ Exists(docs[d])
        BY <2>1, <2>3, <3>2, DocsAssumption DEF HeldOK, NoContent
      <4>2. held[d] \in Blank => Written(held[d], index[d])
        <5>1. \A c \in Blank : Groups[c] = 0
          BY DocsAssumption
        <5>2. \A i \in Slot : ~(i < 0)
          BY EmbeddingAssumption DEF Slot
        <5> QED
          BY <5>1, <5>2 DEF Written
      <4> QED
        BY <1>a, <2>3, <3>2, <4>1, <4>2
           DEF Exists, Stored, DoneHasVectors, FailedHasCause
    <3> QED
      BY <3>1, <3>2
  <2>5. HeldOK(kept, docs')
    BY <2>1, <2>4 DEF HeldOK
  <2>6. jobs'[w] = GoOn(jobs[w], kept)
    BY <1>0, <1>8 DEF ParseBatch, TypeOK
  <2>7. JobOK(jobs'[w], docs', index')
    <3> HIDE DEF kept
    <3> QED
      BY <1>8, <1>b, <2>1, <2>5, <2>6, GoOnOK DEF ParseBatch
  <2>8. \A v \in Worker : JobOK(jobs'[v], docs', index')
    BY <1>0, <1>8, <2>4, <2>7, JobChanges DEF ParseBatch, TypeOK
  <2> QED
    BY <1>0, <1>8, <2>4, <2>8 DEF VectorInv, ParseBatch
<1>9. ASSUME NEW w \in Worker, NEW S \in SUBSET (Doc \X Slot), S \subseteq jobs[w].left,
             jobs[w].pc = "write", Put(w, S)
      PROVE  VectorInv'
  <2> DEFINE job == jobs[w]
  <2>1. /\ job.left \in SUBSET (Doc \X Slot)
        /\ jobs'[w].held = job.held
        /\ jobs'[w].left = job.left \ S
        /\ jobs'[w].pc = IF job.left \ S = {} THEN "commit" ELSE "write"
    <3>1. jobs'[w] = [job EXCEPT !.left = job.left \ S,
                                 !.pc = IF job.left \ S = {} THEN "commit" ELSE "write"]
      BY <1>0, <1>9 DEF Put, TypeOK
    <3>2. job = [pc |-> job.pc, msg |-> job.msg, todo |-> job.todo,
                 held |-> job.held, left |-> job.left]
      BY <1>b DEF Job
    <3>3. job.left \in SUBSET (Doc \X Slot)
      BY <1>b DEF Job
    <3> HIDE DEF job
    <3> QED
      BY <3>1, <3>2, <3>3
  <2>2. ASSUME NEW d \in Doc, NEW i \in Slot
        PROVE  index'[d][i] = IF <<d, i>> \in S THEN job.held[d] ELSE index[d][i]
    BY <1>9 DEF Put
  <2>3. ASSUME NEW d \in Doc, NEW i \in Slot, <<d, i>> \in S
        PROVE  job.held[d] \in Source[d] /\ job.held[d] # NoContent
    BY <1>9, <1>b, <2>3 DEF JobOK, HeldOK
  <2>4. ASSUME NEW d \in Doc, NEW i \in Slot
        PROVE  /\ index'[d][i] \in Source[d] \cup {NoContent}
               /\ index[d][i] # NoContent => index'[d][i] # NoContent
               /\ <<d, i>> \in S => index'[d][i] # NoContent
    BY <2>2, <2>3 DEF VectorInv
  <2>5. JobOK(jobs'[w], docs', index')
    <3>1. HeldOK(jobs'[w].held, docs')
      BY <1>9, <1>b, <2>1 DEF JobOK, Put
    <3>2. \A g \in jobs'[w].left : jobs'[w].held[g[1]] # NoContent
      BY <1>b, <2>1 DEF JobOK
    <3>3. ASSUME NEW d \in Doc, NEW i \in Slot,
                 jobs'[w].held[d] # NoContent, i < Groups[jobs'[w].held[d]]
          PROVE  <<d, i>> \in jobs'[w].left \/ index'[d][i] # NoContent
      <4>1. <<d, i>> \in job.left \/ index[d][i] # NoContent
        BY <1>9, <1>b, <2>1, <3>3 DEF JobOK
      <4> QED
        BY <2>1, <2>4, <4>1
    <3> QED
      BY <2>1, <3>1, <3>2, <3>3 DEF JobOK
  <2>6. \A v \in Worker : JobOK(jobs'[v], docs', index')
    BY <1>0, <1>9, <2>4, <2>5, JobChanges DEF Put, TypeOK
  <2>7. \A d \in Doc : DoneHasVectors(d, docs'[d], index'[d])
    BY <1>9, <1>a, <2>4 DEF Put, DoneHasVectors, Written
  <2> QED
    BY <1>0, <1>9, <2>4, <2>6, <2>7 DEF VectorInv, Put
<1>10. ASSUME NEW w \in Worker, NEW d \in Doc, NEW i \in Slot, WriteGroup(w, d, i)
       PROVE  VectorInv'
  BY <1>9, <1>10 DEF WriteGroup
<1>11. ASSUME NEW w \in Worker, NEW d \in Doc, WriteDoc(w, d)
       PROVE  VectorInv'
  <2>1. {g \in jobs[w].left : g[1] = d} \in SUBSET (Doc \X Slot)
    BY <1>b DEF Job
  <2> QED
    BY <1>9, <1>11, <2>1 DEF WriteDoc
<1>12. ASSUME NEW w \in Worker, Commit(w)
       PROVE  VectorInv'
  <2> DEFINE job == jobs[w]
  <2>1. /\ job.pc = "commit" /\ job.left = {} /\ HeldOK(job.held, docs)
        /\ \A d \in Doc : job.held[d] # NoContent => Written(job.held[d], index[d])
    BY <1>12, <1>b DEF Commit, JobOK, Written
  <2>2. ASSUME NEW d \in Doc, docs'[d] # docs[d]
        PROVE  /\ job.held[d] # NoContent
               /\ docs'[d] = Finished(job.msg.op, docs[d], job.held[d])
    BY <1>12, <2>2 DEF Commit
  <2>3. ASSUME NEW d \in Doc, docs'[d] # docs[d]
        PROVE  /\ docs'[d].content = docs[d].content
               /\ docs'[d].status \in {"done", "failed"}
               /\ docs'[d].status = "failed" => ~(Groups[job.held[d]] > 0)
    BY <1>a, <2>2, <2>3 DEF Finished, Counted, DocRow
  <2>4. ASSUME NEW d \in Doc
        PROVE  /\ Exists(docs[d]) => Exists(docs'[d])
               /\ Stored(d, docs'[d])
               /\ DoneHasVectors(d, docs'[d], index[d])
               /\ FailedHasCause(d, docs'[d])
    <3>1. CASE docs'[d] = docs[d]
      BY <1>a, <3>1
    <3>2. CASE docs'[d] # docs[d]
      <4>1. /\ job.held[d] \in Source[d] /\ Exists(docs[d])
            /\ Written(job.held[d], index[d])
        BY <2>1, <2>2, <3>2 DEF HeldOK
      <4>2. docs'[d].status = "failed" => Groups[job.held[d]] = 0
        BY <2>3, <3>2, <4>1, GroupsType, SourceType
      <4> QED
        BY <1>a, <2>3, <3>2, <4>1, <4>2
           DEF Exists, Stored, DoneHasVectors, FailedHasCause
    <3> QED
      BY <3>1, <3>2
  <2> QED
    BY <1>0, <1>12, <2>4, RowsChange DEF Commit, TypeOK
<1>13. ASSUME NEW w \in Worker, Fail(w) \/ Crash(w)
       PROVE  VectorInv'
  BY <1>0, <1>13, <1>a, RowsChange DEF Fail, Crash, TypeOK
<1>14. CASE UNCHANGED vars
  BY <1>0, <1>14, <1>a, RowsChange DEF vars
<1> QED
  BY <1>1, <1>2, <1>3, <1>4, <1>5, <1>6, <1>7, <1>8, <1>10, <1>11, <1>12, <1>13, <1>14
     DEF Next, Environment, Resend, WorkerStep, Work

LEMMA VectorInit ==
  ASSUME Init
  PROVE  VectorInv
<1>1. TypeOK
  BY TypeInit
<1>2. \A w \in Worker : JobOK(jobs[w], docs, index)
  BY IdleOK DEF Init
<1> QED
  BY <1>1, <1>2
     DEF Init, VectorInv, NoDoc, Exists, Stored, DoneHasVectors, FailedHasCause

LEMMA VectorInvariant == Spec => []VectorInv
BY VectorInit, VectorStep, PTL DEF Spec

(* A document whose content never changes is marked done only when every    *)
(* point of it is in the index.                                             *)
THEOREM ImmutableVectorisedHolds == Spec => []ImmutableVectorised
<1>1. VectorInv => ImmutableVectorised
  <2> SUFFICES ASSUME VectorInv, NEW d \in Doc, Fixed(d), docs[d].status = "done",
                      NEW i \in Slot, i < Groups[docs[d].content]
               PROVE  index[d][i] = docs[d].content
    BY DEF ImmutableVectorised
  <2>1. PICK c \in Content : Source[d] = {c}
    BY DEF Fixed
  <2>2. docs[d].content = c
    BY <2>1 DEF VectorInv, Stored, Exists
  <2>3. index[d][i] # NoContent
    BY <2>1, <2>2 DEF VectorInv, DoneHasVectors, Written
  <2> QED
    BY <2>1, <2>2, <2>3 DEF VectorInv
<1> QED
  BY <1>1, VectorInvariant, PTL

(* A done document whose contents all have points has points in the index.  *)
THEOREM SearchableWhenDoneHolds == Spec => []SearchableWhenDone
<1>1. VectorInv => SearchableWhenDone
  <2> SUFFICES ASSUME VectorInv, NEW d \in Doc, \A c \in Source[d] : Groups[c] > 0,
                      docs[d].status = "done"
               PROVE  index[d][0] # NoContent
    BY DEF SearchableWhenDone
  <2>1. PICK c \in Source[d] : Written(c, index[d])
    BY DEF VectorInv, DoneHasVectors
  <2>2. 0 \in Slot
    BY EmbeddingAssumption DEF Slot
  <2> QED
    BY <2>1, <2>2, SourceType, GroupsType DEF Written
<1> QED
  BY <1>1, VectorInvariant, PTL

(* A document whose content never changes is marked failed only for what    *)
(* its content is.                                                          *)
THEOREM FailedForCauseHolds == Spec => []FailedForCause
<1>1. VectorInv => FailedForCause
  <2> SUFFICES ASSUME VectorInv, NEW d \in Doc, Fixed(d), docs[d].status = "failed"
               PROVE  docs[d].content \in Unparsable \/ Groups[docs[d].content] = 0
    BY DEF FailedForCause
  <2>1. PICK c \in Content : Source[d] = {c}
    BY DEF Fixed
  <2>2. docs[d].content = c
    BY <2>1 DEF VectorInv, Stored, Exists
  <2> QED
    BY <2>1, <2>2 DEF VectorInv, FailedHasCause
<1> QED
  BY <1>1, VectorInvariant, PTL

-----------------------------------------------------------------------------
(* The back office: what its invariants are made of                         *)

Existing == {i \in Item : rows[i].exists}

(* Once the rows are purged, all that is there or on its way is excused; of *)
(* the points so only when they are purged too.                             *)
ErasureInv ==
  /\ purge # "none" => Existing \cup Underway \subseteq excused
  /\ purge = "done" => points \subseteq excused

(* A cleanup deletes by the days of one policy that held since it began.    *)
CleanerFollows ==
  \A c \in Cleaner :
    cleaners[c].pc = "loaded" =>
      \E p \in cleaners[c].seen :
        /\ cleaners[c].log = Ttl(p, "log")
        /\ cleaners[c].brief = Ttl(p, "brief")

InsightTypeOK ==
  /\ data \in Data
  /\ runs \in Nat
  /\ checked \in Seq(SUBSET {"pattern", "trend", "deploy"}) /\ Len(checked) = runs
  /\ dispatches \subseteq [run : 1 .. runs]
  /\ detections \subseteq Detection /\ \A m \in detections : m.run \in 1 .. runs
  /\ insights \subseteq Insight /\ \A i \in insights : i.run \in 1 .. runs
  /\ IsFiniteSet(insights)

(* The message or the insight is one that was asked for by name, or its run *)
(* found ready what its detector needs.                                     *)
Earned(m) == m.named \/ m.detector \in DetectorsFor(checked[m.run])

(* Of a run without a death, each detector is in one place: not dispatched  *)
(* yet, in one message, in one insight, or nowhere any more.                *)
OnePlace ==
  \A run \in 1 .. runs : run \notin died =>
    /\ \A m \in detections : m.run = run => Earned(m)
    /\ \A i \in insights : i.run = run => Earned(i)
    /\ \A m, n \in detections :
         m.run = run /\ n.run = run /\ m.detector = n.detector => m = n
    /\ \A m \in detections, i \in insights :
         m.run = run /\ i.run = run => m.detector # i.detector
    /\ \A i, j \in insights :
         i.run = run /\ j.run = run /\ i.detector = j.detector => i = j
    /\ \A a \in dispatches : a.run = run =>
         /\ \A m \in detections : m.run # run
         /\ \A i \in insights : i.run # run

StripeStatus == {"none", "active", "incomplete", "past_due", "canceled"}

BillingTypeOK ==
  /\ subscriptions \in [Tenant -> Subscription]
  /\ stripe \in StripeStatus
  /\ sent \in Nat /\ latest \in 0 .. sent
  /\ webhooks \subseteq
       [n : 1 .. sent, kind : {"updated", "deleted", "failed"}, status : StripeStatus]
  /\ disturbed \subseteq Tenant

(* The newest webhook tells the status at Stripe.  It is still to come, or  *)
(* whoever pays has what it told.                                           *)
NewestTells ==
  /\ sent > latest => \E e \in webhooks : e.n = sent
  /\ \A e \in webhooks : e.n = sent =>
       \/ e.kind = "updated" /\ e.status = stripe /\ stripe # "canceled"
       \/ e.kind = "deleted" /\ stripe = "canceled"
       \/ e.kind = "failed" /\ stripe = "incomplete"
  /\ sent > 0 /\ latest = sent =>
       \A t \in Payers : t \in disturbed \/ Agrees(subscriptions[t])

(* The actions of Timeline, the words its ids begin with, and its types.    *)
Action ==
  {"opened", "reopened", "labeled", "synchronize", "closed", "merged", "completed",
   "requested", "created", "status", "comment", "seen"}
Tag == {"gh:pr", "gh:push", "gh:workflow_run", "jira", "log_anomaly"}
Id == Seq(Tag \cup Thing \cup Action \cup Nat)

Happened ==
  [kind : {"pr", "push", "run", "issue", "spike", "manual"}, thing : Thing,
   action : Action, at : Nat]
TimelineRow == [id : Id, of : Nat, seen : Nat, deleted : BOOLEAN, at : Nat]
Inserting == [pc : {"insert"}, of : Nat, id : Id, at : Nat, seen : Nat]

TimelineTypeOK ==
  /\ clock \in Nat
  /\ events \in Seq(Happened) /\ delivered \in Seq(Nat) /\ Len(delivered) = Len(events)
  /\ \A n \in DOMAIN events : /\ events[n].at <= clock
                              /\ events[n].kind = "spike" => events[n].action = "seen"
  /\ pending \subseteq DOMAIN events
  /\ requests \in [Request -> {IdleRequest} \cup Inserting]
  /\ timeline \in Seq(TimelineRow)
  /\ \A k \in DOMAIN timeline : timeline[k].of \in DOMAIN events
  /\ \A r \in Request : requests[r].pc = "insert" =>
       /\ requests[r].of \in DOMAIN events
       /\ requests[r].seen <= Len(timeline)

(* An issue is created once.                                                *)
CreatedOnce ==
  \A n, m \in DOMAIN events :
    /\ events[n].kind = "issue" /\ events[n].action = "created"
    /\ events[m].kind = "issue" /\ events[m].action = "created"
    /\ events[n].thing = events[m].thing
    => n = m

(* The ids under which the n-th event e may be kept.                        *)
Fits(e, n, id) ==
  \/ /\ e.kind = "pr"
     /\ id = <<"gh:pr", e.thing, IF e.action = "merged" THEN "closed" ELSE e.action>>
  \/ e.kind = "push" /\ id = <<"gh:push", n>>
  \/ e.kind = "run" /\ id = <<"gh:workflow_run", e.thing, e.action>>
  \/ e.kind = "issue" /\ e.action = "created" /\ id = <<"jira", e.thing, "created">>
  \/ /\ e.kind = "issue" /\ e.action # "created"
     /\ \E copy \in Nat : id = <<"jira", e.thing, n, copy>>
  \/ e.kind = "spike" /\ id = <<"log_anomaly", e.thing>>
  \/ e.kind = "manual" /\ id = <<>>

IdsFit ==
  /\ \A k \in DOMAIN timeline :
       Fits(events[timeline[k].of], timeline[k].of, timeline[k].id)
  /\ \A r \in Request : requests[r].pc = "insert" =>
       Fits(events[requests[r].of], requests[r].of, requests[r].id)

(* Events whose every delivery has the same id.                             *)
Recognised(e) ==
  e.kind \in {"pr", "push", "run"} \/ (e.kind = "issue" /\ e.action = "created")

InsertOf(r, n) == requests[r].pc = "insert" /\ requests[r].of = n

(* A request that inserts an event looked when no row of it was there.      *)
LookedBefore ==
  \A r \in Request : \A n \in DOMAIN events :
    InsertOf(r, n) /\ Recognised(events[n]) =>
      \A j \in Rows(n) : requests[r].seen < j

(* A spike is in one place, to be written, in a request or in a row; what   *)
(* was entered by hand is in its row.                                       *)
ComesOnce ==
  \A n \in DOMAIN events :
    /\ events[n].kind \in {"spike", "manual"} =>
         /\ \A j, k \in Rows(n) : j = k
         /\ n \in pending => Rows(n) = {} /\ \A r \in Request : ~InsertOf(r, n)
         /\ \A r \in Request : InsertOf(r, n) =>
              Rows(n) = {} /\ \A q \in Request : InsertOf(q, n) => q = r
    /\ events[n].kind = "manual" => n \notin pending /\ \A r \in Request : ~InsertOf(r, n)

TimelineInv ==
  TimelineTypeOK /\ CreatedOnce /\ IdsFit /\ LookedBefore /\ ComesOnce

-----------------------------------------------------------------------------
(* Retention                                                                *)

LEMMA TtlType == \A p \in Policy : Ttl(p, "log") \in Nat /\ Ttl(p, "brief") \in Nat
BY RetentionAssumption DEF Ttl, Policy

LEMMA RetentionInitially == RetentionInit => RetentionTypeOK /\ ErasureInv /\ CleanerFollows
BY DEF RetentionInit, RetentionTypeOK, ErasureInv, CleanerFollows, Existing, NoPolicy,
       Policy, NoRow, Row, IdleCleaner, CleanerState, Item

(* RetentionTypeOK is preserved.                                           *)
LEMMA RetentionTypes ==
  RetentionTypeOK /\ [RetentionNext]_retentionVars => RetentionTypeOK'
<1> SUFFICES ASSUME RetentionTypeOK, [RetentionNext]_retentionVars
             PROVE  RetentionTypeOK'
  OBVIOUS
<1> USE RetentionAssumption
<1> USE DEF RetentionTypeOK, Item
<1>1. ASSUME NEW i \in Log, Arrive(i) PROVE RetentionTypeOK'
  BY <1>1 DEF Arrive
<1>2. ASSUME NEW i \in Log, StartEmbedding(i) PROVE RetentionTypeOK'
  BY <1>2 DEF StartEmbedding
<1>3. ASSUME NEW i \in Log, FinishEmbedding(i) PROVE RetentionTypeOK'
  BY <1>3 DEF FinishEmbedding
<1>4. ASSUME NEW i \in Brief, NewBrief(i) PROVE RetentionTypeOK'
  BY <1>4 DEF NewBrief, NoRow, Row
<1>5. ASSUME NEW i \in Brief, SetBrief(i) PROVE RetentionTypeOK'
  BY <1>5 DEF SetBrief, Row
<1>6. ASSUME Stage PROVE RetentionTypeOK'
  <2>1. PICK m \in queue :
          /\ queue' = queue \ {m}
          /\ rows' = [rows EXCEPT ![m.item] = [NoRow EXCEPT !.exists = TRUE, !.at = m.at]]
          /\ messages' \in {messages, messages \cup {m.item}}
    BY <1>6 DEF Stage
  <2>2. m.item \in Log /\ m.at \in Nat OBVIOUS
  <2>3. [NoRow EXCEPT !.exists = TRUE, !.at = m.at] \in Row BY <2>2 DEF NoRow, Row
  <2>4. rows' \in [Item -> Row] BY <2>1, <2>2, <2>3
  <2> QED BY <1>6, <2>1, <2>2, <2>4 DEF Stage
<1>7. ASSUME SetPolicy PROVE RetentionTypeOK'
  <2>1. policy' \in Policy BY <1>7 DEF SetPolicy, Policy
  <2>2. ASSUME NEW c \in Cleaner
        PROVE  [cleaners[c] EXCEPT !.seen = @ \cup {policy'}] \in CleanerState
    BY <2>1 DEF CleanerState
  <2>3. cleaners' \in [Cleaner -> CleanerState] BY <1>7, <2>2 DEF SetPolicy
  <2> QED BY <1>7, <2>1, <2>3 DEF SetPolicy
<1>8. ASSUME Tick PROVE RetentionTypeOK'
  BY <1>8 DEF Tick
<1>9. ASSUME NEW c \in Cleaner, LoadPolicy(c) PROVE RetentionTypeOK'
  BY <1>9, TtlType DEF LoadPolicy, CleanerState
<1>10. ASSUME NEW c \in Cleaner, Clean(c) PROVE RetentionTypeOK'
  <2>1. cleaners' \in [Cleaner -> CleanerState]
    BY <1>10 DEF Clean, IdleCleaner, CleanerState
  <2>2. NoRow \in Row BY DEF NoRow, Row
  <2>3. rows' \in [Item -> Row] BY <1>10, <2>2 DEF Clean
  <2> QED BY <1>10, <2>1, <2>3 DEF Clean
<1>11. ASSUME PurgeRows PROVE RetentionTypeOK'
  <2>1. Underway \subseteq Item BY DEF Underway
  <2> QED BY <1>11, <2>1 DEF PurgeRows, NoRow, Row, NoPolicy, Policy
<1>12. ASSUME PurgePoints PROVE RetentionTypeOK'
  BY <1>12 DEF PurgePoints
<1>13. ASSUME PurgeFails PROVE RetentionTypeOK'
  BY <1>13 DEF PurgeFails
<1>14. CASE UNCHANGED retentionVars
  BY <1>14 DEF retentionVars
<1> QED BY <1>1, <1>2, <1>3, <1>4, <1>5, <1>6, <1>7, <1>8, <1>9, <1>10, <1>11,
           <1>12, <1>13, <1>14 DEF RetentionNext

(* RetentionTypeCorrect: the variables of Retention keep their types for    *)
(* every number of documents, briefs and overlapping cleanups.              *)
THEOREM RetentionTypeCorrect == RetentionSpec => []RetentionTypeOK
BY RetentionInitially, RetentionTypes, PTL DEF RetentionSpec

LEMMA ErasureStep ==
  RetentionTypeOK /\ ErasureInv /\ [RetentionNext]_retentionVars => ErasureInv'
<1> SUFFICES ASSUME RetentionTypeOK, ErasureInv, [RetentionNext]_retentionVars
             PROVE  ErasureInv'
  OBVIOUS
<1> USE RetentionAssumption
<1> USE DEF RetentionTypeOK, Item, ErasureInv, Existing, Underway
<1>1. ASSUME NEW i \in Log, Arrive(i) PROVE ErasureInv'
  BY <1>1 DEF Arrive
<1>2. ASSUME NEW i \in Log, StartEmbedding(i) PROVE ErasureInv'
  BY <1>2 DEF StartEmbedding
<1>3. ASSUME NEW i \in Log, FinishEmbedding(i) PROVE ErasureInv'
  BY <1>3 DEF FinishEmbedding
<1>4. ASSUME NEW i \in Brief, NewBrief(i) PROVE ErasureInv'
  BY <1>4 DEF NewBrief, NoRow, Row
<1>5. ASSUME NEW i \in Brief, SetBrief(i) PROVE ErasureInv'
  BY <1>5 DEF SetBrief, Row
<1>6. ASSUME Stage PROVE ErasureInv'
  BY <1>6 DEF Stage, NoRow, Row
<1>7. ASSUME SetPolicy PROVE ErasureInv'
  BY <1>7 DEF SetPolicy
<1>8. ASSUME Tick PROVE ErasureInv'
  BY <1>8 DEF Tick
<1>9. ASSUME NEW c \in Cleaner, LoadPolicy(c) PROVE ErasureInv'
  BY <1>9 DEF LoadPolicy
<1>10. ASSUME NEW c \in Cleaner, Clean(c) PROVE ErasureInv'
  BY <1>10 DEF Clean, NoRow, Row
<1>11. ASSUME PurgeRows PROVE ErasureInv'
  BY <1>11 DEF PurgeRows, NoRow, Row
<1>12. ASSUME PurgePoints PROVE ErasureInv'
  BY <1>12 DEF PurgePoints
<1>13. ASSUME PurgeFails PROVE ErasureInv'
  BY <1>13 DEF PurgeFails
<1>14. CASE UNCHANGED retentionVars
  BY <1>14 DEF retentionVars
<1> QED BY <1>1, <1>2, <1>3, <1>4, <1>5, <1>6, <1>7, <1>8, <1>9, <1>10, <1>11,
           <1>12, <1>13, <1>14 DEF RetentionNext

(* ErasureHolds: after a purge the tenant has only what came since, what    *)
(* was in the queue or being embedded at the time, and the points a failing *)
(* Qdrant kept, however much of it was under way.                           *)
THEOREM ErasureHolds == RetentionSpec => []ErasureExplained
<1>1. ErasureInv => ErasureExplained
  BY DEF ErasureInv, ErasureExplained, Existing
<1> QED BY <1>1, RetentionInitially, RetentionTypes, ErasureStep, PTL DEF RetentionSpec

LEMMA CleanerStep ==
  RetentionTypeOK /\ CleanerFollows /\ [RetentionNext]_retentionVars => CleanerFollows'
<1> SUFFICES ASSUME RetentionTypeOK, CleanerFollows, [RetentionNext]_retentionVars
             PROVE  CleanerFollows'
  OBVIOUS
<1> USE DEF CleanerFollows
<1>1. CASE UNCHANGED cleaners
  BY <1>1
<1>2. ASSUME SetPolicy PROVE CleanerFollows'
  <2> SUFFICES ASSUME NEW c \in Cleaner, cleaners'[c].pc = "loaded"
               PROVE  \E p \in cleaners'[c].seen :
                        /\ cleaners'[c].log = Ttl(p, "log")
                        /\ cleaners'[c].brief = Ttl(p, "brief")
    OBVIOUS
  <2>1. cleaners[c] \in CleanerState BY DEF RetentionTypeOK
  <2>2. cleaners'[c] = IF cleaners[c].pc = "idle" THEN cleaners[c]
                       ELSE [cleaners[c] EXCEPT !.seen = @ \cup {policy'}]
    BY <1>2 DEF SetPolicy
  <2> QED BY <2>1, <2>2 DEF CleanerState
<1>3. ASSUME NEW c \in Cleaner, LoadPolicy(c) PROVE CleanerFollows'
  <2> SUFFICES ASSUME NEW d \in Cleaner, cleaners'[d].pc = "loaded"
               PROVE  \E p \in cleaners'[d].seen :
                        /\ cleaners'[d].log = Ttl(p, "log")
                        /\ cleaners'[d].brief = Ttl(p, "brief")
    OBVIOUS
  <2> QED BY <1>3 DEF LoadPolicy, RetentionTypeOK
<1>4. ASSUME NEW c \in Cleaner, Clean(c) PROVE CleanerFollows'
  BY <1>4 DEF Clean, RetentionTypeOK, IdleCleaner
<1> QED BY <1>1, <1>2, <1>3, <1>4 DEF RetentionNext, Arrive, StartEmbedding, FinishEmbedding,
           NewBrief, SetBrief, Stage, Tick, PurgeRows, PurgePoints, PurgeFails, retentionVars

(* KeptHolds: outside a purge a row goes only when it has expired under a   *)
(* policy that held since the cleanup began, never one that is kept for     *)
(* ever and never an open brief, for any number of overlapping cleanups and *)
(* edits of the policy.                                                     *)
THEOREM KeptHolds == RetentionSpec => KeptLongEnough
<1> DEFINE Kept ==
      \A i \in Item :
        rows[i].exists /\ ~rows'[i].exists /\ purge' = purge
        => /\ i \in Brief => rows[i].resolved
           /\ \E c \in Cleaner : \E p \in cleaners[c].seen :
                LET days == Ttl(p, IF i \in Log THEN "log" ELSE "brief")
                IN  days > 0 /\ rows[i].at + days <= now
<1>1. ASSUME RetentionTypeOK, CleanerFollows, RetentionNext PROVE Kept
  <2> SUFFICES ASSUME NEW i \in Item,
                      rows[i].exists, ~rows'[i].exists, purge' = purge
               PROVE  /\ i \in Brief => rows[i].resolved
                      /\ \E c \in Cleaner : \E p \in cleaners[c].seen :
                           LET days == Ttl(p, IF i \in Log THEN "log" ELSE "brief")
                           IN  days > 0 /\ rows[i].at + days <= now
    OBVIOUS
  <2> rows \in [Item -> Row] BY <1>1 DEF RetentionTypeOK
  <2>1. ~Stage
    <3> SUFFICES ASSUME Stage PROVE FALSE OBVIOUS
    <3>1. PICK m \in queue :
            rows' = [rows EXCEPT ![m.item] = [NoRow EXCEPT !.exists = TRUE, !.at = m.at]]
      BY DEF Stage
    <3> QED BY <3>1 DEF NoRow, Row
  <2>2. ASSUME NEW b \in Brief, NewBrief(b) \/ SetBrief(b) PROVE FALSE
    BY <2>2 DEF NewBrief, SetBrief, NoRow, Row
  <2>3. PICK c \in Cleaner : Clean(c)
    BY <1>1, <2>1, <2>2 DEF RetentionNext, Arrive, StartEmbedding, FinishEmbedding, SetPolicy,
       Tick, LoadPolicy, PurgeRows, PurgePoints, PurgeFails
  <2>4. Expired(i, c) BY <2>3 DEF Clean
  <2>5. PICK p \in cleaners[c].seen : /\ cleaners[c].log = Ttl(p, "log")
                                      /\ cleaners[c].brief = Ttl(p, "brief")
    BY <1>1, <2>3 DEF CleanerFollows, Clean
  <2> QED BY <2>4, <2>5 DEF Expired
<1>2. ASSUME RetentionTypeOK, CleanerFollows, [RetentionNext]_retentionVars
      PROVE  [Kept]_retentionVars
  BY <1>1, <1>2
<1> HIDE DEF Kept
<1>3. RetentionSpec => [][Kept]_retentionVars
  BY <1>2, RetentionInitially, RetentionTypes, CleanerStep, PTL DEF RetentionSpec
<1> QED BY <1>3 DEF KeptLongEnough, Kept

-----------------------------------------------------------------------------
(* Insights                                                                 *)

LEMMA InsightInitially == InsightInit => InsightTypeOK /\ OnePlace
BY FS_EmptySet DEF InsightInit, InsightTypeOK, OnePlace

LEMMA CheckedAppended ==
  ASSUME InsightTypeOK, checked' = Append(checked, {})
  PROVE  /\ checked' \in Seq(SUBSET {"pattern", "trend", "deploy"})
         /\ Len(checked') = runs + 1
         /\ \A run \in 1 .. runs : checked'[run] = checked[run]
BY DEF InsightTypeOK

LEMMA CheckedReplaced ==
  ASSUME InsightTypeOK, NEW run \in 1 .. runs, NEW found,
         checked' = [checked EXCEPT ![run] = Ready(found)]
  PROVE  /\ checked' \in Seq(SUBSET {"pattern", "trend", "deploy"})
         /\ Len(checked') = runs
         /\ checked'[run] = Ready(found)
         /\ \A other \in 1 .. runs : other # run => checked'[other] = checked[other]
<1>1. Ready(found) \in SUBSET {"pattern", "trend", "deploy"} BY DEF Ready
<1> HIDE DEF Ready
<1> QED BY <1>1 DEF InsightTypeOK

LEMMA DetectionsType ==
  ASSUME InsightAssumption, NEW run \in Nat, NEW D \in SUBSET Detector
  PROVE  /\ Detections(run, D) \subseteq Detection
         /\ \A m \in Detections(run, D) :
              m.run = run /\ m.detector \in D /\ ~m.named /\ m.tries = 0
<1>1. MaxRetries \in Nat BY DEF InsightAssumption
<1>2. ASSUME NEW d \in D
      PROVE  /\ [run |-> run, detector |-> d, named |-> FALSE, tries |-> 0] \in Detection
             /\ [run |-> run, detector |-> d, named |-> FALSE, tries |-> 0].named = FALSE
  BY <1>1 DEF Detection
<1> QED BY <1>2 DEF Detections

(* A detector's work leaves the insights as they are, or adds one of its    *)
(* message.                                                                 *)
LEMMA SavedInsight ==
  ASSUME InsightTypeOK, NEW m \in detections, NEW after \in Saved(m)
  PROVE  /\ after \subseteq Insight /\ IsFiniteSet(after)
         /\ \/ after = insights
            \/ \E i \in Insight :
                 /\ after = insights \cup {i}
                 /\ i.run = m.run /\ i.detector = m.detector /\ i.named = m.named
<1> DEFINE before == {i \in insights : i.run = m.run /\ i.detector = m.detector}
           new == [run |-> m.run, detector |-> m.detector, named |-> m.named,
                   copy |-> Cardinality(before), status |-> "active"]
<1>1. Cardinality(before) \in Nat
  BY FS_Subset, FS_CardinalityType DEF InsightTypeOK
<1>2. m \in Detection BY DEF InsightTypeOK
<1>3. new \in Insight BY <1>1, <1>2 DEF Detection, Insight
<1>4. new.run = m.run /\ new.detector = m.detector /\ new.named = m.named OBVIOUS
<1>5. after = insights \/ after = insights \cup {new} BY DEF Saved
<1> HIDE DEF new
<1>6. IsFiniteSet(insights \cup {new}) BY FS_AddElement DEF InsightTypeOK
<1> QED BY <1>3, <1>4, <1>5, <1>6 DEF InsightTypeOK

LEMMA InsightTypes == InsightTypeOK /\ [InsightStep]_insightVars => InsightTypeOK'
<1> SUFFICES ASSUME InsightTypeOK, [InsightStep]_insightVars PROVE InsightTypeOK'
  OBVIOUS
<1> USE InsightAssumption
<1>0. 1 .. runs \subseteq 1 .. (runs + 1) BY DEF InsightTypeOK
<1>1. ASSUME Change PROVE InsightTypeOK'
  BY <1>1 DEF Change, InsightTypeOK
<1>2. ASSUME GenerateAll PROVE InsightTypeOK'
  <2>1. /\ runs' = runs + 1 /\ dispatches' = dispatches \cup {[run |-> runs + 1]}
        /\ checked' = Append(checked, {})
        /\ UNCHANGED <<data, detections, insights>>
    BY <1>2 DEF GenerateAll, NextRun
  <2>2. /\ checked' \in Seq(SUBSET {"pattern", "trend", "deploy"})
        /\ Len(checked') = runs + 1
    BY <2>1, CheckedAppended
  <2>3. runs + 1 \in Nat /\ runs + 1 \in 1 .. (runs + 1) BY DEF InsightTypeOK
  <2>4. dispatches' \subseteq [run : 1 .. (runs + 1)]
    BY <1>0, <2>1, <2>3 DEF InsightTypeOK
  <2> QED BY <1>0, <2>1, <2>2, <2>3, <2>4 DEF InsightTypeOK
<1>3. ASSUME GenerateNamed PROVE InsightTypeOK'
  <2>1. PICK d \in Detector :
          detections' = detections \cup
            {[run |-> runs + 1, detector |-> d, named |-> TRUE, tries |-> 0]}
    BY <1>3 DEF GenerateNamed
  <2>2. [run |-> runs + 1, detector |-> d, named |-> TRUE, tries |-> 0] \in Detection
    <3>1. MaxRetries \in Nat /\ runs + 1 \in Nat BY DEF InsightAssumption, InsightTypeOK
    <3> QED BY <3>1 DEF Detection
  <2>3. detections' \subseteq Detection /\ \A m \in detections' : m.run \in 1 .. (runs + 1)
    <3>1. [run |-> runs + 1, detector |-> d, named |-> TRUE, tries |-> 0].run
            \in 1 .. (runs + 1)
      BY DEF InsightTypeOK
    <3> QED BY <1>0, <2>1, <2>2, <3>1 DEF InsightTypeOK
  <2> QED BY <1>3, <1>0, <2>3, CheckedAppended DEF GenerateNamed, NextRun, InsightTypeOK
<1>4. ASSUME NEW m \in dispatches, RunAll(m) PROVE InsightTypeOK'
  <2>1. m.run \in 1 .. runs BY DEF InsightTypeOK
  <2>2. PICK k \in 0 .. 3 :
          detections' = detections \cup
            Detections(m.run, DetectorsFor(Ready(data)) \cap UpTo(k))
    BY <1>4 DEF RunAll
  <2>3. DetectorsFor(Ready(data)) \cap UpTo(k) \in SUBSET Detector BY DEF DetectorsFor
  <2>4. detections' \subseteq Detection /\ \A n \in detections' : n.run \in 1 .. runs
    BY <2>1, <2>2, <2>3, DetectionsType DEF InsightTypeOK
  <2> QED BY <1>4, <2>1, <2>4, CheckedReplaced DEF RunAll, InsightTypeOK
<1>5. ASSUME NEW m \in detections, Detect(m) PROVE InsightTypeOK'
  <2>1. m \in Detection /\ m.run \in 1 .. runs BY DEF InsightTypeOK
  <2>2. detections' \subseteq Detection /\ \A n \in detections' : n.run \in 1 .. runs
    <3>1. ASSUME m.tries < MaxRetries
          PROVE  /\ [m EXCEPT !.tries = @ + 1] \in Detection
                 /\ [m EXCEPT !.tries = @ + 1].run \in 1 .. runs
      BY <2>1, <3>1 DEF Detection, InsightAssumption
    <3> QED BY <1>5, <3>1 DEF Detect, InsightTypeOK
  <2>3. insights' \in Saved(m) \/ insights' = insights BY <1>5 DEF Detect
  <2>4. /\ insights' \subseteq Insight /\ IsFiniteSet(insights')
        /\ \A i \in insights' : i.run \in 1 .. runs
    BY <2>1, <2>3, SavedInsight DEF InsightTypeOK
  <2> QED BY <1>5, <2>2, <2>4 DEF Detect, InsightTypeOK
<1>6. ASSUME NEW i \in insights, UpdateInsightStatus(i) PROVE InsightTypeOK'
  <2>1. i \in Insight /\ i.run \in 1 .. runs BY DEF InsightTypeOK
  <2>2. PICK status \in {"active", "resolved", "snoozed"} :
          insights' = (insights \ {i}) \cup {[i EXCEPT !.status = status]}
    BY <1>6 DEF UpdateInsightStatus
  <2>3. [i EXCEPT !.status = status] \in Insight /\ [i EXCEPT !.status = status].run = i.run
    BY <2>1 DEF Insight
  <2>4. IsFiniteSet(insights')
    BY <2>2, FS_AddElement, FS_RemoveElement DEF InsightTypeOK
  <2> QED BY <1>6, <2>1, <2>2, <2>3, <2>4 DEF UpdateInsightStatus, InsightTypeOK
<1>7. CASE UNCHANGED insightVars
  BY <1>7 DEF insightVars, InsightTypeOK
<1> QED BY <1>1, <1>2, <1>3, <1>4, <1>5, <1>6, <1>7 DEF InsightStep

LEMMA OnePlaceStep ==
  InsightTypeOK /\ OnePlace /\ [InsightStep]_insightVars => OnePlace'
<1> SUFFICES ASSUME InsightTypeOK, OnePlace, [InsightStep]_insightVars PROVE OnePlace'
  OBVIOUS
<1> USE InsightAssumption
<1>0. /\ runs \in Nat
      /\ \A m \in detections : m.run \in 1 .. runs
      /\ \A i \in insights : i.run \in 1 .. runs
      /\ \A a \in dispatches : a.run \in 1 .. runs
  BY DEF InsightTypeOK
<1>1. ASSUME Change PROVE OnePlace'
  BY <1>1 DEF Change, OnePlace, Earned
<1>2. ASSUME GenerateAll PROVE OnePlace'
  <2>1. /\ runs' = runs + 1 /\ dispatches' = dispatches \cup {[run |-> runs + 1]}
        /\ detections' = detections /\ insights' = insights /\ died' = died
        /\ \A run \in 1 .. runs : checked'[run] = checked[run]
    BY <1>2, CheckedAppended DEF GenerateAll, NextRun
  <2>2. \A m \in detections \cup insights : Earned(m) => Earned(m)'
    BY <1>0, <2>1 DEF Earned
  <2> QED BY <1>0, <2>1, <2>2 DEF OnePlace
<1>3. ASSUME GenerateNamed PROVE OnePlace'
  <2>1. /\ runs' = runs + 1 /\ dispatches' = dispatches
        /\ insights' = insights /\ died' = died
        /\ \A run \in 1 .. runs : checked'[run] = checked[run]
    BY <1>3, CheckedAppended DEF GenerateNamed, NextRun
  <2>2. PICK d \in Detector :
          detections' = detections \cup
            {[run |-> runs + 1, detector |-> d, named |-> TRUE, tries |-> 0]}
    BY <1>3 DEF GenerateNamed
  <2> DEFINE new == [run |-> runs + 1, detector |-> d, named |-> TRUE, tries |-> 0]
  <2>3. new.run = runs + 1 /\ new.named OBVIOUS
  <2>4. detections' = detections \cup {new} BY <2>2
  <2> HIDE DEF new
  <2>5. \A m \in detections \cup insights : Earned(m) => Earned(m)'
    BY <1>0, <2>1 DEF Earned
  <2>6. \A n : n.named => Earned(n)' BY DEF Earned
  <2> QED BY <1>0, <2>1, <2>3, <2>4, <2>5, <2>6 DEF OnePlace
<1>4. ASSUME NEW m \in dispatches, RunAll(m) PROVE OnePlace'
  <2>1. m.run \in 1 .. runs /\ m = [run |-> m.run] BY DEF InsightTypeOK
  <2>2. PICK k \in 0 .. 3 :
          detections' = detections \cup
            Detections(m.run, DetectorsFor(Ready(data)) \cap UpTo(k))
    BY <1>4 DEF RunAll
  <2> DEFINE new == Detections(m.run, DetectorsFor(Ready(data)) \cap UpTo(k))
  <2>3. DetectorsFor(Ready(data)) \cap UpTo(k) \in SUBSET Detector BY DEF DetectorsFor
  <2>4. /\ new \subseteq Detection
        /\ \A n \in new : /\ n.run = m.run /\ ~n.named /\ n.tries = 0
                          /\ n.detector \in DetectorsFor(Ready(data))
    BY <2>1, <2>3, DetectionsType
  <2>5. \A n, o \in new : n.detector = o.detector => n = o
    <3> SUFFICES ASSUME NEW n \in new, NEW o \in new, n.detector = o.detector
                 PROVE  n = o
      OBVIOUS
    <3> HIDE DEF new
    <3>1. n \in Detection /\ o \in Detection BY <2>4
    <3>2. n.run = o.run /\ n.tries = o.tries BY <2>4
    <3>3. n.named = FALSE /\ o.named = FALSE BY <2>4, <3>1 DEF Detection
    <3> QED BY <3>1, <3>2, <3>3 DEF Detection
  <2>6. /\ checked'[m.run] = Ready(data)
        /\ \A run \in 1 .. runs : run # m.run => checked'[run] = checked[run]
    BY <1>4, <2>1, CheckedReplaced DEF RunAll
  <2>7. detections' = detections \cup new /\ runs' = runs /\ insights' = insights
    BY <1>4, <2>2 DEF RunAll
  <2> HIDE DEF new
  <2>8. \A n \in new : Earned(n)' BY <2>4, <2>6 DEF Earned
  <2>9. \A n \in detections \cup insights : n.run # m.run /\ Earned(n) => Earned(n)'
    BY <1>0, <2>6 DEF Earned
  <2>10. \/ dispatches' = dispatches \ {m} /\ died' = died
         \/ dispatches' = dispatches /\ died' = died \cup {m.run}
    BY <1>4 DEF RunAll, Die
  <2>11. \A a \in dispatches' : a.run \notin died' => a.run # m.run
    BY <2>1, <2>10 DEF InsightTypeOK
  <2> QED BY <1>0, <2>1, <2>4, <2>5, <2>7, <2>8, <2>9, <2>10, <2>11 DEF OnePlace
<1>5. ASSUME NEW m \in detections, Detect(m) PROVE OnePlace'
  <2>1. m \in Detection /\ m.run \in 1 .. runs BY DEF InsightTypeOK
  <2>2. runs' = runs /\ dispatches' = dispatches /\ checked' = checked
    BY <1>5 DEF Detect
  <2>3. \A n : Earned(n)' <=> Earned(n) BY <2>2 DEF Earned
  <2>4. CASE insights' \in Saved(m) /\ detections' = detections \ {m} /\ died' = died
    <3>1. CASE insights' = insights BY <2>2, <2>3, <2>4, <3>1 DEF OnePlace
    <3>2. ASSUME NEW i \in Insight, insights' = insights \cup {i},
                 i.run = m.run, i.detector = m.detector, i.named = m.named
          PROVE  OnePlace'
      <4>1. Earned(m) => Earned(i) BY <3>2 DEF Earned
      <4> QED BY <2>2, <2>3, <2>4, <3>2, <4>1 DEF OnePlace
    <3> QED BY <2>4, <3>1, <3>2, SavedInsight
  <2>5. CASE /\ detections' = (detections \ {m}) \cup
                  (IF m.tries < MaxRetries THEN {[m EXCEPT !.tries = @ + 1]} ELSE {})
             /\ insights' = insights /\ died' = died
    <3> DEFINE again == [m EXCEPT !.tries = @ + 1]
    <3>1. again.run = m.run /\ again.detector = m.detector /\ again.named = m.named
      BY <2>1 DEF Detection
    <3>2. detections' \subseteq (detections \ {m}) \cup {again} BY <2>5
    <3> HIDE DEF again
    <3>3. Earned(m) => Earned(again) BY <3>1 DEF Earned
    <3> QED BY <2>2, <2>3, <2>5, <3>1, <3>2, <3>3 DEF OnePlace
  <2>6. CASE insights' \in Saved(m) /\ detections' = detections /\ died' = died \cup {m.run}
    <3>1. CASE insights' = insights BY <2>2, <2>3, <2>6, <3>1 DEF OnePlace
    <3>2. ASSUME NEW i \in Insight, insights' = insights \cup {i}, i.run = m.run
          PROVE  OnePlace'
      BY <2>2, <2>3, <2>6, <3>2 DEF OnePlace
    <3> QED BY <2>6, <3>1, <3>2, SavedInsight
  <2> QED BY <1>5, <2>4, <2>5, <2>6 DEF Detect, Die
<1>6. ASSUME NEW i \in insights, UpdateInsightStatus(i) PROVE OnePlace'
  <2>1. i \in Insight BY DEF InsightTypeOK
  <2>2. PICK status \in {"active", "resolved", "snoozed"} :
          insights' = (insights \ {i}) \cup {[i EXCEPT !.status = status]}
    BY <1>6 DEF UpdateInsightStatus
  <2> DEFINE new == [i EXCEPT !.status = status]
  <2>3. new.run = i.run /\ new.detector = i.detector /\ new.named = i.named
    BY <2>1 DEF Insight
  <2>4. insights' = (insights \ {i}) \cup {new} BY <2>2
  <2> HIDE DEF new
  <2>5. /\ runs' = runs /\ dispatches' = dispatches /\ detections' = detections
        /\ died' = died /\ checked' = checked
    BY <1>6 DEF UpdateInsightStatus
  <2>6. \A n : Earned(n)' <=> Earned(n) BY <2>5 DEF Earned
  <2>7. Earned(i) => Earned(new) BY <2>3 DEF Earned
  <2> QED BY <2>3, <2>4, <2>5, <2>6, <2>7 DEF OnePlace
<1>7. CASE UNCHANGED insightVars
  BY <1>7 DEF insightVars, OnePlace, Earned
<1> QED BY <1>1, <1>2, <1>3, <1>4, <1>5, <1>6, <1>7 DEF InsightStep

(* InsightsHold: an insight nobody asked for by name belongs to a run that  *)
(* found what its detector needs, and a run gives each detector at most     *)
(* one, however often it is retried, unless a worker died; for any          *)
(* thresholds and any number of runs, retries and deaths.                   *)
THEOREM InsightsHold ==
  InsightInit /\ [][InsightStep]_insightVars => []InsightsEarned
<1>1. ASSUME InsightTypeOK, OnePlace PROVE InsightsEarned
  <2> SUFFICES ASSUME NEW i \in insights, i.run \notin died
               PROVE  /\ \/ i.named
                         \/ i.detector = "feature_trend" /\ "trend" \in checked[i.run]
                         \/ i.detector # "feature_trend" /\ "pattern" \in checked[i.run]
                         \/ i.detector = "complaint_spike" /\ "deploy" \in checked[i.run]
                      /\ \A j \in insights \ {i} :
                           j.run = i.run => j.detector # i.detector
    BY DEF InsightsEarned
  <2>1. i.run \in 1 .. runs BY <1>1 DEF InsightTypeOK
  <2>2. Earned(i) BY <1>1, <2>1 DEF OnePlace
  <2>3. \/ i.named
        \/ i.detector = "feature_trend" /\ "trend" \in checked[i.run]
        \/ i.detector # "feature_trend" /\ "pattern" \in checked[i.run]
        \/ i.detector = "complaint_spike" /\ "deploy" \in checked[i.run]
    BY <2>2 DEF Earned, DetectorsFor, Detector
  <2>4. \A j \in insights \ {i} : j.run = i.run => j.detector # i.detector
    BY <1>1, <2>1 DEF OnePlace
  <2> QED BY <2>3, <2>4
<1> QED BY <1>1, InsightInitially, InsightTypes, OnePlaceStep, PTL

-----------------------------------------------------------------------------
(* Billing                                                                  *)

LEMMA BillingInitially == BillingInit => BillingTypeOK /\ NewestTells
BY DEF BillingInit, BillingTypeOK, NewestTells, NoSubscription, Subscription,
       StripeStatus

LEMMA CreatedType ==
  ASSUME BillingTypeOK, NEW t \in Tenant
  PROVE  /\ Created(t) \in Subscription
         /\ subscriptions[t].customer = "payer" => Created(t) = subscriptions[t]
         /\ Created(t).customer = "payer" => subscriptions[t].customer = "payer"
BY BillingAssumption DEF Created, BillingTypeOK, Subscription, NoSubscription

LEMMA AppliedType ==
  ASSUME NEW row \in Subscription, NEW e, e.status \in StripeStatus,
         e.kind \in {"updated", "deleted", "failed"}
  PROVE  Apply(row, e) \in Subscription /\ Apply(row, e).customer = row.customer
BY BillingAssumption DEF Apply, Subscription, StripeStatus

(* What the newest webhook tells makes the row agree.                       *)
LEMMA AppliedAgrees ==
  ASSUME NEW row \in Subscription, NEW e,
         \/ e.kind = "updated" /\ e.status = stripe /\ stripe # "canceled"
         \/ e.kind = "deleted" /\ stripe = "canceled"
         \/ e.kind = "failed" /\ stripe = "incomplete"
  PROVE  Agrees(Apply(row, e))
BY DEF Apply, Agrees, Subscription

(* Stripe sends one or two webhooks when the status changes.                *)
LEMMA Notified ==
  ASSUME BillingTypeOK, NEW kinds \in Seq({"updated", "deleted", "failed"}),
         Len(kinds) > 0, stripe' \in StripeStatus, Notify(kinds)
  PROVE  /\ BillingTypeOK'
         /\ sent' = sent + Len(kinds) /\ sent' > latest'
         /\ \E e \in webhooks' : e.n = sent'
         /\ \A e \in webhooks' :
              e.n = sent' => e.kind = kinds[Len(kinds)] /\ e.status = stripe'
<1> DEFINE New == {[n |-> sent + k, kind |-> kinds[k], status |-> stripe'] : k \in DOMAIN kinds}
           Hook(m) == [n : 1 .. m, kind : {"updated", "deleted", "failed"}, status : StripeStatus]
<1>1. /\ sent' = sent + Len(kinds) /\ webhooks' = webhooks \cup New
      /\ subscriptions' = subscriptions /\ latest' = latest /\ disturbed' = disturbed
  BY DEF Notify
<1>2. sent \in Nat /\ latest \in 0 .. sent /\ webhooks \subseteq Hook(sent)
  BY DEF BillingTypeOK
<1>3. Len(kinds) \in Nat /\ DOMAIN kinds = 1 .. Len(kinds) OBVIOUS
<1>4. Len(kinds) \in DOMAIN kinds BY <1>3
<1>5. ASSUME NEW k \in DOMAIN kinds
      PROVE  [n |-> sent + k, kind |-> kinds[k], status |-> stripe'] \in Hook(sent + Len(kinds))
  <2>1. sent + k \in 1 .. (sent + Len(kinds)) BY <1>2, <1>3
  <2>2. kinds[k] \in {"updated", "deleted", "failed"} OBVIOUS
  <2> QED BY <2>1, <2>2
<1>6. Hook(sent) \subseteq Hook(sent + Len(kinds))
  <2>1. 1 .. sent \subseteq 1 .. (sent + Len(kinds)) BY <1>2, <1>3
  <2> QED BY <2>1
<1>7. webhooks' \subseteq Hook(sent') BY <1>1, <1>2, <1>5, <1>6
<1>8. \A e \in webhooks : e.n # sent' BY <1>1, <1>2, <1>3
<1>9. \A e \in New : \E k \in DOMAIN kinds :
        e.n = sent + k /\ e.kind = kinds[k] /\ e.status = stripe'
  OBVIOUS
<1>10. \A e \in New : e.n = sent' => e.kind = kinds[Len(kinds)] /\ e.status = stripe'
  <2> SUFFICES ASSUME NEW e \in New, e.n = sent'
               PROVE  e.kind = kinds[Len(kinds)] /\ e.status = stripe'
    OBVIOUS
  <2>1. PICK k \in DOMAIN kinds : e.n = sent + k /\ e.kind = kinds[k] /\ e.status = stripe'
    BY <1>9
  <2>2. k = Len(kinds) BY <1>1, <1>2, <1>3, <2>1
  <2> QED BY <2>1, <2>2
<1>11. \E e \in New : e.n = sent'
  <2>1. [n |-> sent + Len(kinds), kind |-> kinds[Len(kinds)], status |-> stripe'] \in New
    BY <1>4
  <2> QED BY <1>1, <2>1
<1> HIDE DEF New
<1>12. sent' \in Nat /\ latest' \in 0 .. sent' /\ sent' > latest' BY <1>1, <1>2, <1>3
<1> QED BY <1>1, <1>7, <1>8, <1>10, <1>11, <1>12 DEF BillingTypeOK

(* A change of the status at Stripe keeps the types, and is told.           *)
LEMMA StatusTold ==
  ASSUME BillingTypeOK, Subscribe \/ FailPayment \/ Pay \/ Cancel
  PROVE  BillingTypeOK' /\ NewestTells'
<1>1. \E kinds \in Seq({"updated", "deleted", "failed"}) :
        /\ Len(kinds) > 0 /\ Notify(kinds) /\ stripe' \in StripeStatus
        /\ \/ kinds[Len(kinds)] = "updated" /\ stripe' # "canceled"
           \/ kinds[Len(kinds)] = "deleted" /\ stripe' = "canceled"
           \/ kinds[Len(kinds)] = "failed" /\ stripe' = "incomplete"
  <2> DEFINE updated == <<"updated">>
             deleted == <<"deleted">>
             unpaid == <<"updated", "failed">>
             failed == <<"failed", "updated">>
  <2>1. /\ updated \in Seq({"updated", "deleted", "failed"})
        /\ Len(updated) > 0 /\ updated[Len(updated)] = "updated"
    OBVIOUS
  <2>2. /\ deleted \in Seq({"updated", "deleted", "failed"})
        /\ Len(deleted) > 0 /\ deleted[Len(deleted)] = "deleted"
    OBVIOUS
  <2>3. /\ unpaid \in Seq({"updated", "deleted", "failed"})
        /\ Len(unpaid) > 0 /\ unpaid[Len(unpaid)] = "failed"
    OBVIOUS
  <2>4. /\ failed \in Seq({"updated", "deleted", "failed"})
        /\ Len(failed) > 0 /\ failed[Len(failed)] = "updated"
    OBVIOUS
  <2>5. \/ stripe' \in {"active", "past_due"} /\ (Notify(updated) \/ Notify(failed))
        \/ stripe' = "incomplete" /\ Notify(unpaid)
        \/ stripe' = "canceled" /\ Notify(deleted)
    BY DEF Subscribe, FailPayment, Pay, Cancel
  <2> HIDE DEF updated, deleted, unpaid, failed
  <2>6. stripe' \in StripeStatus BY <2>5 DEF StripeStatus
  <2>7. CASE stripe' \in {"active", "past_due"} /\ Notify(updated) BY <2>1, <2>6, <2>7
  <2>8. CASE stripe' \in {"active", "past_due"} /\ Notify(failed) BY <2>4, <2>6, <2>8
  <2>9. CASE stripe' = "incomplete" /\ Notify(unpaid) BY <2>3, <2>6, <2>9
  <2>10. CASE stripe' = "canceled" /\ Notify(deleted) BY <2>2, <2>6, <2>10
  <2> QED BY <2>5, <2>7, <2>8, <2>9, <2>10
<1>2. PICK kinds \in Seq({"updated", "deleted", "failed"}) :
        /\ Len(kinds) > 0 /\ Notify(kinds) /\ stripe' \in StripeStatus
        /\ \/ kinds[Len(kinds)] = "updated" /\ stripe' # "canceled"
           \/ kinds[Len(kinds)] = "deleted" /\ stripe' = "canceled"
           \/ kinds[Len(kinds)] = "failed" /\ stripe' = "incomplete"
  BY <1>1
<1>3. /\ BillingTypeOK'
      /\ sent' > latest'
      /\ \E e \in webhooks' : e.n = sent'
      /\ \A e \in webhooks' :
           e.n = sent' => e.kind = kinds[Len(kinds)] /\ e.status = stripe'
  BY <1>2, Notified
<1>4. ~(latest' = sent') BY <1>3 DEF BillingTypeOK
<1> QED BY <1>2, <1>3, <1>4 DEF NewestTells

LEMMA BillingSteps ==
  BillingTypeOK /\ NewestTells /\ [BillingStep]_billingVars
  => BillingTypeOK' /\ NewestTells'
<1> SUFFICES ASSUME BillingTypeOK, NewestTells, [BillingStep]_billingVars
             PROVE  BillingTypeOK' /\ NewestTells'
  OBVIOUS
<1>1. ASSUME NEW t \in Tenant, GetSubscription(t)
      PROVE  BillingTypeOK' /\ NewestTells'
  <2>1. Created(t) \in Subscription BY CreatedType
  <2>2. BillingTypeOK' BY <1>1, <2>1 DEF GetSubscription, BillingTypeOK
  <2>3. Created(t).customer = "none"
    BY <1>1 DEF GetSubscription, Created
  <2>4. \A u \in Payers' : u \in Payers /\ subscriptions'[u] = subscriptions[u]
    BY <1>1, <2>3 DEF GetSubscription, Payers, BillingTypeOK
  <2>5. UNCHANGED <<stripe, sent, webhooks, latest, disturbed>>
    BY <1>1 DEF GetSubscription
  <2> QED BY <2>2, <2>4, <2>5 DEF NewestTells, Agrees
<1>2. ASSUME NEW t \in Tenant, UpsertSubscription(t)
      PROVE  BillingTypeOK' /\ NewestTells'
  <2>1. PICK plan \in Plan, named \in {Created(t).customer, "payer", "other"},
             subscribed \in BOOLEAN :
          /\ subscriptions' = [subscriptions EXCEPT ![t] =
               [plan |-> plan,
                status |-> IF subscribed THEN "active" ELSE Created(t).status,
                customer |-> named]]
          /\ disturbed' = IF subscribed \/ named # Created(t).customer
                             \/ (stripe = "canceled" /\ plan # "free")
                          THEN disturbed \cup {t} ELSE disturbed
    BY <1>2 DEF UpsertSubscription
  <2> DEFINE status == IF subscribed THEN "active" ELSE Created(t).status
             row == [plan |-> plan, status |-> status, customer |-> named]
  <2>2. Created(t) \in Subscription BY CreatedType
  <2>3. row \in Subscription BY <2>2 DEF Subscription
  <2>4. UNCHANGED <<stripe, sent, webhooks, latest>> BY <1>2 DEF UpsertSubscription
  <2>5. row.plan = plan /\ row.customer = named /\ row.status = status OBVIOUS
  <2>6. subscriptions' = [subscriptions EXCEPT ![t] = row] BY <2>1
  <2>7. disturbed \subseteq disturbed' /\ disturbed' \subseteq disturbed \cup {t} BY <2>1
  <2>8. ~subscribed => status = Created(t).status OBVIOUS
  <2> HIDE DEF row, status
  <2>9. BillingTypeOK' BY <2>3, <2>4, <2>6, <2>7 DEF BillingTypeOK
  <2>10. \A u \in Tenant : u # t => subscriptions'[u] = subscriptions[u]
    BY <2>6 DEF BillingTypeOK
  <2>11. subscriptions'[t] = row BY <2>6 DEF BillingTypeOK
  <2>12. ASSUME t \in Payers', t \notin disturbed'
         PROVE  /\ t \in Payers /\ t \notin disturbed
                /\ Agrees(subscriptions[t]) => Agrees(row)
    <3>1. named = "payer" BY <2>5, <2>11, <2>12 DEF Payers
    <3>2. ~subscribed /\ named = Created(t).customer /\ (stripe = "canceled" => plan = "free")
      BY <2>1, <2>12
    <3>3. subscriptions[t].customer = "payer" /\ Created(t) = subscriptions[t]
      BY <3>1, <3>2, CreatedType
    <3> QED BY <2>5, <2>7, <2>8, <2>12, <3>2, <3>3 DEF Payers, Agrees
  <2>13. \A u \in Payers' : u # t => u \in Payers BY <2>10 DEF Payers
  <2>14. \A u : Agrees(u)' <=> Agrees(u) BY <2>4 DEF Agrees
  <2>15. ASSUME sent' > 0, latest' = sent', NEW u \in Payers'
         PROVE  u \in disturbed' \/ Agrees(subscriptions'[u])
    <3>1. \A v \in Payers : v \in disturbed \/ Agrees(subscriptions[v])
      BY <2>4, <2>15 DEF NewestTells
    <3>2. CASE u = t BY <2>11, <2>12, <2>15, <3>1, <3>2
    <3>3. CASE u # t
      <4>1. u \in Tenant BY <2>15 DEF Payers
      <4> QED BY <2>7, <2>10, <2>13, <2>15, <3>1, <3>3, <4>1
    <3> QED BY <3>2, <3>3
  <2>16. NewestTells'
    BY <2>4, <2>14, <2>15 DEF NewestTells
  <2> QED BY <2>9, <2>16
<1>3. CASE Subscribe \/ FailPayment \/ Pay \/ Cancel
  BY <1>3, StatusTold
<1>4. ASSUME NEW e \in webhooks, StripeWebhook(e)
      PROVE  BillingTypeOK' /\ NewestTells'
  <2>1. /\ e.n \in 1 .. sent /\ e.status \in StripeStatus
        /\ e.kind \in {"updated", "deleted", "failed"}
        /\ sent \in Nat /\ latest \in 0 .. sent
    BY DEF BillingTypeOK
  <2>2. /\ webhooks' \in {webhooks, webhooks \ {e}}
        /\ UNCHANGED <<stripe, sent>>
        /\ \A u \in Tenant \ Payers : subscriptions'[u] = subscriptions[u]
        /\ \A u \in Payers : subscriptions'[u] = Apply(subscriptions[u], e)
    BY <1>4 DEF StripeWebhook, Payers
  <2>3. \A u \in Payers : subscriptions[u] \in Subscription /\ u \in Tenant
    BY DEF BillingTypeOK, Payers
  <2>4. \A u \in Payers : /\ Apply(subscriptions[u], e) \in Subscription
                          /\ Apply(subscriptions[u], e).customer = "payer"
    BY <2>1, <2>3, AppliedType DEF Payers
  <2>5. subscriptions' \in [Tenant -> Subscription]
    <3>1. ASSUME NEW u \in Tenant
          PROVE  (IF u \in Payers THEN Apply(subscriptions[u], e) ELSE subscriptions[u])
                   \in Subscription
      BY <2>4 DEF BillingTypeOK
    <3> QED BY <1>4, <3>1 DEF StripeWebhook
  <2>6. /\ disturbed' \subseteq Tenant
        /\ latest' = IF e.n >= latest THEN e.n ELSE latest
        /\ e.n < latest => Payers \subseteq disturbed'
    BY <1>4, <2>1 DEF StripeWebhook, Payers, BillingTypeOK
  <2>7. BillingTypeOK' BY <2>1, <2>2, <2>5, <2>6 DEF BillingTypeOK
  <2>8. Payers' = Payers BY <2>2, <2>4 DEF Payers
  <2>9. ASSUME sent' > latest' PROVE \E f \in webhooks' : f.n = sent'
    <3>1. sent > latest /\ e.n # sent BY <2>1, <2>2, <2>6, <2>9
    <3> QED BY <2>2, <3>1 DEF NewestTells
  <2>10. \A f \in webhooks' : f.n = sent' =>
           \/ f.kind = "updated" /\ f.status = stripe' /\ stripe' # "canceled"
           \/ f.kind = "deleted" /\ stripe' = "canceled"
           \/ f.kind = "failed" /\ stripe' = "incomplete"
    BY <2>2 DEF NewestTells
  <2>11. \A u : Agrees(u)' <=> Agrees(u) BY <2>2 DEF Agrees
  <2>12. ASSUME sent' > 0, latest' = sent', NEW u \in Payers'
         PROVE  u \in disturbed' \/ Agrees(subscriptions'[u])
    <3>1. CASE e.n < latest BY <2>6, <2>8, <3>1
    <3>2. CASE e.n >= latest
      <4>1. e.n = sent BY <2>1, <2>2, <2>6, <2>12, <3>2
      <4>2. Agrees(Apply(subscriptions[u], e))
        BY <2>3, <2>8, <4>1, AppliedAgrees DEF NewestTells
      <4> QED BY <2>2, <2>8, <4>2
    <3> QED BY <2>1, <3>1, <3>2
  <2> QED BY <2>7, <2>9, <2>10, <2>11, <2>12 DEF NewestTells
<1>5. ASSUME NEW e \in webhooks, GiveUp(e)
      PROVE  BillingTypeOK' /\ NewestTells'
  <2>1. e.n \in 1 .. sent /\ sent \in Nat /\ latest \in 0 .. sent BY DEF BillingTypeOK
  <2>2. /\ webhooks' = webhooks \ {e}
        /\ UNCHANGED <<subscriptions, stripe, sent>>
        /\ \/ e.n >= latest /\ latest' = e.n /\ disturbed' = Tenant
           \/ e.n < latest /\ latest' = latest /\ disturbed' = disturbed
    BY <1>5, <2>1 DEF GiveUp
  <2>3. BillingTypeOK' BY <2>1, <2>2 DEF BillingTypeOK
  <2>4. Payers' = Payers /\ Payers \subseteq Tenant BY <2>2 DEF Payers
  <2>5. \A u : Agrees(u)' <=> Agrees(u) BY <2>2 DEF Agrees
  <2>6. ASSUME sent' > latest' PROVE \E f \in webhooks' : f.n = sent'
    <3>1. sent > latest /\ e.n # sent BY <2>1, <2>2, <2>6
    <3> QED BY <2>2, <3>1 DEF NewestTells
  <2> QED BY <2>1, <2>2, <2>3, <2>4, <2>5, <2>6 DEF NewestTells
<1>6. CASE UNCHANGED billingVars
  BY <1>6 DEF billingVars, BillingTypeOK, NewestTells, Payers, Agrees
<1> QED BY <1>1, <1>2, <1>3, <1>4, <1>5, <1>6 DEF BillingStep

(* BillingHolds: when Stripe has nothing left to deliver, a tenant that     *)
(* names the customer has the status of the subscription, and a cancelled   *)
(* one no paid plan, unless one of the explained cases; for any number of   *)
(* tenants, plans and webhooks, in any order of their arrival.              *)
THEOREM BillingHolds ==
  BillingInit /\ [][BillingStep]_billingVars => []BillingExplained
<1>1. BillingTypeOK /\ NewestTells => BillingExplained
  BY DEF BillingTypeOK, NewestTells, BillingExplained
<1> QED BY <1>1, BillingInitially, BillingSteps, PTL

-----------------------------------------------------------------------------
(* Timeline: sequences and numbers                                          *)

LEMMA Appended ==
  ASSUME NEW S, NEW s \in Seq(S), NEW e \in S
  PROVE  /\ Append(s, e) \in Seq(S)
         /\ Len(Append(s, e)) = Len(s) + 1
         /\ DOMAIN Append(s, e) = DOMAIN s \cup {Len(s) + 1}
         /\ Len(s) + 1 \notin DOMAIN s
         /\ Append(s, e)[Len(s) + 1] = e
         /\ \A i \in DOMAIN s : Append(s, e)[i] = s[i]
OBVIOUS

LEMMA Replaced ==
  ASSUME NEW S, NEW s \in Seq(S), NEW i \in DOMAIN s, NEW e \in S
  PROVE  /\ [s EXCEPT ![i] = e] \in Seq(S)
         /\ Len([s EXCEPT ![i] = e]) = Len(s)
         /\ DOMAIN [s EXCEPT ![i] = e] = DOMAIN s
         /\ [s EXCEPT ![i] = e][i] = e
         /\ \A j \in DOMAIN s : j # i => [s EXCEPT ![i] = e][j] = s[j]
OBVIOUS

(* A nonempty set of numbers up to N has a greatest one.                    *)
LEMMA GreatestIn ==
  ASSUME NEW N \in Nat, NEW S \in SUBSET (1 .. N), S # {}
  PROVE  Max(S) \in S
<1> DEFINE Below == {N - x : x \in S}
<1>1. Below \subseteq Nat /\ Below # {} OBVIOUS
<1>2. PICK y \in Below : \A z \in Below : ~ (<<z, y>> \in OpToRel(<, Nat))
  BY <1>1, NatLessThanWellFounded, WFMin
<1>3. PICK m \in S : y = N - m OBVIOUS
<1>4. ASSUME NEW x \in S PROVE m >= x
  <2>1. N - x \in Below /\ N - x \in Nat /\ y \in Nat /\ x \in Nat /\ m \in Nat
    BY <1>1, <1>3
  <2>2. ~ (N - x < y) BY <1>2, <2>1 DEF OpToRel
  <2> QED BY <1>3, <2>1, <2>2
<1>5. \E x \in S : \A z \in S : x >= z BY <1>4
<1> QED BY <1>5 DEF Max

-----------------------------------------------------------------------------
(* Timeline: what happens, and the ids                                      *)

LEMMA Following ==
  ASSUME NEW kind \in {"pr", "push", "run", "issue", "spike"}, NEW last,
         NEW action \in MayFollow(kind, last)
  PROVE  /\ action \in Action
         /\ kind = "spike" => action = "seen"
         /\ kind = "issue" /\ action = "created" => last = "none"
BY DEF MayFollow, Action

(* Something has happened to a thing of which the last action is known.     *)
LEMMA NothingBefore ==
  ASSUME TimelineTypeOK, NEW kind, NEW thing, LastAction(kind, thing) = "none"
  PROVE  \A n \in DOMAIN events : ~(events[n].kind = kind /\ events[n].thing = thing)
<1> DEFINE of == {n \in DOMAIN events : events[n].kind = kind /\ events[n].thing = thing}
<1> SUFFICES ASSUME of # {} PROVE FALSE OBVIOUS
<1>1. of \in SUBSET (1 .. Len(events)) /\ Len(events) \in Nat BY DEF TimelineTypeOK
<1>2. Max(of) \in of BY <1>1, GreatestIn
<1>3. events[Max(of)] \in Happened BY <1>2 DEF TimelineTypeOK
<1>4. events[Max(of)].action = "none" BY DEF LastAction
<1> HIDE DEF of
<1> QED BY <1>3, <1>4 DEF Happened, Action

LEMMA FittingIds ==
  ASSUME TimelineTypeOK, NEW n \in DOMAIN events
  PROVE  /\ events[n].kind \in {"pr", "push", "run"} =>
              GithubId(n) \in Id /\ Fits(events[n], n, GithubId(n))
         /\ events[n].kind = "issue" =>
              JiraId(n) \in Id /\ Fits(events[n], n, JiraId(n))
         /\ events[n].kind = "spike" =>
              /\ <<"log_anomaly", events[n].thing>> \in Id
              /\ Fits(events[n], n, <<"log_anomaly", events[n].thing>>)
<1>1. events[n] \in Happened /\ n \in Nat /\ delivered[n] \in Nat
  BY DEF TimelineTypeOK
<1>2. events[n].thing \in Thing /\ events[n].action \in Action BY <1>1 DEF Happened
<1>3. CASE events[n].kind = "pr"
  <2> DEFINE action == IF events[n].action = "merged" THEN "closed" ELSE events[n].action
  <2>1. action \in Action BY <1>2 DEF Action
  <2>2. GithubId(n) = <<"gh:pr", events[n].thing, action>> BY <1>3 DEF GithubId
  <2>3. Fits(events[n], n, GithubId(n)) BY <1>3, <2>2 DEF Fits
  <2> HIDE DEF action
  <2>4. GithubId(n) \in Id BY <1>2, <2>1, <2>2 DEF Id, Tag
  <2> QED BY <1>3, <2>3, <2>4
<1>4. CASE events[n].kind = "push"
  <2>1. GithubId(n) = <<"gh:push", n>> BY <1>4 DEF GithubId
  <2>2. GithubId(n) \in Id BY <1>1, <2>1 DEF Id, Tag
  <2> QED BY <1>4, <2>1, <2>2 DEF Fits
<1>5. CASE events[n].kind = "run"
  <2>1. GithubId(n) = <<"gh:workflow_run", events[n].thing, events[n].action>>
    BY <1>5 DEF GithubId
  <2>2. GithubId(n) \in Id BY <1>2, <2>1 DEF Id, Tag
  <2> QED BY <1>5, <2>1, <2>2 DEF Fits
<1>6. CASE events[n].kind = "issue" /\ events[n].action = "created"
  <2>1. JiraId(n) = <<"jira", events[n].thing, "created">> BY <1>6 DEF JiraId
  <2>2. "created" \in Action BY DEF Action
  <2>3. JiraId(n) \in Id BY <1>2, <2>1, <2>2 DEF Id, Tag
  <2> QED BY <1>6, <2>1, <2>3 DEF Fits
<1>7. CASE events[n].kind = "issue" /\ events[n].action # "created"
  <2>1. JiraId(n) = <<"jira", events[n].thing, n, delivered[n]>> BY <1>7 DEF JiraId
  <2>2. JiraId(n) \in Id BY <1>1, <1>2, <2>1 DEF Id, Tag
  <2> QED BY <1>1, <1>7, <2>1, <2>2 DEF Fits
<1>8. CASE events[n].kind = "spike"
  <2>1. <<"log_anomaly", events[n].thing>> \in Id BY <1>2 DEF Id, Tag
  <2> QED BY <1>8, <2>1 DEF Fits
<1> QED BY <1>3, <1>4, <1>5, <1>6, <1>7, <1>8

(* Two events with the same id are one, or the same was done to the same.   *)
LEMMA SameId ==
  ASSUME NEW e, NEW f, NEW n, NEW m, NEW id, Fits(e, n, id), Fits(f, m, id),
         e.kind # "manual",
         e.kind = "spike" => e.action = "seen", f.kind = "spike" => f.action = "seen"
  PROVE  \/ n = m
         \/ SameAction(e, f)
         \/ /\ e.kind = "issue" /\ f.kind = "issue" /\ e.thing = f.thing
            /\ e.action = "created" /\ f.action = "created"
<1>1. CASE e.kind = "pr"
  <2>1. id = <<"gh:pr", e.thing, IF e.action = "merged" THEN "closed" ELSE e.action>>
    BY <1>1 DEF Fits
  <2>2. f.kind = "pr" BY <2>1 DEF Fits
  <2>3. id = <<"gh:pr", f.thing, IF f.action = "merged" THEN "closed" ELSE f.action>>
    BY <2>2 DEF Fits
  <2>4. /\ e.thing = f.thing
        /\ (IF e.action = "merged" THEN "closed" ELSE e.action)
             = (IF f.action = "merged" THEN "closed" ELSE f.action)
    BY <2>1, <2>3
  <2> QED BY <1>1, <2>2, <2>4 DEF SameAction
<1>2. CASE e.kind = "push"
  <2>1. id = <<"gh:push", n>> BY <1>2 DEF Fits
  <2>2. f.kind = "push" BY <2>1 DEF Fits
  <2> QED BY <2>1, <2>2 DEF Fits
<1>3. CASE e.kind = "run"
  <2>1. id = <<"gh:workflow_run", e.thing, e.action>> BY <1>3 DEF Fits
  <2>2. f.kind = "run" BY <2>1 DEF Fits
  <2> QED BY <1>3, <2>1, <2>2 DEF Fits, SameAction
<1>4. CASE e.kind = "issue" /\ e.action = "created"
  <2>1. id = <<"jira", e.thing, "created">> BY <1>4 DEF Fits
  <2>2. f.kind = "issue" /\ f.action = "created" BY <2>1 DEF Fits
  <2>3. id = <<"jira", f.thing, "created">> BY <2>2 DEF Fits
  <2> QED BY <1>4, <2>1, <2>2, <2>3
<1>5. CASE e.kind = "issue" /\ e.action # "created"
  <2>1. PICK copy \in Nat : id = <<"jira", e.thing, n, copy>> BY <1>5 DEF Fits
  <2>2. f.kind = "issue" /\ f.action # "created" BY <2>1 DEF Fits
  <2>3. PICK other \in Nat : id = <<"jira", f.thing, m, other>> BY <2>2 DEF Fits
  <2> QED BY <2>1, <2>3
<1>6. CASE e.kind = "spike"
  <2>1. id = <<"log_anomaly", e.thing>> BY <1>6 DEF Fits
  <2>2. f.kind = "spike" BY <2>1 DEF Fits
  <2>3. id = <<"log_anomaly", f.thing>> BY <2>2 DEF Fits
  <2> QED BY <1>6, <2>1, <2>2, <2>3 DEF SameAction
<1> QED BY <1>1, <1>2, <1>3, <1>4, <1>5, <1>6 DEF Fits

LEMMA OneId ==
  ASSUME NEW e, NEW n, NEW id, NEW other, Fits(e, n, id), Fits(e, n, other),
         Recognised(e)
  PROVE  id = other
BY DEF Fits, Recognised

-----------------------------------------------------------------------------
(* Timeline: the steps                                                      *)

(* What the three look-ups have in common.  A spike's is its only one.      *)
LookedUp(r, n, id) ==
  /\ requests[r].pc = "idle" /\ n \in pending
  /\ id \in Id /\ Fits(events[n], n, id)
  /\ \/ pending' = pending \ {n}
     \/ pending' = pending /\ events[n].kind # "spike"
  /\ delivered' \in Seq(Nat) /\ Len(delivered') = Len(delivered)
  /\ \/ /\ requests' = requests
        /\ \/ Ignored(events[n])
           \/ \E k \in DOMAIN timeline :
                /\ timeline[k].id = id
                /\ events[n].kind = "spike" => timeline[k].at + Window >= clock
     \/ /\ requests' = [requests EXCEPT ![r] = ToInsert(n, id)]
        /\ events[n].kind # "spike" => \A k \in DOMAIN timeline : timeline[k].id # id
  /\ events[n].kind # "manual"
  /\ UNCHANGED <<clock, events, timeline, lost>>

LEMMA Lookups ==
  ASSUME TimelineTypeOK, NEW r \in Request, NEW n \in pending,
         GithubWebhook(r, n) \/ JiraWebhook(r, n) \/ WriteSpike(r, n)
  PROVE  \E id : LookedUp(r, n, id)
<1>1. n \in DOMAIN events /\ delivered \in Seq(Nat) /\ Len(delivered) = Len(events)
  BY DEF TimelineTypeOK
<1>2. ASSUME NEW id \in Id, Fits(events[n], n, id), LookUp(r, n, id),
             events[n].kind \in {"pr", "push", "run", "issue"}
      PROVE  LookedUp(r, n, id)
  <2>1. /\ delivered' \in Seq(Nat) /\ Len(delivered') = Len(delivered)
        /\ pending' = pending \/ pending' = pending \ {n}
    <3>1. n \in DOMAIN delivered /\ delivered[n] + 1 \in Nat BY <1>1
    <3>2. /\ [delivered EXCEPT ![n] = delivered[n] + 1] \in Seq(Nat)
          /\ Len([delivered EXCEPT ![n] = delivered[n] + 1]) = Len(delivered)
      BY <1>1, <3>1, Replaced
    <3> QED BY <1>1, <1>2, <3>2 DEF LookUp, Deliver
  <2> QED BY <1>2, <2>1 DEF LookUp, LookedUp
<1>3. CASE GithubWebhook(r, n)
  <2>1. GithubId(n) \in Id /\ Fits(events[n], n, GithubId(n))
    BY <1>1, <1>3, FittingIds DEF GithubWebhook
  <2> QED BY <1>2, <1>3, <2>1 DEF GithubWebhook
<1>4. CASE JiraWebhook(r, n)
  <2>1. JiraId(n) \in Id /\ Fits(events[n], n, JiraId(n))
    BY <1>1, <1>4, FittingIds DEF JiraWebhook
  <2> QED BY <1>2, <1>4, <2>1 DEF JiraWebhook
<1>5. CASE WriteSpike(r, n)
  <2> DEFINE id == <<"log_anomaly", events[n].thing>>
  <2>1. /\ events[n].kind = "spike" /\ requests[r].pc = "idle"
        /\ pending' = pending \ {n}
        /\ requests' =
             IF \E k \in DOMAIN timeline :
                  timeline[k].id = id /\ timeline[k].at + Window >= clock
             THEN requests ELSE [requests EXCEPT ![r] = ToInsert(n, id)]
        /\ UNCHANGED <<clock, events, delivered, timeline, lost>>
    BY <1>5 DEF WriteSpike
  <2>2. id \in Id /\ Fits(events[n], n, id) BY <1>1, <2>1, FittingIds
  <2> HIDE DEF id
  <2>3. LookedUp(r, n, id) BY <1>1, <2>1, <2>2 DEF LookedUp
  <2> QED BY <2>3
<1> QED BY <1>3, <1>4, <1>5

(* Something happens outside, or a member enters it by hand.                *)
Recorded(e) ==
  /\ e \in Happened /\ e.at = clock
  /\ e.kind = "spike" => e.action = "seen"
  /\ events' = Append(events, e)
  /\ delivered' = Append(delivered, 1)
  /\ UNCHANGED <<clock, requests, lost>>

LEMMA Happens ==
  ASSUME TimelineTypeOK, Happen
  PROVE  \E e : /\ Recorded(e) /\ e.kind # "manual"
                /\ timeline' = timeline /\ pending' = pending \cup {Len(events) + 1}
                /\ e.kind = "issue" /\ e.action = "created" =>
                     \A n \in DOMAIN events :
                       ~(events[n].kind = "issue" /\ events[n].thing = e.thing)
<1>1. PICK kind \in {"pr", "push", "run", "issue", "spike"}, thing \in Thing :
        \E action \in MayFollow(kind, LastAction(kind, thing)) :
          /\ events' = Append(events,
               [kind |-> kind, thing |-> thing, action |-> action, at |-> clock])
          /\ delivered' = Append(delivered, 1)
          /\ pending' = pending \cup {Len(events) + 1}
          /\ UNCHANGED <<clock, requests, timeline, lost>>
  BY DEF Happen
<1>2. PICK action \in MayFollow(kind, LastAction(kind, thing)) :
        /\ events' = Append(events,
             [kind |-> kind, thing |-> thing, action |-> action, at |-> clock])
        /\ delivered' = Append(delivered, 1)
        /\ pending' = pending \cup {Len(events) + 1}
        /\ UNCHANGED <<clock, requests, timeline, lost>>
  BY <1>1
<1>3. /\ action \in Action
      /\ kind = "spike" => action = "seen"
      /\ kind = "issue" /\ action = "created" => LastAction(kind, thing) = "none"
  BY Following
<1> DEFINE e == [kind |-> kind, thing |-> thing, action |-> action, at |-> clock]
<1>4. /\ e \in Happened /\ e.kind = kind /\ e.thing = thing /\ e.action = action
      /\ e.at = clock
  BY <1>3 DEF Happened, TimelineTypeOK
<1>5. events' = Append(events, e) BY <1>2
<1> HIDE DEF e
<1>6. Recorded(e) BY <1>2, <1>3, <1>4, <1>5 DEF Recorded
<1>7. kind = "issue" /\ action = "created" =>
        \A n \in DOMAIN events : ~(events[n].kind = kind /\ events[n].thing = thing)
  BY <1>3, NothingBefore
<1> QED BY <1>2, <1>4, <1>6, <1>7

LEMMA Manually ==
  ASSUME TimelineTypeOK, CreateManualEvent
  PROVE  \E e, row :
           /\ Recorded(e) /\ e.kind = "manual" /\ pending' = pending
           /\ row \in TimelineRow /\ row.of = Len(events) + 1 /\ row.id = <<>>
           /\ timeline' = Append(timeline, row)
<1>1. PICK thing \in Thing :
        events' = Append(events,
          [kind |-> "manual", thing |-> thing, action |-> "seen", at |-> clock])
  BY DEF CreateManualEvent
<1> DEFINE e == [kind |-> "manual", thing |-> thing, action |-> "seen", at |-> clock]
           row == [id |-> <<>>, of |-> Len(events) + 1, seen |-> Len(timeline),
                   deleted |-> FALSE, at |-> 0]
<1>2. e \in Happened /\ e.kind = "manual" /\ e.at = clock
  BY DEF Happened, Action, TimelineTypeOK
<1>3. row \in TimelineRow /\ row.of = Len(events) + 1 /\ row.id = <<>>
  <2>1. Len(events) + 1 \in Nat /\ Len(timeline) \in Nat BY DEF TimelineTypeOK
  <2>2. <<>> \in Id BY DEF Id
  <2> QED BY <2>1, <2>2 DEF TimelineRow
<1>4. /\ events' = Append(events, e) /\ timeline' = Append(timeline, row)
      /\ delivered' = Append(delivered, 1)
      /\ UNCHANGED <<clock, pending, requests, lost>>
  BY <1>1 DEF CreateManualEvent
<1> HIDE DEF e, row
<1>5. Recorded(e) BY <1>2, <1>4 DEF Recorded
<1> QED BY <1>2, <1>3, <1>4, <1>5

(* What a request inserts, and what deleting a row leaves as it is.         *)
LEMMA Inserts ==
  ASSUME TimelineTypeOK, NEW r \in Request, InsertEvent(r)
  PROVE  \E row :
           /\ requests[r].pc = "insert"
           /\ row \in TimelineRow /\ row.of = requests[r].of /\ row.id = requests[r].id
           /\ row.seen = requests[r].seen
           /\ timeline' = Append(timeline, row)
           /\ requests' = [requests EXCEPT ![r] = IdleRequest]
           /\ UNCHANGED <<clock, events, delivered, pending, lost>>
<1>1. requests[r].pc = "insert" BY DEF InsertEvent
<1>2. requests[r] \in Inserting BY <1>1 DEF TimelineTypeOK, IdleRequest
<1> DEFINE row == [id |-> requests[r].id, of |-> requests[r].of, seen |-> requests[r].seen,
                   deleted |-> FALSE, at |-> requests[r].at]
<1>3. row \in TimelineRow BY <1>2 DEF Inserting, TimelineRow
<1>4. row.of = requests[r].of /\ row.id = requests[r].id /\ row.seen = requests[r].seen
  OBVIOUS
<1>5. timeline' = Append(timeline, row) BY DEF InsertEvent
<1> HIDE DEF row
<1> QED BY <1>1, <1>3, <1>4, <1>5 DEF InsertEvent

LEMMA Deletes ==
  ASSUME TimelineTypeOK, NEW k \in DOMAIN timeline, DeleteEvent(k)
  PROVE  /\ timeline' \in Seq(TimelineRow) /\ Len(timeline') = Len(timeline)
         /\ DOMAIN timeline' = DOMAIN timeline
         /\ \A j \in DOMAIN timeline : /\ timeline'[j].id = timeline[j].id
                                       /\ timeline'[j].of = timeline[j].of
                                       /\ timeline'[j].seen = timeline[j].seen
                                       /\ timeline'[j].at = timeline[j].at
         /\ UNCHANGED <<clock, events, delivered, pending, requests, lost>>
<1> DEFINE row == [timeline[k] EXCEPT !.deleted = TRUE]
<1>1. timeline[k] \in TimelineRow BY DEF TimelineTypeOK
<1>2. row \in TimelineRow /\ row.id = timeline[k].id /\ row.of = timeline[k].of
      /\ row.seen = timeline[k].seen /\ row.at = timeline[k].at
  BY <1>1 DEF TimelineRow
<1>3. timeline' = [timeline EXCEPT ![k] = row] BY DEF DeleteEvent
<1> HIDE DEF row
<1>4. timeline \in Seq(TimelineRow) BY DEF TimelineTypeOK
<1>5. /\ [timeline EXCEPT ![k] = row] \in Seq(TimelineRow)
      /\ Len([timeline EXCEPT ![k] = row]) = Len(timeline)
      /\ DOMAIN [timeline EXCEPT ![k] = row] = DOMAIN timeline
      /\ [timeline EXCEPT ![k] = row][k] = row
      /\ \A j \in DOMAIN timeline : j # k => [timeline EXCEPT ![k] = row][j] = timeline[j]
  BY <1>2, <1>4, Replaced
<1> QED BY <1>2, <1>3, <1>5 DEF DeleteEvent

LEMMA TimelineInitially == TimelineInit => TimelineInv /\ NothingMissing /\ NothingTwice
<1> SUFFICES ASSUME TimelineInit PROVE TimelineInv /\ NothingMissing /\ NothingTwice
  OBVIOUS
<1>1. /\ clock = 1 /\ events = <<>> /\ delivered = <<>> /\ pending = {} /\ timeline = <<>>
      /\ requests = [r \in Request |-> IdleRequest]
  BY DEF TimelineInit
<1>2. \A r \in Request : requests[r].pc = "idle" BY <1>1 DEF IdleRequest
<1>3. TimelineTypeOK BY <1>1, <1>2 DEF TimelineTypeOK
<1>4. CreatedOnce /\ IdsFit /\ LookedBefore /\ ComesOnce
  BY <1>1, <1>2 DEF CreatedOnce, IdsFit, LookedBefore, ComesOnce
<1> QED BY <1>1, <1>3, <1>4 DEF TimelineInv, NothingMissing, NothingTwice

(* What a new event leaves as it is.                                        *)
LEMMA RecordedEffect ==
  ASSUME TimelineTypeOK, NEW e, Recorded(e)
  PROVE  /\ events' \in Seq(Happened) /\ DOMAIN events' = DOMAIN events \cup {Len(events) + 1}
         /\ Len(events) + 1 \notin DOMAIN events
         /\ events'[Len(events) + 1] = e
         /\ \A n \in DOMAIN events : events'[n] = events[n]
         /\ delivered' \in Seq(Nat) /\ Len(delivered') = Len(events')
         /\ \A n \in DOMAIN events' :
              /\ events'[n].at <= clock
              /\ events'[n].kind = "spike" => events'[n].action = "seen"
<1>1. events \in Seq(Happened) /\ e \in Happened BY DEF TimelineTypeOK, Recorded
<1>2. /\ events' \in Seq(Happened) /\ DOMAIN events' = DOMAIN events \cup {Len(events) + 1}
      /\ Len(events') = Len(events) + 1
      /\ Len(events) + 1 \notin DOMAIN events
      /\ events'[Len(events) + 1] = e
      /\ \A n \in DOMAIN events : events'[n] = events[n]
  BY <1>1, Appended DEF Recorded
<1>3. delivered' \in Seq(Nat) /\ Len(delivered') = Len(delivered) + 1
  BY DEF TimelineTypeOK, Recorded
<1>4. e.at <= clock /\ (e.kind = "spike" => e.action = "seen")
  BY DEF TimelineTypeOK, Recorded
<1> QED BY <1>2, <1>3, <1>4 DEF TimelineTypeOK

LEMMA TimelineTypes == TimelineTypeOK /\ [TimelineStep]_timelineVars => TimelineTypeOK'
<1> SUFFICES ASSUME TimelineTypeOK, [TimelineStep]_timelineVars PROVE TimelineTypeOK'
  OBVIOUS
<1>0. /\ clock \in Nat /\ pending \subseteq DOMAIN events
      /\ requests \in [Request -> {IdleRequest} \cup Inserting]
      /\ timeline \in Seq(TimelineRow) /\ Len(timeline) \in Nat
      /\ \A k \in DOMAIN timeline : timeline[k].of \in DOMAIN events
  BY DEF TimelineTypeOK
<1>1. CASE Pass
  <2>1. \A n \in DOMAIN events : events[n] \in Happened /\ events[n].at <= clock
    BY DEF TimelineTypeOK
  <2>2. \A n \in DOMAIN events : events[n].at <= clock + 1
    BY <1>0, <2>1 DEF Happened
  <2> QED BY <1>0, <1>1, <2>2 DEF Pass, TimelineTypeOK
<1>2. CASE Happen
  <2>1. PICK e : /\ Recorded(e) /\ timeline' = timeline
                 /\ pending' = pending \cup {Len(events) + 1}
    BY <1>2, Happens
  <2>2. UNCHANGED <<clock, requests>> BY <2>1 DEF Recorded
  <2> QED BY <1>0, <2>1, <2>2, RecordedEffect DEF TimelineTypeOK
<1>3. CASE CreateManualEvent
  <2>1. PICK e, row :
          /\ Recorded(e) /\ pending' = pending
          /\ row \in TimelineRow /\ row.of = Len(events) + 1
          /\ timeline' = Append(timeline, row)
    BY <1>3, Manually
  <2>2. UNCHANGED <<clock, requests>> BY <2>1 DEF Recorded
  <2>3. /\ timeline' \in Seq(TimelineRow)
        /\ Len(timeline') = Len(timeline) + 1
        /\ DOMAIN timeline' = DOMAIN timeline \cup {Len(timeline) + 1}
        /\ timeline'[Len(timeline) + 1] = row
        /\ \A k \in DOMAIN timeline : timeline'[k] = timeline[k]
    BY <1>0, <2>1, Appended
  <2>4. \A k \in DOMAIN timeline' : timeline'[k].of \in DOMAIN events'
    BY <1>0, <2>1, <2>3, RecordedEffect
  <2>5. ASSUME NEW r \in Request, requests'[r].pc = "insert"
        PROVE  /\ requests'[r].of \in DOMAIN events'
               /\ requests'[r].seen <= Len(timeline')
    <3>1. /\ requests[r].of \in DOMAIN events /\ requests[r].seen <= Len(timeline)
          /\ requests[r] \in Inserting
      BY <2>2, <2>5 DEF TimelineTypeOK, IdleRequest
    <3>2. requests[r].seen \in Nat BY <3>1 DEF Inserting
    <3> QED BY <1>0, <2>1, <2>2, <2>3, <3>1, <3>2, RecordedEffect
  <2> QED BY <1>0, <2>1, <2>2, <2>3, <2>4, <2>5, RecordedEffect DEF TimelineTypeOK
<1>4. ASSUME NEW r \in Request, NEW n \in pending,
             GithubWebhook(r, n) \/ JiraWebhook(r, n) \/ WriteSpike(r, n)
      PROVE  TimelineTypeOK'
  <2>1. PICK id : LookedUp(r, n, id) BY <1>4, Lookups
  <2>2. /\ UNCHANGED <<clock, events, timeline>> /\ pending' \subseteq pending
        /\ delivered' \in Seq(Nat) /\ Len(delivered') = Len(delivered)
        /\ requests' = requests \/ requests' = [requests EXCEPT ![r] = ToInsert(n, id)]
    BY <2>1 DEF LookedUp
  <2>3. /\ ToInsert(n, id) \in Inserting
        /\ ToInsert(n, id).of = n /\ ToInsert(n, id).seen = Len(timeline)
    BY <1>0, <2>1 DEF ToInsert, Inserting, LookedUp, TimelineTypeOK
  <2>4. requests' \in [Request -> {IdleRequest} \cup Inserting] BY <1>0, <2>2, <2>3
  <2>5. ASSUME NEW q \in Request, requests'[q].pc = "insert"
        PROVE  /\ requests'[q].of \in DOMAIN events'
               /\ requests'[q].seen <= Len(timeline')
    <3>1. CASE requests'[q] = requests[q] BY <2>2, <2>5, <3>1 DEF TimelineTypeOK
    <3>2. CASE requests'[q] = ToInsert(n, id) BY <1>0, <2>2, <2>3, <3>2
    <3> HIDE DEF TimelineTypeOK
    <3> QED BY <1>0, <2>2, <3>1, <3>2
  <2> QED BY <1>0, <2>2, <2>4, <2>5 DEF TimelineTypeOK
<1>5. ASSUME NEW r \in Request, InsertEvent(r) PROVE TimelineTypeOK'
  <2>1. PICK row :
          /\ requests[r].pc = "insert"
          /\ row \in TimelineRow /\ row.of = requests[r].of
          /\ timeline' = Append(timeline, row)
          /\ requests' = [requests EXCEPT ![r] = IdleRequest]
          /\ UNCHANGED <<clock, events, delivered, pending, lost>>
    BY <1>5, Inserts
  <2>2. /\ timeline' \in Seq(TimelineRow)
        /\ Len(timeline') = Len(timeline) + 1
        /\ DOMAIN timeline' = DOMAIN timeline \cup {Len(timeline) + 1}
        /\ timeline'[Len(timeline) + 1] = row
        /\ \A k \in DOMAIN timeline : timeline'[k] = timeline[k]
    BY <1>0, <2>1, Appended
  <2>3. \A k \in DOMAIN timeline' : timeline'[k].of \in DOMAIN events'
    BY <1>0, <2>1, <2>2 DEF TimelineTypeOK
  <2>4. ASSUME NEW q \in Request, requests'[q].pc = "insert"
        PROVE  /\ requests'[q].of \in DOMAIN events'
               /\ requests'[q].seen <= Len(timeline')
    <3>1. q # r /\ requests'[q] = requests[q] BY <1>0, <2>1, <2>4 DEF IdleRequest
    <3>2. /\ requests[q].of \in DOMAIN events /\ requests[q].seen <= Len(timeline)
          /\ requests[q] \in Inserting
      BY <2>4, <3>1 DEF TimelineTypeOK, IdleRequest
    <3>3. requests[q].seen \in Nat BY <3>2 DEF Inserting
    <3> QED BY <1>0, <2>1, <2>2, <3>1, <3>2, <3>3
  <2> QED BY <1>0, <2>1, <2>2, <2>3, <2>4 DEF TimelineTypeOK
<1>6. ASSUME NEW r \in Request, FailEvent(r) PROVE TimelineTypeOK'
  <2>1. /\ requests' = [requests EXCEPT ![r] = IdleRequest]
        /\ UNCHANGED <<clock, events, delivered, pending, timeline>>
    BY <1>6 DEF FailEvent
  <2>2. \A q \in Request : requests'[q].pc = "insert" => requests'[q] = requests[q]
    BY <1>0, <2>1 DEF IdleRequest
  <2> QED BY <1>0, <2>1, <2>2 DEF TimelineTypeOK
<1>7. ASSUME NEW k \in DOMAIN timeline, DeleteEvent(k) PROVE TimelineTypeOK'
  BY <1>0, <1>7, Deletes DEF TimelineTypeOK
<1>8. CASE UNCHANGED timelineVars
  BY <1>8 DEF timelineVars, TimelineTypeOK
<1> QED BY <1>1, <1>2, <1>3, <1>4, <1>5, <1>6, <1>7, <1>8 DEF TimelineStep

AllHold == TimelineInv /\ NothingMissing /\ NothingTwice

(* The types, as the steps below use them.                                  *)
LEMMA Typed ==
  ASSUME TimelineTypeOK
  PROVE  /\ clock \in Nat /\ Len(events) \in Nat /\ Len(timeline) \in Nat
         /\ events \in Seq(Happened) /\ timeline \in Seq(TimelineRow)
         /\ DOMAIN events = 1 .. Len(events) /\ DOMAIN timeline = 1 .. Len(timeline)
         /\ \A n \in DOMAIN events :
              /\ events[n].kind \in {"pr", "push", "run", "issue", "spike", "manual"}
              /\ events[n].at \in Nat /\ events[n].at <= clock
         /\ pending \subseteq DOMAIN events
         /\ \A k \in DOMAIN timeline : /\ timeline[k].of \in DOMAIN events
                                       /\ timeline[k].at \in Nat /\ timeline[k].seen \in Nat
         /\ \A r \in Request : /\ requests[r].pc \in {"idle", "insert"}
                               /\ requests[r].pc = "insert" =>
                                    /\ requests[r].of \in DOMAIN events
                                    /\ requests[r].seen \in Nat
                                    /\ requests[r].seen <= Len(timeline)
<1>1. \A n \in DOMAIN events : events[n] \in Happened BY DEF TimelineTypeOK
<1>2. \A k \in DOMAIN timeline : timeline[k] \in TimelineRow BY DEF TimelineTypeOK
<1>3. \A r \in Request : /\ requests[r].pc \in {"idle", "insert"}
                         /\ requests[r].pc = "insert" => requests[r] \in Inserting
  BY DEF TimelineTypeOK, IdleRequest, Inserting
<1>4. \A r \in Request : requests[r].pc = "insert" =>
        /\ requests[r].of \in DOMAIN events
        /\ requests[r].seen \in Nat /\ requests[r].seen <= Len(timeline)
  BY <1>3 DEF TimelineTypeOK, Inserting
<1>5. \A n \in DOMAIN events :
        /\ events[n].kind \in {"pr", "push", "run", "issue", "spike", "manual"}
        /\ events[n].at \in Nat /\ events[n].at <= clock
  BY <1>1 DEF TimelineTypeOK, Happened
<1>6. \A k \in DOMAIN timeline : /\ timeline[k].of \in DOMAIN events
                                 /\ timeline[k].at \in Nat /\ timeline[k].seen \in Nat
  BY <1>2 DEF TimelineTypeOK, TimelineRow
<1> QED BY <1>3, <1>4, <1>5, <1>6 DEF TimelineTypeOK

(* Time passes, an insert fails or a row is deleted: no event and no row is *)
(* new, and a request that stops had its event lost.                        *)
LEMMA AfterOthers ==
  ASSUME AllHold, events' = events, pending' = pending,
         DOMAIN timeline' = DOMAIN timeline,
         \A k \in DOMAIN timeline :
           /\ timeline'[k].id = timeline[k].id /\ timeline'[k].of = timeline[k].of
           /\ timeline'[k].seen = timeline[k].seen /\ timeline'[k].at = timeline[k].at,
         \A r \in Request :
           \/ requests'[r] = requests[r]
           \/ requests'[r].pc = "idle" /\ requests[r].of \in lost',
         lost \subseteq lost'
  PROVE  /\ CreatedOnce' /\ IdsFit' /\ LookedBefore' /\ ComesOnce'
         /\ NothingMissing' /\ NothingTwice'
<1> USE DEF AllHold, TimelineInv
<1>1. \A n : Rows(n)' = Rows(n) BY DEF Rows
<1>2. \A r \in Request : \A n : InsertOf(r, n)' => InsertOf(r, n) /\ requests'[r] = requests[r]
  BY DEF InsertOf
<1>3. CreatedOnce' BY DEF CreatedOnce
<1>4. IdsFit' BY DEF IdsFit
<1>5. LookedBefore' BY <1>1, <1>2 DEF LookedBefore
<1>6. ComesOnce' BY <1>1, <1>2 DEF ComesOnce
<1>7. ASSUME NEW n \in DOMAIN events, n \notin lost', Settled(n)' PROVE Settled(n)
  BY <1>7 DEF Settled
<1>8. NothingMissing'
  <2> SUFFICES ASSUME NEW n \in DOMAIN events, Settled(n)', ~Ignored(events[n]),
                      Rows(n)' = {}, n \notin lost'
               PROVE  \E k \in DOMAIN timeline :
                        /\ SameAction(events[n], events[timeline[k].of])
                        /\ events[n].kind = "spike" =>
                             timeline[k].at + Window >= events[n].at
    BY DEF NothingMissing
  <2>1. Settled(n) BY <1>7
  <2> QED BY <1>1, <2>1 DEF NothingMissing
<1>9. NothingTwice'
  <2> SUFFICES ASSUME NEW n \in DOMAIN events, NEW j \in Rows(n)', NEW k \in Rows(n)',
                      j < k
               PROVE  \/ timeline'[k].seen < j
                      \/ events[n].kind = "issue" /\ events[n].action # "created"
    BY DEF NothingTwice
  <2>1. k \in DOMAIN timeline BY <1>1 DEF Rows
  <2> QED BY <1>1, <2>1 DEF NothingTwice
<1> QED BY <1>3, <1>4, <1>5, <1>6, <1>8, <1>9

(* Something happens and is to be delivered.                                *)
LEMMA AfterHappen ==
  ASSUME AllHold, Happen
  PROVE  /\ CreatedOnce' /\ IdsFit' /\ LookedBefore' /\ ComesOnce'
         /\ NothingMissing' /\ NothingTwice'
<1> DEFINE new == Len(events) + 1
<1> USE DEF AllHold, TimelineInv
<1>1. PICK e : /\ Recorded(e) /\ e.kind # "manual"
               /\ timeline' = timeline /\ pending' = pending \cup {new}
               /\ e.kind = "issue" /\ e.action = "created" =>
                    \A n \in DOMAIN events :
                      ~(events[n].kind = "issue" /\ events[n].thing = e.thing)
  BY Happens
<1>2. /\ DOMAIN events' = DOMAIN events \cup {new} /\ new \notin DOMAIN events
      /\ events'[new] = e /\ \A n \in DOMAIN events : events'[n] = events[n]
  BY <1>1, RecordedEffect
<1>3. requests' = requests /\ lost' = lost BY <1>1 DEF Recorded
<1>4. /\ \A k \in DOMAIN timeline : timeline[k].of \in DOMAIN events
      /\ \A r \in Request : requests[r].pc = "insert" => requests[r].of \in DOMAIN events
  BY Typed
<1> HIDE DEF new, AllHold, TimelineInv
<1>5. \A n : Rows(n)' = Rows(n) BY <1>1 DEF Rows
<1>6. \A n : \A r \in Request : InsertOf(r, n)' <=> InsertOf(r, n) BY <1>3 DEF InsertOf
<1>7. \A x \in DOMAIN events' : x # new => x \in DOMAIN events /\ events'[x] = events[x]
  BY <1>2
<1>8. Rows(new) = {} /\ \A r \in Request : ~InsertOf(r, new)
  BY <1>2, <1>4 DEF Rows, InsertOf
<1>9. CreatedOnce'
  <2> SUFFICES ASSUME NEW n \in DOMAIN events', NEW m \in DOMAIN events',
                      events'[n].kind = "issue" /\ events'[n].action = "created",
                      events'[m].kind = "issue" /\ events'[m].action = "created",
                      events'[n].thing = events'[m].thing
               PROVE  n = m
    BY DEF CreatedOnce
  <2>1. CASE n # new /\ m # new
    BY <1>7, <2>1 DEF CreatedOnce, AllHold, TimelineInv
  <2>2. CASE n = new \/ m = new BY <1>1, <1>2, <1>7, <2>2
  <2> QED BY <2>1, <2>2
<1>10. IdsFit'
  BY <1>1, <1>2, <1>3, <1>4 DEF IdsFit, AllHold, TimelineInv
<1>11. LookedBefore'
  <2> SUFFICES ASSUME NEW r \in Request, NEW n \in DOMAIN events',
                      InsertOf(r, n)', Recognised(events'[n])
               PROVE  \A j \in Rows(n)' : requests'[r].seen < j
    BY DEF LookedBefore
  <2>1. InsertOf(r, n) /\ n # new BY <1>6, <1>8
  <2> QED BY <1>3, <1>5, <1>7, <2>1 DEF LookedBefore, AllHold, TimelineInv
<1>12. ComesOnce'
  <2> SUFFICES ASSUME NEW n \in DOMAIN events'
               PROVE  /\ events'[n].kind \in {"spike", "manual"} =>
                           /\ \A j, k \in Rows(n)' : j = k
                           /\ n \in pending' =>
                                Rows(n)' = {} /\ \A r \in Request : ~InsertOf(r, n)'
                           /\ \A r \in Request : InsertOf(r, n)' =>
                                /\ Rows(n)' = {}
                                /\ \A q \in Request : InsertOf(q, n)' => q = r
                      /\ events'[n].kind = "manual" =>
                           n \notin pending' /\ \A r \in Request : ~InsertOf(r, n)'
    BY DEF ComesOnce
  <2>1. CASE n = new
    BY <1>1, <1>2, <1>5, <1>6, <1>8, <2>1
  <2>2. CASE n # new
    <3>1. /\ n \in DOMAIN events /\ events'[n] = events[n]
          /\ n \in pending' <=> n \in pending
      BY <1>1, <1>7, <2>2
    <3> QED BY <1>5, <1>6, <3>1 DEF ComesOnce, AllHold, TimelineInv
  <2> QED BY <2>1, <2>2
<1>13. NothingMissing'
  <2> SUFFICES ASSUME NEW n \in DOMAIN events', Settled(n)', ~Ignored(events'[n]),
                      Rows(n)' = {}, n \notin lost'
               PROVE  \E k \in DOMAIN timeline' :
                        /\ SameAction(events'[n], events'[timeline'[k].of])
                        /\ events'[n].kind = "spike" =>
                             timeline'[k].at + Window >= events'[n].at
    BY DEF NothingMissing
  <2>1. n # new /\ Settled(n) BY <1>1, <1>3 DEF Settled
  <2>2. n \in DOMAIN events /\ events'[n] = events[n] BY <1>7, <2>1
  <2>3. PICK k \in DOMAIN timeline :
          /\ SameAction(events[n], events[timeline[k].of])
          /\ events[n].kind = "spike" => timeline[k].at + Window >= events[n].at
    BY <1>3, <1>5, <2>1, <2>2 DEF NothingMissing, AllHold
  <2>4. events'[timeline[k].of] = events[timeline[k].of] BY <1>2, <1>4
  <2> QED BY <1>1, <2>2, <2>3, <2>4
<1>14. NothingTwice'
  <2> SUFFICES ASSUME NEW n \in DOMAIN events', NEW j \in Rows(n)', NEW k \in Rows(n)',
                      j < k
               PROVE  \/ timeline'[k].seen < j
                      \/ events'[n].kind = "issue" /\ events'[n].action # "created"
    BY DEF NothingTwice
  <2>1. n # new BY <1>5, <1>8
  <2> QED BY <1>1, <1>5, <1>7, <2>1 DEF NothingTwice, AllHold
<1> QED BY <1>9, <1>10, <1>11, <1>12, <1>13, <1>14

(* An event is entered by hand.                                             *)
LEMMA AfterManual ==
  ASSUME AllHold, CreateManualEvent
  PROVE  /\ CreatedOnce' /\ IdsFit' /\ LookedBefore' /\ ComesOnce'
         /\ NothingMissing' /\ NothingTwice'
<1> DEFINE new == Len(events) + 1
           last == Len(timeline) + 1
<1> USE DEF AllHold, TimelineInv
<1>1. PICK e, row : /\ Recorded(e) /\ e.kind = "manual" /\ pending' = pending
                    /\ row \in TimelineRow /\ row.of = new /\ row.id = <<>>
                    /\ timeline' = Append(timeline, row)
  BY Manually
<1>2. /\ DOMAIN events' = DOMAIN events \cup {new} /\ new \notin DOMAIN events
      /\ events'[new] = e /\ \A n \in DOMAIN events : events'[n] = events[n]
  BY <1>1, RecordedEffect
<1>3. requests' = requests /\ lost' = lost BY <1>1 DEF Recorded
<1>4. /\ \A k \in DOMAIN timeline : timeline[k].of \in DOMAIN events
      /\ \A r \in Request : requests[r].pc = "insert" => requests[r].of \in DOMAIN events
      /\ pending \subseteq DOMAIN events
  BY Typed
<1>5. /\ DOMAIN timeline' = DOMAIN timeline \cup {last} /\ last \notin DOMAIN timeline
      /\ timeline'[last] = row
      /\ \A k \in DOMAIN timeline : timeline'[k] = timeline[k]
  BY <1>1, Appended DEF TimelineTypeOK
<1> HIDE DEF new, last, AllHold, TimelineInv
<1>6. \A n : n # new => Rows(n)' = Rows(n) BY <1>1, <1>5 DEF Rows
<1>7. \A n : n = new => Rows(n)' = {last} BY <1>1, <1>2, <1>4, <1>5 DEF Rows
<1>8. \A n : \A r \in Request : InsertOf(r, n)' <=> InsertOf(r, n) BY <1>3 DEF InsertOf
<1>9. new \notin pending /\ \A r \in Request : ~InsertOf(r, new)
  BY <1>2, <1>4 DEF InsertOf
<1>10. \A x \in DOMAIN events' : x # new => x \in DOMAIN events /\ events'[x] = events[x]
  BY <1>2
<1>11. CreatedOnce'
  <2> SUFFICES ASSUME NEW n \in DOMAIN events', NEW m \in DOMAIN events',
                      events'[n].kind = "issue" /\ events'[n].action = "created",
                      events'[m].kind = "issue" /\ events'[m].action = "created",
                      events'[n].thing = events'[m].thing
               PROVE  n = m
    BY DEF CreatedOnce
  <2>1. n # new /\ m # new BY <1>1, <1>2
  <2> QED BY <1>10, <2>1 DEF CreatedOnce, AllHold, TimelineInv
<1>12. IdsFit'
  <2>1. Fits(e, new, row.id) BY <1>1 DEF Fits
  <2>2. \A k \in DOMAIN timeline' :
          Fits(events'[timeline'[k].of], timeline'[k].of, timeline'[k].id)
    BY <1>1, <1>2, <1>4, <1>5, <2>1 DEF IdsFit, AllHold, TimelineInv
  <2>3. \A r \in Request : requests'[r].pc = "insert" =>
          Fits(events'[requests'[r].of], requests'[r].of, requests'[r].id)
    BY <1>2, <1>3, <1>4 DEF IdsFit, AllHold, TimelineInv
  <2> QED BY <2>2, <2>3 DEF IdsFit
<1>13. LookedBefore'
  <2> SUFFICES ASSUME NEW r \in Request, NEW n \in DOMAIN events',
                      InsertOf(r, n)', Recognised(events'[n])
               PROVE  \A j \in Rows(n)' : requests'[r].seen < j
    BY DEF LookedBefore
  <2>1. InsertOf(r, n) /\ n # new BY <1>8, <1>9
  <2> QED BY <1>3, <1>6, <1>10, <2>1 DEF LookedBefore, AllHold, TimelineInv
<1>14. ComesOnce'
  <2> SUFFICES ASSUME NEW n \in DOMAIN events'
               PROVE  /\ events'[n].kind \in {"spike", "manual"} =>
                           /\ \A j, k \in Rows(n)' : j = k
                           /\ n \in pending' =>
                                Rows(n)' = {} /\ \A r \in Request : ~InsertOf(r, n)'
                           /\ \A r \in Request : InsertOf(r, n)' =>
                                /\ Rows(n)' = {}
                                /\ \A q \in Request : InsertOf(q, n)' => q = r
                      /\ events'[n].kind = "manual" =>
                           n \notin pending' /\ \A r \in Request : ~InsertOf(r, n)'
    BY DEF ComesOnce
  <2>1. CASE n = new BY <1>1, <1>7, <1>8, <1>9, <2>1
  <2>2. CASE n # new
    <3>1. /\ n \in DOMAIN events /\ events'[n] = events[n]
          /\ n \in pending' <=> n \in pending
      BY <1>1, <1>10, <2>2
    <3> QED BY <1>6, <1>8, <2>2, <3>1 DEF ComesOnce, AllHold, TimelineInv
  <2> QED BY <2>1, <2>2
<1>15. NothingMissing'
  <2> SUFFICES ASSUME NEW n \in DOMAIN events', Settled(n)', ~Ignored(events'[n]),
                      Rows(n)' = {}, n \notin lost'
               PROVE  \E k \in DOMAIN timeline' :
                        /\ SameAction(events'[n], events'[timeline'[k].of])
                        /\ events'[n].kind = "spike" =>
                             timeline'[k].at + Window >= events'[n].at
    BY DEF NothingMissing
  <2>1. n # new /\ Settled(n) BY <1>1, <1>3, <1>7 DEF Settled
  <2>2. n \in DOMAIN events /\ events'[n] = events[n] BY <1>10, <2>1
  <2>3. PICK k \in DOMAIN timeline :
          /\ SameAction(events[n], events[timeline[k].of])
          /\ events[n].kind = "spike" => timeline[k].at + Window >= events[n].at
    BY <1>3, <1>6, <2>1, <2>2 DEF NothingMissing, AllHold
  <2>4. events'[timeline[k].of] = events[timeline[k].of] BY <1>2, <1>4
  <2> QED BY <1>5, <2>2, <2>3, <2>4
<1>16. NothingTwice'
  <2> SUFFICES ASSUME NEW n \in DOMAIN events', NEW j \in Rows(n)', NEW k \in Rows(n)',
                      j < k
               PROVE  \/ timeline'[k].seen < j
                      \/ events'[n].kind = "issue" /\ events'[n].action # "created"
    BY DEF NothingTwice
  <2>1. j \in Nat /\ k \in Nat
    BY <1>1, Appended, Typed DEF Rows, AllHold, TimelineInv
  <2>2. n # new BY <1>7, <2>1
  <2>3. j \in Rows(n) /\ k \in Rows(n) /\ k \in DOMAIN timeline BY <1>6, <2>2 DEF Rows
  <2> QED BY <1>5, <1>10, <2>2, <2>3 DEF NothingTwice, AllHold
<1> QED BY <1>11, <1>12, <1>13, <1>14, <1>15, <1>16

(* A webhook or a scan looks its event up: it is over, because the row of   *)
(* this or of the same event is there, or it goes on to insert it.          *)
LEMMA AfterLookup ==
  ASSUME AllHold, NEW r \in Request, NEW n, NEW id, LookedUp(r, n, id)
  PROVE  /\ CreatedOnce' /\ IdsFit' /\ LookedBefore' /\ ComesOnce'
         /\ NothingMissing' /\ NothingTwice'
<1> USE DEF AllHold, TimelineInv
<1>1. /\ requests[r].pc = "idle" /\ n \in pending /\ n \in DOMAIN events
      /\ Fits(events[n], n, id) /\ events[n].kind # "manual"
      /\ events' = events /\ timeline' = timeline /\ clock' = clock /\ lost' = lost
      /\ pending' = pending \ {n} \/ (pending' = pending /\ events[n].kind # "spike")
  BY Typed DEF LookedUp
<1>2. \/ /\ requests' = requests
         /\ \/ Ignored(events[n])
            \/ \E k \in DOMAIN timeline :
                 /\ timeline[k].id = id
                 /\ events[n].kind = "spike" => timeline[k].at + Window >= clock
      \/ /\ requests' = [requests EXCEPT ![r] = ToInsert(n, id)]
         /\ events[n].kind # "spike" => \A k \in DOMAIN timeline : timeline[k].id # id
  BY DEF LookedUp
<1>3. /\ Len(timeline) \in Nat /\ DOMAIN timeline = 1 .. Len(timeline) /\ clock \in Nat
      /\ events[n].at \in Nat /\ events[n].at <= clock
      /\ \A k \in DOMAIN timeline : timeline[k].of \in DOMAIN events /\ timeline[k].at \in Nat
      /\ Window \in Nat
      /\ events[n].kind \in {"pr", "push", "run", "issue", "spike", "manual"}
  BY <1>1, Typed, TimelineAssumption
<1>4. requests \in [Request -> {IdleRequest} \cup Inserting] BY DEF TimelineTypeOK
<1> DEFINE q == ToInsert(n, id)
<1>5. q.pc = "insert" /\ q.of = n /\ q.id = id /\ q.seen = Len(timeline) BY DEF ToInsert
<1> HIDE DEF q, AllHold, TimelineInv
<1>6. \/ requests' = requests
      \/ /\ requests'[r] = q /\ \A o \in Request : o # r => requests'[o] = requests[o]
         /\ events[n].kind # "spike" => \A k \in DOMAIN timeline : timeline[k].id # id
  BY <1>2, <1>4 DEF q
<1>7. \A m : Rows(m)' = Rows(m) BY <1>1 DEF Rows
<1>8. \A o \in Request : \A m :
        InsertOf(o, m)' =>
          \/ InsertOf(o, m) /\ requests'[o] = requests[o]
          \/ /\ o = r /\ m = n /\ requests'[o] = q
             /\ events[n].kind # "spike" => \A k \in DOMAIN timeline : timeline[k].id # id
  BY <1>1, <1>5, <1>6 DEF InsertOf
<1>9. CreatedOnce' BY <1>1 DEF CreatedOnce, AllHold, TimelineInv
<1>10. IdsFit' BY <1>1, <1>5, <1>6 DEF IdsFit, AllHold, TimelineInv
<1>11. \A k \in Rows(n) : Fits(events[n], n, timeline[k].id)
  BY DEF Rows, IdsFit, AllHold, TimelineInv
<1>12. LookedBefore'
  <2> SUFFICES ASSUME NEW o \in Request, NEW m \in DOMAIN events,
                      InsertOf(o, m)', Recognised(events[m])
               PROVE  \A j \in Rows(m) : requests'[o].seen < j
    BY <1>1, <1>7 DEF LookedBefore
  <2>1. CASE InsertOf(o, m) /\ requests'[o] = requests[o]
    BY <2>1 DEF LookedBefore, AllHold, TimelineInv
  <2>2. CASE /\ o = r /\ m = n
             /\ events[n].kind # "spike" => \A k \in DOMAIN timeline : timeline[k].id # id
    <3>1. \A k \in DOMAIN timeline : timeline[k].id # id BY <2>2 DEF Recognised
    <3>2. \A k \in Rows(n) : timeline[k].id = id BY <1>1, <1>11, <2>2, OneId
    <3> QED BY <2>2, <3>1, <3>2 DEF Rows
  <2> QED BY <1>8, <2>1, <2>2
<1>13. ComesOnce'
  <2> SUFFICES ASSUME NEW m \in DOMAIN events
               PROVE  /\ events[m].kind \in {"spike", "manual"} =>
                           /\ \A j, k \in Rows(m) : j = k
                           /\ m \in pending' =>
                                Rows(m) = {} /\ \A o \in Request : ~InsertOf(o, m)'
                           /\ \A o \in Request : InsertOf(o, m)' =>
                                /\ Rows(m) = {}
                                /\ \A p \in Request : InsertOf(p, m)' => p = o
                      /\ events[m].kind = "manual" =>
                           m \notin pending' /\ \A o \in Request : ~InsertOf(o, m)'
    BY <1>1, <1>7 DEF ComesOnce
  <2>1. CASE m = n BY <1>1, <1>8, <2>1 DEF ComesOnce, AllHold, TimelineInv
  <2>2. CASE m # n
    <3>1. m \in pending' => m \in pending BY <1>1
    <3>2. \A o \in Request : InsertOf(o, m)' => InsertOf(o, m) BY <1>8, <2>2
    <3> QED BY <3>1, <3>2 DEF ComesOnce, AllHold, TimelineInv
  <2> QED BY <2>1, <2>2
<1>14. NothingMissing'
  <2> SUFFICES ASSUME NEW m \in DOMAIN events, Settled(m)', ~Ignored(events[m]),
                      Rows(m) = {}, m \notin lost
               PROVE  \E k \in DOMAIN timeline :
                        /\ SameAction(events[m], events[timeline[k].of])
                        /\ events[m].kind = "spike" =>
                             timeline[k].at + Window >= events[m].at
    BY <1>1, <1>7 DEF NothingMissing
  <2>1. CASE m # n
    <3>1. Settled(m) BY <1>1, <1>6, <2>1 DEF Settled
    <3> QED BY <3>1 DEF NothingMissing, AllHold
  <2>2. CASE m = n
    <3>1. requests' = requests BY <1>5, <1>6, <2>2 DEF Settled
    <3>2. ~(requests' = [requests EXCEPT ![r] = ToInsert(n, id)])
      BY <1>1, <1>4, <1>5, <3>1 DEF q
    <3>3. PICK k \in DOMAIN timeline :
            /\ timeline[k].id = id
            /\ events[n].kind = "spike" => timeline[k].at + Window >= clock
      BY <1>2, <2>2, <3>2
    <3> DEFINE f == events[timeline[k].of]
    <3>4. timeline[k].of \in DOMAIN events /\ Fits(f, timeline[k].of, id)
      BY <1>3, <3>3 DEF IdsFit, AllHold, TimelineInv
    <3>5. /\ events[n].kind = "spike" => events[n].action = "seen"
          /\ f.kind = "spike" => f.action = "seen"
      BY <1>1, <3>4 DEF TimelineTypeOK, AllHold, TimelineInv
    <3>6. n # timeline[k].of BY <2>2 DEF Rows
    <3> HIDE DEF f
    <3>7. \/ SameAction(events[n], f)
          \/ /\ events[n].kind = "issue" /\ f.kind = "issue"
             /\ events[n].thing = f.thing
             /\ events[n].action = "created" /\ f.action = "created"
      BY <1>1, <3>4, <3>5, <3>6, SameId
    <3>8. SameAction(events[n], f)
      BY <1>1, <3>4, <3>6, <3>7 DEF CreatedOnce, f, AllHold, TimelineInv
    <3>9. events[n].kind = "spike" => timeline[k].at + Window >= events[n].at
      BY <1>3, <3>3
    <3> QED BY <2>2, <3>8, <3>9 DEF f
  <2> QED BY <2>1, <2>2
<1>15. NothingTwice'
  BY <1>1, <1>7 DEF NothingTwice, AllHold
<1> QED BY <1>9, <1>10, <1>12, <1>13, <1>14, <1>15

(* A request inserts its event.                                             *)
LEMMA AfterInsert ==
  ASSUME AllHold, NEW r \in Request, InsertEvent(r)
  PROVE  /\ CreatedOnce' /\ IdsFit' /\ LookedBefore' /\ ComesOnce'
         /\ NothingMissing' /\ NothingTwice'
<1> DEFINE n == requests[r].of
           last == Len(timeline) + 1
<1> USE DEF AllHold, TimelineInv
<1>1. PICK row :
        /\ requests[r].pc = "insert"
        /\ row \in TimelineRow /\ row.of = n /\ row.id = requests[r].id
        /\ row.seen = requests[r].seen
        /\ timeline' = Append(timeline, row)
        /\ requests' = [requests EXCEPT ![r] = IdleRequest]
        /\ UNCHANGED <<clock, events, delivered, pending, lost>>
  BY Inserts
<1>2. /\ DOMAIN timeline' = DOMAIN timeline \cup {last} /\ last \notin DOMAIN timeline
      /\ timeline'[last] = row
      /\ \A k \in DOMAIN timeline : timeline'[k] = timeline[k]
  BY <1>1, Appended DEF TimelineTypeOK
<1>3. /\ DOMAIN timeline = 1 .. Len(timeline) /\ Len(timeline) \in Nat
      /\ n \in DOMAIN events /\ requests[r].seen \in Nat /\ requests[r].seen <= Len(timeline)
      /\ \A k \in DOMAIN timeline : timeline[k].of \in DOMAIN events
      /\ \A m \in DOMAIN events :
           events[m].kind \in {"pr", "push", "run", "issue", "spike", "manual"}
      /\ \A o \in Request : requests[o].pc = "insert" =>
           requests[o].seen \in Nat /\ requests[o].seen <= Len(timeline)
  BY <1>1, Typed
<1>4. requests'[r].pc = "idle" /\ \A o \in Request : o # r => requests'[o] = requests[o]
  BY <1>1 DEF TimelineTypeOK, IdleRequest
<1>5. InsertOf(r, n) BY <1>1 DEF InsertOf
<1>6. Fits(events[n], n, requests[r].id) BY <1>1 DEF IdsFit
<1> HIDE DEF n, last, AllHold, TimelineInv
<1>7. \A m : Rows(m)' = IF m = n THEN Rows(m) \cup {last} ELSE Rows(m)
  BY <1>1, <1>2 DEF Rows
<1>8. \A o \in Request : \A m :
        InsertOf(o, m)' => InsertOf(o, m) /\ o # r /\ requests'[o] = requests[o]
  BY <1>4 DEF InsertOf
<1>9. \A m : Rows(m) \subseteq DOMAIN timeline BY DEF Rows
<1>10. \A k \in DOMAIN timeline : k < last BY <1>3 DEF last
<1>11. CreatedOnce' BY <1>1 DEF CreatedOnce, AllHold, TimelineInv
<1>12. IdsFit'
  <2>1. \A k \in DOMAIN timeline' :
          Fits(events'[timeline'[k].of], timeline'[k].of, timeline'[k].id)
    BY <1>1, <1>2, <1>6 DEF IdsFit, AllHold, TimelineInv
  <2>2. \A o \in Request : requests'[o].pc = "insert" =>
          Fits(events'[requests'[o].of], requests'[o].of, requests'[o].id)
    BY <1>1, <1>4 DEF IdsFit, AllHold, TimelineInv
  <2> QED BY <2>1, <2>2 DEF IdsFit
<1>13. LookedBefore'
  <2> SUFFICES ASSUME NEW o \in Request, NEW m \in DOMAIN events,
                      InsertOf(o, m)', Recognised(events[m]), NEW j \in Rows(m)'
               PROVE  requests'[o].seen < j
    BY <1>1 DEF LookedBefore
  <2>1. InsertOf(o, m) /\ requests'[o] = requests[o] BY <1>8
  <2>2. CASE j \in Rows(m) BY <2>1, <2>2 DEF LookedBefore, AllHold, TimelineInv
  <2>3. CASE j = last BY <1>3, <2>1, <2>3 DEF InsertOf, last
  <2> QED BY <1>7, <2>2, <2>3
<1>14. ComesOnce'
  <2> SUFFICES ASSUME NEW m \in DOMAIN events
               PROVE  /\ events[m].kind \in {"spike", "manual"} =>
                           /\ \A j, k \in Rows(m)' : j = k
                           /\ m \in pending =>
                                Rows(m)' = {} /\ \A o \in Request : ~InsertOf(o, m)'
                           /\ \A o \in Request : InsertOf(o, m)' =>
                                /\ Rows(m)' = {}
                                /\ \A p \in Request : InsertOf(p, m)' => p = o
                      /\ events[m].kind = "manual" =>
                           m \notin pending /\ \A o \in Request : ~InsertOf(o, m)'
    BY <1>1 DEF ComesOnce
  <2>1. CASE m = n
    <3>1. events[m].kind \in {"spike", "manual"} =>
            Rows(m) = {} /\ m \notin pending /\ \A p \in Request : InsertOf(p, m) => p = r
      BY <1>5, <2>1 DEF ComesOnce, AllHold, TimelineInv
    <3>2. events[m].kind \in {"spike", "manual"} =>
            Rows(m)' = {last} /\ \A o \in Request : ~InsertOf(o, m)'
      BY <1>7, <1>8, <2>1, <3>1
    <3> QED BY <3>1, <3>2
  <2>2. CASE m # n
    <3>1. Rows(m)' = Rows(m) BY <1>7, <2>2
    <3> QED BY <1>8, <3>1 DEF ComesOnce, AllHold, TimelineInv
  <2> QED BY <2>1, <2>2
<1>15. NothingMissing'
  <2> SUFFICES ASSUME NEW m \in DOMAIN events, Settled(m)', ~Ignored(events[m]),
                      Rows(m)' = {}, m \notin lost
               PROVE  \E k \in DOMAIN timeline' :
                        /\ SameAction(events[m], events[timeline'[k].of])
                        /\ events[m].kind = "spike" =>
                             timeline'[k].at + Window >= events[m].at
    BY <1>1 DEF NothingMissing
  <2>1. m # n /\ Rows(m) = {} BY <1>7
  <2>2. Settled(m) BY <1>1, <1>4, <2>1 DEF Settled, n
  <2>3. PICK k \in DOMAIN timeline :
          /\ SameAction(events[m], events[timeline[k].of])
          /\ events[m].kind = "spike" => timeline[k].at + Window >= events[m].at
    BY <2>1, <2>2 DEF NothingMissing, AllHold
  <2> QED BY <1>2, <2>3
<1>16. NothingTwice'
  <2> SUFFICES ASSUME NEW m \in DOMAIN events, NEW j \in Rows(m)', NEW k \in Rows(m)',
                      j < k
               PROVE  \/ timeline'[k].seen < j
                      \/ events[m].kind = "issue" /\ events[m].action # "created"
    BY <1>1 DEF NothingTwice
  <2>1. CASE j \in Rows(m) /\ k \in Rows(m)
    BY <1>2, <1>9, <2>1 DEF NothingTwice, AllHold
  <2>2. CASE j = last /\ k \in Rows(m)
    <3>1. k \in 1 .. Len(timeline) /\ k < last BY <1>3, <1>9, <1>10, <2>2
    <3> QED BY <1>3, <2>2, <3>1 DEF last
  <2>3. CASE j \in Rows(m) /\ k = last /\ m = n
    <3>1. CASE events[m].kind \in {"spike", "manual"}
      BY <1>5, <2>3, <3>1 DEF ComesOnce, AllHold, TimelineInv
    <3>2. CASE Recognised(events[m])
      <4>1. requests[r].seen < j
        BY <1>5, <2>3, <3>2 DEF LookedBefore, AllHold, TimelineInv
      <4> QED BY <1>1, <1>2, <2>3, <4>1
    <3>3. events[m].kind \in {"pr", "push", "run", "issue", "spike", "manual"} BY <1>3
    <3> QED BY <3>1, <3>2, <3>3 DEF Recognised
  <2>4. CASE j = last /\ k = last BY <1>3, <2>4 DEF last
  <2> QED BY <1>7, <2>1, <2>2, <2>3, <2>4
<1> QED BY <1>11, <1>12, <1>13, <1>14, <1>15, <1>16

LEMMA TimelineSteps == AllHold /\ [TimelineStep]_timelineVars => AllHold'
<1> SUFFICES ASSUME AllHold, [TimelineStep]_timelineVars PROVE AllHold' OBVIOUS
<1>1. TimelineTypeOK' BY TimelineTypes DEF AllHold, TimelineInv
<1> DEFINE Others == /\ CreatedOnce' /\ IdsFit' /\ LookedBefore' /\ ComesOnce'
                     /\ NothingMissing' /\ NothingTwice'
<1>2. ASSUME NEW k \in DOMAIN timeline, DeleteEvent(k) PROVE Others
  BY <1>2, Deletes, AfterOthers DEF AllHold, TimelineInv
<1>3. ASSUME NEW r \in Request, FailEvent(r) PROVE Others
  <2>1. /\ requests' = [requests EXCEPT ![r] = IdleRequest]
        /\ lost' = lost \cup {requests[r].of}
        /\ UNCHANGED <<events, pending, timeline>>
    BY <1>3 DEF FailEvent
  <2>2. requests \in [Request -> {IdleRequest} \cup Inserting]
    BY DEF AllHold, TimelineInv, TimelineTypeOK
  <2>3. \A q \in Request : \/ requests'[q] = requests[q]
                           \/ requests'[q].pc = "idle" /\ requests[q].of \in lost'
    BY <2>1, <2>2 DEF IdleRequest
  <2> QED BY <2>1, <2>3, AfterOthers
<1>4. ASSUME NEW r \in Request, NEW n \in pending,
             GithubWebhook(r, n) \/ JiraWebhook(r, n) \/ WriteSpike(r, n)
      PROVE  Others
  <2>1. PICK id : LookedUp(r, n, id) BY <1>4, Lookups DEF AllHold, TimelineInv
  <2> QED BY <2>1, AfterLookup
<1>5. ASSUME Pass PROVE Others
  BY <1>5, AfterOthers DEF Pass
<1>6. ASSUME UNCHANGED timelineVars PROVE Others
  BY <1>6, AfterOthers DEF timelineVars
<1>7. Others
  BY <1>2, <1>3, <1>4, <1>5, <1>6, AfterHappen, AfterManual, AfterInsert
     DEF TimelineStep
<1> QED BY <1>1, <1>7 DEF AllHold, TimelineInv

(* TimelineHolds: what was delivered and is meant for the timeline is there *)
(* once, but for the explained cases, for any number of requests that       *)
(* overlap, fail and repeat, of events, and for any window.                 *)
THEOREM TimelineHolds ==
  TimelineInit /\ [][TimelineStep]_timelineVars => []TimelineExplained
<1>1. TimelineInit => AllHold BY TimelineInitially DEF AllHold
<1>2. AllHold => TimelineExplained BY DEF AllHold, TimelineExplained
<1> QED BY <1>1, <1>2, TimelineSteps, PTL
-----------------------------------------------------------------------------
(* Membership                                                               *)
(*                                                                          *)
(* A request that will add a row looked when no row of its user was there,  *)
(* so that every row it does not know of is younger than its look; and a    *)
(* request that redeems an invite has a row to redeem it for.               *)

(* The request will add a row of its user.                                  *)
Provisioning(r) ==
  inflight[r].pc = "insert" \/ (inflight[r].pc = "sso" /\ inflight[r].row = 0)

(* A user of an SSO login has the email of that login.                      *)
EmailKnown ==
  \A i \in DOMAIN users :
    users[i].ext.via = "sso" => users[i].email = users[i].ext.person

(* The rows of the user that a request will add are younger than its look.  *)
NotYetThere ==
  \A r \in Call :
    Provisioning(r) =>
      /\ inflight[r].seen <= Len(users)
      /\ \A i \in Live : users[i].ext = inflight[r].login => inflight[r].seen < i

TwinsInv == EmailKnown /\ NotYetThere /\ TwinsOverlap

(* Who redeems an invite has a row, be it a deleted one.                    *)
RedeemerHasRow ==
  \A r \in Call :
    inflight[r].pc = "redeem" => \E i \in DOMAIN users : users[i].ext = inflight[r].login

RedeemInv == RedeemerHasRow /\ RedeemedIsMember

-----------------------------------------------------------------------------
(* Sequences and records                                                    *)

LEMMA AppendEffect ==
  ASSUME NEW S, NEW s \in Seq(S), NEW e \in S
  PROVE  /\ Append(s, e) \in Seq(S)
         /\ Len(Append(s, e)) = Len(s) + 1
         /\ DOMAIN Append(s, e) = DOMAIN s \cup {Len(s) + 1}
         /\ Len(s) + 1 \notin DOMAIN s
         /\ Append(s, e)[Len(s) + 1] = e
         /\ \A i \in DOMAIN s : Append(s, e)[i] = s[i]
OBVIOUS

LEMMA ReplaceEffect ==
  ASSUME NEW S, NEW s \in Seq(S), NEW i \in DOMAIN s, NEW e \in S
  PROVE  /\ [s EXCEPT ![i] = e] \in Seq(S)
         /\ Len([s EXCEPT ![i] = e]) = Len(s)
         /\ DOMAIN [s EXCEPT ![i] = e] = DOMAIN s
         /\ [s EXCEPT ![i] = e][i] = e
         /\ \A j \in DOMAIN s : j # i => [s EXCEPT ![i] = e][j] = s[j]
OBVIOUS

LEMMA Positions ==
  ASSUME NEW S, NEW s \in Seq(S)
  PROVE  Len(s) \in Nat /\ DOMAIN s = 1 .. Len(s)
OBVIOUS

LEMMA InviteRewritten ==
  ASSUME NEW invite \in Invite, NEW state \in {"pending", "accepted", "expired", "revoked"}
  PROVE  /\ [invite EXCEPT !.state = state] \in Invite
         /\ [invite EXCEPT !.state = state].redeemer = invite.redeemer
BY DEF Invite

LEMMA InviteAccepted ==
  ASSUME NEW invite \in Invite, NEW login \in Login
  PROVE  LET new == [invite EXCEPT !.state = "accepted", !.redeemer = {login}] IN
         new \in Invite /\ new.redeemer = {login}
BY DEF Invite

(* The kinds of request.                                                    *)
LEMMA InsertRequest ==
  ASSUME MembershipTypeOK, NEW r \in Call, inflight[r].pc = "insert"
  PROVE  inflight[r] \in [pc : {"insert"}, login : Login, role : Role, seen : Nat,
                          invite : Nat, redeeming : BOOLEAN]
BY DEF MembershipTypeOK, Ongoing, Idle

LEMMA RedeemRequest ==
  ASSUME MembershipTypeOK, NEW r \in Call, inflight[r].pc = "redeem"
  PROVE  inflight[r] \in [pc : {"redeem"}, login : Login, invite : Nat]
         /\ inflight[r].invite \in DOMAIN invites
BY DEF MembershipTypeOK, Ongoing, Idle

LEMMA SsoRequest ==
  ASSUME MembershipTypeOK, NEW r \in Call, inflight[r].pc = "sso"
  PROVE  inflight[r] \in [pc : {"sso"}, login : Login, role : Role, row : Nat, seen : Nat]
BY DEF MembershipTypeOK, Ongoing, Idle

LEMMA IdleType == Idle \in Ongoing /\ Idle.pc = "idle"
  BY DEF Idle, Ongoing

-----------------------------------------------------------------------------
(* What the steps do to the rows                                            *)

(* Rows keep their user and when it was looked for, and none comes back; an *)
(* email becomes that of the user.                                          *)
Keeps(row, old) ==
  /\ row.ext = old.ext /\ row.seen = old.seen
  /\ row.gone = FALSE => old.gone = FALSE
  /\ row.email \in {old.email, old.ext.person}

RowRewritten ==
  /\ users' \in Seq(User) /\ Len(users') = Len(users) /\ DOMAIN users' = DOMAIN users
  /\ \A i \in DOMAIN users : Keeps(users'[i], users[i])

(* Request r adds the row it was to add.                                    *)
Added(r) ==
  /\ Provisioning(r)
  /\ \E row \in User :
       /\ users' = Append(users, row)
       /\ row.ext = inflight[r].login /\ row.seen = inflight[r].seen
       /\ row.email = EmailOf(inflight[r].login)

LEMMA RowType ==
  ASSUME MembershipTypeOK, NEW i \in DOMAIN users
  PROVE  users[i] \in User
BY DEF MembershipTypeOK

LEMMA RoleRewritten ==
  ASSUME NEW old \in User, NEW role \in Role
  PROVE  /\ [old EXCEPT !.role = role] \in User
         /\ Keeps([old EXCEPT !.role = role], old)
BY DEF User, Keeps

LEMMA EmailRewritten ==
  ASSUME NEW old \in User
  PROVE  LET row == [old EXCEPT !.email = old.ext.person] IN
         row \in User /\ Keeps(row, old) /\ row.role = old.role /\ row.gone = old.gone
BY DEF User, Keeps, Login

LEMMA RowDeleted ==
  ASSUME NEW old \in User
  PROVE  [old EXCEPT !.gone = TRUE] \in User /\ Keeps([old EXCEPT !.gone = TRUE], old)
BY DEF User, Keeps

LEMMA RewrittenBy ==
  ASSUME MembershipTypeOK, NEW i \in DOMAIN users, NEW row \in User, Keeps(row, users[i]),
         users' = [users EXCEPT ![i] = row]
  PROVE  RowRewritten
<1>1. /\ users' \in Seq(User) /\ Len(users') = Len(users) /\ DOMAIN users' = DOMAIN users
      /\ users'[i] = row /\ \A j \in DOMAIN users : j # i => users'[j] = users[j]
  BY ReplaceEffect DEF MembershipTypeOK
<1>2. QED
  BY <1>1 DEF RowRewritten, Keeps

LEMMA SameRows ==
  ASSUME MembershipTypeOK, users' = users
  PROVE  RowRewritten
BY DEF MembershipTypeOK, RowRewritten, Keeps

LEMMA RoleSet ==
  ASSUME MembershipTypeOK, NEW i \in DOMAIN users, NEW role \in Role, users' = SetRoleOf(i, role)
  PROVE  /\ RowRewritten
         /\ users' = [users EXCEPT ![i] = [users[i] EXCEPT !.role = role]]
<1>1. users' = [users EXCEPT ![i] = [users[i] EXCEPT !.role = role]]
  BY DEF SetRoleOf
<1>2. [users[i] EXCEPT !.role = role] \in User /\ Keeps([users[i] EXCEPT !.role = role], users[i])
  BY RowType, RoleRewritten
<1>3. QED
  BY <1>1, <1>2, RewrittenBy

LEMMA RowAdded ==
  ASSUME MembershipTypeOK, NEW login \in Login, NEW role \in Role, NEW seen \in Nat, NEW invite \in Nat,
         users' = NewRow(login, role, seen, invite)
  PROVE  \E row \in User :
           /\ users' = Append(users, row)
           /\ row.ext = login /\ row.seen = seen /\ row.email = EmailOf(login)
<1> DEFINE row == [ext |-> login, email |-> EmailOf(login), role |-> role,
                   seen |-> seen, invite |-> invite, gone |-> FALSE]
<1>1. EmailOf(login) \in Person \cup {Unknown}
  BY DEF EmailOf, Login
<1>2. row \in User
  BY <1>1 DEF User
<1>3. users' = Append(users, row)
  BY DEF NewRow
<1>4. QED
  BY <1>2, <1>3

(* Every step rewrites rows, or is that of a request that adds one.         *)
LEMMA InsertEffect ==
  ASSUME MembershipTypeOK, NEW r \in Call, Insert(r)
  PROVE  /\ inflight[r].pc = "insert" /\ invites' = invites
         /\ \/ Added(r)
            \/ RowRewritten /\ users' = users /\ \E i \in Live : users[i].ext = inflight[r].login
         /\ \/ inflight[r].redeeming = FALSE /\ inflight' = [inflight EXCEPT ![r] = Idle]
            \/ LET q == [pc |-> "redeem", login |-> inflight[r].login,
                         invite |-> inflight[r].invite] IN
               /\ q \in Ongoing /\ q.invite \in DOMAIN invites
               /\ inflight' = [inflight EXCEPT ![r] = q]
<1> DEFINE q == inflight[r]
<1>1. /\ q.pc = "insert" /\ q.login \in Login /\ q.role \in Role /\ q.seen \in Nat
      /\ q.invite \in Nat /\ q.redeeming \in BOOLEAN
  BY InsertRequest DEF Insert
<1>2. \/ Added(r)
      \/ RowRewritten /\ users' = users /\ \E i \in Live : users[i].ext = q.login
  <2>1. CASE CanInsert(q.login)
    <3>1. users' = NewRow(q.login, q.role, q.seen, q.invite)
      BY <2>1 DEF Insert
    <3>2. QED
      BY <1>1, <3>1, RowAdded DEF Added, Provisioning
  <2>2. CASE ~CanInsert(q.login)
    <3>1. users' = users /\ RowsOf(q.login) # {}
      BY <2>2 DEF Insert, CanInsert
    <3>2. QED
      BY <3>1, SameRows DEF RowsOf
  <2>3. QED
    BY <2>1, <2>2
<1>3. CASE q.redeeming = TRUE
  <2> DEFINE new == [pc |-> "redeem", login |-> q.login, invite |-> q.invite]
  <2>1. inflight' = [inflight EXCEPT ![r] = new]
    BY <1>3 DEF Insert, Proceed
  <2>2. new \in Ongoing
    BY <1>1 DEF Ongoing
  <2>3. new.invite \in DOMAIN invites
    BY <1>1, <1>3 DEF MembershipTypeOK
  <2>4. QED
    BY <1>1, <1>2, <2>1, <2>2, <2>3 DEF Insert
<1>4. CASE q.redeeming = FALSE
  BY <1>1, <1>2, <1>4 DEF Insert, Proceed
<1>5. QED
  BY <1>1, <1>3, <1>4

LEMMA RedeemEffect ==
  ASSUME MembershipTypeOK, NEW r \in Call, Redeem(r)
  PROVE  /\ inflight[r].pc = "redeem" /\ inflight' = [inflight EXCEPT ![r] = Idle]
         /\ RowRewritten
         /\ \/ invites' = invites
            \/ \E invite \in Invite :
                 /\ inflight[r].invite \in DOMAIN invites
                 /\ invites' = [invites EXCEPT ![inflight[r].invite] = invite]
                 /\ invite.redeemer = {inflight[r].login}
<1> DEFINE q == inflight[r]
           found == RowsOf(q.login)
           role == invites[q.invite].role
           invite == [invites[q.invite] EXCEPT !.state = "accepted", !.redeemer = {q.login}]
<1>1. q.pc = "redeem" /\ q.invite \in DOMAIN invites /\ q.login \in Login
  BY RedeemRequest DEF Redeem
<1>2. invites[q.invite] \in Invite
  BY <1>1 DEF MembershipTypeOK
<1>3. invite \in Invite /\ invite.redeemer = {q.login}
  BY <1>1, <1>2, InviteAccepted
<1>4. CASE Waiting(q.invite) /\ Cardinality(found) <= 1
  <2>1. users' = [k \in DOMAIN users |->
          IF k \in found THEN [users[k] EXCEPT !.role = role] ELSE users[k]]
    BY <1>4 DEF Redeem
  <2>2. role \in Role
    BY <1>2 DEF Invite, Role
  <2> HIDE DEF found, role
  <2>3. \A k \in DOMAIN users : users'[k] \in User /\ Keeps(users'[k], users[k])
    <3> SUFFICES ASSUME NEW k \in DOMAIN users
                 PROVE  users'[k] \in User /\ Keeps(users'[k], users[k])
      OBVIOUS
    <3>1. users[k] \in User /\ Keeps(users[k], users[k])
      BY RowType DEF Keeps
    <3>2. [users[k] EXCEPT !.role = role] \in User
          /\ Keeps([users[k] EXCEPT !.role = role], users[k])
      BY <2>2, <3>1, RoleRewritten
    <3>3. QED
      BY <2>1, <3>1, <3>2
  <2>4. DOMAIN users = 1 .. Len(users) /\ Len(users) \in Nat
    BY Positions DEF MembershipTypeOK
  <2>5. users' \in Seq(User) /\ Len(users') = Len(users) /\ DOMAIN users' = DOMAIN users
    BY <2>1, <2>3, <2>4
  <2>6. RowRewritten
    BY <2>3, <2>5 DEF RowRewritten
  <2>7. invites' = [invites EXCEPT ![q.invite] = invite]
    BY <1>4 DEF Redeem, found
  <2>8. inflight' = [inflight EXCEPT ![r] = Idle]
    BY DEF Redeem, Proceed
  <2> HIDE DEF invite
  <2>9. QED
    BY <1>1, <1>3, <2>6, <2>7, <2>8
<1>5. CASE ~(Waiting(q.invite) /\ Cardinality(found) <= 1)
  BY <1>1, <1>5, SameRows DEF Redeem, Proceed
<1>6. QED
  BY <1>4, <1>5

LEMMA SsoCommitEffect ==
  ASSUME MembershipTypeOK, NEW r \in Call, SsoCommit(r)
  PROVE  /\ inflight[r].pc = "sso" /\ inflight' = [inflight EXCEPT ![r] = Idle]
         /\ Added(r) \/ RowRewritten
         /\ inflight[r].login.person \in Person
<1> DEFINE q == inflight[r]
<1>1. /\ q.pc = "sso" /\ q.login \in Login /\ q.role \in Role /\ q.seen \in Nat
      /\ inflight' = [inflight EXCEPT ![r] = Idle] /\ q.login.person \in Person
  BY SsoRequest DEF SsoCommit, Proceed, Login
<1>2. CASE q.row \in Live /\ users' = SetRoleOf(q.row, q.role)
  BY <1>1, <1>2, RoleSet DEF Live
<1>3. CASE q.row = 0 /\ users' = NewRow(q.login, q.role, q.seen, 0)
  BY <1>1, <1>3, RowAdded DEF Added, Provisioning
<1>4. QED
  BY <1>1, <1>2, <1>3 DEF SsoCommit

LEMMA SetRoleEffect ==
  ASSUME MembershipTypeOK, NEW r \in Call, SetRole(r)
  PROVE  RowRewritten /\ inflight' = [inflight EXCEPT ![r] = Idle]
<1>1. PICK i \in Live, role \in Role : users' = SetRoleOf(i, role)
  BY DEF SetRole
<1>2. QED
  BY <1>1, RoleSet DEF SetRole, Proceed, Live

LEMMA RefreshEmailEffect ==
  ASSUME MembershipTypeOK, NEW login \in Login, RefreshEmail(login)
  PROVE  /\ RowRewritten
         /\ \A i \in DOMAIN users :
              users'[i].role = users[i].role /\ users'[i].gone = users[i].gone
<1>1. PICK i \in Live : /\ RowsOf(login) = {i}
                        /\ users' = [users EXCEPT ![i].email = login.person]
  BY DEF RefreshEmail
<1>2. i \in DOMAIN users /\ users[i].ext = login /\ users[i] \in User
  BY <1>1, RowType DEF RowsOf, Live
<1> DEFINE row == [users[i] EXCEPT !.email = users[i].ext.person]
<1>3. users' = [users EXCEPT ![i] = row]
  BY <1>1, <1>2
<1>4. row \in User /\ Keeps(row, users[i]) /\ row.role = users[i].role /\ row.gone = users[i].gone
  BY <1>2, EmailRewritten
<1> HIDE DEF row
<1>5. users'[i] = row /\ \A j \in DOMAIN users : j # i => users'[j] = users[j]
  BY <1>2, <1>3, <1>4, ReplaceEffect DEF MembershipTypeOK
<1>6. QED
  BY <1>2, <1>3, <1>4, <1>5, RewrittenBy

LEMMA ScimDeleteEffect ==
  ASSUME MembershipTypeOK, NEW i \in Live, ScimDelete(i)
  PROVE  RowRewritten
<1>1. i \in DOMAIN users /\ users[i] \in User
  BY RowType DEF Live
<1>2. users' = [users EXCEPT ![i] = [users[i] EXCEPT !.gone = TRUE]]
  BY DEF ScimDelete
<1>3. QED
  BY <1>1, <1>2, RowDeleted, RewrittenBy

-----------------------------------------------------------------------------
(* Types                                                                    *)

LEMMA MembershipTyped == MembershipInit => MembershipTypeOK
  BY DEF MembershipInit, MembershipTypeOK, Ongoing, Idle

LEMMA UsersType ==
  ASSUME MembershipTypeOK, RowRewritten \/ \E r \in Call : Added(r)
  PROVE  users' \in Seq(User) /\ DOMAIN users \subseteq DOMAIN users'
<1>1. CASE RowRewritten
  BY <1>1 DEF RowRewritten
<1>2. CASE \E r \in Call : Added(r)
  BY <1>2, AppendEffect DEF Added, MembershipTypeOK
<1>3. QED
  BY <1>1, <1>2

(* What the invite and the row of a request must be.                        *)
Refers(q, is, us) ==
  /\ q.pc = "redeem" => q.invite \in is
  /\ q.pc = "insert" /\ q.redeeming => q.invite \in is
  /\ q.pc = "sso" => q.row \in {0} \cup us

LEMMA MembershipTypeStep ==
  ASSUME MembershipTypeOK, NEW r \in Call, NEW q \in Ongoing, inflight' = [inflight EXCEPT ![r] = q],
         Refers(q, DOMAIN invites', DOMAIN users'),
         users' \in Seq(User), DOMAIN users \subseteq DOMAIN users',
         invites' \in Seq(Invite), DOMAIN invites \subseteq DOMAIN invites',
         allowed' \subseteq Domain, sessions' \subseteq Person,
         deposed' \subseteq {"stale", "fresh", "redeem", "sso", "scim"}, turns' \in Nat
  PROVE  MembershipTypeOK'
<1>1. inflight' \in [Call -> Ongoing]
  BY DEF MembershipTypeOK
<1>2. \A s \in Call : Refers(inflight'[s], DOMAIN invites', DOMAIN users')
  <2> SUFFICES ASSUME NEW s \in Call
               PROVE  Refers(inflight'[s], DOMAIN invites', DOMAIN users')
    OBVIOUS
  <2>1. CASE s = r
    BY <2>1 DEF MembershipTypeOK
  <2>2. CASE s # r
    <3>1. inflight'[s] = inflight[s]
      BY <2>2 DEF MembershipTypeOK
    <3>2. Refers(inflight[s], DOMAIN invites, DOMAIN users)
      BY DEF MembershipTypeOK, Refers
    <3>3. QED
      BY <3>1, <3>2 DEF Refers
  <2>3. QED
    BY <2>1, <2>2
<1>3. QED
  BY <1>1, <1>2 DEF MembershipTypeOK, Refers

LEMMA DeposeType ==
  ASSUME MembershipTypeOK, NEW how \in {"stale", "fresh", "redeem", "sso", "scim"}, Depose(how)
  PROVE  deposed' \subseteq {"stale", "fresh", "redeem", "sso", "scim"}
BY DEF MembershipTypeOK, Depose

(* A step of no request.                                                    *)
LEMMA TypeStay ==
  ASSUME MembershipTypeOK, inflight' = inflight,
         users' \in Seq(User), DOMAIN users' = DOMAIN users,
         invites' \in Seq(Invite), DOMAIN invites' = DOMAIN invites,
         allowed' \subseteq Domain, sessions' \subseteq Person,
         deposed' \subseteq {"stale", "fresh", "redeem", "sso", "scim"}, turns' \in Nat
  PROVE  MembershipTypeOK'
BY DEF MembershipTypeOK

(* What a request reads before it writes.                                   *)
LEMMA ApplyEffect ==
  ASSUME MembershipTypeOK, NEW r \in Call, NEW login \in Login, Enrol(r, login)
  PROVE  \E q \in Ongoing :
           /\ inflight' = [inflight EXCEPT ![r] = q]
           /\ q.pc = "insert" /\ q.login = login /\ q.seen = Len(users)
           /\ q.redeeming = FALSE /\ RowsOf(login) = {}
<1> DEFINE role == IF Live = {} \/ Admins = {} THEN "admin" ELSE "member"
           q == [pc |-> "insert", login |-> login, role |-> role, seen |-> Len(users),
                 invite |-> 0, redeeming |-> FALSE]
<1>1. inflight' = [inflight EXCEPT ![r] = q] /\ RowsOf(login) = {}
  BY DEF Enrol, Proceed
<1>2. role \in Role /\ Len(users) \in Nat
  BY DEF Role, MembershipTypeOK
<1> HIDE DEF role
<1>3. q \in Ongoing
  BY <1>2 DEF Ongoing
<1>4. QED
  BY <1>1, <1>3

LEMMA OpenInviteEffect ==
  ASSUME MembershipTypeOK, NEW r \in Call, NEW login \in Login, NEW i \in DOMAIN invites,
         OpenInvite(r, login, i)
  PROVE  \E q \in Ongoing :
           /\ inflight' = [inflight EXCEPT ![r] = q]
           /\ q.login = login /\ q.invite = i
           /\ \/ q.pc = "insert" /\ q.seen = Len(users) /\ RowsOf(login) = {}
              \/ q.pc = "redeem" /\ RowsOf(login) # {}
<1> DEFINE new == [pc |-> "insert", login |-> login, role |-> invites[i].role,
                   seen |-> Len(users), invite |-> i, redeeming |-> TRUE]
           known == [pc |-> "redeem", login |-> login, invite |-> i]
<1>1. invites[i] \in Invite /\ i \in Nat /\ Len(users) \in Nat
  BY DEF MembershipTypeOK
<1>2. new \in Ongoing
  BY <1>1 DEF Invite, Ongoing, Role
<1>3. known \in Ongoing
  BY <1>1 DEF Ongoing
<1>4. CASE RowsOf(login) = {}
  <2>1. inflight' = [inflight EXCEPT ![r] = new]
    BY <1>4 DEF OpenInvite, Proceed
  <2>2. QED
    BY <1>2, <1>4, <2>1
<1>5. CASE RowsOf(login) # {}
  <2>1. inflight' = [inflight EXCEPT ![r] = known]
    BY <1>5 DEF OpenInvite, Proceed
  <2>2. QED
    BY <1>3, <1>5, <2>1
<1>6. QED
  BY <1>4, <1>5

LEMMA SsoLookEffect ==
  ASSUME MembershipTypeOK, NEW r \in Call, NEW p \in Person, SsoLook(r, p)
  PROVE  \E q \in Ongoing :
           /\ inflight' = [inflight EXCEPT ![r] = q]
           /\ q.pc = "sso" /\ q.login = [person |-> p, via |-> "sso"]
           /\ q.seen = Len(users) /\ q.row \in {0} \cup DOMAIN users
           /\ q.row = 0 => RowsByEmail(p) = {}
<1> DEFINE found == RowsByEmail(p)
           row == IF found = {} THEN 0 ELSE CHOOSE i \in found : TRUE
           login == [person |-> p, via |-> "sso"]
<1>1. PICK role \in Role :
        inflight' = [inflight EXCEPT ![r] = [pc |-> "sso", login |-> login, role |-> role,
                                             row |-> row, seen |-> Len(users)]]
  BY DEF SsoLook, Proceed
<1>2. \A i \in found : i \in DOMAIN users /\ i \in Nat /\ i # 0
  BY DEF RowsByEmail, Live, MembershipTypeOK
<1>3. row \in {0} \cup DOMAIN users /\ row \in Nat /\ (row = 0 => found = {})
  <2>1. CASE found = {}
    BY <2>1
  <2>2. CASE found # {}
    <3>1. row \in found
      BY <2>2
    <3>2. QED
      BY <1>2, <3>1
  <2>3. QED
    BY <2>1, <2>2
<1>4. Len(users) \in Nat /\ login \in Login
  BY DEF MembershipTypeOK, Login
<1> HIDE DEF row, login
<1>5. [pc |-> "sso", login |-> login, role |-> role, row |-> row, seen |-> Len(users)] \in Ongoing
  BY <1>3, <1>4 DEF Ongoing
<1>6. QED
  BY <1>1, <1>3, <1>5 DEF login

LEMMA MembershipTypes == MembershipTypeOK /\ [MembershipNext]_membershipVars => MembershipTypeOK'
<1> SUFFICES ASSUME MembershipTypeOK, [MembershipNext]_membershipVars PROVE MembershipTypeOK'
  OBVIOUS
<1>1. /\ users \in Seq(User) /\ invites \in Seq(Invite) /\ allowed \subseteq Domain
      /\ sessions \subseteq Person /\ turns \in Nat
      /\ deposed \subseteq {"stale", "fresh", "redeem", "sso", "scim"}
  BY DEF MembershipTypeOK
<1>2. CASE UNCHANGED membershipVars
  BY <1>1, <1>2, TypeStay DEF membershipVars
<1>3. ASSUME NEW r \in Call, NEW q \in Ongoing, inflight' = [inflight EXCEPT ![r] = q],
             q.pc \in {"idle", "admin"}
      PROVE  Refers(q, DOMAIN invites', DOMAIN users')
  BY <1>3 DEF Refers
<1>4. ASSUME NEW r \in Call, NEW login \in Login, Enrol(r, login) PROVE MembershipTypeOK'
  <2>1. PICK q \in Ongoing :
          /\ inflight' = [inflight EXCEPT ![r] = q]
          /\ q.pc = "insert" /\ q.redeeming = FALSE
    BY <1>4, ApplyEffect
  <2>2. UNCHANGED <<users, invites, allowed, sessions, deposed, turns>>
    BY <1>4 DEF Enrol
  <2>3. Refers(q, DOMAIN invites', DOMAIN users')
    BY <2>1 DEF Refers
  <2>4. QED
    BY <1>1, <2>1, <2>2, <2>3, MembershipTypeStep
<1>5. ASSUME NEW r \in Call, NEW login \in Login, EnterAdmin(r, login) PROVE MembershipTypeOK'
  <2> DEFINE q == [pc |-> "admin", login |-> login]
  <2>1. q \in Ongoing
    BY DEF Ongoing
  <2>2. /\ UNCHANGED <<users, invites, allowed, sessions, deposed>> /\ turns' \in Nat
        /\ inflight' = [inflight EXCEPT ![r] = q]
    BY <1>1, <1>5 DEF EnterAdmin, Edit, Proceed
  <2>3. q.pc = "admin"
    OBVIOUS
  <2> HIDE DEF q
  <2>4. QED
    BY <1>1, <1>3, <2>1, <2>2, <2>3, MembershipTypeStep
<1>6. ASSUME NEW r \in Call, NEW login \in Login, NEW i \in DOMAIN invites,
             OpenInvite(r, login, i)
      PROVE  MembershipTypeOK'
  <2>1. PICK q \in Ongoing :
          /\ inflight' = [inflight EXCEPT ![r] = q]
          /\ q.invite = i /\ q.pc \in {"insert", "redeem"}
    BY <1>6, OpenInviteEffect
  <2>2. UNCHANGED <<users, invites, allowed, sessions, deposed, turns>>
    BY <1>6 DEF OpenInvite
  <2>3. Refers(q, DOMAIN invites', DOMAIN users')
    BY <2>1, <2>2 DEF Refers
  <2>4. QED
    BY <1>1, <2>1, <2>2, <2>3, MembershipTypeStep
<1>7. ASSUME NEW r \in Call, Insert(r) PROVE MembershipTypeOK'
  <2>1. PICK q \in Ongoing :
          /\ inflight' = [inflight EXCEPT ![r] = q]
          /\ q.pc = "idle" \/ (q.pc = "redeem" /\ q.invite \in DOMAIN invites)
    BY <1>7, InsertEffect, IdleType
  <2>2. users' \in Seq(User) /\ DOMAIN users \subseteq DOMAIN users'
    BY <1>7, InsertEffect, UsersType
  <2>3. /\ UNCHANGED <<invites, allowed, sessions, turns>>
        /\ deposed' \subseteq {"stale", "fresh", "redeem", "sso", "scim"}
    BY <1>7, DeposeType DEF Insert
  <2>4. Refers(q, DOMAIN invites', DOMAIN users')
    BY <2>1, <2>3 DEF Refers
  <2>5. QED
    BY <1>1, <2>1, <2>2, <2>3, <2>4, MembershipTypeStep
<1>8. ASSUME NEW r \in Call, Redeem(r) PROVE MembershipTypeOK'
  <2>1. inflight' = [inflight EXCEPT ![r] = Idle] /\ RowRewritten
    BY <1>8, RedeemEffect
  <2>2. invites' \in Seq(Invite) /\ DOMAIN invites' = DOMAIN invites
    BY <1>1, <1>8, RedeemEffect, ReplaceEffect
  <2>3. /\ UNCHANGED <<allowed, sessions, turns>>
        /\ deposed' \subseteq {"stale", "fresh", "redeem", "sso", "scim"}
    BY <1>8, DeposeType DEF Redeem
  <2>4. QED
    BY <1>1, <1>3, <2>1, <2>2, <2>3, UsersType, IdleType, MembershipTypeStep
<1>9. ASSUME NEW r \in Call, SetRole(r) PROVE MembershipTypeOK'
  <2>1. inflight' = [inflight EXCEPT ![r] = Idle] /\ RowRewritten
    BY <1>9, SetRoleEffect
  <2>2. PICK how \in {"stale", "fresh"} : Depose(how)
    BY <1>9 DEF SetRole
  <2>3. /\ UNCHANGED <<invites, allowed, sessions, turns>>
        /\ deposed' \subseteq {"stale", "fresh", "redeem", "sso", "scim"}
    BY <1>9, <2>2, DeposeType DEF SetRole
  <2>4. QED
    BY <1>1, <1>3, <2>1, <2>3, UsersType, IdleType, MembershipTypeStep
<1>10. ASSUME NEW r \in Call, CreateInvite(r) \/ RevokeInvite(r) PROVE MembershipTypeOK'
  <2>1. /\ inflight' = [inflight EXCEPT ![r] = Idle]
        /\ UNCHANGED <<users, allowed, sessions, deposed, turns>>
    BY <1>10 DEF CreateInvite, RevokeInvite, Proceed
  <2>2. invites' \in Seq(Invite) /\ DOMAIN invites \subseteq DOMAIN invites'
    <3>1. CASE CreateInvite(r)
      <4>1. PICK p \in Person, role \in {"member", "admin"} :
              invites' = Append(invites, [for |-> p, role |-> role, redeemer |-> {},
                                          state |-> "pending"])
        BY <3>1 DEF CreateInvite
      <4>2. [for |-> p, role |-> role, redeemer |-> {}, state |-> "pending"] \in Invite
        BY DEF Invite, Role
      <4>3. QED
        BY <1>1, <4>1, <4>2, AppendEffect
    <3>2. CASE RevokeInvite(r)
      <4>1. PICK i \in DOMAIN invites :
              invites' = [invites EXCEPT ![i] = [invites[i] EXCEPT !.state = "revoked"]]
        BY <3>2 DEF RevokeInvite
      <4>2. [invites[i] EXCEPT !.state = "revoked"] \in Invite
        <5>1. invites[i] \in Invite
          BY <1>1
        <5>2. QED
          BY <5>1, InviteRewritten
      <4>3. QED
        BY <1>1, <4>1, <4>2, ReplaceEffect
    <3>3. QED
      BY <1>10, <3>1, <3>2
  <2>3. QED
    BY <1>1, <1>3, <2>1, <2>2, IdleType, MembershipTypeStep
<1>11. ASSUME NEW r \in Call, NEW p \in Person, SsoLook(r, p) PROVE MembershipTypeOK'
  <2>1. PICK q \in Ongoing :
          /\ inflight' = [inflight EXCEPT ![r] = q]
          /\ q.pc = "sso" /\ q.row \in {0} \cup DOMAIN users
    BY <1>11, SsoLookEffect
  <2>2. UNCHANGED <<users, invites, allowed, sessions, deposed>> /\ turns' \in Nat
    BY <1>1, <1>11 DEF SsoLook, Edit
  <2>3. Refers(q, DOMAIN invites', DOMAIN users')
    BY <2>1, <2>2 DEF Refers
  <2>4. QED
    BY <1>1, <2>1, <2>2, <2>3, MembershipTypeStep
<1>12. ASSUME NEW r \in Call, SsoCommit(r) PROVE MembershipTypeOK'
  <2>1. /\ inflight' = [inflight EXCEPT ![r] = Idle]
        /\ Added(r) \/ RowRewritten
        /\ inflight[r].login.person \in Person
    BY <1>12, SsoCommitEffect
  <2>2. /\ UNCHANGED <<invites, allowed, turns>> /\ sessions' \subseteq Person
        /\ deposed' \subseteq {"stale", "fresh", "redeem", "sso", "scim"}
    BY <1>1, <1>12, <2>1, DeposeType DEF SsoCommit
  <2>3. users' \in Seq(User) /\ DOMAIN users \subseteq DOMAIN users'
    BY <2>1, UsersType
  <2>4. inflight' = [inflight EXCEPT ![r] = Idle]
    BY <2>1
  <2>5. QED
    BY <1>1, <1>3, <2>2, <2>3, <2>4, IdleType, MembershipTypeStep
<1>13. ASSUME NEW r \in Call, Abort(r) PROVE MembershipTypeOK'
  <2>1. /\ inflight' = [inflight EXCEPT ![r] = Idle]
        /\ UNCHANGED <<users, invites, allowed, sessions, deposed, turns>>
    BY <1>13 DEF Abort, Proceed
  <2>2. QED
    BY <1>1, <1>3, <2>1, IdleType, MembershipTypeStep
<1>14. ASSUME NEW r \in Call, RequestStep(r) PROVE MembershipTypeOK'
  BY <1>4, <1>5, <1>6, <1>7, <1>8, <1>9, <1>10, <1>11, <1>12, <1>13, <1>14 DEF RequestStep
<1>15. ASSUME NEW login \in Login, RefreshEmail(login) PROVE MembershipTypeOK'
  <2>1. UNCHANGED <<invites, allowed, inflight, sessions, deposed>> /\ turns' \in Nat
    BY <1>1, <1>15 DEF RefreshEmail, Edit
  <2>2. RowRewritten
    BY <1>15, RefreshEmailEffect
  <2>3. QED
    BY <1>1, <2>1, <2>2, TypeStay DEF RowRewritten
<1>16. ASSUME NEW i \in Live, ScimDelete(i) PROVE MembershipTypeOK'
  <2>1. /\ UNCHANGED <<invites, allowed, inflight, sessions>> /\ turns' \in Nat
        /\ deposed' \subseteq {"stale", "fresh", "redeem", "sso", "scim"}
    BY <1>1, <1>16, DeposeType DEF ScimDelete, Edit
  <2>2. RowRewritten
    BY <1>16, ScimDeleteEffect
  <2>3. QED
    BY <1>1, <2>1, <2>2, TypeStay DEF RowRewritten
<1>17. ASSUME NEW i \in DOMAIN invites, ExpireInvite(i) PROVE MembershipTypeOK'
  <2>1. UNCHANGED <<users, allowed, inflight, sessions, deposed>> /\ turns' \in Nat
    BY <1>1, <1>17 DEF ExpireInvite, Edit
  <2>2. invites' = [invites EXCEPT ![i] = [invites[i] EXCEPT !.state = "expired"]]
    BY <1>17 DEF ExpireInvite
  <2>3. [invites[i] EXCEPT !.state = "expired"] \in Invite
    <3>1. invites[i] \in Invite
      BY <1>1
    <3>2. QED
      BY <3>1, InviteRewritten
  <2>4. QED
    BY <1>1, <2>1, <2>2, <2>3, ReplaceEffect, TypeStay
<1>18. CASE (\E p \in Person : ExpireSession(p)) \/ SetDomains
  <2>1. /\ UNCHANGED <<users, invites, inflight, deposed>> /\ turns' \in Nat
        /\ allowed' \subseteq Domain /\ sessions' \subseteq Person
    BY <1>1, <1>18 DEF ExpireSession, SetDomains, Edit
  <2>2. QED
    BY <1>1, <2>1, TypeStay
<1>19. QED
  BY <1>2, <1>14, <1>15, <1>16, <1>17, <1>18 DEF MembershipNext

(* The rows, invites and requests keep their types; a request redeems an    *)
(* invite that exists.                                                      *)
THEOREM MembershipTypeCorrect == MembershipSpec => []MembershipTypeOK
  BY MembershipTyped, MembershipTypes, PTL DEF MembershipSpec

-----------------------------------------------------------------------------
(* The rows of one user                                                     *)

LEMMA LiveKept ==
  ASSUME MembershipTypeOK, RowRewritten
  PROVE  Live' \subseteq Live
<1> SUFFICES ASSUME NEW i \in DOMAIN users', ~users'[i].gone PROVE ~users[i].gone
  BY DEF Live, RowRewritten
<1>1. users'[i] \in User /\ users[i] \in User /\ Keeps(users'[i], users[i])
  BY DEF MembershipTypeOK, RowRewritten
<1>2. QED
  BY <1>1 DEF User, Keeps

LEMMA TwinsInit == MembershipInit => TwinsInv
  BY DEF MembershipInit, Idle, TwinsInv, EmailKnown, NotYetThere, Provisioning, TwinsOverlap

(* The request looks for its user now, and finds no row.                    *)
Looked(r) ==
  /\ users' = users
  /\ inflight'[r].seen = Len(users)
  /\ \A i \in Live : users[i].ext # inflight'[r].login

LEMMA TwinsStep ==
  ASSUME MembershipTypeOK, TwinsInv, RowRewritten \/ \E r \in Call : Added(r),
         \A r \in Call : Provisioning(r)' => inflight'[r] = inflight[r] \/ Looked(r)
  PROVE  TwinsInv'
<1>1. users \in Seq(User) /\ Len(users) \in Nat /\ DOMAIN users = 1 .. Len(users)
  BY Positions DEF MembershipTypeOK
<1>2. CASE RowRewritten
  <2>1. /\ Len(users') = Len(users) /\ DOMAIN users' = DOMAIN users /\ Live' \subseteq Live
        /\ \A i \in DOMAIN users : Keeps(users'[i], users[i])
    BY <1>2, LiveKept DEF RowRewritten
  <2>2. Live \subseteq DOMAIN users
    BY DEF Live
  <2>3. EmailKnown'
    BY <2>1 DEF TwinsInv, EmailKnown, Keeps
  <2>4. NotYetThere'
    <3> SUFFICES ASSUME NEW r \in Call, Provisioning(r)'
                 PROVE  /\ inflight'[r].seen <= Len(users')
                        /\ \A i \in Live' :
                             users'[i].ext = inflight'[r].login => inflight'[r].seen < i
      BY DEF NotYetThere
    <3>1. CASE inflight'[r] = inflight[r]
      <4>1. Provisioning(r)
        BY <3>1 DEF Provisioning
      <4>2. QED
        BY <2>1, <2>2, <3>1, <4>1 DEF TwinsInv, NotYetThere, Keeps
    <3>2. CASE Looked(r)
      BY <1>1, <2>1, <3>2 DEF Looked
    <3>3. QED
      BY <3>1, <3>2
  <2>5. TwinsOverlap'
    <3> SUFFICES ASSUME NEW i \in Live', NEW j \in Live', i < j, users'[i].ext = users'[j].ext
                 PROVE  users'[j].seen < i
      BY DEF TwinsOverlap, Live
    <3>1. i \in Live /\ j \in Live /\ users[i].ext = users[j].ext /\ users'[j].seen = users[j].seen
      BY <2>1, <2>2 DEF Keeps
    <3>2. QED
      BY <3>1 DEF TwinsInv, TwinsOverlap, Live
  <2>6. QED
    BY <2>3, <2>4, <2>5 DEF TwinsInv
<1>3. CASE \E k \in Call : Added(k)
  <2>1. PICK k \in Call, row \in User :
          /\ Provisioning(k)
          /\ users' = Append(users, row)
          /\ row.ext = inflight[k].login /\ row.seen = inflight[k].seen
          /\ row.email = EmailOf(inflight[k].login)
    BY <1>3 DEF Added
  <2> DEFINE n == Len(users) + 1
  <2>2. /\ DOMAIN users' = DOMAIN users \cup {n} /\ Len(users') = n
        /\ users'[n] = row /\ \A i \in DOMAIN users : users'[i] = users[i]
    BY <1>1, <2>1, AppendEffect
  <2>3. Live' \subseteq Live \cup {n} /\ Live \subseteq DOMAIN users /\ n \notin DOMAIN users
    BY <1>1, <2>2 DEF Live
  <2>4. EmailKnown'
    <3>1. row.ext.via = "sso" => row.email = row.ext.person
      BY <2>1 DEF EmailOf
    <3>2. QED
      BY <2>2, <3>1 DEF TwinsInv, EmailKnown
  <2>5. NotYetThere'
    <3> SUFFICES ASSUME NEW r \in Call, Provisioning(r)'
                 PROVE  /\ inflight'[r].seen <= Len(users')
                        /\ \A i \in Live' :
                             users'[i].ext = inflight'[r].login => inflight'[r].seen < i
      BY DEF NotYetThere
    <3>1. users' # users
      BY <1>1, <2>2
    <3>2. inflight'[r] = inflight[r] /\ Provisioning(r)
      BY <3>1 DEF Looked, Provisioning
    <3>3. /\ inflight[r].seen <= Len(users)
          /\ \A i \in Live : users[i].ext = inflight[r].login => inflight[r].seen < i
      BY <3>2 DEF TwinsInv, NotYetThere
    <3>4. inflight[r].seen \in Nat
      BY <3>2, InsertRequest, SsoRequest DEF Provisioning
    <3>5. QED
      BY <1>1, <2>2, <2>3, <3>2, <3>3, <3>4
  <2>6. TwinsOverlap'
    <3> SUFFICES ASSUME NEW i \in Live', NEW j \in Live', i < j, users'[i].ext = users'[j].ext
                 PROVE  users'[j].seen < i
      BY DEF TwinsOverlap, Live
    <3>1. i \in DOMAIN users' /\ j \in DOMAIN users'
      BY DEF Live
    <3>2. i \in Live /\ users'[i] = users[i]
      BY <1>1, <2>2, <2>3, <3>1
    <3>3. CASE j = n
      BY <2>1, <2>2, <3>2, <3>3 DEF TwinsInv, NotYetThere
    <3>4. CASE j # n
      <4>1. j \in Live /\ users'[j] = users[j]
        BY <2>2, <2>3, <3>4
      <4>2. QED
        BY <3>2, <4>1 DEF TwinsInv, TwinsOverlap, Live
    <3>5. QED
      BY <3>3, <3>4
  <2>7. QED
    BY <2>4, <2>5, <2>6 DEF TwinsInv
<1>4. QED
  BY <1>2, <1>3

LEMMA OthersRequests ==
  ASSUME MembershipTypeOK, NEW r \in Call, NEW q, inflight' = [inflight EXCEPT ![r] = q]
  PROVE  inflight'[r] = q /\ \A s \in Call \ {r} : inflight'[s] = inflight[s]
BY DEF MembershipTypeOK

(* The steps of requests: what becomes of the rows, and which request will  *)
(* add one from then on.                                                    *)
LEMMA TwinsRequests ==
  ASSUME MembershipTypeOK, TwinsInv, NEW r \in Call, RequestStep(r)
  PROVE  TwinsInv'
<1>1. ASSUME RowRewritten \/ Added(r), NEW q, inflight' = [inflight EXCEPT ![r] = q],
             q.pc \notin {"insert", "sso"} \/ Looked(r)
      PROVE  TwinsInv'
  <2>1. inflight'[r] = q /\ \A s \in Call \ {r} : inflight'[s] = inflight[s]
    BY <1>1, OthersRequests
  <2>2. \A s \in Call : Provisioning(s)' => inflight'[s] = inflight[s] \/ Looked(s)
    BY <1>1, <2>1 DEF Provisioning
  <2>3. RowRewritten \/ \E s \in Call : Added(s)
    BY <1>1
  <2>4. QED
    BY <2>2, <2>3, TwinsStep
<1>2. ASSUME NEW login \in Login, Enrol(r, login) PROVE TwinsInv'
  <2>1. PICK q \in Ongoing :
          /\ inflight' = [inflight EXCEPT ![r] = q]
          /\ q.login = login /\ q.seen = Len(users) /\ RowsOf(login) = {}
    BY <1>2, ApplyEffect
  <2>2. users' = users
    BY <1>2 DEF Enrol
  <2>3. Looked(r)
    BY <2>1, <2>2, OthersRequests DEF Looked, RowsOf
  <2>4. QED
    BY <1>1, <2>1, <2>2, <2>3, SameRows
<1>3. ASSUME NEW login \in Login, NEW i \in DOMAIN invites, OpenInvite(r, login, i)
      PROVE  TwinsInv'
  <2>1. PICK q \in Ongoing :
          /\ inflight' = [inflight EXCEPT ![r] = q]
          /\ q.login = login
          /\ \/ q.pc = "insert" /\ q.seen = Len(users) /\ RowsOf(login) = {}
             \/ q.pc = "redeem"
    BY <1>3, OpenInviteEffect
  <2>2. users' = users
    BY <1>3 DEF OpenInvite
  <2>3. q.pc = "redeem" \/ Looked(r)
    BY <2>1, <2>2, OthersRequests DEF Looked, RowsOf
  <2>4. QED
    BY <1>1, <2>1, <2>2, <2>3, SameRows
<1>4. ASSUME NEW p \in Person, SsoLook(r, p) PROVE TwinsInv'
  <2>1. PICK q \in Ongoing :
          /\ inflight' = [inflight EXCEPT ![r] = q]
          /\ q.pc = "sso" /\ q.login = [person |-> p, via |-> "sso"]
          /\ q.seen = Len(users) /\ (q.row = 0 => RowsByEmail(p) = {})
    BY <1>4, SsoLookEffect
  <2>2. users' = users
    BY <1>4 DEF SsoLook
  <2>3. inflight'[r] = q /\ \A s \in Call \ {r} : inflight'[s] = inflight[s]
    BY <2>1, OthersRequests
  <2>4. q.row = 0 => Looked(r)
    <3>1. ASSUME q.row = 0, NEW i \in Live, users[i].ext = q.login PROVE FALSE
      <4>1. users[i].ext.via = "sso" /\ users[i].ext.person = p /\ i \in DOMAIN users
        BY <2>1, <3>1 DEF Live
      <4>2. users[i].email = p
        BY <4>1 DEF TwinsInv, EmailKnown
      <4>3. QED
        BY <2>1, <3>1, <4>2 DEF RowsByEmail
    <3>2. QED
      BY <2>1, <2>2, <2>3, <3>1 DEF Looked
  <2>5. \A s \in Call : Provisioning(s)' => inflight'[s] = inflight[s] \/ Looked(s)
    BY <2>1, <2>3, <2>4 DEF Provisioning
  <2>6. QED
    BY <2>2, <2>5, SameRows, TwinsStep
<1>5. ASSUME NEW login \in Login, EnterAdmin(r, login) PROVE TwinsInv'
  <2>1. /\ inflight' = [inflight EXCEPT ![r] = [pc |-> "admin", login |-> login]]
        /\ users' = users
    BY <1>5 DEF EnterAdmin, Proceed
  <2>2. QED
    BY <1>1, <2>1, SameRows
<1>6. ASSUME Insert(r) PROVE TwinsInv'
  <2>1. RowRewritten \/ Added(r)
    BY <1>6, InsertEffect
  <2>2. PICK q : inflight' = [inflight EXCEPT ![r] = q] /\ q.pc \notin {"insert", "sso"}
    <3>1. CASE inflight' = [inflight EXCEPT ![r] = Idle]
      BY <3>1, IdleType
    <3>2. CASE inflight' = [inflight EXCEPT ![r] =
                  [pc |-> "redeem", login |-> inflight[r].login,
                   invite |-> inflight[r].invite]]
      <4> DEFINE q == [pc |-> "redeem", login |-> inflight[r].login,
                       invite |-> inflight[r].invite]
      <4>1. q.pc \notin {"insert", "sso"} /\ inflight' = [inflight EXCEPT ![r] = q]
        BY <3>2
      <4> HIDE DEF q
      <4>2. QED
        BY <4>1
    <3>3. QED
      BY <1>6, <3>1, <3>2, InsertEffect
  <2>3. QED
    BY <1>1, <2>1, <2>2
<1>7. ASSUME \/ Redeem(r) \/ SetRole(r) \/ CreateInvite(r) \/ RevokeInvite(r)
             \/ SsoCommit(r) \/ Abort(r)
      PROVE  TwinsInv'
  <2>1. RowRewritten \/ Added(r)
    <3>1. CASE CreateInvite(r) \/ RevokeInvite(r) \/ Abort(r)
      BY <3>1, SameRows DEF CreateInvite, RevokeInvite, Abort
    <3>2. QED
      BY <1>7, <3>1, RedeemEffect, SetRoleEffect, SsoCommitEffect
  <2>2. inflight' = [inflight EXCEPT ![r] = Idle]
    BY <1>7 DEF Redeem, SetRole, CreateInvite, RevokeInvite, SsoCommit, Abort, Proceed
  <2>3. QED
    BY <1>1, <2>1, <2>2, IdleType
<1>8. QED
  BY <1>2, <1>3, <1>4, <1>5, <1>6, <1>7 DEF RequestStep

LEMMA TwinsNext == MembershipTypeOK /\ TwinsInv /\ [MembershipNext]_membershipVars => TwinsInv'
<1> SUFFICES ASSUME MembershipTypeOK, TwinsInv, [MembershipNext]_membershipVars PROVE TwinsInv'
  OBVIOUS
<1>1. ASSUME inflight' = inflight, RowRewritten PROVE TwinsInv'
  BY <1>1, TwinsStep
<1>2. CASE UNCHANGED membershipVars
  BY <1>1, <1>2, SameRows DEF membershipVars
<1>3. ASSUME NEW login \in Login, RefreshEmail(login) PROVE TwinsInv'
  BY <1>1, <1>3, RefreshEmailEffect DEF RefreshEmail
<1>4. ASSUME NEW i \in Live, ScimDelete(i) PROVE TwinsInv'
  BY <1>1, <1>4, ScimDeleteEffect DEF ScimDelete
<1>5. CASE \/ \E i \in DOMAIN invites : ExpireInvite(i)
           \/ \E p \in Person : ExpireSession(p)
           \/ SetDomains
  BY <1>1, <1>5, SameRows DEF ExpireInvite, ExpireSession, SetDomains
<1>6. QED
  BY <1>2, <1>3, <1>4, <1>5, TwinsRequests DEF MembershipNext

(* A user has a second row only if the request that added it looked before  *)
(* the first one was there, through whatever door the two came.             *)
THEOREM TwinsHold == MembershipSpec => []TwinsOverlap
<1>1. TwinsInv => TwinsOverlap
  BY DEF TwinsInv
<1>2. QED
  BY <1>1, MembershipTypeCorrect, TwinsInit, TwinsNext, PTL DEF MembershipSpec

-----------------------------------------------------------------------------
(* The last admin                                                           *)

LEMMA OwnerInit == MembershipInit => OwnerKept
  BY DEF MembershipInit, OwnerKept, Live

(* A step whose loss of the last admin, if any, is remembered as how.       *)
LEMMA OwnerDeposed ==
  ASSUME OwnerKept, NEW how, Depose(how), how = "fresh" => Admins' # {}
  PROVE  OwnerKept'
BY DEF OwnerKept, Depose

(* A step after which the same rows are there, in the same roles.           *)
LEMMA OwnerStay ==
  ASSUME MembershipTypeOK, OwnerKept, deposed' = deposed, DOMAIN users' = DOMAIN users,
         \A i \in DOMAIN users :
           users'[i].role = users[i].role /\ users'[i].gone = users[i].gone
  PROVE  OwnerKept'
<1>1. Live' = Live /\ Admins' = Admins
  BY DEF Live, Admins
<1>2. QED
  BY <1>1 DEF OwnerKept

(* Who is an admin while changing a role stays one.                         *)
LEMMA OwnerSetRole ==
  ASSUME MembershipTypeOK, OwnerKept, NEW r \in Call, SetRole(r)
  PROVE  OwnerKept'
<1> DEFINE actor == inflight[r].login
           how == IF \E i \in RowsOf(actor) : users[i].role = "admin" THEN "fresh" ELSE "stale"
<1>1. Depose(how)
  BY DEF SetRole
<1>2. ASSUME how = "fresh" PROVE Admins' # {}
  <2>1. PICK i \in RowsOf(actor) : users[i].role = "admin"
    BY <1>2
  <2>2. PICK k \in Live, role \in Role :
          MaySetRole(actor, k) /\ users' = SetRoleOf(k, role)
    BY DEF SetRole
  <2>3. i \in Live /\ i # k
    BY <2>1, <2>2 DEF RowsOf, MaySetRole
  <2>4. users'[i] = users[i] /\ DOMAIN users' = DOMAIN users
    BY <2>2, <2>3 DEF SetRoleOf, Live
  <2>5. i \in Admins'
    BY <2>1, <2>3, <2>4 DEF Admins, Live
  <2>6. QED
    BY <2>5
<1> HIDE DEF how
<1>3. QED
  BY <1>1, <1>2, OwnerDeposed

LEMMA OwnerNext == MembershipTypeOK /\ OwnerKept /\ [MembershipNext]_membershipVars => OwnerKept'
<1> SUFFICES ASSUME MembershipTypeOK, OwnerKept, [MembershipNext]_membershipVars PROVE OwnerKept'
  OBVIOUS
<1>1. ASSUME users' = users, deposed' = deposed PROVE OwnerKept'
  BY <1>1, OwnerStay
<1>2. ASSUME NEW how \in {"stale", "redeem", "sso", "scim"}, Depose(how) PROVE OwnerKept'
  BY <1>2, OwnerDeposed
<1>3. CASE UNCHANGED membershipVars
  BY <1>1, <1>3 DEF membershipVars
<1>4. ASSUME NEW r \in Call, RequestStep(r) PROVE OwnerKept'
  <2>1. CASE \/ \E login \in Login :
                  \/ Enrol(r, login) \/ EnterAdmin(r, login)
                  \/ \E i \in DOMAIN invites : OpenInvite(r, login, i)
             \/ CreateInvite(r) \/ RevokeInvite(r) \/ Abort(r)
             \/ \E p \in Person : SsoLook(r, p)
    BY <1>1, <2>1
       DEF Enrol, EnterAdmin, OpenInvite, CreateInvite, RevokeInvite, Abort, SsoLook
  <2>2. CASE Insert(r) \/ Redeem(r) \/ SsoCommit(r)
    BY <1>2, <2>2 DEF Insert, Redeem, SsoCommit
  <2>3. QED
    BY <1>4, <2>1, <2>2, OwnerSetRole DEF RequestStep
<1>5. ASSUME NEW login \in Login, RefreshEmail(login) PROVE OwnerKept'
  BY <1>5, RefreshEmailEffect, OwnerStay DEF RefreshEmail, RowRewritten
<1>6. ASSUME NEW i \in Live, ScimDelete(i) PROVE OwnerKept'
  BY <1>2, <1>6 DEF ScimDelete
<1>7. CASE \/ \E i \in DOMAIN invites : ExpireInvite(i)
           \/ \E p \in Person : ExpireSession(p)
           \/ SetDomains
  BY <1>1, <1>7 DEF ExpireInvite, ExpireSession, SetDomains
<1>8. QED
  BY <1>3, <1>4, <1>5, <1>6, <1>7 DEF MembershipNext

(* A workspace without an admin lost it to an SSO login, a redeemed invite, *)
(* SCIM or a request that acted on what it had read before.                 *)
THEOREM OwnerHolds == MembershipSpec => []OwnerKept
  BY MembershipTypeCorrect, OwnerInit, OwnerNext, PTL DEF MembershipSpec

-----------------------------------------------------------------------------
(* The redeemers of invites                                                 *)

LEMMA RedeemInit == MembershipInit => RedeemInv
  BY DEF MembershipInit, Idle, RedeemInv, RedeemerHasRow, RedeemedIsMember

LEMMA UsersStay ==
  ASSUME MembershipTypeOK, RowRewritten \/ \E r \in Call : Added(r)
  PROVE  /\ DOMAIN users \subseteq DOMAIN users'
         /\ \A i \in DOMAIN users : users'[i].ext = users[i].ext
<1>1. CASE RowRewritten
  BY <1>1 DEF RowRewritten, Keeps
<1>2. CASE \E r \in Call : Added(r)
  BY <1>2, AppendEffect DEF Added, MembershipTypeOK
<1>3. QED
  BY <1>1, <1>2

(* A step after which whoever redeems or has redeemed an invite has a row.  *)
LEMMA RedeemStep ==
  ASSUME MembershipTypeOK, RedeemInv, RowRewritten \/ \E r \in Call : Added(r),
         \A r \in Call : inflight'[r].pc = "redeem" =>
           \/ inflight'[r] = inflight[r]
           \/ \E i \in DOMAIN users' : users'[i].ext = inflight'[r].login,
         \A k \in DOMAIN invites' : \A login \in invites'[k].redeemer :
           \/ k \in DOMAIN invites /\ login \in invites[k].redeemer
           \/ \E i \in DOMAIN users : users[i].ext = login
  PROVE  RedeemInv'
<1>1. /\ DOMAIN users \subseteq DOMAIN users'
      /\ \A i \in DOMAIN users : users'[i].ext = users[i].ext
  BY UsersStay
<1>2. RedeemerHasRow'
  BY <1>1 DEF RedeemInv, RedeemerHasRow
<1>3. RedeemedIsMember'
  BY <1>1 DEF RedeemInv, RedeemedIsMember
<1>4. QED
  BY <1>2, <1>3 DEF RedeemInv

LEMMA RedeemInsert ==
  ASSUME MembershipTypeOK, RedeemInv, NEW r \in Call, Insert(r)
  PROVE  RedeemInv'
<1>1. /\ invites' = invites
      /\ \/ Added(r)
         \/ RowRewritten /\ users' = users /\ \E i \in Live : users[i].ext = inflight[r].login
      /\ \/ inflight' = [inflight EXCEPT ![r] = Idle]
         \/ inflight' = [inflight EXCEPT ![r] =
              [pc |-> "redeem", login |-> inflight[r].login, invite |-> inflight[r].invite]]
  BY InsertEffect
<1>2. \E i \in DOMAIN users' : users'[i].ext = inflight[r].login
  <2>1. CASE Added(r)
    <3>1. PICK row \in User : users' = Append(users, row) /\ row.ext = inflight[r].login
      BY <2>1 DEF Added
    <3>2. QED
      BY <3>1, AppendEffect DEF MembershipTypeOK
  <2>2. CASE users' = users /\ \E i \in Live : users[i].ext = inflight[r].login
    BY <2>2 DEF Live
  <2>3. QED
    BY <1>1, <2>1, <2>2
<1>3. \A s \in Call : inflight'[s].pc = "redeem" =>
        \/ inflight'[s] = inflight[s]
        \/ \E i \in DOMAIN users' : users'[i].ext = inflight'[s].login
  <2>1. CASE inflight' = [inflight EXCEPT ![r] = Idle]
    BY <2>1, OthersRequests, IdleType
  <2>2. CASE inflight' = [inflight EXCEPT ![r] =
               [pc |-> "redeem", login |-> inflight[r].login, invite |-> inflight[r].invite]]
    BY <1>2, <2>2, OthersRequests
  <2>3. QED
    BY <1>1, <2>1, <2>2
<1>4. RowRewritten \/ \E s \in Call : Added(s)
  BY <1>1
<1>5. QED
  BY <1>1, <1>3, <1>4, RedeemStep

LEMMA RedeemAccept ==
  ASSUME MembershipTypeOK, RedeemInv, NEW r \in Call, Redeem(r)
  PROVE  RedeemInv'
<1>1. /\ inflight[r].pc = "redeem" /\ inflight' = [inflight EXCEPT ![r] = Idle]
      /\ RowRewritten
      /\ \/ invites' = invites
         \/ \E invite \in Invite :
              /\ inflight[r].invite \in DOMAIN invites
              /\ invites' = [invites EXCEPT ![inflight[r].invite] = invite]
              /\ invite.redeemer = {inflight[r].login}
  BY RedeemEffect
<1>2. \E i \in DOMAIN users : users[i].ext = inflight[r].login
  BY <1>1 DEF RedeemInv, RedeemerHasRow
<1>3. \A s \in Call : inflight'[s].pc = "redeem" => inflight'[s] = inflight[s]
  BY <1>1, OthersRequests, IdleType
<1>4. \A k \in DOMAIN invites' : \A login \in invites'[k].redeemer :
        \/ k \in DOMAIN invites /\ login \in invites[k].redeemer
        \/ \E i \in DOMAIN users : users[i].ext = login
  <2>1. CASE invites' = invites
    BY <2>1
  <2>2. ASSUME NEW invite \in Invite,
               inflight[r].invite \in DOMAIN invites,
               invites' = [invites EXCEPT ![inflight[r].invite] = invite],
               invite.redeemer = {inflight[r].login}
        PROVE  \A k \in DOMAIN invites' : \A login \in invites'[k].redeemer :
                 \/ k \in DOMAIN invites /\ login \in invites[k].redeemer
                 \/ \E i \in DOMAIN users : users[i].ext = login
    <3>1. /\ DOMAIN invites' = DOMAIN invites
          /\ invites'[inflight[r].invite] = invite
          /\ \A k \in DOMAIN invites : k # inflight[r].invite => invites'[k] = invites[k]
      BY <2>2, ReplaceEffect DEF MembershipTypeOK
    <3>2. QED
      BY <1>2, <2>2, <3>1
  <2>3. QED
    BY <1>1, <2>1, <2>2
<1>5. QED
  BY <1>1, <1>3, <1>4, RedeemStep

LEMMA RedeemOpen ==
  ASSUME MembershipTypeOK, RedeemInv, NEW r \in Call, NEW login \in Login, NEW i \in DOMAIN invites,
         OpenInvite(r, login, i)
  PROVE  RedeemInv'
<1>1. PICK q \in Ongoing :
        /\ inflight' = [inflight EXCEPT ![r] = q] /\ q.login = login
        /\ q.pc = "insert" \/ RowsOf(login) # {}
  BY OpenInviteEffect
<1>2. users' = users /\ invites' = invites
  BY DEF OpenInvite
<1>3. inflight'[r] = q /\ \A s \in Call \ {r} : inflight'[s] = inflight[s]
  BY <1>1, OthersRequests
<1>4. q.pc = "redeem" => \E k \in DOMAIN users : users[k].ext = login
  BY <1>1 DEF RowsOf, Live
<1>5. QED
  BY <1>1, <1>2, <1>3, <1>4, SameRows, RedeemStep

LEMMA RedeemNext == MembershipTypeOK /\ RedeemInv /\ [MembershipNext]_membershipVars => RedeemInv'
<1> SUFFICES ASSUME MembershipTypeOK, RedeemInv, [MembershipNext]_membershipVars PROVE RedeemInv'
  OBVIOUS
<1>1. ASSUME RowRewritten \/ \E r \in Call : Added(r),
             \A r \in Call : inflight'[r].pc = "redeem" => inflight'[r] = inflight[r],
             \A k \in DOMAIN invites' : \A login \in invites'[k].redeemer :
               k \in DOMAIN invites /\ login \in invites[k].redeemer
      PROVE  RedeemInv'
  BY <1>1, RedeemStep
<1>2. ASSUME RowRewritten, inflight' = inflight, invites' = invites PROVE RedeemInv'
  BY <1>1, <1>2
<1>3. CASE UNCHANGED membershipVars
  BY <1>2, <1>3, SameRows DEF membershipVars
<1>4. ASSUME NEW login \in Login, RefreshEmail(login) PROVE RedeemInv'
  BY <1>2, <1>4, RefreshEmailEffect DEF RefreshEmail
<1>5. ASSUME NEW i \in Live, ScimDelete(i) PROVE RedeemInv'
  BY <1>2, <1>5, ScimDeleteEffect DEF ScimDelete
<1>6. CASE (\E p \in Person : ExpireSession(p)) \/ SetDomains
  BY <1>2, <1>6, SameRows DEF ExpireSession, SetDomains
<1>7. ASSUME NEW k \in DOMAIN invites, NEW state \in {"expired", "revoked"},
             invites' = [invites EXCEPT ![k].state = state]
      PROVE  \A j \in DOMAIN invites' : \A login \in invites'[j].redeemer :
               j \in DOMAIN invites /\ login \in invites[j].redeemer
  <2>1. invites[k] \in Invite /\ state \in {"pending", "accepted", "expired", "revoked"}
    BY DEF MembershipTypeOK
  <2> DEFINE invite == [invites[k] EXCEPT !.state = state]
  <2>2. invite \in Invite /\ invite.redeemer = invites[k].redeemer
    BY <2>1, InviteRewritten
  <2>3. invites' = [invites EXCEPT ![k] = invite]
    BY <1>7
  <2> HIDE DEF invite
  <2>4. /\ DOMAIN invites' = DOMAIN invites /\ invites'[k] = invite
        /\ \A j \in DOMAIN invites : j # k => invites'[j] = invites[j]
    BY <2>2, <2>3, ReplaceEffect DEF MembershipTypeOK
  <2>5. QED
    BY <2>2, <2>4
<1>8. ASSUME NEW i \in DOMAIN invites, ExpireInvite(i) PROVE RedeemInv'
  <2>1. users' = users /\ inflight' = inflight
    BY <1>8 DEF ExpireInvite
  <2>2. \A j \in DOMAIN invites' : \A login \in invites'[j].redeemer :
          j \in DOMAIN invites /\ login \in invites[j].redeemer
    BY <1>7, <1>8 DEF ExpireInvite
  <2>3. QED
    BY <1>1, <2>1, <2>2, SameRows
<1>9. ASSUME NEW r \in Call, NEW q, inflight' = [inflight EXCEPT ![r] = q], q.pc # "redeem"
      PROVE  \A s \in Call : inflight'[s].pc = "redeem" => inflight'[s] = inflight[s]
  BY <1>9, OthersRequests
<1>10. ASSUME NEW r \in Call, CreateInvite(r) \/ RevokeInvite(r) PROVE RedeemInv'
  <2>1. users' = users /\ inflight' = [inflight EXCEPT ![r] = Idle]
    BY <1>10 DEF CreateInvite, RevokeInvite, Proceed
  <2>2. \A j \in DOMAIN invites' : \A login \in invites'[j].redeemer :
          j \in DOMAIN invites /\ login \in invites[j].redeemer
    <3>1. CASE CreateInvite(r)
      <4>1. PICK p \in Person, role \in {"member", "admin"} :
              invites' = Append(invites, [for |-> p, role |-> role, redeemer |-> {},
                                          state |-> "pending"])
        BY <3>1 DEF CreateInvite
      <4>2. [for |-> p, role |-> role, redeemer |-> {}, state |-> "pending"] \in Invite
        BY DEF Invite, Role
      <4>3. /\ DOMAIN invites' = DOMAIN invites \cup {Len(invites) + 1}
            /\ invites'[Len(invites) + 1].redeemer = {}
            /\ \A j \in DOMAIN invites : invites'[j] = invites[j]
        BY <4>1, <4>2, AppendEffect DEF MembershipTypeOK
      <4>4. QED
        BY <4>3
    <3>2. CASE RevokeInvite(r)
      BY <1>7, <3>2 DEF RevokeInvite
    <3>3. QED
      BY <1>10, <3>1, <3>2
  <2>3. QED
    BY <1>1, <1>9, <2>1, <2>2, SameRows, IdleType
<1>11. ASSUME NEW r \in Call, NEW login \in Login, Enrol(r, login) \/ EnterAdmin(r, login)
       PROVE  RedeemInv'
  <2>1. users' = users /\ invites' = invites
    BY <1>11 DEF Enrol, EnterAdmin
  <2>2. PICK q : inflight' = [inflight EXCEPT ![r] = q] /\ q.pc # "redeem"
    BY <1>11 DEF Enrol, EnterAdmin, Proceed
  <2>3. QED
    BY <1>1, <1>9, <2>1, <2>2, SameRows
<1>12. ASSUME NEW r \in Call, NEW p \in Person, SsoLook(r, p) PROVE RedeemInv'
  <2>1. users' = users /\ invites' = invites
    BY <1>12 DEF SsoLook
  <2>2. PICK q \in Ongoing : inflight' = [inflight EXCEPT ![r] = q] /\ q.pc = "sso"
    BY <1>12, SsoLookEffect
  <2>3. QED
    BY <1>1, <1>9, <2>1, <2>2, SameRows
<1>13. ASSUME NEW r \in Call, SetRole(r) \/ SsoCommit(r) \/ Abort(r) PROVE RedeemInv'
  <2>1. RowRewritten \/ Added(r)
    BY <1>13, SetRoleEffect, SsoCommitEffect, SameRows DEF Abort
  <2>2. inflight' = [inflight EXCEPT ![r] = Idle] /\ invites' = invites
    BY <1>13 DEF SetRole, SsoCommit, Abort, Proceed
  <2>3. QED
    BY <1>1, <1>9, <2>1, <2>2, IdleType
<1>14. ASSUME NEW r \in Call, RequestStep(r) PROVE RedeemInv'
  BY <1>10, <1>11, <1>12, <1>13, <1>14, RedeemInsert, RedeemAccept, RedeemOpen
     DEF RequestStep
<1>15. QED
  BY <1>3, <1>4, <1>5, <1>6, <1>8, <1>14 DEF MembershipNext

(* Nobody uses up an invite without having a row in the workspace.          *)
THEOREM RedeemHolds == MembershipSpec => []RedeemedIsMember
<1>1. RedeemInv => RedeemedIsMember
  BY DEF RedeemInv
<1>2. QED
  BY <1>1, MembershipTypeCorrect, RedeemInit, RedeemNext, PTL DEF MembershipSpec
=============================================================================
