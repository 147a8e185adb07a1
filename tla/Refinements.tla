----------------------------- MODULE Refinements -----------------------------
(***************************************************************************)
(* What holds of the modules that compose others, for every value of their *)
(* constants: IngestionPipeline, where staging runs and embedding jobs     *)
(* share the rows and the broker, and Chat, the session around the agent   *)
(* graph.  The lemmas of StagingQueueProofs and PartsProofs speak of those *)
(* modules alone; here their steps interleave, so what the proofs need of  *)
(* each is said again of its instance in the pipeline.                     *)
(***************************************************************************)
EXTENDS IngestionPipeline, Chat, FiniteSetTheorems, TLAPS

(* What staging assumes of its constants.                                   *)
LEMMA QueueConstants ==
  /\ Record \subseteq Nat
  /\ \A R \in SUBSET Record : R # {} => \E r \in R : \A q \in R : q <= r
  /\ Payload \in [Record -> [kind : Staging!Kind, doc : Doc, content : Content]]
  /\ \A r \in Record : Payload[r].content \in Source[Payload[r].doc]
  /\ IsFiniteSet(Run) /\ Run # {}
  /\ BatchLimit \in Nat \ {0}
  /\ MaxRetries \in Nat \ {0}
  /\ MaxTaskRetries \in Nat
BY PipelineAssumption DEF Staging!QueueAssumption, Staging!IsFiniteSet, IsFiniteSet

LEMMA StagingCounts == \A S : Staging!Cardinality(S) = Cardinality(S)
BY DEF Staging!Cardinality, Cardinality

(* The instances share the rows and the messages.                           *)
LEMMA SharedTypes ==
  /\ Staging!DocRow = Embed!DocRow
  /\ Staging!Message(MaxTaskRetries) = Embed!Message(MaxTaskRetries)
  /\ Staging!NoContent = Embed!NoContent
BY DEF Staging!DocRow, Embed!DocRow, Staging!EmbeddingStatus, Embed!EmbeddingStatus,
       Staging!NoContent, Embed!NoContent, Staging!Message, Embed!Message

-----------------------------------------------------------------------------
(* Types.                                                                   *)

(* The newest of some records is one of them.                               *)
LEMMA LatestIsMember ==
  ASSUME NEW R \in SUBSET Record, R # {}
  PROVE  Staging!Latest(R) \in R
BY QueueConstants DEF Staging!Latest

(* A row whose columns are assigned values of their types is a row.         *)
LEMMA RowUpdates ==
  ASSUME NEW row \in Staging!Row, NEW n \in Nat
  PROVE  /\ [row EXCEPT !.processed = TRUE] \in Staging!Row
         /\ [row EXCEPT !.processed = TRUE, !.failed = TRUE] \in Staging!Row
         /\ [row EXCEPT !.retries = n, !.due = FALSE] \in Staging!Row
         /\ [row EXCEPT !.failed = FALSE, !.retries = n] \in Staging!Row
BY DEF Staging!Row

(* What a transaction writes to the queue and to the documents is of the    *)
(* type of a row.                                                           *)
LEMMA SettledType ==
  ASSUME Staging!TypeOK, NEW r \in Record, NEW live \in SUBSET Record, NEW spent \in SUBSET Record
  PROVE  Staging!Settled(r, live, spent) \in Staging!Row
<1>1. queue[r] \in Staging!Row
  BY DEF Staging!TypeOK
<1>2. queue[r].retries + 1 \in Nat
  BY <1>1 DEF Staging!Row
<1> QED
  BY <1>1, <1>2, RowUpdates DEF Staging!Settled

LEMMA StoredType ==
  ASSUME Staging!TypeOK, NEW live \in SUBSET Record, NEW d \in Doc
  PROVE  Staging!Stored(live, d) \in Staging!DocRow
<1>1. CASE Staging!Touched(live, d)
  <2>1. /\ Staging!GoodFor(live, d) # {}
        /\ Staging!GoodFor(live, d) \in SUBSET Record
    BY <1>1 DEF Staging!Touched, Staging!GoodFor, Staging!OfKind
  <2>2. Staging!Latest(Staging!GoodFor(live, d)) \in Record
    BY <2>1, LatestIsMember
  <2>3. Payload[Staging!Latest(Staging!GoodFor(live, d))].content \in Content
    BY <2>2, QueueConstants
  <2> QED
    BY <1>1, <2>3
       DEF Staging!Stored, Staging!Rewritten, Staging!TypeOK, Staging!DocRow,
           Staging!EmbeddingStatus
<1>2. CASE ~Staging!Touched(live, d)
  BY <1>2 DEF Staging!Stored, Staging!TypeOK
<1> QED
  BY <1>1, <1>2

(* A step of the staging queue keeps its variables in their types.          *)
LEMMA StagingTypeStep ==
  ASSUME Staging!TypeOK, Staging!Next
  PROVE  Staging!TypeOK'
<1> USE DEF Staging!TypeOK
<1>1. ASSUME NEW r \in Record, Staging!Arrive(r)
      PROVE  Staging!TypeOK'
  BY <1>1 DEF Staging!Arrive, Staging!Row
<1>2. ASSUME NEW r \in Record, Staging!BackoffElapses(r)
      PROVE  Staging!TypeOK'
  BY <1>2 DEF Staging!BackoffElapses, Staging!Row
<1>3. ASSUME NEW R \in SUBSET Record, Staging!Requeue(R)
      PROVE  Staging!TypeOK'
  BY <1>3 DEF Staging!Requeue, Staging!Row
<1>4. ASSUME NEW R \in SUBSET Record, Staging!Purge(R)
      PROVE  Staging!TypeOK'
  BY <1>4 DEF Staging!Purge, Staging!Row
<1>5. ASSUME NEW u \in Run, Staging!Select(u)
      PROVE  Staging!TypeOK'
  BY <1>5 DEF Staging!Select, Staging!Selected, Staging!RunState
<1>6. ASSUME NEW u \in Run, Staging!CommitBatch(u)
      PROVE  Staging!TypeOK'
  <2>1. /\ runs[u].live \in SUBSET Record
        /\ runs[u].spent \in SUBSET Record
    BY DEF Staging!RunState
  <2>2. queue' \in [Record -> Staging!Row]
    BY <1>6, <2>1, SettledType DEF Staging!CommitBatch
  <2>3. docs' \in [Doc -> Staging!DocRow]
    BY <1>6, <2>1, StoredType DEF Staging!CommitBatch
  <2>4. runs' \in [Run -> Staging!RunState]
    BY <1>6 DEF Staging!CommitBatch, Staging!RunState, Staging!IdleRun
  <2> QED
    BY <1>6, <2>2, <2>3, <2>4 DEF Staging!CommitBatch
<1>7. ASSUME NEW u \in Run, Staging!AbortBatch(u)
      PROVE  Staging!TypeOK'
  BY <1>7 DEF Staging!AbortBatch, Staging!RunState, Staging!IdleRun
<1>8. ASSUME NEW u \in Run, Staging!Dispatch(u)
      PROVE  Staging!TypeOK'
  <2>1. Staging!BatchMessage(runs[u].out) \in Staging!Message(MaxTaskRetries)
    BY QueueConstants DEF Staging!BatchMessage, Staging!Message, Staging!RunState
  <2> QED
    BY <1>8, <2>1 DEF Staging!Dispatch, Staging!RunState, Staging!IdleRun
<1>9. ASSUME NEW u \in Run, Staging!LoseDispatch(u)
      PROVE  Staging!TypeOK'
  BY <1>9 DEF Staging!LoseDispatch, Staging!RunState, Staging!IdleRun
<1> HIDE DEF Staging!TypeOK
<1> QED
  BY <1>1, <1>2, <1>3, <1>4, <1>5, <1>6, <1>7, <1>8, <1>9
     DEF Staging!Next, Staging!TableStep, Staging!RunStep

LEMMA StagingTypeInit ==
  ASSUME Staging!Init
  PROVE  Staging!TypeOK
BY DocsAssumption
   DEF Staging!Init, Staging!TypeOK, Staging!Row, Staging!RunState, Staging!IdleRun,
       Staging!DocRow, Staging!NoDoc, Staging!EmbeddingStatus, Staging!NoContent

HeldContents == [Doc -> Content \cup {Embed!NoContent}]

LEMMA MessageTypes ==
  /\ \A d \in Doc : Embed!OneMessage(d) \in Embed!Message(MaxTaskRetries)
  /\ \A D \in SUBSET Doc : Embed!BatchMessage(D) \in Embed!Message(MaxTaskRetries)
BY QueueConstants DEF Embed!OneMessage, Embed!BatchMessage, Embed!Message

LEMMA IdleJobType == Embed!IdleJob \in Embed!Job
BY MessageTypes, DocsAssumption DEF Embed!IdleJob, Embed!Job, Embed!NoContent

(* A row whose status is assigned, and its attempt counted, is a row.       *)
LEMMA RowTypes ==
  ASSUME NEW row \in Embed!DocRow, NEW s \in Embed!EmbeddingStatus
  PROVE  /\ [row EXCEPT !.status = s] \in Embed!DocRow
         /\ Embed!Counted([row EXCEPT !.status = s]) \in Embed!DocRow
<1>1. [row EXCEPT !.status = s] \in Embed!DocRow
  BY DEF Embed!DocRow
<1>2. ASSUME NEW x \in Embed!DocRow
      PROVE  Embed!Counted(x) \in Embed!DocRow
  BY DocsAssumption DEF Embed!Counted, Embed!DocRow
<1> QED
  BY <1>1, <1>2

LEMMA GoOnType ==
  ASSUME NEW job \in Embed!Job, NEW held \in HeldContents
  PROVE  Embed!GoOn(job, held) \in Embed!Job
<1>1. Embed!GroupsOf(held) \in SUBSET (Doc \X Embed!Slot)
  BY DEF Embed!GroupsOf
<1> QED
  BY <1>1, IdleJobType DEF Embed!GoOn, Embed!Job, HeldContents

(* A step of the embedding stage keeps its variables in their types.        *)
LEMMA EmbedTypeStep ==
  ASSUME Embed!TypeOK, EmbeddingStep
  PROVE  Embed!TypeOK'
<1> USE DEF Embed!TypeOK
<1>1. CASE Embed!RetryPending
  BY <1>1, MessageTypes
     DEF Embed!RetryPending, Embed!AtMost, Embed!Pending, Embed!Retriable
<1>2. ASSUME NEW D \in SUBSET Doc, NEW sent \in SUBSET D, Embed!RequeueFailed(D, sent)
      PROVE  Embed!TypeOK'
  <2>1. docs' \in [Doc -> Embed!DocRow]
    BY <1>2, RowTypes DEF Embed!RequeueFailed, Embed!EmbeddingStatus
  <2> QED
    BY <1>2, <2>1, MessageTypes DEF Embed!RequeueFailed
<1>3. ASSUME NEW w \in Worker, NEW m \in broker, Embed!Start(w, m)
      PROVE  Embed!TypeOK'
  <2>1. m \in Embed!Message(MaxTaskRetries) /\ m.docs \in SUBSET Doc
    BY DEF Embed!Message
  <2>2. [Embed!IdleJob EXCEPT !.pc = "read", !.msg = m, !.todo = m.docs] \in Embed!Job
    BY <2>1, IdleJobType DEF Embed!Job
  <2> QED
    BY <1>3, <2>2 DEF Embed!Start
<1>4. ASSUME NEW w \in Worker, NEW d \in Doc, Embed!Read(w, d)
      PROVE  Embed!TypeOK'
  <2>1. docs[d].content \in Content \cup {Embed!NoContent}
    BY DEF Embed!DocRow
  <2>2. jobs'[w] \in Embed!Job
    <3> HIDE DEF Embed!TypeOK
    <3> DEFINE job == jobs[w]
               todo == job.todo \ {d}
               held == IF Embed!Wanted(job.msg.op, docs[d])
                       THEN [job.held EXCEPT ![d] = docs[d].content] ELSE job.held
    <3>1. job \in Embed!Job /\ jobs \in [Worker -> Embed!Job]
      BY DEF Embed!TypeOK
    <3>2. held \in [Doc -> Content \cup {Embed!NoContent}] /\ todo \in SUBSET Doc
      BY <2>1, <3>1 DEF Embed!Job
    <3>3. jobs'[w] = [job EXCEPT !.todo = todo, !.held = held,
                                 !.pc = IF todo = {} THEN "parse" ELSE "read"]
      BY <1>4, <3>1 DEF Embed!Read
    <3> HIDE DEF job, todo, held
    <3> QED
      BY <3>1, <3>2, <3>3 DEF Embed!Job
  <2> QED
    BY <1>4, <2>2 DEF Embed!Read
<1>5. ASSUME NEW w \in Worker, Embed!ParseOne(w)
      PROVE  Embed!TypeOK'
  <2>1. jobs[w] \in Embed!Job /\ jobs[w].held \in HeldContents
    BY DEF Embed!Job, HeldContents
  <2> QED
    BY <1>5, <2>1, GoOnType DEF Embed!ParseOne
<1>6. ASSUME NEW w \in Worker, Embed!ParseBatch(w)
      PROVE  Embed!TypeOK'
  <2> DEFINE held == jobs[w].held
             kept == [d \in Doc |-> IF held[d] \in Blank \cup Unparsable
                                    THEN Embed!NoContent ELSE held[d]]
  <2>1. jobs[w] \in Embed!Job /\ kept \in HeldContents
    BY DEF Embed!Job, HeldContents
  <2>2. jobs' = [jobs EXCEPT ![w] = Embed!GoOn(jobs[w], kept)]
    BY <1>6 DEF Embed!ParseBatch
  <2>3. jobs' \in [Worker -> Embed!Job]
    BY <2>1, <2>2, GoOnType
  <2>4. docs' \in [Doc -> Embed!DocRow]
    BY <1>6, RowTypes DEF Embed!ParseBatch, Embed!EmbeddingStatus
  <2> QED
    BY <1>6, <2>3, <2>4 DEF Embed!ParseBatch
<1>7. ASSUME NEW w \in Worker, NEW S \in SUBSET (Doc \X Embed!Slot), Embed!Put(w, S)
      PROVE  Embed!TypeOK'
  <2>1. index' \in [Doc -> [Embed!Slot -> Content \cup {Embed!NoContent}]]
    BY <1>7 DEF Embed!Put, Embed!Job
  <2>2. jobs'[w] \in Embed!Job
    BY <1>7 DEF Embed!Put, Embed!Job
  <2> QED
    BY <1>7, <2>1, <2>2 DEF Embed!Put
<1>8. ASSUME NEW w \in Worker, NEW d \in Doc, NEW i \in Embed!Slot, Embed!WriteGroup(w, d, i)
       PROVE  Embed!TypeOK'
  BY <1>7, <1>8 DEF Embed!WriteGroup
<1>9. ASSUME NEW w \in Worker, NEW d \in Doc, Embed!WriteDoc(w, d)
       PROVE  Embed!TypeOK'
  <2>1. {g \in jobs[w].left : g[1] = d} \in SUBSET (Doc \X Embed!Slot)
    BY DEF Embed!Job
  <2> QED
    BY <1>7, <1>9, <2>1 DEF Embed!WriteDoc
<1>10. ASSUME NEW w \in Worker, Embed!Commit(w)
       PROVE  Embed!TypeOK'
  <2>1. docs' \in [Doc -> Embed!DocRow]
    BY <1>10, RowTypes DEF Embed!Commit, Embed!Finished, Embed!EmbeddingStatus
  <2> QED
    BY <1>10, <2>1, IdleJobType DEF Embed!Commit
<1>11. ASSUME NEW w \in Worker, Embed!Fail(w)
       PROVE  Embed!TypeOK'
  <2> DEFINE m == jobs[w].msg
  <2>1. m \in Embed!Message(MaxTaskRetries)
    BY DEF Embed!Job
  <2>2. MaxTaskRetries \in Nat
    BY QueueConstants
  <2>3. m.tries < MaxTaskRetries =>
          [m EXCEPT !.tries = @ + 1] \in Embed!Message(MaxTaskRetries)
    BY <2>1, <2>2 DEF Embed!Message
  <2> QED
    BY <1>11, <2>3, IdleJobType DEF Embed!Fail
<1>12. ASSUME NEW w \in Worker, Embed!Crash(w)
       PROVE  Embed!TypeOK'
  BY <1>12, IdleJobType DEF Embed!Crash, Embed!Job
<1> QED
  BY <1>1, <1>2, <1>3, <1>4, <1>5, <1>6, <1>8, <1>9, <1>10, <1>11, <1>12
     DEF EmbeddingStep, Embed!Resend, Embed!WorkerStep, Embed!Work

LEMMA EmbedTypeInit ==
  ASSUME Embed!Init
  PROVE  Embed!TypeOK
BY DocsAssumption, IdleJobType
   DEF Embed!Init, Embed!TypeOK, Embed!DocRow, Embed!NoDoc, Embed!EmbeddingStatus,
       Embed!NoContent

LEMMA TypeStep ==
  ASSUME TypeOK, [Next]_vars
  PROVE  TypeOK'
<1> USE DEF TypeOK
<1>1. CASE StagingStep
  <2>1. Staging!TypeOK'
    BY <1>1, StagingTypeStep DEF StagingStep
  <2> QED
    BY <1>1, <2>1, SharedTypes DEF StagingStep, Staging!TypeOK, Embed!TypeOK
<1>2. CASE EmbeddingStep
  <2>1. Embed!TypeOK'
    BY <1>2, EmbedTypeStep
  <2> QED
    BY <1>2, <2>1, SharedTypes DEF EmbeddingStep, Staging!TypeOK, Embed!TypeOK
<1>3. CASE UNCHANGED vars
  BY <1>3 DEF vars, Staging!TypeOK, Embed!TypeOK
<1> QED
  BY <1>1, <1>2, <1>3 DEF Next

LEMMA TypeInit ==
  ASSUME Init
  PROVE  TypeOK
BY StagingTypeInit, EmbedTypeInit DEF Init, TypeOK

(* Every variable keeps its type, whichever of the two stages moves.        *)
THEOREM TypeCorrect == Spec => []TypeOK
BY TypeInit, TypeStep, PTL DEF Spec

-----------------------------------------------------------------------------
(* One run at a time.  NewestWins is not inductive: the run that commits    *)
(* must not hold an edit older than one that is processed.  It does not,    *)
(* because a good record is never put off: it is due and unspent until it   *)
(* is processed, so the SELECT by creation order takes every older good     *)
(* record with it or finds it processed, and no other run comes between.    *)
Good == Staging!OfKind(Record, "good")

(* A good record is never charged a retry, so it is never among the spent   *)
(* records a run holds, nor marked failed before it is processed.           *)
GoodNeverSpent ==
  /\ \A r \in Staging!OfKind(Record, "good") : queue[r].retries = 0 /\ ~queue[r].failed
  /\ \A u \in Run : Staging!OfKind(runs[u].spent, "good") = {}

(* Only a row that is in the table is marked, and only a marked one leaves. *)
OnceSettled ==
  \A r \in Record : /\ queue[r].row = "purged" => queue[r].processed
                    /\ queue[r].row = "absent" => ~queue[r].processed

InsertedInOrder ==
  \A q, r \in Record : q < r /\ queue[r].row # "absent" => queue[q].row # "absent"

SettledInOrder ==
  \A r \in Good : /\ queue[r].due
                  /\ queue[r].processed => \A q \in Good : q < r => queue[q].processed

HeldInOrder ==
  \A u \in Run : \A r \in Staging!OfKind(runs[u].live, "good") :
    /\ queue[r].row = "present" /\ ~queue[r].processed
    /\ \A q \in Good : q < r => queue[q].processed \/ q \in runs[u].live

NewestInv ==
  /\ Staging!TypeOK /\ GoodNeverSpent
  /\ OnceSettled /\ InsertedInOrder /\ SettledInOrder /\ HeldInOrder
  /\ NewestWins

(* The newest of some records is the one that none of them is newer than.   *)
LEMMA LatestIs ==
  ASSUME NEW R \in SUBSET Record, NEW r \in R, \A q \in R : q <= r
  PROVE  Staging!Latest(R) = r
<1>1. \A q \in R : q \in Nat
  BY QueueConstants
<1>2. \A q \in R : q <= r /\ r <= q => q = r
  BY <1>1
<1> QED
  BY <1>2 DEF Staging!Latest

LEMMA LatestIsNewest ==
  ASSUME NEW R \in SUBSET Record, R # {}
  PROVE  Staging!Latest(R) \in R /\ \A q \in R : q <= Staging!Latest(R)
BY QueueConstants DEF Staging!Latest

(* The LIMIT cuts off the newest: whoever selects a row selects every older *)
(* row it could.                                                            *)
LEMMA SelectedFirst ==
  ASSUME NEW r \in Record, r \in Staging!Selected, NEW q \in Record, Staging!Eligible(q), q < r
  PROVE  q \in Staging!Selected
<1> DEFINE E == {p \in Record : Staging!Eligible(p)}
           BeforeR == {p \in E : p < r}
           BeforeQ == {p \in E : p < q}
<1>1. Cardinality(BeforeR) < BatchLimit
  BY StagingCounts DEF Staging!Selected
<1>2. r \in Nat /\ q \in Nat /\ E \subseteq Nat /\ q \in E
  BY QueueConstants
<1>3. q \in Staging!Selected <=> Cardinality(BeforeQ) < BatchLimit
  BY <1>2, StagingCounts DEF Staging!Selected
<1> HIDE DEF E
<1>4. ASSUME NEW p \in E, p < q
      PROVE  p < r
  BY <1>2, <1>4
<1>5. BeforeQ \subseteq BeforeR
  BY <1>4
<1>6. IsFiniteSet(BeforeR)
  <2>1. \A p \in BeforeR : p \in E /\ p < r
    OBVIOUS
  <2> HIDE DEF BeforeR
  <2>2. ASSUME NEW p \in BeforeR
        PROVE  p \in Nat /\ p <= r
    <3>1. p \in E /\ p < r
      BY <2>1
    <3>2. p \in Nat /\ r \in Nat
      BY <1>2, <3>1
    <3> QED
      BY <3>1, <3>2
  <2> QED
    BY <1>2, <2>2, FS_BoundedSetOfNaturals
<1>7. /\ Cardinality(BeforeQ) <= Cardinality(BeforeR)
      /\ Cardinality(BeforeQ) \in Nat /\ Cardinality(BeforeR) \in Nat
  BY <1>5, <1>6, FS_Subset, FS_CardinalityType
<1> HIDE DEF BeforeQ, BeforeR
<1> QED
  BY <1>1, <1>3, <1>7, QueueConstants

(* Steps that leave the marks, the runs and the contents alone.             *)
LEMMA NewestKept ==
  ASSUME NewestInv, Staging!TypeOK',
         runs' = runs,
         \A d \in Doc : docs'[d].content = docs[d].content,
         \A r \in Record :
           /\ queue'[r].processed = queue[r].processed
           /\ queue[r].due => queue'[r].due
           /\ \/ queue'[r].row = queue[r].row
              \/ queue'[r].row = "purged" /\ queue[r].processed
              \/ /\ queue'[r].row = "present" /\ queue[r].row = "absent"
                 /\ \A q \in Record : q < r => queue[q].row # "absent",
         \A r \in Good : queue'[r].retries = 0 /\ ~queue'[r].failed
  PROVE  NewestInv'
<1> USE DEF NewestInv
<1>0. \A r \in Good : r \in Record
  BY DEF Good, Staging!OfKind
<1>1. GoodNeverSpent'
  BY DEF GoodNeverSpent, Staging!OfKind, Good
<1>2. OnceSettled'
  BY DEF OnceSettled, Staging!TypeOK, Staging!Row
<1>3. InsertedInOrder'
  <2> SUFFICES ASSUME NEW q \in Record, NEW r \in Record, q < r, queue'[r].row # "absent"
               PROVE  queue'[q].row # "absent"
    BY DEF InsertedInOrder
  <2>1. queue[q].row # "absent"
    BY DEF InsertedInOrder, OnceSettled
  <2> QED
    BY <2>1
<1>4. SettledInOrder'
  BY <1>0 DEF SettledInOrder, Good, Staging!OfKind
<1>5. HeldInOrder'
  <2> SUFFICES ASSUME NEW u \in Run, NEW r \in Staging!OfKind(runs[u].live, "good")
               PROVE  /\ queue'[r].row = "present" /\ ~queue'[r].processed
                      /\ \A q \in Good : q < r => queue'[q].processed \/ q \in runs[u].live
    BY DEF HeldInOrder, Staging!OfKind, Good
  <2>1. r \in Record
    BY DEF Staging!OfKind, Staging!TypeOK, Staging!RunState
  <2>2. /\ queue[r].row = "present" /\ ~queue[r].processed
        /\ \A q \in Good : q < r => queue[q].processed \/ q \in runs[u].live
    BY DEF HeldInOrder
  <2> QED
    BY <1>0, <2>1, <2>2
<1>6. NewestWins'
  <2> SUFFICES ASSUME NEW d \in Doc
               PROVE  LET seen == {r \in Staging!GoodFor(Record, d) : queue'[r].processed}
                      IN  seen # {} => docs'[d].content = Payload[Staging!Latest(seen)].content
    BY DEF NewestWins, Staging!NewestWins, Staging!GoodFor, Staging!OfKind, Staging!Latest
  <2>1. {r \in Staging!GoodFor(Record, d) : queue'[r].processed}
          = {r \in Staging!GoodFor(Record, d) : queue[r].processed}
    BY DEF Staging!GoodFor, Staging!OfKind
  <2> QED
    BY <2>1 DEF NewestWins, Staging!NewestWins
<1> QED
  BY <1>1, <1>2, <1>3, <1>4, <1>5, <1>6

(* A SELECT takes up the good records in the order they came.               *)
LEMMA NewestSelect ==
  ASSUME NewestInv, NEW u \in Run, Staging!Select(u)
  PROVE  HeldInOrder'
<1> USE DEF NewestInv
<1> DEFINE live == runs'[u].live
<1>1. /\ queue' = queue
      /\ \A v \in Run \ {u} : runs'[v] = runs[v]
      /\ live = Staging!Selected \ {r \in Staging!Selected : queue[r].retries >= MaxRetries}
  BY DEF Staging!Select, Staging!TypeOK
<1>2. \A r \in Good : ~(queue[r].retries >= MaxRetries)
  BY QueueConstants DEF GoodNeverSpent, Good
<1>3. ASSUME NEW r \in Staging!OfKind(live, "good")
      PROVE  /\ queue[r].row = "present" /\ ~queue[r].processed
             /\ \A q \in Good : q < r => queue[q].processed \/ q \in live
  <2>1. r \in Staging!Selected
    BY <1>1 DEF Staging!OfKind
  <2>2. r \in Record /\ Staging!Eligible(r)
    BY <2>1 DEF Staging!Selected
  <2>3. ASSUME NEW q \in Good, q < r, ~queue[q].processed
        PROVE  q \in live
    <3>1. q \in Record /\ queue[q] \in Staging!Row
      BY DEF Good, Staging!OfKind, Staging!TypeOK
    <3>2. queue[q].row = "present"
      BY <2>2, <2>3, <3>1
         DEF InsertedInOrder, OnceSettled, Staging!Eligible, Staging!Row
    <3>3. queue[q].due /\ ~queue[q].failed
      BY DEF SettledInOrder, GoodNeverSpent, Good
    <3>4. Staging!Eligible(q)
      BY <2>3, <3>2, <3>3 DEF Staging!Eligible
    <3>5. q \in Staging!Selected
      BY <2>1, <2>2, <2>3, <3>1, <3>4, SelectedFirst
    <3> QED
      BY <1>1, <1>2, <3>5
  <2> QED
    BY <2>2, <2>3 DEF Staging!Eligible
<1>4. \A v \in Run \ {u} : \A r \in Staging!OfKind(runs'[v].live, "good") :
        /\ queue'[r].row = "present" /\ ~queue'[r].processed
        /\ \A q \in Good : q < r => queue'[q].processed \/ q \in runs'[v].live
  BY <1>1 DEF HeldInOrder
<1> QED
  BY <1>1, <1>3, <1>4 DEF HeldInOrder, Good, Staging!OfKind

(* The commit of the only run stores, of each document it holds, the newest *)
(* record that is then processed.                                           *)
LEMMA NewestCommit ==
  ASSUME NewestInv, Staging!TypeOK', NEW u \in Run, Run = {u}, Staging!CommitBatch(u)
  PROVE  NewestInv'
<1> USE DEF NewestInv
<1> DEFINE live == runs[u].live  spent == runs[u].spent
           Held(d) == Staging!GoodFor(live, d)
<1>1. live \in SUBSET Record /\ spent \in SUBSET Record
  BY DEF Staging!TypeOK, Staging!RunState
<1>2. /\ queue' = [r \in Record |-> Staging!Settled(r, live, spent)]
      /\ docs' = [d \in Doc |-> Staging!Stored(live, d)]
      /\ runs'[u].live = {} /\ runs'[u].spent = {}
  BY DEF Staging!CommitBatch, Staging!IdleRun, Staging!TypeOK
<1>3. ASSUME NEW r \in Good
      PROVE  /\ r \in Record
             /\ queue'[r].row = queue[r].row /\ queue'[r].due = queue[r].due
             /\ queue'[r].retries = 0 /\ ~queue'[r].failed
             /\ queue'[r].processed <=> queue[r].processed \/ r \in live
  <2>1. /\ r \in Record /\ r \notin spent /\ r \notin Staging!OfKind(live, "malformed")
        /\ queue[r].retries = 0 /\ ~queue[r].failed /\ queue[r] \in Staging!Row
    BY DEF GoodNeverSpent, Good, Staging!OfKind, Staging!TypeOK
  <2>2. r \in live => queue[r].row = "present"
    BY DEF HeldInOrder, Good, Staging!OfKind
  <2> QED
    BY <1>2, <2>1, <2>2 DEF Staging!Settled, Staging!Row
<1>4. ASSUME NEW r \in Record
      PROVE  /\ queue'[r].row = queue[r].row
             /\ queue[r].processed => queue'[r].processed
             /\ queue[r].row = "absent" => queue'[r] = queue[r]
  <2> HIDE DEF NewestInv, live, spent, Held
  <2>1. /\ queue'[r] = Staging!Settled(r, live, spent)
        /\ queue[r] \in Staging!Row
    <3>1. Staging!TypeOK
      BY DEF NewestInv
    <3> QED
      BY <1>2, <3>1 DEF Staging!TypeOK
  <2>2. CASE queue[r].row # "present"
    BY <2>1, <2>2 DEF Staging!Settled
  <2>3. CASE queue[r].row = "present"
    BY <2>1, <2>3 DEF Staging!Settled, Staging!Row
  <2> QED
    BY <2>2, <2>3
<1>5. GoodNeverSpent'
  BY <1>2, <1>3 DEF GoodNeverSpent, Good, Staging!OfKind
<1>6. OnceSettled' /\ InsertedInOrder'
  BY <1>4 DEF OnceSettled, InsertedInOrder
<1>7. SettledInOrder'
  <2> SUFFICES ASSUME NEW r \in Good
               PROVE  /\ queue'[r].due
                      /\ queue'[r].processed =>
                           \A q \in Good : q < r => queue'[q].processed
    BY DEF SettledInOrder, Good, Staging!OfKind
  <2>1. queue'[r].due
    BY <1>3 DEF SettledInOrder
  <2>2. ASSUME NEW q \in Good, q < r, queue'[r].processed
        PROVE  queue[q].processed \/ q \in live
    <3>1. CASE queue[r].processed
      BY <2>2, <3>1 DEF SettledInOrder
    <3>2. CASE r \in live
      BY <2>2, <3>2 DEF HeldInOrder, Good, Staging!OfKind
    <3> QED
      BY <1>3, <2>2, <3>1, <3>2
  <2> QED
    BY <1>3, <2>1, <2>2
<1>8. HeldInOrder'
  BY <1>2 DEF HeldInOrder, Staging!OfKind
<1>9. NewestWins'
  <2> SUFFICES ASSUME NEW d \in Doc,
                      {r \in Staging!GoodFor(Record, d) : queue'[r].processed} # {}
               PROVE  docs'[d].content =
                        Payload[Staging!Latest({r \in Staging!GoodFor(Record, d) :
                                                  queue'[r].processed})].content
    BY DEF NewestWins, Staging!NewestWins, Staging!GoodFor, Staging!OfKind, Staging!Latest
  <2> DEFINE seen == {r \in Staging!GoodFor(Record, d) : queue[r].processed}
             seenNow == {r \in Staging!GoodFor(Record, d) : queue'[r].processed}
  <2>1. \A r : r \in Staging!GoodFor(Record, d) <=> r \in Good /\ Payload[r].doc = d
    BY DEF Staging!GoodFor, Good
  <2>2. \A r : r \in Held(d) <=> r \in live /\ r \in Good /\ Payload[r].doc = d
    BY <1>1 DEF Staging!GoodFor, Good, Staging!OfKind
  <2>3. seenNow \in SUBSET Record /\ seen \in SUBSET Record /\ Held(d) \in SUBSET Record
    BY <1>1 DEF Staging!GoodFor, Staging!OfKind
  <2>4. seenNow = seen \cup Held(d)
    BY <1>3, <2>1, <2>2
  <2>5. CASE Held(d) = {}
    <3>1. docs'[d] = docs[d]
      BY <1>2, <2>5 DEF Staging!Stored, Staging!Touched
    <3>2. seenNow = seen
      BY <2>4, <2>5
    <3> QED
      BY <3>1, <3>2 DEF NewestWins, Staging!NewestWins
  <2>6. CASE Held(d) # {}
    <3> DEFINE last == Staging!Latest(Held(d))
    <3>1. last \in Held(d) /\ \A q \in Held(d) : q <= last
      BY <2>3, <2>6, LatestIsNewest
    <3>2. last \in Good /\ last \in Staging!OfKind(live, "good") /\ last \in Nat
      BY <2>2, <2>3, <3>1, QueueConstants DEF Staging!OfKind, Good
    <3>3. ASSUME NEW q \in seen
          PROVE  q <= last
      <4>1. q \in Good /\ queue[q].processed /\ q \in Nat
        BY <2>1, <2>3, QueueConstants
      <4>2. ~queue[last].processed
        BY <3>2 DEF HeldInOrder
      <4>3. ~(last < q)
        BY <3>2, <4>1, <4>2 DEF SettledInOrder
      <4> QED
        BY <3>2, <4>1, <4>3
    <3>4. Staging!Latest(seenNow) = last
      <4>1. last \in seenNow /\ \A q \in seenNow : q <= last
        BY <2>4, <3>1, <3>3
      <4> QED
        BY <2>3, <4>1, LatestIs
    <3>5. docs'[d].content = Payload[last].content
      BY <1>2, <3>1
         DEF Staging!Stored, Staging!Touched, Staging!Rewritten, Staging!TypeOK,
             Staging!DocRow
    <3> QED
      BY <3>4, <3>5
  <2> QED
    BY <2>5, <2>6
<1> QED
  BY <1>5, <1>6, <1>7, <1>8, <1>9

LEMMA NewestStagingStep ==
  ASSUME NewestInv, Cardinality(Run) = 1, Staging!Next
  PROVE  NewestInv'
<1> USE DEF NewestInv
<1>0. Staging!TypeOK'
  BY StagingTypeStep
<1>1. ASSUME NEW r \in Record, Staging!Arrive(r)
      PROVE  NewestInv'
  <2>1. \A q \in Record : /\ queue'[q].processed = queue[q].processed
                          /\ queue'[q].due = queue[q].due
                          /\ queue'[q].retries = queue[q].retries
                          /\ queue'[q].failed = queue[q].failed
                          /\ q # r => queue'[q].row = queue[q].row
    BY <1>1 DEF Staging!Arrive, Staging!TypeOK, Staging!Row
  <2>2. queue'[r].row = "present"
    BY <1>1 DEF Staging!Arrive, Staging!TypeOK, Staging!Row
  <2>3. \A q \in Good : q \in Record /\ queue[q].retries = 0 /\ ~queue[q].failed
    BY DEF GoodNeverSpent, Good, Staging!OfKind
  <2> QED
    BY <1>0, <1>1, <2>1, <2>2, <2>3, NewestKept DEF Staging!Arrive
<1>2. ASSUME NEW r \in Record, Staging!BackoffElapses(r)
      PROVE  NewestInv'
  <2>1. \A q \in Record : /\ queue'[q].processed = queue[q].processed
                          /\ queue[q].due => queue'[q].due
                          /\ queue'[q].retries = queue[q].retries
                          /\ queue'[q].failed = queue[q].failed
                          /\ queue'[q].row = queue[q].row
    BY <1>2 DEF Staging!BackoffElapses, Staging!TypeOK, Staging!Row
  <2>2. \A q \in Good : q \in Record /\ queue[q].retries = 0 /\ ~queue[q].failed
    BY DEF GoodNeverSpent, Good, Staging!OfKind
  <2> QED
    BY <1>0, <1>2, <2>1, <2>2, NewestKept DEF Staging!BackoffElapses
<1>3. ASSUME NEW R \in SUBSET Record, Staging!Requeue(R) \/ Staging!Purge(R)
      PROVE  NewestInv'
  <2>1. \A q \in Record : /\ queue'[q].processed = queue[q].processed
                          /\ queue'[q].due = queue[q].due
                          /\ \/ queue'[q].row = queue[q].row
                             \/ queue'[q].row = "purged" /\ queue[q].processed
    <3>1. CASE Staging!Requeue(R)
      BY <3>1 DEF Staging!Requeue, Staging!TypeOK, Staging!Row
    <3>2. CASE Staging!Purge(R)
      BY <3>2 DEF Staging!Purge, Staging!TypeOK, Staging!Row
    <3> QED
      BY <1>3, <3>1, <3>2
  <2>2. \A q \in Good : q \in Record /\ queue[q].retries = 0 /\ ~queue[q].failed
    BY DEF GoodNeverSpent, Good, Staging!OfKind
  <2>3. \A q \in Good : queue'[q].retries = 0 /\ ~queue'[q].failed
    <3>1. CASE Staging!Requeue(R)
      BY <2>2, <3>1 DEF Staging!Requeue, Staging!TypeOK, Staging!Row
    <3>2. CASE Staging!Purge(R)
      BY <2>2, <3>2 DEF Staging!Purge, Staging!TypeOK, Staging!Row
    <3> QED
      BY <1>3, <3>1, <3>2
  <2>4. runs' = runs /\ docs' = docs
    BY <1>3 DEF Staging!Requeue, Staging!Purge
  <2> QED
    BY <1>0, <2>1, <2>3, <2>4, NewestKept
<1>4. ASSUME NEW u \in Run, Staging!Select(u)
      PROVE  NewestInv'
  <2>1. HeldInOrder'
    BY <1>4, NewestSelect
  <2>2. GoodNeverSpent'
    <3>1. \A r \in Good : r \in Record /\ ~(queue[r].retries >= MaxRetries)
      BY QueueConstants DEF GoodNeverSpent, Good, Staging!OfKind
    <3>2. \A r \in Staging!Selected : r \in Record
      BY DEF Staging!Selected
    <3>3. Staging!OfKind(runs'[u].spent, "good") = {}
      BY <1>4, <3>1, <3>2 DEF Staging!Select, Staging!OfKind, Good, Staging!TypeOK
    <3> QED
      BY <1>4, <3>3 DEF Staging!Select, GoodNeverSpent, Staging!TypeOK
  <2>3. queue' = queue /\ docs' = docs
    BY <1>4 DEF Staging!Select
  <2> QED
    BY <1>0, <2>1, <2>2, <2>3
       DEF OnceSettled, InsertedInOrder, SettledInOrder, NewestWins, Staging!NewestWins,
           Good, Staging!GoodFor, Staging!OfKind
<1>5. ASSUME NEW u \in Run, Staging!CommitBatch(u)
      PROVE  NewestInv'
  <2>1. Run = {u}
    <3>1. PICK v : Run = {v}
      BY QueueConstants, FS_Singleton
    <3> QED
      BY <3>1
  <2> QED
    BY <1>0, <1>5, <2>1, NewestCommit
<1>6. ASSUME NEW u \in Run, Staging!AbortBatch(u) \/ Staging!Dispatch(u) \/ Staging!LoseDispatch(u)
      PROVE  NewestInv'
  <2>1. /\ queue' = queue /\ docs' = docs
        /\ \A v \in Run \ {u} : runs'[v] = runs[v]
        /\ runs'[u].live = {} /\ runs'[u].spent = {}
    BY <1>6
       DEF Staging!AbortBatch, Staging!Dispatch, Staging!LoseDispatch,
           Staging!IdleRun, Staging!TypeOK
  <2>2. GoodNeverSpent' /\ HeldInOrder'
    BY <2>1 DEF GoodNeverSpent, HeldInOrder, Staging!OfKind, Good
  <2> QED
    BY <1>0, <2>1, <2>2
       DEF OnceSettled, InsertedInOrder, SettledInOrder, NewestWins, Staging!NewestWins,
           Good, Staging!GoodFor, Staging!OfKind
<1> QED
  BY <1>1, <1>2, <1>3, <1>4, <1>5, <1>6
     DEF Staging!Next, Staging!TableStep, Staging!RunStep

LEMMA NewestInit ==
  ASSUME Staging!Init
  PROVE  NewestInv
<1>1. Staging!TypeOK
  BY StagingTypeInit
<1>2. \A r \in Record : /\ queue[r].row = "absent" /\ ~queue[r].processed
                        /\ ~queue[r].failed /\ queue[r].retries = 0 /\ queue[r].due
  BY DEF Staging!Init
<1>3. \A u \in Run : runs[u].live = {} /\ runs[u].spent = {}
  BY DEF Staging!Init, Staging!IdleRun
<1>4. GoodNeverSpent /\ OnceSettled /\ InsertedInOrder /\ SettledInOrder /\ HeldInOrder
  BY <1>2, <1>3
     DEF GoodNeverSpent, OnceSettled, InsertedInOrder, SettledInOrder, HeldInOrder,
         Good, Staging!OfKind
<1>5. NewestWins
  BY <1>2 DEF NewestWins, Staging!NewestWins, Staging!GoodFor, Staging!OfKind
<1> QED
  BY <1>1, <1>4, <1>5 DEF NewestInv

(* The embedding stage writes statuses and attempts, never a content.       *)
LEMMA ContentsStay ==
  ASSUME TypeOK, EmbeddingStep
  PROVE  \A d \in Doc : docs'[d].content = docs[d].content
<1> SUFFICES ASSUME NEW d \in Doc
             PROVE  docs'[d].content = docs[d].content
  OBVIOUS
<1>1. docs \in [Doc -> Embed!DocRow]
  BY DEF TypeOK, Embed!TypeOK
<1>2. ASSUME NEW D \in SUBSET Doc, NEW sent \in SUBSET D, Embed!RequeueFailed(D, sent)
      PROVE  docs'[d].content = docs[d].content
  BY <1>1, <1>2 DEF Embed!RequeueFailed, Embed!DocRow
<1>3. ASSUME NEW w \in Worker, Embed!ParseBatch(w)
      PROVE  docs'[d].content = docs[d].content
  BY <1>1, <1>3 DEF Embed!ParseBatch, Embed!Counted, Embed!DocRow
<1>4. ASSUME NEW w \in Worker, Embed!Commit(w)
      PROVE  docs'[d].content = docs[d].content
  BY <1>1, <1>4 DEF Embed!Commit, Embed!Finished, Embed!Counted, Embed!DocRow
<1>5. ASSUME UNCHANGED docs
      PROVE  docs'[d].content = docs[d].content
  BY <1>5
<1> QED
  BY <1>2, <1>3, <1>4, <1>5
     DEF EmbeddingStep, Embed!Resend, Embed!RetryPending, Embed!WorkerStep, Embed!Work,
         Embed!Start, Embed!Read, Embed!ParseOne, Embed!WriteGroup, Embed!WriteDoc,
         Embed!Put, Embed!Fail, Embed!Crash

LEMMA NewestStep ==
  ASSUME NewestInv, TypeOK, Cardinality(Run) = 1, [Next]_vars
  PROVE  NewestInv'
<1>0. Staging!TypeOK'
  BY TypeStep DEF TypeOK
<1>1. ASSUME UNCHANGED <<queue, runs>>,
             \A d \in Doc : docs'[d].content = docs[d].content
      PROVE  NewestInv'
  <2>1. \A r \in Good : queue[r].retries = 0 /\ ~queue[r].failed
    BY DEF NewestInv, GoodNeverSpent, Good
  <2> QED
    BY <1>0, <1>1, <2>1, NewestKept
<1>2. CASE EmbeddingStep
  BY <1>1, <1>2, ContentsStay DEF EmbeddingStep
<1>3. CASE UNCHANGED vars
  BY <1>1, <1>3 DEF vars
<1> QED
  BY <1>2, <1>3, NewestStagingStep DEF Next, StagingStep

(* Without overlapping runs a document carries its newest processed record, *)
(* however many records, failed batches and embedding jobs there are.       *)
THEOREM NewestWinsHolds == Cardinality(Run) = 1 /\ Spec => []NewestWins
<1> SUFFICES ASSUME Cardinality(Run) = 1
             PROVE  Spec => []NewestWins
  OBVIOUS
<1>1. Init => NewestInv
  BY NewestInit DEF Init
<1>2. NewestInv /\ TypeOK /\ [Next]_vars => NewestInv'
  BY NewestStep
<1>3. NewestInv => NewestWins
  BY DEF NewestInv
<1> QED
  BY <1>1, <1>2, <1>3, TypeCorrect, PTL DEF Spec

-----------------------------------------------------------------------------
(* Staging as the environment of the embedding stage.  A commit that        *)
(* touches documents is ContentArrives, a dispatch is Dispatched, and every *)
(* other step of a run or of the table stutters.  The dispatch comes after  *)
(* the commit, with jobs and other runs in between, so it must be known of  *)
(* a run that is about to send: what it names was stored and stays.         *)
SentIsStored ==
  \A u \in Run : runs[u].pc = "dispatch" =>
    runs[u].out # {} /\ \A d \in runs[u].out : docs[d].content \in Content

(* What a commit writes over a touched document.                            *)
LEMMA StoredContent ==
  ASSUME TypeOK, NEW live \in SUBSET Record, NEW d \in Doc
  PROVE  IF Staging!Touched(live, d)
         THEN \E c \in Source[d] : /\ Source[d] # {docs[d].content}
                                   /\ c \in Content
                                   /\ Staging!Stored(live, d) = Embed!Rewritten(docs[d], c)
         ELSE Staging!Stored(live, d) = docs[d]
<1>1. CASE Staging!Touched(live, d)
  <2> DEFINE last == Staging!Latest(Staging!GoodFor(live, d))
             c    == Payload[last].content
  <2>1. PICK r \in Staging!GoodFor(live, d) : Payload[r].content # docs[d].content
    BY <1>1 DEF Staging!Touched
  <2>2. \A q \in Staging!GoodFor(live, d) : q \in Record /\ Payload[q].doc = d
    BY DEF Staging!GoodFor, Staging!OfKind
  <2>3. last \in Staging!GoodFor(live, d)
    BY <2>1, <2>2, LatestIsMember
  <2>4. c \in Source[d] /\ c \in Content /\ Payload[r].content \in Source[d]
    BY <2>1, <2>2, <2>3, QueueConstants
  <2>5. Staging!Stored(live, d) = Embed!Rewritten(docs[d], c)
    BY <1>1 DEF Staging!Stored, Staging!Rewritten, Embed!Rewritten
  <2> QED
    BY <1>1, <2>1, <2>4, <2>5
<1>2. CASE ~Staging!Touched(live, d)
  BY <1>2 DEF Staging!Stored
<1> QED
  BY <1>1, <1>2

(* A stored document keeps a content.                                       *)
LEMMA ContentStays ==
  ASSUME TypeOK, NEW live \in SUBSET Record, NEW d \in Doc
  PROVE  docs[d].content \in Content \/ Staging!Touched(live, d)
           => Staging!Stored(live, d).content \in Content
<1>1. CASE Staging!Touched(live, d)
  <2>1. PICK c \in Content : Staging!Stored(live, d) = Embed!Rewritten(docs[d], c)
    BY <1>1, StoredContent
  <2>2. docs[d] \in Embed!DocRow
    BY DEF TypeOK, Embed!TypeOK
  <2> QED
    BY <2>1, <2>2 DEF Embed!Rewritten, Embed!DocRow
<1>2. CASE ~Staging!Touched(live, d)
  BY <1>2, StoredContent
<1> QED
  BY <1>1, <1>2

LEMMA SentStep ==
  ASSUME TypeOK, SentIsStored, [Next]_vars
  PROVE  SentIsStored'
<1>0. /\ runs \in [Run -> Staging!RunState]
      /\ \A u \in Run : /\ runs[u].live \in SUBSET Record
                        /\ runs[u].out \in SUBSET Doc
  BY DEF TypeOK, Staging!TypeOK, Staging!RunState
<1>1. ASSUME UNCHANGED runs, \A d \in Doc : docs'[d].content = docs[d].content
      PROVE  SentIsStored'
  BY <1>0, <1>1 DEF SentIsStored
<1>2. ASSUME NEW u \in Run, UNCHANGED docs, runs' = [runs EXCEPT ![u] = runs'[u]],
             runs'[u].pc # "dispatch"
      PROVE  SentIsStored'
  BY <1>0, <1>2 DEF SentIsStored
<1>3. ASSUME NEW u \in Run, Staging!CommitBatch(u)
      PROVE  SentIsStored'
  <2> DEFINE live == runs[u].live
  <2>1. /\ \A v \in Run \ {u} : runs'[v] = runs[v]
        /\ docs' = [d \in Doc |-> Staging!Stored(live, d)]
        /\ runs'[u].pc = "dispatch" =>
             runs'[u].out # {} /\ \A d \in runs'[u].out : d \in Doc /\ Staging!Touched(live, d)
    BY <1>0, <1>3 DEF Staging!CommitBatch, Staging!IdleRun
  <2>2. \A d \in Doc : docs[d].content \in Content \/ Staging!Touched(live, d)
                         => docs'[d].content \in Content
    BY <1>0, <2>1, ContentStays
  <2>3. \A v \in Run \ {u} : runs'[v].pc = "dispatch" =>
          runs'[v].out # {} /\ \A d \in runs'[v].out : docs'[d].content \in Content
    BY <1>0, <2>1, <2>2 DEF SentIsStored
  <2>4. runs'[u].pc = "dispatch" =>
          runs'[u].out # {} /\ \A d \in runs'[u].out : docs'[d].content \in Content
    BY <2>1, <2>2
  <2> QED
    BY <2>3, <2>4 DEF SentIsStored
<1>4. ASSUME NEW u \in Run,
             \/ Staging!Select(u) \/ Staging!AbortBatch(u)
             \/ Staging!Dispatch(u) \/ Staging!LoseDispatch(u)
      PROVE  SentIsStored'
  <2>1. /\ UNCHANGED docs
        /\ runs' = [runs EXCEPT ![u] = runs'[u]] /\ runs'[u].pc # "dispatch"
    BY <1>0, <1>4
       DEF Staging!Select, Staging!AbortBatch, Staging!Dispatch, Staging!LoseDispatch,
           Staging!IdleRun
  <2> QED
    BY <1>2, <2>1
<1>5. CASE Staging!TableStep
  <2>1. UNCHANGED <<runs, docs>>
    BY <1>5 DEF Staging!TableStep, Staging!Arrive, Staging!BackoffElapses,
                Staging!Requeue, Staging!Purge
  <2> QED
    BY <1>1, <2>1
<1>6. CASE EmbeddingStep
  BY <1>1, <1>6, ContentsStay DEF EmbeddingStep
<1>7. CASE UNCHANGED vars
  BY <1>1, <1>7 DEF vars
<1> QED
  BY <1>3, <1>4, <1>5, <1>6, <1>7 DEF Next, StagingStep, Staging!Next, Staging!RunStep

LEMMA SentInit ==
  ASSUME Init
  PROVE  SentIsStored
BY DEF Init, Staging!Init, Staging!IdleRun, SentIsStored

(* A commit is an arrival of content.                                       *)
LEMMA CommitArrives ==
  ASSUME TypeOK, NEW u \in Run, Staging!CommitBatch(u), UNCHANGED <<index, jobs>>
  PROVE  Embed!Environment
<1> DEFINE live == runs[u].live
           Touches(d) == Staging!Touched(live, d)
           Writes(d, c) == /\ c \in Source[d] /\ Source[d] # {docs[d].content}
                           /\ c \in Content
                           /\ Staging!Stored(live, d) = Embed!Rewritten(docs[d], c)
           new == [d \in Doc |-> IF Touches(d) THEN CHOOSE c \in Content : Writes(d, c)
                                 ELSE Embed!NoContent]
<1>1. live \in SUBSET Record
  BY DEF TypeOK, Staging!TypeOK, Staging!RunState
<1>2. /\ docs' = [d \in Doc |-> Staging!Stored(live, d)]
      /\ UNCHANGED broker
  BY DEF Staging!CommitBatch
<1>3. \A d \in Doc : Touches(d) => \E c \in Content : Writes(d, c)
  BY <1>1, StoredContent
<1>4. \A d \in Doc : ~Touches(d) => Staging!Stored(live, d) = docs[d]
  BY <1>1, StoredContent
<1>5. Embed!NoContent \notin Content
  BY DocsAssumption DEF Embed!NoContent, NoContent
<1> HIDE DEF Touches, Writes
<1>6. ASSUME NEW d \in Doc
      PROVE  IF Touches(d) THEN new[d] \in Content /\ Writes(d, new[d])
             ELSE new[d] = Embed!NoContent
  BY <1>3
<1> HIDE DEF new
<1>7. \A d \in Doc : new[d] # Embed!NoContent =>
        new[d] \in Source[d] /\ Source[d] # {docs[d].content}
  BY <1>6 DEF Writes
<1>8. \A d \in Doc : Staging!Stored(live, d) =
        IF new[d] = Embed!NoContent THEN docs[d] ELSE Embed!Rewritten(docs[d], new[d])
  BY <1>4, <1>5, <1>6 DEF Writes
<1>9. Embed!ContentArrives(new)
  BY <1>2, <1>7, <1>8 DEF Embed!ContentArrives
<1>10. new \in [Doc -> Content \cup {Embed!NoContent}]
  <2>1. new = [d \in Doc |-> new[d]]
    BY DEF new
  <2> QED
    BY <1>6, <2>1
<1> QED
  BY <1>9, <1>10 DEF Embed!Environment

LEMMA EmbeddingStepRefines ==
  ASSUME TypeOK, SentIsStored, [Next]_vars
  PROVE  [Embed!Next]_(Embed!vars)
<1>1. ASSUME NEW u \in Run, Staging!CommitBatch(u), UNCHANGED <<index, jobs>>
      PROVE  Embed!Next
  BY <1>1, CommitArrives DEF Embed!Next
<1>2. ASSUME NEW u \in Run, Staging!Dispatch(u), UNCHANGED <<index, jobs>>
      PROVE  Embed!Next
  <2>1. runs[u].out \in SUBSET Doc
    BY DEF TypeOK, Staging!TypeOK, Staging!RunState
  <2>2. runs[u].out # {} /\ \A d \in runs[u].out : docs[d].content \in Content
    BY <1>2 DEF Staging!Dispatch, SentIsStored
  <2>3. Embed!Dispatched(runs[u].out)
    BY <1>2, <2>1, <2>2, DocsAssumption
       DEF Staging!Dispatch, Embed!Dispatched, Embed!Exists, Embed!NoContent, NoContent,
           Embed!BatchMessage, Staging!BatchMessage
  <2> QED
    BY <2>1, <2>3 DEF Embed!Next, Embed!Environment
<1>3. ASSUME NEW u \in Run, UNCHANGED <<index, jobs>>,
             Staging!Select(u) \/ Staging!AbortBatch(u) \/ Staging!LoseDispatch(u)
      PROVE  UNCHANGED Embed!vars
  BY <1>3 DEF Staging!Select, Staging!AbortBatch, Staging!LoseDispatch, Embed!vars
<1>4. ASSUME Staging!TableStep, UNCHANGED <<index, jobs>>
      PROVE  UNCHANGED Embed!vars
  BY <1>4 DEF Staging!TableStep, Staging!Arrive, Staging!BackoffElapses,
              Staging!Requeue, Staging!Purge, Embed!vars
<1>5. CASE EmbeddingStep
  BY <1>5 DEF EmbeddingStep, Embed!Next
<1>6. CASE UNCHANGED vars
  BY <1>6 DEF vars, Embed!vars
<1> QED
  BY <1>1, <1>2, <1>3, <1>4, <1>5, <1>6
     DEF Next, StagingStep, Staging!Next, Staging!RunStep

(* The staging runs are an environment DocEmbedding allows: what it proves  *)
(* of vectors and statuses holds of them in the pipeline, however many runs *)
(* overlap, abort and lose their dispatch.                                  *)
THEOREM EmbeddingHolds == Spec => EmbeddingImplemented
<1>1. Init => Embed!Init
  BY DEF Init
<1>2. TypeOK /\ SentIsStored /\ [Next]_vars => [Embed!Next]_(Embed!vars)
  BY EmbeddingStepRefines
<1>3. TypeOK /\ SentIsStored /\ [Next]_vars => SentIsStored'
  BY SentStep
<1> QED
  BY <1>1, <1>2, <1>3, SentInit, TypeCorrect, PTL DEF Spec, EmbeddingImplemented, Embed!Spec

-----------------------------------------------------------------------------
(* Chat: what a turn that is under way looks like.                          *)
Running ==
  [pc : {"supervise", "dispatch", "agents", "audit", "save"}, refused : BOOLEAN,
   todo : SUBSET Agent, plan : Planner, outs : [Agent -> Output \cup {NoOutput}],
   answer : Output \cup {NoOutput}]

(* Whatever text a turn holds, an agent's or the answer, carries its caveat *)
(* as soon as it failed an audit: Warned asks this of the last step only.   *)
Cautious(output) == output.unsound => output.caveat

CautiousTurn(t) ==
  /\ t \in Running
  /\ t.pc = "audit" => t.answer # NoOutput
  /\ Cautious(t.answer)
  /\ \A a \in Agent : Cautious(t.outs[a])

TurnsCautious ==
  turns \in [Question -> Ended \cup Running]
    /\ \A q \in Question : turns[q] \in Ended \/ CautiousTurn(turns[q])

LEMMA OutputTypes ==
  /\ NoOutput \notin Output
  /\ ~NoOutput.unsound
  /\ \A text \in Text : Plain(text) \in Output /\ ~Plain(text).unsound
BY DEF NoOutput, Output, Plain, Text

LEMMA OutputUpdates ==
  ASSUME NEW o \in Output, NEW caveat \in BOOLEAN, NEW unsound \in BOOLEAN
  PROVE  LET o2 == [o EXCEPT !.caveat = caveat, !.unsound = unsound]
         IN  o2 \in Output /\ o2.caveat = caveat /\ o2.unsound = unsound
BY DEF Output

LEMMA NewPlannerType == NewPlanner \in Planner
BY GraphAssumption DEF NewPlanner, Planner, Verdict

(* A turn under way is not one that has not begun or has ended.             *)
LEMMA RunningOrEnded ==
  ASSUME TurnsCautious, NEW q \in Question,
         turns[q].pc \in {"supervise", "dispatch", "agents", "audit", "save"}
  PROVE  CautiousTurn(turns[q])
BY DEF TurnsCautious, Ended

(* A step of one turn leaves every other turn alone.                        *)
LEMMA TurnMoves ==
  ASSUME TurnsCautious, NEW q \in Question, NEW t, t \in Ended \/ CautiousTurn(t),
         turns' = [turns EXCEPT ![q] = t]
  PROVE  TurnsCautious'
BY DEF TurnsCautious, CautiousTurn

(* An agent's text is filed, and the planner starts anew after research.    *)
LEMMA FinishMoves ==
  ASSUME TurnsCautious, NEW q \in Question, CautiousTurn(turns[q]),
         NEW a \in Agent, NEW o \in Output \cup {NoOutput}, Cautious(o),
         turns' = Finish(q, a, o)
  PROVE  TurnsCautious'
<1> DEFINE t == turns[q]
           outs == [t.outs EXCEPT ![a] = o]
           plan == IF a = "research" THEN NewPlanner ELSE t.plan
           t2   == [t EXCEPT !.todo = t.todo \ {a}, !.outs = outs, !.plan = plan]
<1>1. /\ t \in Running /\ Cautious(t.answer) /\ \A b \in Agent : Cautious(t.outs[b])
      /\ t.pc = "audit" => t.answer # NoOutput
      /\ turns \in [Question -> Ended \cup Running]
  BY DEF CautiousTurn, TurnsCautious
<1>2. /\ outs \in [Agent -> Output \cup {NoOutput}]
      /\ \A b \in Agent : Cautious(outs[b])
  BY <1>1 DEF Running
<1>3. plan \in Planner
  BY <1>1, NewPlannerType DEF Running
<1>4. turns' = [turns EXCEPT ![q] = t2]
  BY <1>1 DEF Finish, Running
<1> HIDE DEF outs, plan
<1>5. t2 \in Running /\ t2.pc = t.pc /\ t2.answer = t.answer /\ t2.outs = outs
  BY <1>1, <1>2, <1>3 DEF Running
<1>6. CautiousTurn(t2)
  BY <1>1, <1>2, <1>5 DEF CautiousTurn
<1> HIDE DEF t2
<1> QED
  BY <1>4, <1>6, TurnMoves

LEMMA GraphStepCautious ==
  ASSUME TurnsCautious, NEW q \in Question, GraphStep(q)
  PROVE  TurnsCautious'
<1> DEFINE t == turns[q]
<1>0. turns \in [Question -> Ended \cup Running]
  BY DEF TurnsCautious
<1>1. CautiousTurn(t)
  BY RunningOrEnded
     DEF GraphStep, Supervise, Dispatch, Draft, Validate, Drafted, ResearchFails,
         AgentEnds, Combine, Audit
<1>2. /\ t \in Running /\ Cautious(t.answer) /\ \A a \in Agent : Cautious(t.outs[a])
      /\ t.pc = "audit" => t.answer # NoOutput
  BY <1>1 DEF CautiousTurn
<1>3. ASSUME Supervise(q)
      PROVE  TurnsCautious'
  <2>1. CASE turns' = [turns EXCEPT ![q].pc = "dispatch", ![q].refused = TRUE,
                                    ![q].answer = Plain("refusal")]
    <3> DEFINE refusal == Plain("refusal")
               t2 == [t EXCEPT !.pc = "dispatch", !.refused = TRUE, !.answer = refusal]
    <3>1. refusal \in Output /\ Cautious(refusal)
      BY OutputTypes DEF Text, Cautious
    <3>2. turns' = [turns EXCEPT ![q] = t2]
      BY <1>0, <2>1
    <3> HIDE DEF refusal
    <3>3. t2 \in Running /\ t2.pc = "dispatch" /\ t2.answer = refusal /\ t2.outs = t.outs
      BY <1>2, <3>1 DEF Running
    <3>4. CautiousTurn(t2)
      BY <1>2, <3>1, <3>3 DEF CautiousTurn
    <3> HIDE DEF t2
    <3> QED
      BY <3>2, <3>4, TurnMoves
  <2>2. ASSUME NEW chosen \in SUBSET Agent \ {{}},
               turns' = [turns EXCEPT ![q].pc = "dispatch", ![q].todo = chosen]
        PROVE  TurnsCautious'
    <3> DEFINE t2 == [t EXCEPT !.pc = "dispatch", !.todo = chosen]
    <3>1. turns' = [turns EXCEPT ![q] = t2]
      BY <1>0, <2>2
    <3>2. t2 \in Running /\ t2.pc = "dispatch" /\ t2.answer = t.answer /\ t2.outs = t.outs
      BY <1>2 DEF Running
    <3>3. CautiousTurn(t2)
      BY <1>2, <3>2 DEF CautiousTurn
    <3> HIDE DEF t2
    <3> QED
      BY <3>1, <3>3, TurnMoves
  <2> QED
    BY <1>3, <2>1, <2>2 DEF Supervise
<1>4. ASSUME Dispatch(q)
      PROVE  TurnsCautious'
  <2> DEFINE todo == IF t.todo = {} THEN {"research"} ELSE t.todo
             t2 == [t EXCEPT !.pc = "agents", !.todo = todo]
  <2>1. todo \in SUBSET Agent
    BY <1>2, GraphAssumption DEF Running
  <2>2. turns' = [turns EXCEPT ![q] = t2]
    BY <1>0, <1>4 DEF Dispatch
  <2> HIDE DEF todo
  <2>3. t2 \in Running /\ t2.pc = "agents" /\ t2.answer = t.answer /\ t2.outs = t.outs
    BY <1>2, <2>1 DEF Running
  <2>4. CautiousTurn(t2)
    BY <1>2, <2>3 DEF CautiousTurn
  <2> HIDE DEF t2
  <2> QED
    BY <2>2, <2>4, TurnMoves
<1>5. ASSUME NEW plan \in Planner, turns' = [turns EXCEPT ![q].plan = plan]
      PROVE  TurnsCautious'
  <2> DEFINE t2 == [t EXCEPT !.plan = plan]
  <2>1. turns' = [turns EXCEPT ![q] = t2]
    BY <1>0, <1>5
  <2>2. t2 \in Running /\ t2.pc = t.pc /\ t2.answer = t.answer /\ t2.outs = t.outs
    BY <1>2 DEF Running
  <2>3. CautiousTurn(t2)
    BY <1>2, <2>2 DEF CautiousTurn
  <2> HIDE DEF t2
  <2> QED
    BY <2>1, <2>3, TurnMoves
<1>6. ASSUME Draft(q)
      PROVE  TurnsCautious'
  <2>1. PICK text \in {"words", "bare"} :
          turns' = [turns EXCEPT ![q].plan.draft = Plain(text)]
    BY <1>6 DEF Draft
  <2> DEFINE plan == [t.plan EXCEPT !.draft = Plain(text)]
  <2>2. Plain(text) \in Output
    BY OutputTypes DEF Text
  <2>3. t.plan \in Planner
    BY <1>2 DEF Running
  <2>4. plan \in Planner
    BY <2>2, <2>3 DEF Planner
  <2>5. turns' = [turns EXCEPT ![q].plan = plan]
    BY <1>0, <2>1
  <2> HIDE DEF plan
  <2> QED
    BY <1>5, <2>4, <2>5
<1>7. ASSUME Validate(q)
      PROVE  TurnsCautious'
  <2> DEFINE plan == t.plan
             Verd(result) == IF result = "none" THEN plan.verdict ELSE result
  <2>1. PICK result \in Verdict, missing \in BOOLEAN :
          turns' = IF /\ Verd(result) \in {"advisory", "unsound"} /\ missing
                      /\ plan.round < MaxRounds
                   THEN [turns EXCEPT
                           ![q].plan = [NewPlanner EXCEPT !.round = plan.round + 1,
                                                          !.verdict = Verd(result)]]
                   ELSE Finish(q, "research",
                          [plan.draft EXCEPT !.caveat = Verd(result) = "unsound",
                                             !.unsound = result = "unsound"])
    BY <1>7 DEF Validate
  <2>2. plan \in Planner /\ plan.draft \in Output
    BY <1>2, <1>7 DEF Running, Validate, Drafted, Planner
  <2>3. Verd(result) \in Verdict /\ (result = "unsound" => Verd(result) = "unsound")
    BY <2>2 DEF Planner
  <2>4. CASE /\ Verd(result) \in {"advisory", "unsound"} /\ missing
             /\ plan.round < MaxRounds
    <3> DEFINE next == [NewPlanner EXCEPT !.round = plan.round + 1, !.verdict = Verd(result)]
    <3>1. plan.round \in 1 .. MaxRounds /\ MaxRounds \in Nat
      BY <2>2, GraphAssumption DEF Planner
    <3>2. plan.round + 1 \in 1 .. MaxRounds
      BY <2>4, <3>1
    <3>3. next \in Planner
      <4> HIDE DEF Verd
      <4> QED
        BY <2>3, <3>2, NewPlannerType DEF Planner
    <3>4. turns' = [turns EXCEPT ![q].plan = next]
      BY <2>1, <2>4
    <3> HIDE DEF next
    <3> QED
      BY <1>5, <3>3, <3>4
  <2>5. CASE ~(/\ Verd(result) \in {"advisory", "unsound"} /\ missing
               /\ plan.round < MaxRounds)
    <3> DEFINE caveat == Verd(result) = "unsound"
               unsound == result = "unsound"
               o == [plan.draft EXCEPT !.caveat = caveat, !.unsound = unsound]
    <3>1. caveat \in BOOLEAN /\ unsound \in BOOLEAN /\ (unsound => caveat)
      BY <2>3
    <3>2. turns' = Finish(q, "research", o)
      BY <2>1, <2>5
    <3> HIDE DEF caveat, unsound
    <3>3. o \in Output /\ o.caveat = caveat /\ o.unsound = unsound
      BY <2>2, <3>1, OutputUpdates
    <3> HIDE DEF o
    <3> QED
      BY <1>1, <3>1, <3>2, <3>3, FinishMoves, GraphAssumption DEF Cautious
  <2> QED
    BY <2>4, <2>5
<1>8. ASSUME ResearchFails(q)
      PROVE  TurnsCautious'
  <2>1. Plain("words") \in Output /\ Cautious(Plain("words"))
    BY OutputTypes DEF Text, Cautious
  <2> QED
    BY <1>1, <1>8, <2>1, FinishMoves, GraphAssumption DEF ResearchFails
<1>9. ASSUME NEW a \in Agent, AgentEnds(q, a)
      PROVE  TurnsCautious'
  <2>1. PICK o \in {NoOutput} \cup {Plain(text) : text \in {"words", "bare"}} :
          turns' = Finish(q, a, o)
    BY <1>9 DEF AgentEnds
  <2>2. o \in Output \cup {NoOutput} /\ Cautious(o)
    BY <2>1, OutputTypes DEF Text, Cautious
  <2> QED
    BY <1>1, <2>1, <2>2, FinishMoves
<1>10. ASSUME Combine(q)
       PROVE  TurnsCautious'
  <2> DEFINE outs == t.outs
             given == {a \in Agent : outs[a] # NoOutput}
             none == [a \in Agent |-> NoOutput]
  <2>1. outs \in [Agent -> Output \cup {NoOutput}] /\ t.answer \in Output \cup {NoOutput}
    BY <1>2 DEF Running
  <2>2. none \in [Agent -> Output \cup {NoOutput}] /\ \A a \in Agent : Cautious(none[a])
    BY OutputTypes DEF Cautious
  <2>3. ASSUME NEW answer \in Output, Cautious(answer),
               turns' = [turns EXCEPT ![q].pc = "audit", ![q].answer = answer,
                                      ![q].outs = none]
        PROVE  TurnsCautious'
    <3> DEFINE t2 == [t EXCEPT !.pc = "audit", !.answer = answer, !.outs = none]
    <3>1. turns' = [turns EXCEPT ![q] = t2]
      BY <1>0, <2>3
    <3> HIDE DEF none
    <3>2. t2 \in Running /\ t2.pc = "audit" /\ t2.answer = answer /\ t2.outs = none
      BY <1>2, <2>2 DEF Running
    <3>3. CautiousTurn(t2)
      BY <2>2, <2>3, <3>2, OutputTypes DEF CautiousTurn
    <3> HIDE DEF t2
    <3> QED
      BY <3>1, <3>3, TurnMoves
  <2>4. CASE turns' = [turns EXCEPT
                         ![q].pc = "save",
                         ![q].answer = IF t.answer = NoOutput THEN Plain("words")
                                       ELSE t.answer]
    <3> DEFINE answer == IF t.answer = NoOutput THEN Plain("words") ELSE t.answer
               t2 == [t EXCEPT !.pc = "save", !.answer = answer]
    <3>1. answer \in Output \cup {NoOutput} /\ Cautious(answer)
      BY <1>2, <2>1, OutputTypes DEF Text, Cautious
    <3>2. turns' = [turns EXCEPT ![q] = t2]
      BY <1>0, <2>4
    <3> HIDE DEF answer
    <3>3. t2 \in Running /\ t2.pc = "save" /\ t2.answer = answer /\ t2.outs = t.outs
      BY <1>2, <3>1 DEF Running
    <3>4. CautiousTurn(t2)
      BY <1>2, <3>1, <3>3 DEF CautiousTurn
    <3> HIDE DEF t2
    <3> QED
      BY <3>2, <3>4, TurnMoves
  <2>5. ASSUME Cardinality(given) = 1,
               turns' = [turns EXCEPT ![q].pc = "audit",
                                      ![q].answer = outs[CHOOSE a \in given : TRUE],
                                      ![q].outs = none]
        PROVE  TurnsCautious'
    <3> DEFINE lone == CHOOSE a \in given : TRUE
    <3>1. given # {}
      <4> HIDE DEF given
      <4>1. Cardinality(given) = 1
        BY <2>5
      <4>2. Cardinality({}) = 0
        BY FS_EmptySet
      <4> QED
        BY <4>1, <4>2
    <3>2. lone \in given
      BY <3>1
    <3> HIDE DEF lone
    <3>3. outs[lone] \in Output /\ Cautious(outs[lone])
      BY <1>2, <2>1, <3>2
    <3> QED
      BY <2>3, <2>5, <3>3 DEF lone
  <2>6. ASSUME NEW text \in {"words", "bare"},
               turns' = [turns EXCEPT ![q].pc = "audit", ![q].answer = Plain(text),
                                      ![q].outs = none]
        PROVE  TurnsCautious'
    <3>1. Plain(text) \in Output /\ Cautious(Plain(text))
      BY OutputTypes DEF Text, Cautious
    <3> QED
      BY <2>3, <2>6, <3>1
  <2> QED
    BY <1>10, <2>4, <2>5, <2>6 DEF Combine
<1>11. ASSUME Audit(q)
       PROVE  TurnsCautious'
  <2>1. PICK unsound \in BOOLEAN :
          LET warned == [t.answer EXCEPT !.caveat = @ \/ unsound, !.unsound = @ \/ unsound]
          IN  turns' = [turns EXCEPT
                ![q].pc = "save",
                ![q].answer = IF t.answer.text = "bare" /\ ~warned.caveat
                              THEN Plain("words") ELSE warned]
    BY <1>11 DEF Audit
  <2> DEFINE warned == [t.answer EXCEPT !.caveat = @ \/ unsound, !.unsound = @ \/ unsound]
             answer == IF t.answer.text = "bare" /\ ~warned.caveat
                       THEN Plain("words") ELSE warned
             t2 == [t EXCEPT !.pc = "save", !.answer = answer]
  <2>2. t.answer \in Output
    BY <1>2, <1>11 DEF Running, Audit
  <2>3. warned \in Output /\ Cautious(warned)
    BY <1>2, <2>2 DEF Output, Cautious
  <2>4. turns' = [turns EXCEPT ![q] = t2]
    BY <1>0, <2>1
  <2> HIDE DEF warned
  <2>5. answer \in Output /\ Cautious(answer)
    BY <2>3, OutputTypes DEF Text, Cautious
  <2> HIDE DEF answer
  <2>6. t2 \in Running /\ t2.pc = "save" /\ t2.answer = answer /\ t2.outs = t.outs
    BY <1>2, <2>5 DEF Running
  <2>7. CautiousTurn(t2)
    BY <1>2, <2>5, <2>6 DEF CautiousTurn
  <2> HIDE DEF t2
  <2> QED
    BY <2>4, <2>7, TurnMoves
<1> QED
  BY <1>3, <1>4, <1>6, <1>7, <1>8, <1>9, <1>10, <1>11 DEF GraphStep

LEMMA NewTurnCautious == CautiousTurn(NewTurn)
<1>1. NewTurn \in Running
  BY NewPlannerType DEF NewTurn, Running
<1> QED
  BY <1>1, OutputTypes DEF NewTurn, CautiousTurn, Cautious

LEMMA ChatStepCautious ==
  ASSUME TurnsCautious, [ChatNext]_chatVars
  PROVE  TurnsCautious'
<1>1. ASSUME NEW q \in Question, NEW t, t \in Ended \/ t = NewTurn,
             turns' = [turns EXCEPT ![q] = t]
      PROVE  TurnsCautious'
  BY <1>1, NewTurnCautious, TurnMoves
<1>2. ASSUME UNCHANGED turns
      PROVE  TurnsCautious'
  BY <1>2 DEF TurnsCautious
<1>3. ASSUME NEW q \in Question, TurnStep(q)
      PROVE  TurnsCautious'
  BY <1>1, <1>3, GraphStepCautious DEF TurnStep, Save, Saved, Ended
<1>4. ASSUME NEW q \in Question, SubmitQuery(q) \/ GiveUp(q)
      PROVE  TurnsCautious'
  BY <1>1, <1>4 DEF SubmitQuery, GiveUp, Ended
<1> QED
  BY <1>2, <1>3, <1>4 DEF ChatNext, DeleteSession, OpenSubscription, chatVars

LEMMA ChatInitCautious ==
  ASSUME ChatInit
  PROVE  TurnsCautious
BY DEF ChatInit, GraphInit, TurnsCautious, Ended

(* An answer that failed an audit, the planner's in any round or the last   *)
(* one, is stored and streamed with its caveat, for any number of agents    *)
(* and rounds, whatever the LLM returns and whichever step raises.          *)
THEOREM WarnedHolds == ChatSpec => []Warned
<1>1. TurnsCautious => Warned
  BY DEF TurnsCautious, CautiousTurn, Cautious, Warned, Ended
<1> QED
  BY <1>1, ChatInitCautious, ChatStepCautious, PTL DEF ChatSpec

-----------------------------------------------------------------------------
(* The session implements Answering.  That a question is answered only      *)
(* once and only while it is stored is not in the log alone: it is known    *)
(* from where its turn stands, and the deletion of the session empties the  *)
(* log under turns that go on.                                              *)
Said(l, role) == {m.question : m \in {n \in ToSet(l) : n.role = role}}

Asked == Said(log, "user")
Answered == Said(log, "assistant")

SessionInv ==
  /\ TurnsCautious
  /\ log \in Seq(ChatMessage)
  /\ usage \in Nat
  /\ sub \in [exists : BOOLEAN, pending : Nat]
  /\ \A q \in Question :
       /\ turns[q].pc = "unasked" => q \notin Asked
       /\ open /\ turns[q] \notin Ended => q \in Asked
       /\ turns[q].pc # "answered" => q \notin Answered

LEMMA SaidAppended ==
  ASSUME NEW l \in Seq(ChatMessage), NEW m \in ChatMessage
  PROVE  /\ Append(l, m) \in Seq(ChatMessage)
         /\ \A role : Said(Append(l, m), role)
                        = IF m.role = role THEN Said(l, role) \cup {m.question}
                          ELSE Said(l, role)
<1>1. Append(l, m) \in Seq(ChatMessage)
  OBVIOUS
<1>2. ToSet(Append(l, m)) = ToSet(l) \cup {m}
  <2> DEFINE l2 == Append(l, m)
  <2>1. /\ Len(l) \in Nat /\ DOMAIN l = 1 .. Len(l)
        /\ DOMAIN l2 = 1 .. Len(l) + 1
        /\ \A i \in 1 .. Len(l) : l2[i] = l[i]
        /\ l2[Len(l) + 1] = m
    OBVIOUS
  <2> HIDE DEF l2
  <2>2. /\ \A i \in DOMAIN l : i \in DOMAIN l2 /\ l2[i] = l[i]
        /\ Len(l) + 1 \in DOMAIN l2
        /\ \A i \in DOMAIN l2 : i \in DOMAIN l \/ i = Len(l) + 1
    BY <2>1
  <2>3. ToSet(l2) = ToSet(l) \cup {m}
    BY <2>1, <2>2, Zenon DEF ToSet
  <2> QED
    BY <2>3 DEF l2
<1> QED
  BY <1>1, <1>2 DEF Said

LEMMA SaidNothing == \A role : Said(<<>>, role) = {}
BY DEF Said, ToSet

(* A question is stored for the first time: Ask.                            *)
LEMMA SubmitKeeps ==
  ASSUME SessionInv, NEW q \in Question, SubmitQuery(q)
  PROVE  SessionInv' /\ Session!Ask(q)
<1> DEFINE m == [role |-> "user", question |-> q]
<1> USE DEF SessionInv
<1>1. m \in ChatMessage /\ m.role = "user" /\ m.question = q
  BY DEF ChatMessage
<1>2. /\ log' = Append(log, m) /\ open
      /\ turns' = [turns EXCEPT ![q] = NewTurn]
      /\ turns[q] = [pc |-> "unasked"]
      /\ UNCHANGED <<open, usage, sub>>
  BY DEF SubmitQuery, billingVars
<1> HIDE DEF m
<1>3. /\ log' \in Seq(ChatMessage)
      /\ Said(log', "user") = Asked \cup {q}
      /\ Said(log', "assistant") = Answered
  BY <1>1, <1>2, SaidAppended DEF Asked, Answered
<1>4. TurnsCautious' /\ turns \in [Question -> Ended \cup Running]
  BY ChatStepCautious DEF ChatNext, TurnsCautious
<1>5. turns[q].pc = "unasked" /\ NewTurn.pc = "supervise"
  BY <1>2 DEF NewTurn
<1>6. \A p \in Question \ {q} : turns'[p] = turns[p]
  BY <1>2, <1>4
<1>7. turns'[q].pc = "supervise"
  BY <1>2, <1>4, <1>5
<1>8. SessionInv'
  BY <1>2, <1>3, <1>4, <1>5, <1>6, <1>7 DEF Asked, Answered
<1>9. q \notin Asked
  BY <1>5
<1>10. Session!Ask(q)
  BY <1>2, <1>3, <1>9 DEF Session!Ask, Said, Asked, Answered
<1> QED
  BY <1>8, <1>10

(* An answer and its usage event are stored together, or not at all.        *)
LEMMA SaveKeeps ==
  ASSUME SessionInv, NEW q \in Question, Save(q)
  PROVE  /\ SessionInv'
         /\ Session!Answer(q) \/ UNCHANGED Session!answeringVars
<1> USE DEF SessionInv
<1>1. /\ TurnsCautious' /\ turns \in [Question -> Ended \cup Running]
      /\ turns[q].pc = "save" /\ turns[q] \notin Ended
  BY ChatStepCautious DEF ChatNext, TurnStep, TurnsCautious, Save, Ended
<1>2. CASE Saved(q)
  <2> DEFINE m == [role |-> "assistant", question |-> q]
  <2>1. m \in ChatMessage /\ m.role = "assistant" /\ m.question = q
    BY DEF ChatMessage
  <2>2. /\ log' = Append(log, m) /\ open /\ UNCHANGED open
        /\ turns' = [turns EXCEPT ![q] = [pc |-> "answered"]]
        /\ usage' = usage + 1
        /\ sub' = IF sub.exists THEN [sub EXCEPT !.pending = @ + 1] ELSE sub
    BY <1>2 DEF Save, Saved, RecordUsage
  <2> HIDE DEF m
  <2>3. /\ log' \in Seq(ChatMessage)
        /\ Said(log', "assistant") = Answered \cup {q}
        /\ Said(log', "user") = Asked
    BY <2>1, <2>2, SaidAppended DEF Asked, Answered
  <2>4. /\ sub' \in [exists : BOOLEAN, pending : Nat]
        /\ sub'.exists = sub.exists
        /\ sub'.pending = IF sub.exists THEN sub.pending + 1 ELSE sub.pending
    BY <2>2
  <2>5. /\ \A p \in Question \ {q} : turns'[p] = turns[p]
        /\ turns'[q].pc = "answered" /\ turns'[q] \in Ended
    BY <1>1, <2>2 DEF Ended
  <2>6. SessionInv'
    BY <1>1, <2>2, <2>3, <2>4, <2>5 DEF Asked, Answered
  <2>7. q \in Asked /\ q \notin Answered
    BY <1>1, <2>2
  <2>8. Session!Answer(q)
    BY <2>2, <2>3, <2>4, <2>7 DEF Session!Answer, Said, Asked, Answered
  <2> QED
    BY <2>6, <2>8
<1>3. CASE turns' = [turns EXCEPT ![q] = [pc |-> "failed"]]
             /\ UNCHANGED <<log, open, billingVars>>
  <2>1. /\ \A p \in Question \ {q} : turns'[p] = turns[p]
        /\ turns'[q].pc = "failed" /\ turns'[q] \in Ended
        /\ UNCHANGED <<log, open, usage, sub>>
    BY <1>1, <1>3 DEF Ended, billingVars
  <2>2. SessionInv'
    BY <1>1, <2>1 DEF Asked, Answered, Said
  <2>3. UNCHANGED Session!answeringVars
    BY <2>1 DEF Session!answeringVars
  <2> QED
    BY <2>2, <2>3
<1> QED
  BY <1>2, <1>3 DEF Save

(* The graph and an abandoned turn leave the session alone.                 *)
LEMMA TurnKeeps ==
  ASSUME SessionInv, NEW q \in Question,
         GiveUp(q) \/ (GraphStep(q) /\ UNCHANGED <<log, open, billingVars>>)
  PROVE  SessionInv' /\ UNCHANGED Session!answeringVars
<1> USE DEF SessionInv
<1>1. TurnsCautious' /\ turns \in [Question -> Ended \cup Running]
  BY ChatStepCautious DEF ChatNext, TurnStep, TurnsCautious
<1>2. UNCHANGED <<log, open, usage, sub>>
  BY DEF GiveUp, billingVars
<1>3. turns[q] \notin Ended
  <2>1. CASE GiveUp(q)
    BY <2>1 DEF GiveUp
  <2>2. CASE GraphStep(q)
    <3>1. turns[q].pc \in {"supervise", "dispatch", "agents", "audit", "save"}
      BY <2>2 DEF GraphStep, Supervise, Dispatch, Draft, Validate, Drafted, ResearchFails,
                  AgentEnds, Combine, Audit
    <3> QED
      BY <3>1 DEF Ended
  <2> QED
    BY <2>1, <2>2
<1>4. \A p \in Question \ {q} : turns'[p] = turns[p]
  <2>1. CASE GiveUp(q)
    BY <1>1, <2>1 DEF GiveUp
  <2>2. CASE GraphStep(q)
    BY <1>1, <2>2 DEF GraphStep, Supervise, Dispatch, Draft, Validate, ResearchFails,
                      AgentEnds, Combine, Audit, Finish
  <2> QED
    BY <2>1, <2>2
<1>5. turns'[q].pc # "unasked" /\ turns[q].pc # "answered"
  <2>1. turns[q] \in Running
    BY <1>1, <1>3
  <2>2. CASE GiveUp(q)
    BY <1>1, <2>1, <2>2 DEF GiveUp, Running
  <2>3. CASE GraphStep(q)
    <3> DEFINE Goal == turns'[q].pc = turns[q].pc
                         \/ turns'[q].pc \in {"dispatch", "agents", "save", "audit"}
    <3>1. ASSUME Supervise(q) \/ Dispatch(q)
          PROVE  Goal
      BY <1>1, <2>1, <3>1 DEF Supervise, Dispatch, Running
    <3>2. ASSUME NEW a, NEW o, turns' = Finish(q, a, o)
          PROVE  Goal
      BY <1>1, <2>1, <3>2 DEF Finish, Running
    <3>3. ASSUME Draft(q)
          PROVE  Goal
      BY <1>1, <2>1, <3>3 DEF Draft, Running
    <3>4. ASSUME Validate(q)
          PROVE  Goal
      <4>1. ASSUME NEW plan, turns' = [turns EXCEPT ![q].plan = plan]
            PROVE  Goal
        BY <1>1, <2>1, <4>1 DEF Running
      <4> HIDE DEF Goal
      <4> QED
        BY <3>2, <3>4, <4>1 DEF Validate
    <3>5. ASSUME ResearchFails(q) \/ \E a \in Agent : AgentEnds(q, a)
          PROVE  Goal
      <4> HIDE DEF Goal
      <4> QED
        BY <3>2, <3>5 DEF ResearchFails, AgentEnds
    <3>6. ASSUME Combine(q)
          PROVE  Goal
      <4>1. ASSUME NEW answer, turns' = [turns EXCEPT ![q].pc = "save", ![q].answer = answer]
            PROVE  Goal
        BY <1>1, <2>1, <4>1 DEF Running
      <4>2. ASSUME NEW answer, NEW outs,
                   turns' = [turns EXCEPT ![q].pc = "audit", ![q].answer = answer,
                                          ![q].outs = outs]
            PROVE  Goal
        BY <1>1, <2>1, <4>2 DEF Running
      <4> HIDE DEF Goal
      <4> QED
        BY <3>6, <4>1, <4>2 DEF Combine
    <3>7. ASSUME Audit(q)
          PROVE  Goal
      BY <1>1, <2>1, <3>7 DEF Audit, Running
    <3>8. Goal
      <4> HIDE DEF Goal
      <4> QED
        BY <2>3, <3>1, <3>3, <3>4, <3>5, <3>6, <3>7 DEF GraphStep
    <3> QED
      BY <2>1, <3>8 DEF Running
  <2> QED
    BY <2>1, <2>2, <2>3
<1>6. SessionInv'
  BY <1>1, <1>2, <1>3, <1>4, <1>5 DEF Asked, Answered, Said
<1>7. UNCHANGED Session!answeringVars
  BY <1>2 DEF Session!answeringVars
<1> QED
  BY <1>6, <1>7

(* The session is deleted: the log is empty, and the turns that go on can   *)
(* store nothing any more.                                                  *)
LEMMA DeleteKeeps ==
  ASSUME SessionInv, DeleteSession
  PROVE  SessionInv' /\ Session!Close
<1> USE DEF SessionInv
<1>1. /\ open' = FALSE /\ log' = <<>>
      /\ UNCHANGED <<turns, usage, sub>>
  BY DEF DeleteSession, billingVars
<1>2. /\ log' \in Seq(ChatMessage)
      /\ Said(log', "user") = {} /\ Said(log', "assistant") = {}
  BY <1>1, SaidNothing
<1>3. TurnsCautious'
  BY ChatStepCautious DEF ChatNext
<1>4. SessionInv'
  BY <1>1, <1>2, <1>3 DEF Asked, Answered
<1>5. Session!Close
  BY <1>1, <1>2 DEF Session!Close, Said
<1> QED
  BY <1>4, <1>5

(* The subscription row appears: from now on answers are due.               *)
LEMMA SubscriptionKeeps ==
  ASSUME SessionInv, OpenSubscription
  PROVE  SessionInv' /\ Session!Meter
<1> USE DEF SessionInv
<1>1. /\ sub' = [sub EXCEPT !.exists = TRUE]
      /\ UNCHANGED <<turns, log, open, usage>>
  BY DEF OpenSubscription
<1>2. /\ sub' \in [exists : BOOLEAN, pending : Nat]
      /\ sub'.exists = TRUE /\ sub'.pending = sub.pending
  BY <1>1
<1>3. TurnsCautious'
  BY ChatStepCautious DEF ChatNext
<1>4. SessionInv'
  BY <1>1, <1>2, <1>3 DEF Asked, Answered, Said
<1>5. Session!Meter
  BY <1>1, <1>2 DEF Session!Meter
<1> QED
  BY <1>4, <1>5

LEMMA SessionInit ==
  ASSUME ChatInit
  PROVE  SessionInv /\ Session!AnsweringInit
<1>1. /\ turns = [q \in Question |-> [pc |-> "unasked"]]
      /\ log = <<>> /\ open = TRUE /\ usage = 0
      /\ sub = [exists |-> FALSE, pending |-> 0]
  BY DEF ChatInit, GraphInit
<1>2. log \in Seq(ChatMessage) /\ Asked = {} /\ Answered = {}
  BY <1>1, SaidNothing DEF Asked, Answered
<1>3. SessionInv
  BY <1>1, <1>2, ChatInitCautious DEF SessionInv, Ended
<1>4. Session!AnsweringInit
  BY <1>1, <1>2 DEF Session!AnsweringInit, Asked, Answered, Said
<1> QED
  BY <1>3, <1>4

LEMMA SessionStep ==
  ASSUME SessionInv, [ChatNext]_chatVars
  PROVE  SessionInv' /\ [Session!AnsweringNext]_(Session!answeringVars)
<1>1. ASSUME NEW q \in Question, SubmitQuery(q)
      PROVE  SessionInv' /\ Session!AnsweringNext
  BY <1>1, SubmitKeeps DEF Session!AnsweringNext
<1>2. ASSUME NEW q \in Question, Save(q)
      PROVE  SessionInv' /\ [Session!AnsweringNext]_(Session!answeringVars)
  BY <1>2, SaveKeeps DEF Session!AnsweringNext
<1>3. ASSUME NEW q \in Question,
             GiveUp(q) \/ (GraphStep(q) /\ UNCHANGED <<log, open, billingVars>>)
      PROVE  SessionInv' /\ UNCHANGED Session!answeringVars
  BY <1>3, TurnKeeps
<1>4. ASSUME DeleteSession \/ OpenSubscription
      PROVE  SessionInv' /\ Session!AnsweringNext
  BY <1>4, DeleteKeeps, SubscriptionKeeps DEF Session!AnsweringNext
<1>5. ASSUME UNCHANGED chatVars
      PROVE  SessionInv' /\ UNCHANGED Session!answeringVars
  <2>1. UNCHANGED <<turns, log, open, usage, sub>>
    BY <1>5 DEF chatVars, billingVars
  <2>2. TurnsCautious'
    BY <1>5, ChatStepCautious DEF SessionInv
  <2>3. SessionInv'
    BY <2>1, <2>2 DEF SessionInv, Asked, Answered, Said
  <2> QED
    BY <2>1, <2>3 DEF Session!answeringVars
<1> QED
  BY <1>1, <1>2, <1>3, <1>4, <1>5 DEF ChatNext, TurnStep

(* A chat session answers a stored question at most once, bills every       *)
(* stored answer and nothing else, counts it as due if the tenant has a     *)
(* subscription, and leaves nothing in a deleted session, for any questions *)
(* at once, whichever clients disconnect and whichever saves fail.          *)
THEOREM AnsweringHolds == ChatSpec => AnsweringImplemented
<1> QED
  BY SessionInit, SessionStep, PTL
     DEF ChatSpec, AnsweringImplemented, Session!AnsweringSpec
=============================================================================
