------------------------- MODULE StagingQueueProofs --------------------------
(***************************************************************************)
(* What holds of StagingQueue for every set of records, of overlapping     *)
(* runs, and every value of its limits.                                    *)
(***************************************************************************)
EXTENDS StagingQueue, FiniteSetTheorems, TLAPS

(* The newest of some records is one of them.                               *)
LEMMA LatestIsMember ==
  ASSUME NEW R \in SUBSET Record, R # {}
  PROVE  Latest(R) \in R
BY QueueAssumption DEF Latest

(* A row whose columns are assigned values of their types is a row.         *)
LEMMA RowUpdates ==
  ASSUME NEW row \in Row, NEW n \in Nat
  PROVE  /\ [row EXCEPT !.processed = TRUE] \in Row
         /\ [row EXCEPT !.processed = TRUE, !.failed = TRUE] \in Row
         /\ [row EXCEPT !.retries = n, !.due = FALSE] \in Row
         /\ [row EXCEPT !.failed = FALSE, !.retries = n] \in Row
BY DEF Row

(* What a transaction writes to the queue and to the documents is of the    *)
(* type of a row.                                                           *)
LEMMA SettledType ==
  ASSUME TypeOK, NEW r \in Record, NEW live \in SUBSET Record, NEW spent \in SUBSET Record
  PROVE  Settled(r, live, spent) \in Row
<1>1. queue[r] \in Row
  BY DEF TypeOK
<1>2. queue[r].retries + 1 \in Nat
  BY <1>1 DEF Row
<1> QED
  BY <1>1, <1>2, RowUpdates DEF Settled

LEMMA StoredType ==
  ASSUME TypeOK, NEW live \in SUBSET Record, NEW d \in Doc
  PROVE  Stored(live, d) \in DocRow
<1>1. CASE Touched(live, d)
  <2>1. /\ GoodFor(live, d) # {}
        /\ GoodFor(live, d) \in SUBSET Record
    BY <1>1 DEF Touched, GoodFor, OfKind
  <2>2. Latest(GoodFor(live, d)) \in Record
    BY <2>1, LatestIsMember
  <2>3. Payload[Latest(GoodFor(live, d))].content \in Content
    BY <2>2, QueueAssumption
  <2> QED
    BY <1>1, <2>3 DEF Stored, Rewritten, TypeOK, DocRow, EmbeddingStatus
<1>2. CASE ~Touched(live, d)
  BY <1>2 DEF Stored, TypeOK
<1> QED
  BY <1>1, <1>2

(* Every step keeps every variable in its type.                             *)
LEMMA TypeStep ==
  ASSUME TypeOK, [Next]_vars
  PROVE  TypeOK'
<1> USE DEF TypeOK
<1>1. ASSUME NEW r \in Record, Arrive(r)
      PROVE  TypeOK'
  BY <1>1 DEF Arrive, Row
<1>2. ASSUME NEW r \in Record, BackoffElapses(r)
      PROVE  TypeOK'
  BY <1>2 DEF BackoffElapses, Row
<1>3. ASSUME NEW R \in SUBSET Record, Requeue(R)
      PROVE  TypeOK'
  BY <1>3 DEF Requeue, Row
<1>4. ASSUME NEW R \in SUBSET Record, Purge(R)
      PROVE  TypeOK'
  BY <1>4 DEF Purge, Row
<1>5. ASSUME NEW u \in Run, Select(u)
      PROVE  TypeOK'
  BY <1>5 DEF Select, Selected, RunState
<1>6. ASSUME NEW u \in Run, CommitBatch(u)
      PROVE  TypeOK'
  <2>1. /\ runs[u].live \in SUBSET Record
        /\ runs[u].spent \in SUBSET Record
    BY DEF RunState
  <2>2. queue' \in [Record -> Row]
    BY <1>6, <2>1, SettledType DEF CommitBatch
  <2>3. docs' \in [Doc -> DocRow]
    BY <1>6, <2>1, StoredType DEF CommitBatch
  <2>4. runs' \in [Run -> RunState]
    BY <1>6 DEF CommitBatch, RunState, IdleRun
  <2> QED
    BY <1>6, <2>2, <2>3, <2>4 DEF CommitBatch
<1>7. ASSUME NEW u \in Run, AbortBatch(u)
      PROVE  TypeOK'
  BY <1>7 DEF AbortBatch, RunState, IdleRun
<1>8. ASSUME NEW u \in Run, Dispatch(u)
      PROVE  TypeOK'
  <2>1. BatchMessage(runs[u].out) \in Message(MaxTaskRetries)
    BY QueueAssumption DEF BatchMessage, Message, RunState
  <2> QED
    BY <1>8, <2>1 DEF Dispatch, RunState, IdleRun
<1>9. ASSUME NEW u \in Run, LoseDispatch(u)
      PROVE  TypeOK'
  BY <1>9 DEF LoseDispatch, RunState, IdleRun
<1>10. CASE UNCHANGED vars
  BY <1>10 DEF vars
<1> QED
  BY <1>1, <1>2, <1>3, <1>4, <1>5, <1>6, <1>7, <1>8, <1>9, <1>10
     DEF Next, TableStep, RunStep

LEMMA TypeInit ==
  ASSUME Init
  PROVE  TypeOK
BY DocsAssumption
   DEF Init, TypeOK, Row, RunState, IdleRun, DocRow, NoDoc, EmbeddingStatus, NoContent

(* Every variable keeps its type.                                           *)
THEOREM TypeCorrect == Spec => []TypeOK
BY TypeInit, TypeStep, PTL DEF Spec

-----------------------------------------------------------------------------
(* Good records.  StoredWhenSettled is not inductive: it needs that a good  *)
(* record is never charged a retry, and so is never among the spent records *)
(* a run holds, nor marked failed before it is processed.                   *)
GoodNeverSpent ==
  /\ \A r \in OfKind(Record, "good") : queue[r].retries = 0 /\ ~queue[r].failed
  /\ \A u \in Run : OfKind(runs[u].spent, "good") = {}

StoredInv == TypeOK /\ GoodNeverSpent /\ StoredWhenSettled

(* A transaction leaves a document for every good record it held.           *)
LEMMA StoredExists ==
  ASSUME TypeOK, NEW live \in SUBSET Record, NEW r \in OfKind(live, "good")
  PROVE  Exists(Stored(live, Payload[r].doc))
<1> DEFINE d == Payload[r].doc
<1>1. r \in GoodFor(live, d) /\ d \in Doc /\ Payload[r].content \in Content
  BY QueueAssumption DEF GoodFor, OfKind
<1>2. GoodFor(live, d) \in SUBSET Record
  BY DEF GoodFor, OfKind
<1>3. CASE Touched(live, d)
  <2>1. Payload[Latest(GoodFor(live, d))].content \in Content
    BY <1>1, <1>2, LatestIsMember, QueueAssumption
  <2>2. docs[d] \in DocRow
    BY <1>1 DEF TypeOK
  <2> QED
    BY <1>3, <2>1, <2>2, DocsAssumption DEF Stored, Rewritten, Exists, DocRow, NoContent
<1>4. CASE ~Touched(live, d)
  BY <1>1, <1>4, DocsAssumption DEF Stored, Touched, Exists, NoContent
<1> QED
  BY <1>3, <1>4

(* A document, once stored, stays.                                          *)
LEMMA StoredKeeps ==
  ASSUME TypeOK, NEW live \in SUBSET Record, NEW d \in Doc, Exists(docs[d])
  PROVE  Exists(Stored(live, d))
<1>1. CASE Touched(live, d)
  <2>1. PICK r \in GoodFor(live, d) : TRUE
    BY <1>1 DEF Touched
  <2>2. r \in OfKind(live, "good") /\ Payload[r].doc = d
    BY <2>1 DEF GoodFor
  <2> QED
    BY <2>2, StoredExists
<1>2. CASE ~Touched(live, d)
  BY <1>2 DEF Stored
<1> QED
  BY <1>1, <1>2

LEMMA StoredStep ==
  ASSUME StoredInv, [Next]_vars
  PROVE  StoredInv'
<1> USE DEF StoredInv
<1>0. TypeOK'
  BY TypeStep
<1>1. ASSUME NEW r \in Record, Arrive(r) \/ BackoffElapses(r)
      PROVE  GoodNeverSpent' /\ StoredWhenSettled'
  BY <1>1 DEF Arrive, BackoffElapses, GoodNeverSpent, StoredWhenSettled, OfKind, TypeOK, Row
<1>2. ASSUME NEW R \in SUBSET Record, Requeue(R) \/ Purge(R)
      PROVE  GoodNeverSpent' /\ StoredWhenSettled'
  <2>1. CASE Requeue(R)
    BY <1>2, <2>1 DEF Requeue, GoodNeverSpent, StoredWhenSettled, OfKind, TypeOK, Row
  <2>2. CASE Purge(R)
    BY <1>2, <2>2 DEF Purge, GoodNeverSpent, StoredWhenSettled, OfKind, TypeOK, Row
  <2> QED
    BY <1>2, <2>1, <2>2
<1>3. ASSUME NEW u \in Run, Select(u)
      PROVE  GoodNeverSpent' /\ StoredWhenSettled'
  <2>1. StoredWhenSettled'
    BY <1>3 DEF Select, StoredWhenSettled, OfKind
  <2>2. \A r \in OfKind(Record, "good") : ~(queue[r].retries >= MaxRetries)
    BY QueueAssumption DEF GoodNeverSpent
  <2>3. \A r \in Selected : r \in Record
    BY DEF Selected
  <2>4. OfKind(runs'[u].spent, "good") = {}
    BY <1>3, <2>2, <2>3 DEF Select, OfKind, TypeOK
  <2> QED
    BY <1>3, <2>1, <2>4 DEF Select, GoodNeverSpent, TypeOK
<1>4. ASSUME NEW u \in Run, CommitBatch(u)
      PROVE  GoodNeverSpent' /\ StoredWhenSettled'
  <2> DEFINE live == runs[u].live  spent == runs[u].spent
  <2>1. live \in SUBSET Record /\ spent \in SUBSET Record
    BY DEF TypeOK, RunState
  <2>2. /\ queue' = [r \in Record |-> Settled(r, live, spent)]
        /\ docs' = [d \in Doc |-> Stored(live, d)]
    BY <1>4 DEF CommitBatch
  <2>3. ASSUME NEW r \in OfKind(Record, "good")
        PROVE  /\ queue'[r].retries = 0 /\ ~queue'[r].failed
               /\ queue'[r].processed => Exists(docs'[Payload[r].doc])
    <3>1. /\ r \in Record /\ Payload[r].doc \in Doc
          /\ r \notin spent /\ r \notin OfKind(live, "malformed")
          /\ queue[r].retries = 0 /\ ~queue[r].failed /\ queue[r] \in Row
      BY QueueAssumption DEF GoodNeverSpent, OfKind, TypeOK
    <3>2. CASE queue[r].processed
      BY <2>1, <2>2, <3>1, <3>2, StoredKeeps DEF Settled, StoredWhenSettled, Row
    <3>3. CASE ~queue[r].processed /\ r \notin live
      BY <2>2, <3>1, <3>3 DEF Settled
    <3>4. CASE ~queue[r].processed /\ r \in live
      <4>1. Exists(docs'[Payload[r].doc])
        BY <2>1, <2>2, <3>1, <3>4, StoredExists DEF OfKind
      <4> QED
        BY <2>2, <3>1, <3>4, <4>1 DEF Settled, Row
    <3> QED
      BY <3>2, <3>3, <3>4
  <2>4. runs' = [runs EXCEPT ![u] = runs'[u]] /\ runs'[u].spent = {}
    BY <1>4 DEF CommitBatch, IdleRun, TypeOK
  <2>5. \A v \in Run : OfKind(runs'[v].spent, "good") = {}
    BY <2>4 DEF GoodNeverSpent, OfKind, TypeOK
  <2> QED
    BY <2>3, <2>5 DEF GoodNeverSpent, StoredWhenSettled, OfKind
<1>5. ASSUME NEW u \in Run, AbortBatch(u) \/ Dispatch(u) \/ LoseDispatch(u)
      PROVE  GoodNeverSpent' /\ StoredWhenSettled'
  BY <1>5 DEF AbortBatch, Dispatch, LoseDispatch, IdleRun, GoodNeverSpent,
              StoredWhenSettled, OfKind, TypeOK
<1>6. CASE UNCHANGED vars
  BY <1>0, <1>6 DEF vars, GoodNeverSpent, StoredWhenSettled, OfKind, Exists
<1> QED
  BY <1>0, <1>1, <1>2, <1>3, <1>4, <1>5, <1>6 DEF Next, TableStep, RunStep

LEMMA StoredInit ==
  ASSUME Init
  PROVE  StoredInv
<1>1. TypeOK
  BY TypeInit
<1> QED
  BY <1>1 DEF Init, IdleRun, StoredInv, GoodNeverSpent, StoredWhenSettled, OfKind

(* A record marked processed has left its document behind and was never     *)
(* dead-lettered, however many runs overlap and whatever they abort.        *)
THEOREM StoredWhenSettledHolds == Spec => []StoredWhenSettled
<1>1. StoredInv => StoredWhenSettled
  BY DEF StoredInv
<1> QED
  BY <1>1, StoredInit, StoredStep, PTL DEF Spec

-----------------------------------------------------------------------------
(* Where content comes from.  ContentHasRecord is not inductive: the record *)
(* whose content a run stores must be marked by the same commit, and it is  *)
(* unless retention deleted it, which happens to marked records only.       *)
HeldRowsInserted ==
  /\ \A r \in Record : queue[r].row = "purged" => queue[r].processed
  /\ \A u \in Run : \A r \in runs[u].live : queue[r].row # "absent"

ContentInv == TypeOK /\ HeldRowsInserted /\ ContentHasRecord

(* A transaction never takes a mark back.                                   *)
LEMMA MarksStay ==
  ASSUME TypeOK, NEW r \in Record, NEW live \in SUBSET Record, NEW spent \in SUBSET Record
  PROVE  /\ queue[r].processed => Settled(r, live, spent).processed
         /\ Settled(r, live, spent).row = queue[r].row
BY DEF Settled, TypeOK, Row

(* The good records a transaction held are marked when it has committed.    *)
LEMMA HeldAreMarked ==
  ASSUME TypeOK, HeldRowsInserted, NEW u \in Run,
         NEW r \in OfKind(runs[u].live, "good")
  PROVE  Settled(r, runs[u].live, runs[u].spent).processed
<1>1. r \in runs[u].live /\ r \in Record /\ r \notin OfKind(runs[u].live, "malformed")
  BY DEF OfKind, TypeOK, RunState
<1>2. queue[r] \in Row /\ (queue[r].row # "present" => queue[r].processed)
  BY <1>1 DEF HeldRowsInserted, TypeOK, Row
<1> QED
  BY <1>1, <1>2 DEF Settled, Row

(* Steps that keep the marks and the runs, and do not undo an insert.       *)
LEMMA TableKeepsContent ==
  ASSUME ContentInv, UNCHANGED <<runs, docs>>,
         \A r \in Record :
           /\ queue'[r].processed = queue[r].processed
           /\ queue[r].row # "absent" => queue'[r].row # "absent"
           /\ queue'[r].row = "purged" => queue[r].row = "purged" \/ queue[r].processed
  PROVE  HeldRowsInserted' /\ ContentHasRecord'
<1> USE DEF ContentInv
<1>1. \A u \in Run : runs[u].live \in SUBSET Record
  BY DEF TypeOK, RunState
<1>2. HeldRowsInserted'
  BY <1>1 DEF HeldRowsInserted
<1>3. ContentHasRecord'
  BY DEF ContentHasRecord, Exists, GoodFor, OfKind
<1> QED
  BY <1>2, <1>3

LEMMA ContentStep ==
  ASSUME ContentInv, [Next]_vars
  PROVE  ContentInv'
<1> USE DEF ContentInv
<1>0. TypeOK'
  BY TypeStep
<1>1. ASSUME NEW r \in Record, Arrive(r)
      PROVE  HeldRowsInserted' /\ ContentHasRecord'
  BY <1>1, TableKeepsContent DEF Arrive, TypeOK, Row
<1>2. ASSUME NEW r \in Record, BackoffElapses(r)
      PROVE  HeldRowsInserted' /\ ContentHasRecord'
  BY <1>2, TableKeepsContent DEF BackoffElapses, TypeOK, Row
<1>3. ASSUME NEW R \in SUBSET Record, Requeue(R)
      PROVE  HeldRowsInserted' /\ ContentHasRecord'
  <2>1. \A r \in Record : /\ queue'[r].row = queue[r].row
                          /\ queue'[r].processed = queue[r].processed
    BY <1>3 DEF Requeue, TypeOK, Row
  <2> QED
    BY <1>3, <2>1, TableKeepsContent DEF Requeue
<1>4. ASSUME NEW R \in SUBSET Record, Purge(R)
      PROVE  HeldRowsInserted' /\ ContentHasRecord'
  <2>1. \A r \in Record : /\ queue'[r].processed = queue[r].processed
                          /\ \/ queue'[r].row = queue[r].row
                             \/ queue'[r].row = "purged" /\ queue[r].processed
    BY <1>4 DEF Purge, TypeOK, Row
  <2> QED
    BY <1>4, <2>1, TableKeepsContent DEF Purge
<1>5. ASSUME NEW u \in Run, Select(u)
      PROVE  HeldRowsInserted' /\ ContentHasRecord'
  <2>1. \A r \in runs'[u].live : queue[r].row # "absent"
    BY <1>5 DEF Select, Selected, Eligible, TypeOK
  <2> QED
    BY <1>5, <2>1 DEF Select, HeldRowsInserted, ContentHasRecord, Exists, GoodFor, OfKind,
                      TypeOK
<1>6. ASSUME NEW u \in Run, CommitBatch(u)
      PROVE  HeldRowsInserted' /\ ContentHasRecord'
  <2> DEFINE live == runs[u].live  spent == runs[u].spent
  <2>1. live \in SUBSET Record /\ spent \in SUBSET Record
    BY DEF TypeOK, RunState
  <2>2. /\ queue' = [r \in Record |-> Settled(r, live, spent)]
        /\ docs' = [d \in Doc |-> Stored(live, d)]
        /\ \A v \in Run \ {u} : runs'[v] = runs[v]
        /\ runs'[u].live = {}
    BY <1>6 DEF CommitBatch, IdleRun, TypeOK
  <2>3. \A r \in Record : /\ queue[r].processed => queue'[r].processed
                          /\ queue'[r].row = queue[r].row
    BY <2>1, <2>2, MarksStay
  <2>4. HeldRowsInserted'
    BY <2>2, <2>3 DEF HeldRowsInserted, TypeOK, RunState
  <2>5. ASSUME NEW d \in Doc, Exists(docs'[d])
        PROVE  \E r \in GoodFor(Record, d) :
                 queue'[r].processed /\ Payload[r].content = docs'[d].content
    <3>1. CASE Touched(live, d)
      <4> DEFINE last == Latest(GoodFor(live, d))
      <4>1. last \in GoodFor(live, d)
        BY <2>1, <3>1, LatestIsMember DEF Touched, GoodFor, OfKind
      <4>2. last \in OfKind(live, "good") /\ last \in GoodFor(Record, d)
        BY <2>1, <4>1 DEF GoodFor, OfKind
      <4>3. queue'[last].processed
        BY <2>2, <4>2, HeldAreMarked DEF GoodFor, OfKind
      <4>4. docs'[d].content = Payload[last].content
        BY <2>2, <3>1 DEF Stored, Rewritten, TypeOK, DocRow
      <4> QED
        BY <4>2, <4>3, <4>4
    <3>2. CASE ~Touched(live, d)
      <4>1. docs'[d] = docs[d]
        BY <2>2, <3>2 DEF Stored
      <4>2. PICK r \in GoodFor(Record, d) :
              queue[r].processed /\ Payload[r].content = docs[d].content
        BY <2>5, <4>1 DEF ContentHasRecord
      <4> QED
        BY <2>3, <4>1, <4>2 DEF GoodFor, OfKind
    <3> QED
      BY <3>1, <3>2
  <2> QED
    BY <2>4, <2>5 DEF ContentHasRecord, Exists, GoodFor, OfKind
<1>7. ASSUME NEW u \in Run, AbortBatch(u) \/ Dispatch(u) \/ LoseDispatch(u)
      PROVE  HeldRowsInserted' /\ ContentHasRecord'
  BY <1>7 DEF AbortBatch, Dispatch, LoseDispatch, IdleRun, HeldRowsInserted,
              ContentHasRecord, Exists, GoodFor, OfKind, TypeOK
<1>8. CASE UNCHANGED vars
  BY <1>0, <1>8 DEF vars, HeldRowsInserted, ContentHasRecord, Exists, GoodFor, OfKind
<1> QED
  BY <1>0, <1>1, <1>2, <1>3, <1>4, <1>5, <1>6, <1>7, <1>8 DEF Next, TableStep, RunStep

LEMMA ContentInit ==
  ASSUME Init
  PROVE  ContentInv
<1>1. TypeOK
  BY TypeInit
<1> QED
  BY <1>1 DEF Init, IdleRun, NoDoc, Exists, ContentInv, HeldRowsInserted, ContentHasRecord

(* Every document's content came from a record marked processed.            *)
THEOREM ContentHasRecordHolds == Spec => []ContentHasRecord
<1>1. ContentInv => ContentHasRecord
  BY DEF ContentInv
<1> QED
  BY <1>1, ContentInit, ContentStep, PTL DEF Spec

-----------------------------------------------------------------------------
(* The retry cap.  A run that holds a record live will charge it at most    *)
(* once more, so the retries made and the runs that hold the record are     *)
(* bounded together; that sum, unlike the retries, is inductive.            *)
Holders(r) == {u \in Run : r \in runs[u].live}

ChargesBounded ==
  \A r \in Record :
    queue[r].retries + Cardinality(Holders(r)) <= MaxRetries - 1 + Cardinality(Run)

ChargesInv == TypeOK /\ ChargesBounded

LEMMA RunCount == Cardinality(Run) \in Nat /\ Cardinality(Run) >= 1
<1>1. Cardinality(Run) \in Nat
  BY QueueAssumption, FS_CardinalityType
<1>2. Cardinality(Run) # 0
  BY QueueAssumption, FS_EmptySet
<1> QED
  BY <1>1, <1>2

LEMMA HoldersCount ==
  ASSUME NEW r
  PROVE  /\ IsFiniteSet(Holders(r))
         /\ Cardinality(Holders(r)) \in Nat
         /\ Cardinality(Holders(r)) <= Cardinality(Run)
<1>1. Holders(r) \subseteq Run
  BY DEF Holders
<1> QED
  BY <1>1, QueueAssumption, FS_Subset, FS_CardinalityType

(* Steps that charge no record and let no run take one up.                  *)
LEMMA ChargesDrop ==
  ASSUME ChargesInv, TypeOK',
         \A r \in Record : queue'[r].retries <= queue[r].retries,
         \A u \in Run : runs'[u].live \subseteq runs[u].live
  PROVE  ChargesBounded'
<1> USE DEF ChargesInv
<1> SUFFICES ASSUME NEW r \in Record
             PROVE  queue'[r].retries + Cardinality(Holders(r)')
                      <= MaxRetries - 1 + Cardinality(Run)
  BY DEF ChargesBounded
<1>1. Holders(r)' \subseteq Holders(r)
  BY DEF Holders
<1>2. /\ Cardinality(Holders(r)') \in Nat
      /\ Cardinality(Holders(r)') <= Cardinality(Holders(r))
  BY <1>1, HoldersCount, FS_Subset, FS_CardinalityType
<1>3. queue[r].retries \in Nat /\ queue'[r].retries \in Nat
  BY DEF TypeOK, Row
<1>4. queue[r].retries + Cardinality(Holders(r)) <= MaxRetries - 1 + Cardinality(Run)
  BY DEF ChargesBounded
<1> QED
  BY <1>2, <1>3, <1>4, HoldersCount, RunCount, QueueAssumption

LEMMA ChargesStep ==
  ASSUME ChargesInv, [Next]_vars
  PROVE  ChargesInv'
<1> USE DEF ChargesInv
<1>0. TypeOK'
  BY TypeStep
<1>1. ASSUME NEW r \in Record, Arrive(r) \/ BackoffElapses(r)
      PROVE  ChargesBounded'
  <2>1. \A q \in Record : queue'[q].retries = queue[q].retries
    BY <1>1 DEF Arrive, BackoffElapses, TypeOK, Row
  <2>2. \A q \in Record : queue[q].retries \in Nat
    BY DEF TypeOK, Row
  <2> QED
    BY <1>0, <1>1, <2>1, <2>2, ChargesDrop DEF Arrive, BackoffElapses
<1>2. ASSUME NEW R \in SUBSET Record, Requeue(R)
      PROVE  ChargesBounded'
  <2>1. \A q \in Record : queue'[q].retries \in {0, queue[q].retries}
    BY <1>2 DEF Requeue, TypeOK, Row
  <2>2. \A q \in Record : queue[q].retries \in Nat
    BY DEF TypeOK, Row
  <2>3. \A q \in Record : queue'[q].retries <= queue[q].retries
    BY <2>1, <2>2
  <2>4. runs' = runs
    BY <1>2 DEF Requeue
  <2> QED
    BY <1>0, <2>3, <2>4, ChargesDrop
<1>3. ASSUME NEW R \in SUBSET Record, Purge(R)
      PROVE  ChargesBounded'
  <2>1. \A q \in Record : queue'[q].retries = queue[q].retries
    BY <1>3 DEF Purge, TypeOK, Row
  <2>2. \A q \in Record : queue[q].retries \in Nat
    BY DEF TypeOK, Row
  <2> QED
    BY <1>0, <1>3, <2>1, <2>2, ChargesDrop DEF Purge
<1>4. ASSUME NEW u \in Run, Select(u)
      PROVE  ChargesBounded'
  <2> SUFFICES ASSUME NEW r \in Record
               PROVE  queue'[r].retries + Cardinality(Holders(r)')
                        <= MaxRetries - 1 + Cardinality(Run)
    BY DEF ChargesBounded
  <2>1. queue'[r].retries = queue[r].retries /\ queue[r].retries \in Nat
    BY <1>4 DEF Select, TypeOK, Row
  <2>2. /\ Cardinality(Holders(r)') \in Nat
        /\ Cardinality(Holders(r)') <= Cardinality(Run)
    <3>1. Holders(r)' \subseteq Run
      BY DEF Holders
    <3> QED
      BY <3>1, QueueAssumption, FS_Subset, FS_CardinalityType
  <2>3. CASE queue[r].retries < MaxRetries
    BY <2>1, <2>2, <2>3, RunCount, QueueAssumption
  <2>4. CASE queue[r].retries >= MaxRetries
    <3>1. Holders(r)' \subseteq Holders(r)
      BY <1>4, <2>4 DEF Select, Holders, TypeOK
    <3>2. Cardinality(Holders(r)') <= Cardinality(Holders(r))
      BY <3>1, HoldersCount, FS_Subset
    <3> QED
      BY <2>1, <2>2, <3>2, HoldersCount, RunCount, QueueAssumption DEF ChargesBounded
  <2> QED
    BY <2>1, <2>3, <2>4, QueueAssumption
<1>5. ASSUME NEW u \in Run, CommitBatch(u)
      PROVE  ChargesBounded'
  <2> DEFINE live == runs[u].live  spent == runs[u].spent
  <2> SUFFICES ASSUME NEW r \in Record
               PROVE  queue'[r].retries + Cardinality(Holders(r)')
                        <= MaxRetries - 1 + Cardinality(Run)
    BY DEF ChargesBounded
  <2>1. /\ queue'[r] = Settled(r, live, spent)
        /\ \A v \in Run \ {u} : runs'[v] = runs[v]
        /\ runs'[u].live = {}
    BY <1>5 DEF CommitBatch, IdleRun, TypeOK
  <2>2. Holders(r)' = Holders(r) \ {u}
    BY <2>1 DEF Holders
  <2>3. queue[r].retries \in Nat /\ queue'[r].retries \in Nat
    BY <1>0 DEF TypeOK, Row
  <2>4. queue[r].retries + Cardinality(Holders(r)) <= MaxRetries - 1 + Cardinality(Run)
    BY DEF ChargesBounded
  <2>5. CASE r \in live
    <3>1. u \in Holders(r)
      BY <2>5 DEF Holders
    <3>2. Cardinality(Holders(r)') = Cardinality(Holders(r)) - 1
      BY <2>2, <3>1, HoldersCount, FS_RemoveElement
    <3>3. queue'[r].retries <= queue[r].retries + 1
      BY <2>1, <2>3 DEF Settled, TypeOK, Row
    <3> QED
      BY <2>3, <2>4, <3>2, <3>3, HoldersCount, RunCount, QueueAssumption
  <2>6. CASE r \notin live
    <3>1. Holders(r)' = Holders(r)
      BY <2>2, <2>6 DEF Holders
    <3>2. queue'[r].retries = queue[r].retries
      BY <2>1, <2>6 DEF Settled, OfKind, TypeOK, Row
    <3> QED
      BY <2>4, <3>1, <3>2
  <2> QED
    BY <2>5, <2>6
<1>6. ASSUME NEW u \in Run, AbortBatch(u) \/ Dispatch(u) \/ LoseDispatch(u)
      PROVE  ChargesBounded'
  <2>1. queue' = queue /\ \A v \in Run : runs'[v].live \subseteq runs[v].live
    BY <1>6 DEF AbortBatch, Dispatch, LoseDispatch, IdleRun, TypeOK
  <2>2. \A q \in Record : queue[q].retries \in Nat
    BY DEF TypeOK, Row
  <2> QED
    BY <1>0, <2>1, <2>2, ChargesDrop
<1>7. CASE UNCHANGED vars
  BY <1>0, <1>7 DEF vars, ChargesBounded, Holders
<1> QED
  BY <1>0, <1>1, <1>2, <1>3, <1>4, <1>5, <1>6, <1>7 DEF Next, TableStep, RunStep

LEMMA ChargesInit ==
  ASSUME Init
  PROVE  ChargesInv
<1>1. TypeOK
  BY TypeInit
<1>2. \A r \in Record : queue[r].retries = 0 /\ Holders(r) = {}
  BY DEF Init, IdleRun, Holders
<1>3. \A r \in Record : Cardinality(Holders(r)) = 0
  BY <1>2, FS_EmptySet
<1>4. 0 <= MaxRetries - 1 + Cardinality(Run)
  <2>1. MaxRetries \in Nat \ {0}
    BY QueueAssumption
  <2> QED
    BY <2>1, RunCount
<1>5. ChargesBounded
  BY <1>2, <1>3, <1>4 DEF ChargesBounded
<1> QED
  BY <1>1, <1>5 DEF ChargesInv

(* retry_count passes max_retries by no more than the overlapping runs.     *)
THEOREM RetryOvershootHolds == Spec => []RetryOvershoot
<1>1. ChargesInv => RetryOvershoot
  <2> SUFFICES ASSUME ChargesInv, NEW r \in Record
               PROVE  queue[r].retries <= MaxRetries + Cardinality(Run) - 1
    BY DEF RetryOvershoot
  <2>1. queue[r].retries \in Nat
    BY DEF ChargesInv, TypeOK, Row
  <2> QED
    BY <2>1, HoldersCount, RunCount, QueueAssumption DEF ChargesInv, ChargesBounded
<1> QED
  BY <1>1, ChargesInit, ChargesStep, PTL DEF Spec
=============================================================================
