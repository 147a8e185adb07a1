-------------------------- MODULE DirectSyncProofs ---------------------------
(***************************************************************************)
(* Proofs about DirectSync, for any number of documents and syncs.         *)
(*                                                                         *)
(* The argument for CursorCovers follows what a sync found at its start:   *)
(* each piece of it is searchable, left behind by the fetcher, or in the   *)
(* sync's hands (fetched, new, or a row it embeds).  It needs that a row   *)
(* is never rewritten (RowsStay) and, for log sources, that what an old    *)
(* cursor filters out was covered when that cursor was written.            *)
(***************************************************************************)
EXTENDS DirectSync, TLAPS

LEMMA NoContentNotContent == NoContent \notin Content /\ Content \subseteq Nat
  BY DocsAssumption DEF DocsAssumption, NoContent

-----------------------------------------------------------------------------
(* SelectHashes, with names for what it computes.                           *)

Fresh(s, batch) ==
  {d \in batch : \A e \in Matching(syncs[s].recs) : docs[e].content # syncs[s].recs[d]}

Stuck(s) ==
  OnePer({e \in Matching(syncs[s].recs) : docs[e].status # "done"}, Text)

Selecting(s, batch, stuck) ==
  [syncs[s] EXCEPT !.recs  = Only(Fresh(s, batch), syncs[s].recs),
                   !.fresh = Fresh(s, batch),
                   !.embed = Fresh(s, batch) \cup stuck,
                   !.left  = Fresh(s, batch) \cup stuck,
                   !.pc    = IF Fresh(s, batch) \cup stuck = {} THEN "finish"
                             ELSE IF Fresh(s, batch) = {} THEN "put" ELSE "insert"]

LEMMA SelectEffect ==
  ASSUME NEW s \in Sync, SelectHashes(s)
  PROVE  \E batch \in OnePer(Holding(syncs[s].recs), syncs[s].recs), stuck \in Stuck(s) :
           syncs' = [syncs EXCEPT ![s] = Selecting(s, batch, stuck)]
<1> DEFINE recs == syncs[s].recs
<1>1. PICK batch \in OnePer(Holding(recs), recs),
           stuck \in OnePer({e \in Matching(recs) : docs[e].status # "done"}, Text) :
        LET fresh == {d \in batch : \A e \in Matching(recs) : docs[e].content # recs[d]}
            embed == fresh \cup stuck
        IN  syncs' = [syncs EXCEPT ![s].recs = Only(fresh, recs),
                                   ![s].fresh = fresh, ![s].embed = embed,
                                   ![s].left = embed,
                                   ![s].pc = IF embed = {} THEN "finish"
                                             ELSE IF fresh = {} THEN "put" ELSE "insert"]
  BY DEF SelectHashes
<1>2. syncs' = [syncs EXCEPT ![s] = Selecting(s, batch, stuck)]
  BY <1>1 DEF Fresh, Selecting
<1>3. QED
  BY <1>2 DEF Stuck

-----------------------------------------------------------------------------
(* Types                                                                    *)

LEMMA SnapshotNat ==
  ASSUME NEW f \in Snapshot, NEW d \in Doc
  PROVE  f[d] \in Nat
<1>1. f[d] \in Content \cup {0}
  BY DEF Snapshot, NoContent
<1>2. \A x \in Content \cup {0} : x \in Nat
  BY DocsAssumption DEF DocsAssumption
<1>3. QED
  BY <1>1, <1>2

LEMMA NothingType == Nothing \in Snapshot
  BY DEF Nothing, Snapshot

LEMMA IdleType == IdleSync \in SyncState
  BY NothingType DEF IdleSync, SyncState

(* Replacing what one sync does keeps the type of syncs.                    *)
LEMMA SyncsType ==
  ASSUME NEW s \in Sync, NEW v \in SyncState, syncs \in [Sync -> SyncState],
         syncs' = [syncs EXCEPT ![s] = v]
  PROVE  syncs' \in [Sync -> SyncState]
  OBVIOUS

LEMMA OnlyType ==
  ASSUME NEW f \in Snapshot, NEW D
  PROVE  Only(D, f) \in Snapshot
  BY DEF Only, Snapshot

LEMMA TypeInit == Init => TypeOK
<1> SUFFICES ASSUME Init PROVE TypeOK
  OBVIOUS
<1>1. integ \in IntegrationRow
  BY NothingType DEF Init, IntegrationRow
<1>2. docs \in [Doc -> DocRow]
  BY DocsAssumption DEF Init, NoDoc, DocRow, EmbeddingStatus, DocsAssumption
<1>3. QED
  BY <1>1, <1>2, NothingType, IdleType DEF Init, TypeOK

LEMMA TypeNext == TypeOK /\ [Next]_vars => TypeOK'
<1> SUFFICES ASSUME TypeOK, [Next]_vars PROVE TypeOK'
  OBVIOUS
<1> USE DEF TypeOK
<1>1. ASSUME NEW d \in Doc, SourceChanges(d) PROVE TypeOK'
  BY <1>1, DocsAssumption DEF SourceChanges, Snapshot, DocsAssumption
<1>2. ASSUME NEW d \in Doc, EmbeddedElsewhere(d) PROVE TypeOK'
  BY <1>2 DEF EmbeddedElsewhere, DocRow, EmbeddingStatus
<1>3. CASE NextSecond \/ RefuseSync
  BY <1>3 DEF NextSecond, RefuseSync, IntegrationRow
<1>4. ASSUME NEW s \in Sync, BeginSync(s) PROVE TypeOK'
  <2>1. integ' \in IntegrationRow
    BY <1>4 DEF BeginSync, IntegrationRow
  <2>2. integ.cursor \in Snapshot
    BY DEF IntegrationRow
  <2>3. syncs' \in [Sync -> SyncState]
    BY <1>4, <2>2, IdleType, NothingType DEF BeginSync, SyncState
  <2>4. QED
    BY <1>4, <2>1, <2>3 DEF BeginSync
<1>5. ASSUME NEW s \in Sync, Fetch(s) PROVE TypeOK'
  <2>1. PICK D \in SUBSET Visible(s) :
          /\ syncs' = [syncs EXCEPT ![s].pc = "select", ![s].since = Nothing,
                                    ![s].recs = Only(D, source)]
          /\ cut' = cut \cup (Wanted(s) \ D)
    BY <1>5 DEF Fetch
  <2>2. syncs' \in [Sync -> SyncState]
    <3>1. Only(D, source) \in Snapshot
      BY OnlyType
    <3>2. [syncs[s] EXCEPT !.pc = "select", !.since = Nothing, !.recs = Only(D, source)]
            \in SyncState
      BY <3>1, NothingType DEF SyncState
    <3>3. QED
      BY <2>1, <3>2, SyncsType
  <2>3. cut' \subseteq Doc
    BY <2>1 DEF Wanted, Holding
  <2>4. QED
    BY <1>5, <2>2, <2>3 DEF Fetch
<1>6. ASSUME NEW s \in Sync, SelectHashes(s) PROVE TypeOK'
  <2>1. PICK batch \in OnePer(Holding(syncs[s].recs), syncs[s].recs), stuck \in Stuck(s) :
          syncs' = [syncs EXCEPT ![s] = Selecting(s, batch, stuck)]
    BY <1>6, SelectEffect
  <2>2. batch \subseteq Doc /\ stuck \subseteq Doc
    BY DEF OnePer, Holding, Matching, Stuck
  <2>3. syncs[s] \in SyncState /\ syncs[s].recs \in Snapshot
    BY DEF SyncState
  <2>4. Fresh(s, batch) \subseteq Doc
    BY <2>2 DEF Fresh
  <2>5. Only(Fresh(s, batch), syncs[s].recs) \in Snapshot
    BY <2>3, OnlyType
  <2>6. Selecting(s, batch, stuck) \in SyncState
    BY <2>2, <2>3, <2>4, <2>5 DEF Selecting, SyncState
  <2>7. syncs' \in [Sync -> SyncState]
    BY <2>1, <2>6, SyncsType
  <2>8. QED
    BY <1>6, <2>7 DEF SelectHashes
<1>7. ASSUME NEW s \in Sync, InsertNew(s) PROVE TypeOK'
  <2>1. syncs' \in [Sync -> SyncState]
    <3>1. [syncs[s] EXCEPT !.pc = "put", !.recs = Nothing] \in SyncState
      BY NothingType DEF SyncState
    <3>2. QED
      BY <1>7, <3>1, SyncsType DEF InsertNew
  <2>2. docs' \in [Doc -> DocRow]
    <3>1. ASSUME NEW d \in Doc PROVE Rewritten(docs[d], syncs[s].recs[d]) \in DocRow
      <4>1. syncs[s].recs[d] \in Content \cup {NoContent}
        BY DEF SyncState, Snapshot
      <4>2. docs[d] \in DocRow
        OBVIOUS
      <4>3. QED
        BY <4>1, <4>2 DEF Rewritten, DocRow, EmbeddingStatus
    <3>2. QED
      BY <1>7, <3>1 DEF InsertNew
  <2>3. QED
    BY <1>7, <2>1, <2>2 DEF InsertNew
<1>8. ASSUME NEW s \in Sync, PutPoints(s) PROVE TypeOK'
  <2>1. PICK D \in SUBSET syncs[s].left :
          /\ points' = points \cup D
          /\ LET left == syncs[s].left \ D
             IN  syncs' = [syncs EXCEPT ![s].left = left,
                                        ![s].pc = IF left = {} THEN "mark" ELSE "put"]
    BY <1>8 DEF PutPoints
  <2> DEFINE left == syncs[s].left \ D
             next == [syncs[s] EXCEPT !.left = left,
                                      !.pc = IF left = {} THEN "mark" ELSE "put"]
  <2>2. syncs[s].left \subseteq Doc
    BY DEF SyncState
  <2>3. next \in SyncState
    BY <2>2 DEF SyncState
  <2>4. syncs' = [syncs EXCEPT ![s] = next]
    BY <2>1
  <2>5. syncs' \in [Sync -> SyncState]
    BY <2>3, <2>4, SyncsType
  <2>6. QED
    BY <1>8, <2>1, <2>2, <2>5 DEF PutPoints
<1>9. ASSUME NEW s \in Sync, MarkDone(s) PROVE TypeOK'
  <2>1. docs' \in [Doc -> DocRow]
    BY <1>9 DEF MarkDone, DocRow, EmbeddingStatus
  <2>2. syncs' \in [Sync -> SyncState]
    <3>1. [syncs[s] EXCEPT !.pc = "scan"] \in SyncState
      BY DEF SyncState
    <3>2. QED
      BY <1>9, <3>1, SyncsType DEF MarkDone
  <2>3. QED
    BY <1>9, <2>1, <2>2 DEF MarkDone
<1>10. ASSUME NEW s \in Sync, Scan(s) PROVE TypeOK'
  <2>1. [syncs[s] EXCEPT !.pc = "finish", !.fresh = {}, !.embed = {}] \in SyncState
    BY DEF SyncState
  <2>2. syncs' \in [Sync -> SyncState]
    BY <1>10, <2>1, SyncsType DEF Scan
  <2>3. fired' \in [Doc -> Nat]
    BY <1>10 DEF Scan
  <2>4. QED
    BY <1>10, <2>2, <2>3 DEF Scan
<1>11. ASSUME NEW s \in Sync, Finish(s) \/ FailSync(s) \/ Die(s) PROVE TypeOK'
  <2>1. syncs' \in [Sync -> SyncState]
    BY <1>11, IdleType, SyncsType DEF Finish, FailSync, Die
  <2>2. syncs[s].start \in Snapshot
    BY DEF SyncState
  <2>3. integ' \in IntegrationRow
    BY <1>11, <2>2 DEF Finish, FailSync, Die, IntegrationRow
  <2>4. QED
    BY <1>11, <2>1, <2>3 DEF Finish, FailSync, Die
<1>12. CASE UNCHANGED vars
  BY <1>12 DEF vars
<1>13. QED
  BY <1>1, <1>2, <1>3, <1>4, <1>5, <1>6, <1>7, <1>8, <1>9, <1>10, <1>11, <1>12
  DEF Next, SyncStep

(* Every variable of DirectSync keeps its type.                             *)
THEOREM TypeCorrect == Spec => []TypeOK
  BY TypeInit, TypeNext, PTL DEF Spec

(* A step of one sync leaves the others alone.                              *)
LEMMA OneSync ==
  ASSUME TypeOK, [Next]_vars, NEW s \in Sync
  PROVE  syncs'[s] = syncs[s] \/ SyncStep(s)
<1>1. ASSUME NEW t \in Sync, SyncStep(t), s # t PROVE syncs'[s] = syncs[s]
  <2> USE DEF TypeOK
  <2>1. CASE SelectHashes(t)
    <3>1. PICK v : syncs' = [syncs EXCEPT ![t] = v]
      BY <2>1, SelectEffect
    <3>2. QED
      BY <1>1, <3>1
  <2>2. CASE PutPoints(t) \/ Fetch(t) \/ Scan(t)
    <3>1. PICK v : syncs' = [syncs EXCEPT ![t] = v]
      BY <2>2 DEF PutPoints, Fetch, Scan
    <3>2. QED
      BY <1>1, <3>1
  <2>3. CASE BeginSync(t) \/ InsertNew(t) \/ MarkDone(t)
    <3>1. PICK v : syncs' = [syncs EXCEPT ![t] = v]
      BY <2>3 DEF BeginSync, InsertNew, MarkDone
    <3>2. QED
      BY <1>1, <3>1
  <2>4. CASE Finish(t) \/ FailSync(t) \/ Die(t)
    BY <1>1, <2>4 DEF Finish, FailSync, Die
  <2>5. QED
    BY <1>1, <2>1, <2>2, <2>3, <2>4 DEF SyncStep
<1>2. CASE ~ \E t \in Sync : SyncStep(t)
  BY <1>2 DEF Next, vars, SourceChanges, EmbeddedElsewhere, NextSecond, RefuseSync
<1>3. QED
  BY <1>1, <1>2

-----------------------------------------------------------------------------
(* Rows stay                                                                *)

(* No step rewrites a row, takes a mark or a point back, or forgets what a  *)
(* fetcher left.                                                            *)
LEMMA RowsStay ==
  ASSUME TypeOK, [Next]_vars
  PROVE  /\ \A e \in Doc : Exists(docs[e]) =>
              /\ docs'[e].content = docs[e].content
              /\ docs[e].status = "done" => docs'[e].status = "done"
         /\ points \subseteq points'
         /\ cut \subseteq cut'
<1> DEFINE Stay == /\ \A e \in Doc : Exists(docs[e]) =>
                        /\ docs'[e].content = docs[e].content
                        /\ docs[e].status = "done" => docs'[e].status = "done"
                   /\ points \subseteq points'
                   /\ cut \subseteq cut'
<1>1. ASSUME NEW d \in Doc, EmbeddedElsewhere(d) PROVE Stay
  BY <1>1 DEF EmbeddedElsewhere, TypeOK, DocRow
<1>2. ASSUME NEW s \in Sync, InsertNew(s) PROVE Stay
  BY <1>2 DEF InsertNew, TypeOK
<1>3. ASSUME NEW s \in Sync, MarkDone(s) PROVE Stay
  BY <1>3 DEF MarkDone, TypeOK, DocRow
<1>4. ASSUME NEW s \in Sync, PutPoints(s) \/ Fetch(s) PROVE Stay
  BY <1>4 DEF PutPoints, Fetch
<1>5. ASSUME NEW s \in Sync,
             \/ BeginSync(s) \/ SelectHashes(s) \/ Scan(s)
             \/ Finish(s) \/ FailSync(s) \/ Die(s)
      PROVE  Stay
  BY <1>5 DEF BeginSync, SelectHashes, Scan, Finish, FailSync, Die
<1>6. ASSUME NEW d \in Doc, SourceChanges(d) PROVE Stay
  BY <1>6 DEF SourceChanges
<1>7. CASE NextSecond \/ RefuseSync \/ UNCHANGED vars
  BY <1>7 DEF NextSecond, RefuseSync, vars
<1>8. QED
  BY <1>1, <1>2, <1>3, <1>4, <1>5, <1>6, <1>7 DEF Next, SyncStep

-----------------------------------------------------------------------------
(* Snapshots: what a sync or the cursor remembers of the source is, or has  *)
(* been edited into, what the source holds now; for a log source it is it.  *)

Within(f) ==
  \A d \in Doc : f[d] # NoContent =>
    f[d] \in Source[d] /\ f[d] <= source[d] /\ (IsLog(integ.type) => f[d] = source[d])

SnapshotInv ==
  /\ Within(source)
  /\ Within(second)
  /\ Within(integ.cursor)
  /\ \A s \in Sync : /\ Within(syncs[s].start)
                     /\ Within(syncs[s].since)
                     /\ ~IsLog(integ.type) => syncs[s].since = Nothing

LEMMA NothingWithin == Within(Nothing)
  BY DEF Within, Nothing

LEMMA SnapshotInit == Init => SnapshotInv
<1> SUFFICES ASSUME Init PROVE SnapshotInv
  OBVIOUS
<1>1. source = Nothing /\ second = Nothing /\ integ.cursor = Nothing
  BY DEF Init
<1>2. \A s \in Sync : syncs[s].start = Nothing /\ syncs[s].since = Nothing
  BY DEF Init, IdleSync
<1>3. QED
  BY <1>1, <1>2, NothingWithin DEF SnapshotInv

(* Within survives any step: the source only moves on, and a log record     *)
(* does not move at all.                                                    *)
LEMMA WithinStays ==
  ASSUME TypeOK, [Next]_vars, NEW f \in Snapshot, Within(f)
  PROVE  /\ \A d \in Doc : f[d] # NoContent =>
              f[d] \in Source[d] /\ f[d] <= source'[d]
              /\ (IsLog(integ'.type) => f[d] = source'[d])
         /\ integ'.type = integ.type
<1>1. ASSUME NEW d \in Doc, SourceChanges(d)
      PROVE  /\ integ' = integ
             /\ \A e \in Doc :
                  /\ source[e] <= source'[e]
                  /\ IsLog(integ.type) /\ source[e] # NoContent => source'[e] = source[e]
  <2>1. PICK c \in Source[d] : c > source[d] /\ source' = [source EXCEPT ![d] = c]
    BY <1>1 DEF SourceChanges
  <2>2. \A e \in Doc : source[e] \in Nat
    BY SnapshotNat DEF TypeOK
  <2>3. c \in Nat
    BY DocsAssumption DEF DocsAssumption
  <2>4. source[d] = NoContent \/ ~IsLog(integ.type)
    BY <1>1 DEF SourceChanges
  <2>5. QED
    BY <1>1, <2>1, <2>2, <2>3, <2>4 DEF SourceChanges, TypeOK, Snapshot
<1>2. ASSUME ~ \E d \in Doc : SourceChanges(d)
      PROVE  source' = source /\ integ'.type = integ.type
  <2>1. CASE UNCHANGED vars
    BY <2>1 DEF vars
  <2>2. CASE NextSecond \/ RefuseSync
    BY <2>2 DEF NextSecond, RefuseSync, TypeOK, IntegrationRow
  <2>3. ASSUME NEW d \in Doc, EmbeddedElsewhere(d)
        PROVE  source' = source /\ integ'.type = integ.type
    BY <2>3 DEF EmbeddedElsewhere
  <2>4. ASSUME NEW s \in Sync, BeginSync(s) \/ Finish(s) \/ FailSync(s) \/ Die(s)
        PROVE  source' = source /\ integ'.type = integ.type
    BY <2>4 DEF BeginSync, Finish, FailSync, Die, TypeOK, IntegrationRow
  <2>5. ASSUME NEW s \in Sync,
               Fetch(s) \/ SelectHashes(s) \/ InsertNew(s) \/ PutPoints(s)
                 \/ MarkDone(s) \/ Scan(s)
        PROVE  source' = source /\ integ'.type = integ.type
    BY <2>5 DEF Fetch, SelectHashes, InsertNew, PutPoints, MarkDone, Scan
  <2>6. QED
    BY <1>2, <2>1, <2>2, <2>3, <2>4, <2>5 DEF Next, SyncStep
<1>3. \A d \in Doc : f[d] \in Nat /\ source[d] \in Nat
  BY SnapshotNat DEF TypeOK
<1>4. CASE \E d \in Doc : SourceChanges(d)
  <2>1. PICK x \in Doc : SourceChanges(x)
    BY <1>4
  <2>2. \A e \in Doc :
          /\ source[e] <= source'[e]
          /\ IsLog(integ.type) /\ source[e] # NoContent => source'[e] = source[e]
    BY <1>1, <2>1
  <2>3. source' \in Snapshot
    BY TypeNext DEF TypeOK
  <2>4. \A e \in Doc : source'[e] \in Nat
    BY <2>3, SnapshotNat
  <2>5. ASSUME NEW d \in Doc, f[d] # NoContent
        PROVE  /\ f[d] \in Source[d] /\ f[d] <= source'[d]
               /\ IsLog(integ'.type) => f[d] = source'[d]
    <3>1. f[d] \in Source[d] /\ f[d] <= source[d] /\ (IsLog(integ.type) => f[d] = source[d])
      BY <2>5 DEF Within
    <3>2. f[d] \in Nat /\ source[d] \in Nat /\ source'[d] \in Nat
      BY <1>3, <2>4
    <3>3. /\ source[d] <= source'[d]
          /\ IsLog(integ.type) /\ source[d] # NoContent => source'[d] = source[d]
      BY <2>2
    <3>4. source[d] # NoContent
      BY <2>5, <3>1, <3>2 DEF NoContent
    <3>5. QED
      BY <1>1, <2>1, <3>1, <3>2, <3>3, <3>4
  <2>6. QED
    BY <1>1, <2>1, <2>5
<1>5. CASE ~ \E d \in Doc : SourceChanges(d)
  BY <1>2, <1>5 DEF Within
<1>6. QED
  BY <1>4, <1>5

(* What a sync remembers of the source comes from its start or the cursor.  *)
LEMMA Remembered ==
  ASSUME TypeOK, [Next]_vars, NEW s \in Sync
  PROVE  /\ syncs'[s].start \in {syncs[s].start, source, second, Nothing}
         /\ \/ syncs'[s].since = syncs[s].since
            \/ syncs'[s].since = Nothing
            \/ IsLog(integ.type) /\ syncs'[s].since = integ.cursor
<1>1. CASE syncs'[s] = syncs[s]
  BY <1>1
<1>2. CASE BeginSync(s)
  BY <1>2 DEF BeginSync, IdleSync, TypeOK
<1>3. CASE Fetch(s)
  <2>1. PICK f : syncs' = [syncs EXCEPT ![s].pc = "select", ![s].since = Nothing,
                                        ![s].recs = f]
    BY <1>3 DEF Fetch
  <2>2. QED
    BY <2>1 DEF TypeOK, SyncState
<1>4. CASE SelectHashes(s)
  <2>1. PICK batch, stuck : syncs' = [syncs EXCEPT ![s] = Selecting(s, batch, stuck)]
    BY <1>4, SelectEffect
  <2>2. QED
    BY <2>1 DEF TypeOK, SyncState, Selecting
<1>5. CASE PutPoints(s)
  <2>1. PICK L, p : syncs' = [syncs EXCEPT ![s].left = L, ![s].pc = p]
    BY <1>5 DEF PutPoints
  <2>2. QED
    BY <2>1 DEF TypeOK, SyncState
<1>6. CASE InsertNew(s) \/ MarkDone(s) \/ Scan(s)
  BY <1>6 DEF InsertNew, MarkDone, Scan, TypeOK, SyncState
<1>7. CASE Finish(s) \/ FailSync(s) \/ Die(s)
  BY <1>7 DEF Finish, FailSync, Die, IdleSync, TypeOK
<1>8. QED
  BY <1>1, <1>2, <1>3, <1>4, <1>5, <1>6, <1>7, OneSync DEF SyncStep

LEMMA SnapshotNext == TypeOK /\ SnapshotInv /\ [Next]_vars => SnapshotInv'
<1> SUFFICES ASSUME TypeOK, SnapshotInv, [Next]_vars PROVE SnapshotInv'
  OBVIOUS
<1> DEFINE Still(f) == \A d \in Doc : f[d] # NoContent =>
                         f[d] \in Source[d] /\ f[d] <= source'[d]
                         /\ (IsLog(integ'.type) => f[d] = source'[d])
<1>1. ASSUME NEW f \in Snapshot, Within(f) PROVE Still(f)
  BY <1>1, WithinStays
<1>2. Still(source) /\ Still(second) /\ Still(integ.cursor) /\ Still(Nothing)
  BY <1>1, NothingWithin, NothingType DEF SnapshotInv, TypeOK, IntegrationRow
<1>3. \A s \in Sync : Still(syncs[s].start) /\ Still(syncs[s].since)
  <2> TAKE s \in Sync
  <2>1. syncs[s].start \in Snapshot /\ syncs[s].since \in Snapshot
    BY DEF TypeOK, SyncState
  <2>2. QED
    BY <1>1, <2>1 DEF SnapshotInv
<1>4. integ'.type = integ.type
  BY WithinStays, NothingWithin, NothingType
<1>5. Still(source')
  <2>1. CASE \E d \in Doc : SourceChanges(d)
    <3>1. PICK x \in Doc : \E c \in Source[x] : source' = [source EXCEPT ![x] = c]
      BY <2>1 DEF SourceChanges
    <3>2. \A e \in Doc : source'[e] \in Nat
      <4>1. source' \in Snapshot
        BY TypeNext DEF TypeOK
      <4>2. QED
        BY <4>1, SnapshotNat
    <3>3. \A e \in Doc : source'[e] # NoContent => source'[e] \in Source[e]
      BY <1>2, <3>1 DEF TypeOK, Snapshot
    <3>4. QED
      BY <3>2, <3>3
  <2>2. CASE ~ \E d \in Doc : SourceChanges(d)
    <3>1. source' = source
      BY <2>2 DEF Next, SyncStep, vars, EmbeddedElsewhere, NextSecond, RefuseSync, BeginSync, Fetch,
             SelectHashes, InsertNew, PutPoints, MarkDone, Scan, Finish, FailSync, Die
    <3>2. QED
      BY <1>2, <3>1
  <2>3. QED
    BY <2>1, <2>2
<1>6. integ'.cursor = integ.cursor \/ \E s \in Sync : integ'.cursor = syncs[s].start
  BY DEF Next, SyncStep, vars, SourceChanges, EmbeddedElsewhere, NextSecond, RefuseSync, BeginSync,
         Fetch, SelectHashes, InsertNew, PutPoints, MarkDone, Scan, Finish, FailSync, Die,
         TypeOK, IntegrationRow
<1>7. \A s \in Sync : /\ syncs'[s].start \in {syncs[s].start, source, second, Nothing}
                     /\ \/ syncs'[s].since = syncs[s].since
                        \/ syncs'[s].since = Nothing
                        \/ IsLog(integ.type) /\ syncs'[s].since = integ.cursor
  BY Remembered
<1>8. Still(integ'.cursor) /\ Still(second')
  <2>1. second' \in {second, source}
    BY DEF Next, SyncStep, vars, SourceChanges, EmbeddedElsewhere, NextSecond, RefuseSync,
           BeginSync, Fetch, SelectHashes, InsertNew, PutPoints, MarkDone, Scan, Finish,
           FailSync, Die
  <2>2. QED
    BY <1>2, <1>3, <1>6, <2>1
<1>9. \A s \in Sync : Still(syncs'[s].start) /\ Still(syncs'[s].since)
                     /\ (~IsLog(integ'.type) => syncs'[s].since = Nothing)
  BY <1>2, <1>3, <1>4, <1>7 DEF SnapshotInv
<1> HIDE DEF Still
<1>10. QED
  BY <1>5, <1>8, <1>9 DEF SnapshotInv, Within, Still

-----------------------------------------------------------------------------
(* Points: a row about to be marked has its points.                         *)

Busy == {"insert", "put", "mark"}

IndexInv ==
  /\ DoneIsIndexed
  /\ \A s \in Sync : syncs[s].pc \in Busy =>
       /\ syncs[s].fresh \subseteq syncs[s].embed
       /\ syncs[s].embed \ syncs[s].left \subseteq points
       /\ syncs[s].pc = "mark" => syncs[s].left = {}
       /\ syncs[s].pc = "insert" => syncs[s].embed \subseteq syncs[s].left

LEMMA IndexInit == Init => IndexInv
  BY DEF Init, IndexInv, DoneIsIndexed, NoDoc, IdleSync, Busy

(* What a step of the sync itself does to its hands.                        *)
LEMMA IndexOwn ==
  ASSUME TypeOK, IndexInv, NEW s \in Sync, SyncStep(s), syncs'[s].pc \in Busy
  PROVE  /\ syncs'[s].fresh \subseteq syncs'[s].embed
         /\ syncs'[s].embed \ syncs'[s].left \subseteq points'
         /\ syncs'[s].pc = "mark" => syncs'[s].left = {}
         /\ syncs'[s].pc = "insert" => syncs'[s].embed \subseteq syncs'[s].left
<1> DEFINE Goal == /\ syncs'[s].fresh \subseteq syncs'[s].embed
                   /\ syncs'[s].embed \ syncs'[s].left \subseteq points'
                   /\ syncs'[s].pc = "mark" => syncs'[s].left = {}
                   /\ syncs'[s].pc = "insert" => syncs'[s].embed \subseteq syncs'[s].left
<1>1. CASE SelectHashes(s)
  <2>1. PICK batch, stuck : syncs' = [syncs EXCEPT ![s] = Selecting(s, batch, stuck)]
    BY <1>1, SelectEffect
  <2>2. syncs'[s] = Selecting(s, batch, stuck)
    BY <2>1 DEF TypeOK
  <2>3. /\ syncs'[s].fresh = Fresh(s, batch)
        /\ syncs'[s].embed = Fresh(s, batch) \cup stuck
        /\ syncs'[s].left = Fresh(s, batch) \cup stuck
        /\ syncs'[s].pc # "mark"
    BY <2>2 DEF Selecting, TypeOK, SyncState
  <2>4. QED
    BY <2>3
<1>2. CASE InsertNew(s)
  BY <1>2 DEF InsertNew, IndexInv, Busy, TypeOK, SyncState
<1>3. CASE PutPoints(s)
  <2>1. PICK D \in SUBSET syncs[s].left :
          /\ points' = points \cup D
          /\ LET left == syncs[s].left \ D
             IN  syncs' = [syncs EXCEPT ![s].left = left,
                                        ![s].pc = IF left = {} THEN "mark" ELSE "put"]
    BY <1>3 DEF PutPoints
  <2>2. /\ syncs'[s].left = syncs[s].left \ D
        /\ syncs'[s].embed = syncs[s].embed
        /\ syncs'[s].fresh = syncs[s].fresh
        /\ syncs'[s].pc = IF syncs[s].left \ D = {} THEN "mark" ELSE "put"
    BY <2>1 DEF TypeOK, SyncState
  <2>3. syncs[s].pc = "put"
    BY <1>3 DEF PutPoints
  <2>4. /\ syncs[s].fresh \subseteq syncs[s].embed
        /\ syncs[s].embed \ syncs[s].left \subseteq points
    BY <2>3 DEF IndexInv, Busy
  <2>5. syncs'[s].embed \ syncs'[s].left \subseteq points'
    BY <2>1, <2>2, <2>4
  <2>6. syncs'[s].pc # "insert" /\ (syncs'[s].pc = "mark" => syncs'[s].left = {})
    BY <2>2
  <2>7. QED
    BY <2>2, <2>4, <2>5, <2>6
<1>4. CASE BeginSync(s) \/ MarkDone(s) \/ Scan(s) \/ Finish(s) \/ FailSync(s) \/ Die(s)
  <2>1. CASE BeginSync(s)
    <3>1. PICK f, g : syncs' = [syncs EXCEPT ![s] =
            [IdleSync EXCEPT !.pc = "fetch", !.start = f, !.since = g]]
      BY <2>1 DEF BeginSync
    <3>2. syncs'[s].pc = "fetch"
      BY <3>1 DEF IdleSync, TypeOK
    <3>3. QED
      BY <3>2 DEF Busy
  <2>2. CASE MarkDone(s) \/ Scan(s)
    <3>1. syncs'[s].pc \in {"scan", "finish"}
      BY <2>2 DEF MarkDone, Scan, TypeOK, SyncState
    <3>2. QED
      BY <3>1 DEF Busy
  <2>3. CASE Finish(s) \/ FailSync(s) \/ Die(s)
    <3>1. syncs'[s] = IdleSync
      BY <2>3 DEF Finish, FailSync, Die, TypeOK
    <3>2. QED
      BY <3>1 DEF Busy, IdleSync
  <2>4. QED
    BY <1>4, <2>1, <2>2, <2>3
<1>5. CASE Fetch(s)
  <2>1. PICK f : syncs' = [syncs EXCEPT ![s].pc = "select", ![s].since = Nothing,
                                        ![s].recs = f]
    BY <1>5 DEF Fetch
  <2>2. syncs'[s].pc \notin Busy
    BY <2>1 DEF TypeOK, SyncState, Busy
  <2>3. QED
    BY <2>2
<1>6. QED
  BY <1>1, <1>2, <1>3, <1>4, <1>5 DEF SyncStep

LEMMA IndexNext == TypeOK /\ IndexInv /\ [Next]_vars => IndexInv'
<1> SUFFICES ASSUME TypeOK, IndexInv, [Next]_vars PROVE IndexInv'
  OBVIOUS
<1>1. points \subseteq points'
  BY RowsStay
<1>2. DoneIsIndexed'
  <2>1. ASSUME NEW d \in Doc, EmbeddedElsewhere(d) PROVE DoneIsIndexed'
    BY <2>1 DEF EmbeddedElsewhere, DoneIsIndexed, IndexInv, TypeOK
  <2>2. ASSUME NEW s \in Sync, InsertNew(s) PROVE DoneIsIndexed'
    BY <2>2 DEF InsertNew, DoneIsIndexed, IndexInv, TypeOK, Rewritten, DocRow
  <2>3. ASSUME NEW s \in Sync, MarkDone(s) PROVE DoneIsIndexed'
    <3>1. syncs[s].embed \subseteq points
      BY <2>3 DEF MarkDone, IndexInv, Busy
    <3>2. QED
      BY <2>3, <3>1 DEF MarkDone, DoneIsIndexed, IndexInv, TypeOK
  <2>4. CASE docs' = docs
    BY <1>1, <2>4 DEF DoneIsIndexed, IndexInv
  <2>5. QED
    BY <2>1, <2>2, <2>3, <2>4
    DEF Next, SyncStep, vars, SourceChanges, NextSecond, RefuseSync, BeginSync, Fetch, SelectHashes,
        PutPoints, Scan, Finish, FailSync, Die
<1>3. ASSUME NEW s \in Sync, syncs'[s].pc \in Busy
      PROVE  /\ syncs'[s].fresh \subseteq syncs'[s].embed
             /\ syncs'[s].embed \ syncs'[s].left \subseteq points'
             /\ syncs'[s].pc = "mark" => syncs'[s].left = {}
             /\ syncs'[s].pc = "insert" => syncs'[s].embed \subseteq syncs'[s].left
  <2>1. CASE SyncStep(s)
    BY <1>3, <2>1, IndexOwn
  <2>2. CASE syncs'[s] = syncs[s]
    BY <1>1, <1>3, <2>2 DEF IndexInv
  <2>3. QED
    BY <2>1, <2>2, OneSync
<1>4. QED
  BY <1>2, <1>3 DEF IndexInv, Busy

-----------------------------------------------------------------------------
(* Covered: where what the source held at a sync's start has got to.        *)

Good(d, c, v) == v \in Source[d] /\ v >= c

Covered(d, c) == Searchable(d, c) \/ d \in cut

InHand(s, d, c) ==
  \/ syncs[s].pc = "select" /\ Good(d, c, syncs[s].recs[d])
  \/ syncs[s].pc = "insert" /\ \E e \in syncs[s].fresh : Good(d, c, syncs[s].recs[e])
  \/ syncs[s].pc \in Busy /\ \E e \in syncs[s].embed : Good(d, c, docs[e].content)

CoverInv ==
  /\ CursorCovers
  /\ \A s \in Sync : \A d \in Doc :
       /\ syncs[s].since[d] # NoContent => Covered(d, syncs[s].since[d])
       /\ syncs[s].pc # "fetch" /\ syncs[s].start[d] # NoContent =>
            \/ Covered(d, syncs[s].start[d])
            \/ InHand(s, d, syncs[s].start[d])

(* A possible content is not NoContent, so a row that holds one exists.     *)
LEMMA GoodExists ==
  ASSUME NEW d \in Doc, NEW e \in Doc, docs[e].content \in Source[d]
  PROVE  Exists(docs[e])
  BY DocsAssumption DEF DocsAssumption, Exists, NoContent

(* Covered and InHand after the step, of a content c before it.             *)
CoveredNext(d, c) ==
  \/ d \in cut'
  \/ \E e \in Doc : /\ docs'[e].content \in Source[d] /\ docs'[e].content >= c
                    /\ docs'[e].status = "done" /\ e \in points'

InHandNext(s, d, c) ==
  \/ syncs'[s].pc = "select" /\ Good(d, c, syncs'[s].recs[d])
  \/ syncs'[s].pc = "insert" /\ \E e \in syncs'[s].fresh : Good(d, c, syncs'[s].recs[e])
  \/ syncs'[s].pc \in Busy /\ \E e \in syncs'[s].embed : Good(d, c, docs'[e].content)

LEMMA CoveredStays ==
  ASSUME TypeOK, [Next]_vars, NEW d \in Doc, NEW c, Covered(d, c)
  PROVE  CoveredNext(d, c)
<1>1. CASE d \in cut
  BY <1>1, RowsStay DEF CoveredNext
<1>2. CASE Searchable(d, c)
  <2>1. PICK e \in Doc : /\ docs[e].content \in Source[d] /\ docs[e].content >= c
                        /\ docs[e].status = "done" /\ e \in points
    BY <1>2 DEF Searchable
  <2>2. /\ docs'[e].content = docs[e].content
        /\ docs'[e].status = "done" /\ e \in points'
    BY <2>1, GoodExists, RowsStay
  <2>3. QED
    BY <2>1, <2>2 DEF CoveredNext
<1>3. QED
  BY <1>1, <1>2 DEF Covered

(* A row a sync embeds keeps its content.                                   *)
LEMMA EmbedStays ==
  ASSUME TypeOK, [Next]_vars, NEW s \in Sync, NEW d \in Doc, NEW c,
         NEW e \in syncs[s].embed, Good(d, c, docs[e].content)
  PROVE  Good(d, c, docs'[e].content)
<1>1. e \in Doc
  BY DEF TypeOK, SyncState
<1>2. Exists(docs[e])
  BY <1>1, GoodExists DEF Good
<1>3. docs'[e].content = docs[e].content
  BY <1>1, <1>2, RowsStay
<1>4. QED
  BY <1>3 DEF Good

LEMMA InHandStays ==
  ASSUME TypeOK, [Next]_vars, NEW s \in Sync, syncs'[s] = syncs[s],
         NEW d \in Doc, NEW c, InHand(s, d, c)
  PROVE  InHandNext(s, d, c)
<1>1. CASE \/ syncs[s].pc = "select" /\ Good(d, c, syncs[s].recs[d])
           \/ /\ syncs[s].pc = "insert"
              /\ \E e \in syncs[s].fresh : Good(d, c, syncs[s].recs[e])
  BY <1>1 DEF InHandNext
<1>2. CASE syncs[s].pc \in Busy /\ \E e \in syncs[s].embed : Good(d, c, docs[e].content)
  BY <1>2, EmbedStays DEF InHandNext
<1>3. QED
  BY <1>1, <1>2 DEF InHand

-----------------------------------------------------------------------------
(* The steps of the sync itself.                                            *)

(* A fetch takes, or leaves behind, what the source held at the start and   *)
(* the cursor does not cover.                                               *)
LEMMA FetchCovers ==
  ASSUME TypeOK, SnapshotInv, CoverInv, [Next]_vars, NEW s \in Sync, Fetch(s),
         NEW d \in Doc, syncs[s].start[d] # NoContent
  PROVE  /\ syncs'[s].start = syncs[s].start
         /\ \/ CoveredNext(d, syncs[s].start[d])
            \/ InHandNext(s, d, syncs[s].start[d])
<1> DEFINE c == syncs[s].start[d]
<1>1. PICK D \in SUBSET Visible(s) :
        /\ syncs' = [syncs EXCEPT ![s].pc = "select", ![s].since = Nothing,
                                  ![s].recs = Only(D, source)]
        /\ cut' = cut \cup (Wanted(s) \ D)
  BY DEF Fetch
<1>2. /\ syncs'[s].start = syncs[s].start /\ syncs'[s].pc = "select"
      /\ syncs'[s].recs = Only(D, source)
  BY <1>1 DEF TypeOK, SyncState
<1>3. /\ c \in Source[d] /\ c <= source[d]
      /\ IsLog(integ.type) => c = source[d]
  BY DEF SnapshotInv, Within
<1>4. CASE syncs[s].since[d] # NoContent
  <2>1. IsLog(integ.type)
    BY <1>4 DEF SnapshotInv, Nothing
  <2>2. syncs[s].since[d] = source[d]
    BY <1>4, <2>1 DEF SnapshotInv, Within
  <2>3. Covered(d, c)
    BY <1>3, <1>4, <2>1, <2>2 DEF CoverInv
  <2>4. QED
    BY <1>2, <2>3, CoveredStays
<1>5. CASE syncs[s].since[d] = NoContent
  <2>1. syncs[s].start \in Snapshot /\ source \in Snapshot
    BY DEF TypeOK, SyncState
  <2>2. c \in Nat /\ source[d] \in Nat
    BY <2>1, SnapshotNat
  <2>3. source[d] # NoContent
    BY <1>3, <2>2 DEF NoContent
  <2>4. d \in Wanted(s)
    BY <1>5 DEF Wanted, Holding
  <2>5. CASE d \in D
    <3>1. syncs'[s].recs[d] = source[d]
      BY <1>2, <2>5 DEF Only
    <3>2. source[d] \in Source[d]
      BY <2>3 DEF SnapshotInv, Within
    <3>3. Good(d, c, source[d])
      BY <1>3, <2>2, <3>2 DEF Good
    <3>4. InHandNext(s, d, c)
      BY <1>2, <3>1, <3>3 DEF InHandNext
    <3>5. QED
      BY <1>2, <3>4
  <2>6. CASE d \notin D
    BY <1>1, <1>2, <2>4, <2>6 DEF CoveredNext
  <2>7. QED
    BY <2>5, <2>6
<1>6. QED
  BY <1>4, <1>5

(* A record whose hash no row holds is new; one whose hash a row holds is   *)
(* searchable, or stands for a row that is embedded again.                  *)
LEMMA SelectCovers ==
  ASSUME TypeOK, IndexInv, [Next]_vars, NEW s \in Sync, SelectHashes(s),
         NEW d \in Doc, NEW c, Good(d, c, syncs[s].recs[d])
  PROVE  CoveredNext(d, c) \/ InHandNext(s, d, c)
<1> DEFINE recs == syncs[s].recs
<1>1. PICK batch \in OnePer(Holding(recs), recs), stuck \in Stuck(s) :
        syncs' = [syncs EXCEPT ![s] = Selecting(s, batch, stuck)]
  BY SelectEffect
<1>2. /\ syncs'[s].recs = Only(Fresh(s, batch), recs)
      /\ syncs'[s].fresh = Fresh(s, batch)
      /\ syncs'[s].embed = Fresh(s, batch) \cup stuck
      /\ syncs'[s].pc = IF Fresh(s, batch) \cup stuck = {} THEN "finish"
                        ELSE IF Fresh(s, batch) = {} THEN "put" ELSE "insert"
  BY <1>1 DEF Selecting, TypeOK, SyncState
<1>3. recs[d] \in Source[d] /\ recs[d] # NoContent
  BY DocsAssumption DEF Good, DocsAssumption, NoContent
<1>4. docs' = docs
  BY DEF SelectHashes
<1>5. CASE \A e \in Matching(recs) : docs[e].content # recs[d]
  <2>1. d \in Holding(recs)
    BY <1>3 DEF Holding
  <2>2. PICK t \in batch : recs[t] = recs[d]
    BY <2>1 DEF OnePer
  <2>3. t \in Fresh(s, batch)
    BY <1>5, <2>2 DEF Fresh
  <2>4. t \in Doc
    BY DEF OnePer, Holding
  <2>5. syncs'[s].recs[t] = recs[d]
    BY <1>2, <2>2, <2>3, <2>4 DEF Only
  <2>6. syncs'[s].pc = "insert" /\ t \in syncs'[s].fresh
    BY <1>2, <2>3
  <2>7. QED
    BY <2>5, <2>6 DEF InHandNext
<1>6. CASE \E e \in Matching(recs) : docs[e].content = recs[d]
  <2>1. PICK e \in Matching(recs) : docs[e].content = recs[d]
    BY <1>6
  <2>2. e \in Doc
    BY DEF Matching
  <2>3. CASE docs[e].status = "done"
    <3>1. e \in points
      BY <2>2, <2>3 DEF IndexInv, DoneIsIndexed
    <3>2. Covered(d, c)
      BY <2>1, <2>2, <2>3, <3>1 DEF Covered, Searchable, Good
    <3>3. QED
      BY <3>2, CoveredStays
  <2>4. CASE docs[e].status # "done"
    <3>1. PICK t \in stuck : Text[t] = Text[e]
      BY <2>4 DEF Stuck, OnePer
    <3>2. t \in Doc
      BY DEF Stuck, OnePer, Matching
    <3>3. docs'[t].content = recs[d]
      BY <1>4, <2>1, <2>2, <3>1, <3>2 DEF Text
    <3>4. t \in syncs'[s].embed /\ syncs'[s].pc \in Busy
      BY <1>2 DEF Busy
    <3>5. QED
      BY <3>3, <3>4 DEF InHandNext
  <2>5. QED
    BY <2>3, <2>4
<1>7. QED
  BY <1>5, <1>6

LEMMA StepCovers ==
  ASSUME TypeOK, SnapshotInv, IndexInv, CoverInv, [Next]_vars, NEW s \in Sync,
         SyncStep(s), syncs'[s].pc # "fetch",
         NEW d \in Doc, syncs'[s].start[d] # NoContent
  PROVE  \/ CoveredNext(d, syncs'[s].start[d])
         \/ InHandNext(s, d, syncs'[s].start[d])
<1> DEFINE c == syncs[s].start[d]
           Goal == CoveredNext(d, c) \/ InHandNext(s, d, c)
<1>1. CASE BeginSync(s)
  <2>1. PICK f, g : syncs' = [syncs EXCEPT ![s] =
          [IdleSync EXCEPT !.pc = "fetch", !.start = f, !.since = g]]
    BY <1>1 DEF BeginSync
  <2>2. syncs'[s].pc = "fetch"
    BY <2>1 DEF IdleSync, TypeOK
  <2>3. QED
    BY <2>2
<1>2. CASE Finish(s) \/ FailSync(s) \/ Die(s)
  <2>1. syncs'[s] = IdleSync
    BY <1>2 DEF Finish, FailSync, Die, TypeOK
  <2>2. QED
    BY <2>1 DEF IdleSync, Nothing
<1>3. CASE Fetch(s)
  <2>1. syncs'[s].start = syncs[s].start
    <3>1. PICK f : syncs' = [syncs EXCEPT ![s].pc = "select", ![s].since = Nothing,
                                          ![s].recs = f]
      BY <1>3 DEF Fetch
    <3>2. QED
      BY <3>1 DEF TypeOK, SyncState
  <2>2. QED
    BY <1>3, <2>1, FetchCovers
<1>4. ASSUME syncs'[s].start = syncs[s].start, syncs[s].pc # "fetch"
      PROVE  CoveredNext(d, c) \/ InHand(s, d, c)
  BY <1>4, CoveredStays DEF CoverInv
<1>5. CASE SelectHashes(s)
  <2>1. PICK batch, stuck : syncs' = [syncs EXCEPT ![s] = Selecting(s, batch, stuck)]
    BY <1>5, SelectEffect
  <2>2. syncs'[s].start = syncs[s].start
    BY <2>1 DEF Selecting, TypeOK, SyncState
  <2>3. syncs[s].pc = "select"
    BY <1>5 DEF SelectHashes
  <2>4. ASSUME InHand(s, d, c) PROVE Goal
    <3>1. Good(d, c, syncs[s].recs[d])
      BY <2>3, <2>4 DEF InHand, Busy
    <3>2. QED
      BY <1>5, <3>1, SelectCovers
  <2>5. QED
    BY <1>4, <2>2, <2>3, <2>4
<1>6. CASE InsertNew(s)
  <2>1. /\ syncs'[s].start = syncs[s].start /\ syncs'[s].embed = syncs[s].embed
        /\ syncs'[s].pc = "put" /\ syncs[s].pc = "insert"
    BY <1>6 DEF InsertNew, TypeOK, SyncState
  <2>2. syncs[s].fresh \subseteq syncs[s].embed /\ syncs[s].fresh \subseteq Doc
    BY <2>1 DEF IndexInv, Busy, TypeOK, SyncState
  <2>3. ASSUME NEW e \in syncs[s].fresh, Good(d, c, syncs[s].recs[e]) PROVE Goal
    <3>1. docs'[e].content = syncs[s].recs[e]
      BY <1>6, <2>2 DEF InsertNew, Rewritten, TypeOK, DocRow
    <3>2. QED
      BY <2>1, <2>2, <2>3, <3>1 DEF InHandNext, Busy
  <2>4. ASSUME NEW e \in syncs[s].embed, Good(d, c, docs[e].content) PROVE Goal
    BY <2>1, <2>4, EmbedStays DEF InHandNext, Busy
  <2>5. ASSUME InHand(s, d, c) PROVE Goal
    BY <2>1, <2>3, <2>4, <2>5 DEF InHand
  <2>6. QED
    BY <1>4, <2>1, <2>5
<1>7. CASE PutPoints(s)
  <2>1. PICK L, p : syncs' = [syncs EXCEPT ![s].left = L, ![s].pc = p]
                    /\ p \in {"mark", "put"}
    BY <1>7 DEF PutPoints
  <2>2. /\ syncs'[s].start = syncs[s].start /\ syncs'[s].embed = syncs[s].embed
        /\ syncs'[s].pc \in Busy
    BY <2>1 DEF TypeOK, SyncState, Busy
  <2>3. syncs[s].pc = "put"
    BY <1>7 DEF PutPoints
  <2>4. ASSUME InHand(s, d, c) PROVE Goal
    <3>1. PICK e \in syncs[s].embed : Good(d, c, docs[e].content)
      BY <2>3, <2>4 DEF InHand
    <3>2. QED
      BY <2>2, <3>1, EmbedStays DEF InHandNext
  <2>5. QED
    BY <1>4, <2>2, <2>3, <2>4
<1>8. CASE MarkDone(s)
  <2>1. syncs'[s].start = syncs[s].start /\ syncs[s].pc = "mark"
    BY <1>8 DEF MarkDone, TypeOK, SyncState
  <2>2. syncs[s].embed \subseteq points /\ syncs[s].embed \subseteq Doc
    BY <2>1 DEF IndexInv, Busy, TypeOK, SyncState
  <2>3. ASSUME InHand(s, d, c) PROVE Goal
    <3>1. PICK e \in syncs[s].embed : Good(d, c, docs[e].content)
      BY <2>1, <2>3 DEF InHand
    <3>2. Good(d, c, docs'[e].content)
      BY <3>1, EmbedStays
    <3>3. docs'[e].status = "done" /\ e \in Doc /\ e \in points'
      BY <1>8, <2>2, <3>1 DEF MarkDone, TypeOK, DocRow
    <3>4. QED
      BY <3>2, <3>3 DEF CoveredNext, Good
  <2>4. QED
    BY <1>4, <2>1, <2>3
<1>9. CASE Scan(s)
  <2>1. syncs'[s].start = syncs[s].start /\ syncs[s].pc = "scan"
    BY <1>9 DEF Scan, TypeOK, SyncState
  <2>2. ~ InHand(s, d, c)
    BY <2>1 DEF InHand, Busy
  <2>3. QED
    BY <1>4, <2>1, <2>2
<1>10. QED
  BY <1>1, <1>2, <1>3, <1>5, <1>6, <1>7, <1>8, <1>9 DEF SyncStep

LEMMA CursorStep ==
  ASSUME TypeOK, CoverInv, [Next]_vars, NEW d \in Doc, integ'.cursor[d] # NoContent
  PROVE  CoveredNext(d, integ'.cursor[d])
<1>1. CASE integ'.cursor = integ.cursor
  BY <1>1, CoveredStays DEF CoverInv, CursorCovers, Covered
<1>2. ASSUME NEW s \in Sync, Finish(s) PROVE CoveredNext(d, integ'.cursor[d])
  <2>1. integ'.cursor = syncs[s].start /\ syncs[s].pc = "finish"
    BY <1>2 DEF Finish, TypeOK, IntegrationRow
  <2>2. ~ InHand(s, d, syncs[s].start[d])
    BY <2>1 DEF InHand, Busy
  <2>3. Covered(d, syncs[s].start[d])
    BY <2>1, <2>2 DEF CoverInv
  <2>4. QED
    BY <2>1, <2>3, CoveredStays
<1>3. CASE ~ \E s \in Sync : Finish(s)
  <2>1. integ'.cursor = integ.cursor
    BY <1>3 DEF Next, SyncStep, vars, SourceChanges, EmbeddedElsewhere, NextSecond, RefuseSync,
           BeginSync, Fetch, SelectHashes, InsertNew, PutPoints, MarkDone, Scan, FailSync,
           Die, TypeOK, IntegrationRow
  <2>2. QED
    BY <1>1, <2>1
<1>4. QED
  BY <1>2, <1>3

LEMMA CoverInit == Init => CoverInv
<1> SUFFICES ASSUME Init PROVE CoverInv
  OBVIOUS
<1>1. \A d \in Doc : integ.cursor[d] = NoContent
  BY DEF Init, Nothing
<1>2. \A s \in Sync, d \in Doc :
        syncs[s].since[d] = NoContent /\ syncs[s].start[d] = NoContent
  BY DEF Init, IdleSync, Nothing
<1>3. QED
  BY <1>1, <1>2 DEF CoverInv, CursorCovers

LEMMA CoverNext ==
  TypeOK /\ SnapshotInv /\ IndexInv /\ CoverInv /\ [Next]_vars => CoverInv'
<1> SUFFICES ASSUME TypeOK, SnapshotInv, IndexInv, CoverInv, [Next]_vars
             PROVE  CoverInv'
  OBVIOUS
<1>1. \A d \in Doc : integ'.cursor[d] # NoContent => CoveredNext(d, integ'.cursor[d])
  BY CursorStep
<1>2. ASSUME NEW s \in Sync, NEW d \in Doc, syncs'[s].since[d] # NoContent
      PROVE  CoveredNext(d, syncs'[s].since[d])
  <2>1. CASE syncs'[s].since = syncs[s].since
    BY <1>2, <2>1, CoveredStays DEF CoverInv
  <2>2. CASE syncs'[s].since = Nothing
    BY <1>2, <2>2 DEF Nothing
  <2>3. CASE syncs'[s].since = integ.cursor
    BY <1>2, <2>3, CoveredStays DEF CoverInv, CursorCovers, Covered
  <2>4. QED
    BY <2>1, <2>2, <2>3, Remembered
<1>3. ASSUME NEW s \in Sync, NEW d \in Doc,
             syncs'[s].pc # "fetch", syncs'[s].start[d] # NoContent
      PROVE  \/ CoveredNext(d, syncs'[s].start[d])
             \/ InHandNext(s, d, syncs'[s].start[d])
  <2>1. CASE syncs'[s] = syncs[s]
    BY <1>3, <2>1, CoveredStays, InHandStays DEF CoverInv
  <2>2. CASE SyncStep(s)
    BY <1>3, <2>2, StepCovers
  <2>3. QED
    BY <2>1, <2>2, OneSync
<1>4. CursorCovers'
  BY <1>1 DEF CursorCovers, CoveredNext, Searchable
<1>5. QED
  BY <1>2, <1>3, <1>4 DEF CoverInv, CoveredNext, InHandNext, Covered, InHand, Searchable

(* A row is marked done only with all its points, for any number of syncs   *)
(* that store, recover and mark rows at once.                               *)
THEOREM DoneIsIndexedHolds == Spec => []DoneIsIndexed
<1>1. TypeOK /\ IndexInv /\ [Next]_vars => (TypeOK /\ IndexInv)'
  BY TypeNext, IndexNext
<1>2. IndexInv => DoneIsIndexed
  BY DEF IndexInv
<1>3. QED
  BY <1>1, <1>2, TypeInit, IndexInit, PTL DEF Spec

(* What the source held at the cursor is searchable or was left behind  *)
(* by a fetcher, for any number of records and syncs.                      *)
THEOREM CursorCoversHolds == Spec => []CursorCovers
<1> DEFINE Inv == TypeOK /\ SnapshotInv /\ IndexInv /\ CoverInv
<1>1. Init => Inv
  BY TypeInit, SnapshotInit, IndexInit, CoverInit
<1>2. Inv /\ [Next]_vars => Inv'
  BY TypeNext, SnapshotNext, IndexNext, CoverNext
<1>3. Inv => CursorCovers
  BY DEF CoverInv
<1>4. QED
  BY <1>1, <1>2, <1>3, PTL DEF Spec

-----------------------------------------------------------------------------
(* Incident scans: the new rows of a sync are its own until it scans them.  *)

Mature == {"put", "mark", "scan"}

FiredInv ==
  /\ \A d \in Doc : fired[d] <= 1 /\ (fired[d] # 0 => Exists(docs[d]))
  /\ \A s \in Sync :
       /\ syncs[s].pc = "insert" => syncs[s].fresh \subseteq Holding(syncs[s].recs)
       /\ syncs[s].pc \in Mature =>
            \A d \in syncs[s].fresh : Exists(docs[d]) /\ fired[d] = 0
       /\ \A t \in Sync \ {s} :
            syncs[s].pc \in Mature /\ syncs[t].pc \in Mature =>
              syncs[s].fresh \cap syncs[t].fresh = {}

LEMMA FiredInit == Init => FiredInv
  BY DEF Init, FiredInv, IdleSync, Mature

LEMMA FiredNext == TypeOK /\ FiredInv /\ [Next]_vars => FiredInv'
<1> SUFFICES ASSUME TypeOK, FiredInv, [Next]_vars PROVE FiredInv'
  OBVIOUS
<1>1. \A d \in Doc : Exists(docs[d]) => Exists(docs'[d])
  BY RowsStay DEF Exists
<1>2. ASSUME NEW s \in Sync, InsertNew(s) PROVE FiredInv'
  <2>1. /\ syncs[s].pc = "insert" /\ fired' = fired
        /\ \A d \in syncs[s].fresh : ~Exists(docs[d])
        /\ syncs[s].fresh \subseteq Doc
    BY <1>2 DEF InsertNew, TypeOK, SyncState
  <2>2. syncs' = [syncs EXCEPT ![s] = [syncs[s] EXCEPT !.pc = "put", !.recs = Nothing]]
    BY <1>2 DEF InsertNew
  <2>3. syncs'[s].fresh = syncs[s].fresh /\ syncs'[s].pc = "put"
    BY <2>2 DEF TypeOK, SyncState
  <2>4. \A t \in Sync \ {s} : syncs'[t] = syncs[t]
    BY <2>2 DEF TypeOK
  <2>5. \A d \in syncs[s].fresh : Exists(docs'[d]) /\ fired[d] = 0
    <3> TAKE d \in syncs[s].fresh
    <3>1. fired[d] = 0
      BY <2>1 DEF FiredInv
    <3>2. syncs[s].recs[d] # NoContent
      BY <2>1 DEF FiredInv, Holding
    <3>3. docs'[d].content = syncs[s].recs[d]
      BY <1>2, <2>1 DEF InsertNew, Rewritten, TypeOK, DocRow
    <3>4. QED
      BY <3>1, <3>2, <3>3 DEF Exists
  <2>6. ASSUME NEW t \in Sync \ {s}, syncs[t].pc \in Mature
        PROVE  syncs[t].fresh \cap syncs[s].fresh = {}
    BY <2>1, <2>6 DEF FiredInv
  <2>7. \A d \in Doc : fired'[d] <= 1 /\ (fired'[d] # 0 => Exists(docs'[d]))
    BY <1>1, <2>1 DEF FiredInv
  <2>8. ASSUME NEW t \in Sync
        PROVE  /\ syncs'[t].pc = "insert" =>
                    syncs'[t].fresh \subseteq {d \in Doc : syncs'[t].recs[d] # NoContent}
               /\ syncs'[t].pc \in Mature =>
                    \A d \in syncs'[t].fresh : Exists(docs'[d]) /\ fired'[d] = 0
    <3>1. CASE t = s
      BY <2>1, <2>3, <2>5, <3>1
    <3>2. CASE t # s
      <4>1. syncs[t].fresh \subseteq Doc
        BY DEF TypeOK, SyncState
      <4>2. QED
        BY <1>1, <2>1, <2>4, <3>2, <4>1 DEF FiredInv, Holding
    <3>3. QED
      BY <3>1, <3>2
  <2>9. ASSUME NEW t \in Sync, NEW u \in Sync \ {t},
               syncs'[t].pc \in Mature, syncs'[u].pc \in Mature
        PROVE  syncs'[t].fresh \cap syncs'[u].fresh = {}
    BY <2>3, <2>4, <2>6, <2>9 DEF FiredInv
  <2>10. QED
    BY <2>7, <2>8, <2>9 DEF FiredInv, Holding, Exists
<1>3. ASSUME NEW s \in Sync, Scan(s) PROVE FiredInv'
  <2>1. PICK D \in SUBSET syncs[s].fresh :
          fired' = [d \in Doc |-> IF d \in D THEN fired[d] + 1 ELSE fired[d]]
    BY <1>3 DEF Scan
  <2>2. syncs[s].pc = "scan" /\ docs' = docs /\ syncs[s].fresh \subseteq Doc
    BY <1>3 DEF Scan, TypeOK, SyncState
  <2>3. syncs' = [syncs EXCEPT ![s] =
          [syncs[s] EXCEPT !.pc = "finish", !.fresh = {}, !.embed = {}]]
    BY <1>3 DEF Scan
  <2>4. syncs'[s].pc = "finish" /\ \A t \in Sync \ {s} : syncs'[t] = syncs[t]
    BY <2>3 DEF TypeOK, SyncState
  <2>5. \A d \in syncs[s].fresh : Exists(docs[d]) /\ fired[d] = 0
    BY <2>2 DEF FiredInv, Mature
  <2>6. \A d \in Doc : fired'[d] <= 1 /\ (fired'[d] # 0 => Exists(docs'[d]))
    BY <2>1, <2>2, <2>5 DEF FiredInv, TypeOK
  <2>7. ASSUME NEW t \in Sync \ {s}, syncs[t].pc \in Mature, NEW d \in syncs[t].fresh
        PROVE  Exists(docs'[d]) /\ fired'[d] = 0
    <3>1. d \in Doc /\ d \notin D
      BY <2>1, <2>2, <2>7 DEF FiredInv, Mature, TypeOK, SyncState
    <3>2. QED
      BY <2>1, <2>2, <2>7, <3>1 DEF FiredInv
  <2>8. QED
    BY <2>2, <2>4, <2>6, <2>7 DEF FiredInv, Mature, Holding, Exists
<1>4. ASSUME NEW s \in Sync, SelectHashes(s) PROVE FiredInv'
  <2>1. PICK batch \in OnePer(Holding(syncs[s].recs), syncs[s].recs), stuck \in Stuck(s) :
          syncs' = [syncs EXCEPT ![s] = Selecting(s, batch, stuck)]
    BY <1>4, SelectEffect
  <2>2. /\ syncs'[s].recs = Only(Fresh(s, batch), syncs[s].recs)
        /\ syncs'[s].fresh = Fresh(s, batch)
        /\ syncs'[s].pc \in Mature => syncs'[s].fresh = {}
    BY <2>1 DEF Selecting, TypeOK, SyncState, Mature
  <2>3. \A t \in Sync \ {s} : syncs'[t] = syncs[t]
    BY <2>1 DEF TypeOK
  <2>4. \A d \in Fresh(s, batch) : d \in Doc /\ syncs'[s].recs[d] # NoContent
    BY <2>2 DEF Fresh, OnePer, Holding, Only
  <2>5. docs' = docs /\ fired' = fired
    BY <1>4 DEF SelectHashes
  <2>6. QED
    BY <2>2, <2>3, <2>4, <2>5 DEF FiredInv, Holding, Exists
<1>5. ASSUME NEW s \in Sync, PutPoints(s) \/ MarkDone(s) PROVE FiredInv'
  <2>1. PICK v : syncs' = [syncs EXCEPT ![s] = v]
    BY <1>5 DEF PutPoints, MarkDone
  <2>2. /\ \A t \in Sync \ {s} : syncs'[t] = syncs[t]
        /\ fired' = fired /\ syncs[s].pc \in Mature
    BY <1>5, <2>1 DEF PutPoints, MarkDone, TypeOK, Mature
  <2>3. syncs'[s].fresh = syncs[s].fresh /\ syncs'[s].pc \in Mature
    <3>1. CASE PutPoints(s)
      <4>1. PICK L, p : syncs' = [syncs EXCEPT ![s].left = L, ![s].pc = p]
                        /\ p \in {"mark", "put"}
        BY <3>1 DEF PutPoints
      <4>2. QED
        BY <4>1 DEF TypeOK, SyncState, Mature
    <3>2. CASE MarkDone(s)
      BY <3>2 DEF MarkDone, TypeOK, SyncState, Mature
    <3>3. QED
      BY <1>5, <3>1, <3>2
  <2>4. \A t \in Sync : syncs[t].fresh \subseteq Doc
    BY DEF TypeOK, SyncState
  <2>5. ASSUME NEW t \in Sync, syncs'[t].pc \in Mature
        PROVE  \A d \in syncs'[t].fresh : Exists(docs'[d]) /\ fired'[d] = 0
    BY <1>1, <2>2, <2>3, <2>4, <2>5 DEF FiredInv
  <2>6. ASSUME NEW t \in Sync, syncs'[t].pc = "insert"
        PROVE  syncs'[t] = syncs[t]
    BY <2>2, <2>3, <2>6 DEF Mature
  <2>7. ASSUME NEW t \in Sync, NEW u \in Sync \ {t},
               syncs'[t].pc \in Mature, syncs'[u].pc \in Mature
        PROVE  syncs'[t].fresh \cap syncs'[u].fresh = {}
    BY <2>2, <2>3, <2>7 DEF FiredInv
  <2>8. \A d \in Doc : fired'[d] <= 1 /\ (fired'[d] # 0 => Exists(docs'[d]))
    BY <1>1, <2>2 DEF FiredInv
  <2>9. QED
    BY <2>5, <2>6, <2>7, <2>8 DEF FiredInv, Holding, Exists
<1>6. ASSUME NEW s \in Sync,
             BeginSync(s) \/ Fetch(s) \/ Finish(s) \/ FailSync(s) \/ Die(s)
      PROVE  FiredInv'
  <2>1. PICK v : syncs' = [syncs EXCEPT ![s] = v]
    BY <1>6 DEF BeginSync, Fetch, Finish, FailSync, Die
  <2>2. \A t \in Sync \ {s} : syncs'[t] = syncs[t]
    BY <2>1 DEF TypeOK
  <2>3. docs' = docs /\ fired' = fired
    BY <1>6 DEF BeginSync, Fetch, Finish, FailSync, Die
  <2>4. syncs'[s].pc \in {"idle", "fetch", "select"}
    <3>1. CASE BeginSync(s)
      <4>1. PICK f, g : syncs' = [syncs EXCEPT ![s] =
              [IdleSync EXCEPT !.pc = "fetch", !.start = f, !.since = g]]
        BY <3>1 DEF BeginSync
      <4>2. QED
        BY <4>1 DEF IdleSync, TypeOK
    <3>2. CASE Fetch(s)
      <4>1. PICK f : syncs' = [syncs EXCEPT ![s].pc = "select", ![s].since = Nothing,
                                            ![s].recs = f]
        BY <3>2 DEF Fetch
      <4>2. QED
        BY <4>1 DEF TypeOK, SyncState
    <3>3. CASE Finish(s) \/ FailSync(s) \/ Die(s)
      BY <3>3 DEF Finish, FailSync, Die, IdleSync, TypeOK
    <3>4. QED
      BY <1>6, <3>1, <3>2, <3>3
  <2>5. QED
    BY <2>2, <2>3, <2>4 DEF FiredInv, Mature, Holding, Exists
<1>7. ASSUME UNCHANGED <<syncs, fired>> PROVE FiredInv'
  <2>1. \A t \in Sync : syncs[t].fresh \subseteq Doc
    BY DEF TypeOK, SyncState
  <2>2. QED
    BY <1>1, <1>7, <2>1 DEF FiredInv, Holding, Exists
<1>8. QED
  BY <1>2, <1>3, <1>4, <1>5, <1>6, <1>7
  DEF Next, SyncStep, vars, SourceChanges, EmbeddedElsewhere, NextSecond, RefuseSync

(* No record is scanned for incidents twice, for any number of records and  *)
(* of syncs that fetch them.                                                *)
THEOREM FiredOnceHolds == Spec => []FiredOnce
<1>1. TypeOK /\ FiredInv /\ [Next]_vars => (TypeOK /\ FiredInv)'
  BY TypeNext, FiredNext
<1>2. FiredInv => FiredOnce
  BY DEF FiredInv, FiredOnce
<1>3. QED
  BY <1>1, <1>2, TypeInit, FiredInit, PTL DEF Spec

-----------------------------------------------------------------------------
(* The status of the integration                                            *)

LEMMA PendingNext == TypeOK /\ PendingExplained /\ [Next]_vars => PendingExplained'
<1> SUFFICES ASSUME TypeOK, PendingExplained, [Next]_vars, integ'.status = "pending"
             PROVE  integ'.died \/ \E s \in Sync : syncs'[s].pc # "idle"
  BY DEF PendingExplained
<1>1. CASE RefuseSync
  BY <1>1 DEF RefuseSync, TypeOK, IntegrationRow
<1>2. ASSUME NEW s \in Sync, Finish(s) \/ FailSync(s) \/ Die(s) PROVE integ'.died
  BY <1>2 DEF Finish, FailSync, Die, TypeOK, IntegrationRow
<1>3. ASSUME NEW s \in Sync, BeginSync(s) PROVE syncs'[s].pc # "idle"
  <2>1. PICK f, g : syncs' = [syncs EXCEPT ![s] =
          [IdleSync EXCEPT !.pc = "fetch", !.start = f, !.since = g]]
    BY <1>3 DEF BeginSync
  <2>2. QED
    BY <2>1 DEF IdleSync, TypeOK
<1>4. ASSUME NEW s \in Sync,
             Fetch(s) \/ SelectHashes(s) \/ InsertNew(s) \/ PutPoints(s)
               \/ MarkDone(s) \/ Scan(s)
      PROVE  syncs'[s].pc # "idle"
  <2>1. CASE SelectHashes(s)
    <3>1. PICK batch, stuck : syncs' = [syncs EXCEPT ![s] = Selecting(s, batch, stuck)]
      BY <2>1, SelectEffect
    <3>2. QED
      BY <3>1 DEF Selecting, TypeOK, SyncState
  <2>2. CASE Fetch(s)
    <3>1. PICK f : syncs' = [syncs EXCEPT ![s].pc = "select", ![s].since = Nothing,
                                          ![s].recs = f]
      BY <2>2 DEF Fetch
    <3>2. QED
      BY <3>1 DEF TypeOK, SyncState
  <2>3. CASE PutPoints(s)
    <3>1. PICK L, p : syncs' = [syncs EXCEPT ![s].left = L, ![s].pc = p]
                      /\ p \in {"mark", "put"}
      BY <2>3 DEF PutPoints
    <3>2. QED
      BY <3>1 DEF TypeOK, SyncState
  <2>4. CASE InsertNew(s) \/ MarkDone(s) \/ Scan(s)
    BY <2>4 DEF InsertNew, MarkDone, Scan, TypeOK, SyncState
  <2>5. QED
    BY <1>4, <2>1, <2>2, <2>3, <2>4
<1>5. CASE UNCHANGED <<integ, syncs>>
  BY <1>5 DEF PendingExplained
<1>6. QED
  BY <1>1, <1>2, <1>3, <1>4, <1>5
  DEF Next, SyncStep, vars, SourceChanges, EmbeddedElsewhere, NextSecond

(* An integration is pending only while a sync runs or after one died, for  *)
(* any number of syncs.                                                     *)
THEOREM PendingExplainedHolds == Spec => []PendingExplained
<1>1. Init => PendingExplained
  BY DEF Init, PendingExplained
<1>2. QED
  BY <1>1, TypeInit, TypeNext, PendingNext, PTL DEF Spec
=============================================================================
