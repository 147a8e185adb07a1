----------------------------- MODULE DirectSync ------------------------------
(***************************************************************************)
(* Direct sync of one integration: run_direct_sync fetches records from    *)
(* the vendor's API, _batch_save_and_embed_logs stores and embeds them,    *)
(* and the integration's cursor (last_synced_at) moves to the time the     *)
(* sync started.  Nothing keeps two syncs apart: the initial one, the      *)
(* button, the schedule and the one after a push to Jira may run at once.  *)
(*                                                                         *)
(* A cursor is a time.  It is kept as what the source held at that time,   *)
(* which is what a log source's `since` filter leaves out: for a fetcher   *)
(* that asks from a whole second on, what the source held at that second.  *)
(* Railway is not modelled: its fetcher makes a record of its own at every *)
(* sync.                                                                   *)
(***************************************************************************)
EXTENDS CanonicalDocs, Fetchers

CONSTANTS
  Sync,   \* sync tasks that may run at the same time
  Types,  \* the source_types the integration may have
  Cap     \* bound on a fetcher's limit; with 15,050 or more they are the code's

ASSUME SyncAssumption == Types \subseteq SourceType /\ Cap \in Nat

VARIABLES
  source,  \* source[d]: the content of d at the vendor
  second,  \* the same at the last whole second
  integ,   \* the integration's row of opslens.integrations
  syncs,   \* syncs[s]: what sync s is doing
  docs,    \* canonical_documents
  points,  \* documents all of whose points are in Qdrant
  fired,   \* fired[d]: how often d was scanned for incidents
  cut      \* history: records a fetcher left behind

vars == <<source, second, integ, syncs, docs, points, fired, cut>>

Snapshot == [Doc -> Content \cup {NoContent}]

Nothing == [d \in Doc |-> NoContent]

(* type is its source_type and never changes.  died is history: a sync died *)
(* since the status was last written.                                       *)
IntegrationRow == [type   : Types,
                   status : {"pending", "active", "error"},
                   cursor : Snapshot,
                   died   : BOOLEAN]

(* start: the source at fetch_started_at; recs: the records fetched, then   *)
(* the new ones; fresh: new rows; embed: rows to embed; left: those whose   *)
(* points are still to write.  A field no later step reads is cleared.      *)
SyncState == [pc    : {"idle", "fetch", "select", "insert", "put", "mark",
                       "scan", "finish"},
              since : Snapshot,
              start : Snapshot,
              recs  : Snapshot,
              fresh : SUBSET Doc,
              embed : SUBSET Doc,
              left  : SUBSET Doc]

IdleSync == [pc |-> "idle", since |-> Nothing, start |-> Nothing, recs |-> Nothing,
             fresh |-> {}, embed |-> {}, left |-> {}]

(* Every variable keeps its type.                                           *)
TypeOK ==
  /\ source \in Snapshot /\ second \in Snapshot
  /\ integ \in IntegrationRow
  /\ syncs \in [Sync -> SyncState]
  /\ docs \in [Doc -> DocRow]
  /\ points \subseteq Doc
  /\ fired \in [Doc -> Nat]
  /\ cut \subseteq Doc

Init ==
  /\ source = Nothing /\ second = Nothing
  /\ \E type \in Types : integ = [type |-> type, status |-> "active",
                                  cursor |-> Nothing, died |-> FALSE]
  /\ syncs = [s \in Sync |-> IdleSync]
  /\ docs = [d \in Doc |-> NoDoc]
  /\ points = {}
  /\ fired = [d \in Doc |-> 0]
  /\ cut = {}

-----------------------------------------------------------------------------
(* Outside the sync.                                                        *)

(* Only contextual records are edited.                                      *)
SourceChanges(d) ==
  /\ source[d] = NoContent \/ ~IsLog(integ.type)
  /\ \E c \in Source[d] : c > source[d] /\ source' = [source EXCEPT ![d] = c]
  /\ UNCHANGED <<second, integ, syncs, docs, points, fired, cut>>

(* Kept up to date for the fetchers that use it.                            *)
NextSecond ==
  /\ ~FetcherOf(integ.type).exact
  /\ second # source
  /\ second' = source
  /\ UNCHANGED <<source, integ, syncs, docs, points, fired, cut>>

(* retry_pending_embeddings finds pending rows of a sync too.  That a job   *)
(* it sends marks a row done only with its points is DocEmbedding's         *)
(* ImmutableVectorised: no sync changes the content of a row.               *)
EmbeddedElsewhere(d) ==
  /\ Exists(docs[d]) /\ docs[d].status = "pending"
  /\ points' = points \cup {d}
  /\ docs' = [docs EXCEPT ![d].status = "done"]
  /\ UNCHANGED <<source, second, integ, syncs, fired, cut>>

-----------------------------------------------------------------------------
(* run_direct_sync: the status and the cursor.                              *)

BeginSync(s) ==
  /\ syncs[s].pc = "idle"
  /\ syncs' = [syncs EXCEPT ![s] =
       [IdleSync EXCEPT !.pc = "fetch",
                        !.start = IF FetcherOf(integ.type).exact THEN source ELSE second,
                        !.since = IF IsLog(integ.type) THEN integ.cursor ELSE Nothing]]
  /\ integ' = [integ EXCEPT !.status = "pending", !.died = FALSE]
  /\ UNCHANGED <<source, second, docs, points, fired, cut>>

(* No fetcher for the source type, or credentials that do not decrypt.      *)
RefuseSync ==
  /\ integ' = [integ EXCEPT !.status = "error", !.died = FALSE]
  /\ UNCHANGED <<source, second, syncs, docs, points, fired, cut>>

(* The cursor moves to the start of this sync, back if a later one has      *)
(* finished already.                                                        *)
Finish(s) ==
  /\ syncs[s].pc = "finish"
  /\ integ' = [integ EXCEPT !.status = "active", !.died = FALSE,
                             !.cursor = syncs[s].start]
  /\ syncs' = [syncs EXCEPT ![s] = IdleSync]
  /\ UNCHANGED <<source, second, docs, points, fired, cut>>

(* An exception, or the soft time limit: the cursor stays.                  *)
FailSync(s) ==
  /\ syncs[s].pc # "idle"
  /\ integ' = [integ EXCEPT !.status = "error", !.died = FALSE]
  /\ syncs' = [syncs EXCEPT ![s] = IdleSync]
  /\ UNCHANGED <<source, second, docs, points, fired, cut>>

(* The process is killed, or the status cannot be written.  A retry, or a   *)
(* redelivered poll_log_source, is another BeginSync.                       *)
Die(s) ==
  /\ syncs[s].pc # "idle"
  /\ integ' = [integ EXCEPT !.died = TRUE]
  /\ syncs' = [syncs EXCEPT ![s] = IdleSync]
  /\ UNCHANGED <<source, second, docs, points, fired, cut>>

-----------------------------------------------------------------------------
(* The fetcher.  D are the records it returns.  What it had to return and   *)
(* did not is remembered in cut; there are three reasons for it.            *)

Only(D, f) == [d \in Doc |-> IF d \in D THEN f[d] ELSE NoContent]

Holding(f) == {d \in Doc : f[d] # NoContent}

(* What the filter of the request lets through now, and what was there when *)
(* the sync started: only the latter must be in the answer, which takes     *)
(* several requests.                                                        *)
Visible(s) ==
  Holding(IF FetcherOf(integ.type).until THEN second ELSE source)
    \ Holding(syncs[s].since)

Wanted(s) == Holding(syncs[s].start) \ Holding(syncs[s].since)

(* It stops at its limit, it asks in parts, or it is the first fetch of a   *)
(* log source, which looks back to midnight only.                           *)
Limit == LET limit == FetcherOf(integ.type).limit IN IF limit < Cap THEN limit ELSE Cap

MayMiss(s, D) ==
  \/ Cardinality(D) >= Limit
  \/ FetcherOf(integ.type).parts
  \/ IsLog(integ.type) /\ syncs[s].since = Nothing

Fetch(s) ==
  /\ syncs[s].pc = "fetch"
  /\ \E D \in SUBSET Visible(s) :
       /\ Wanted(s) \subseteq D \/ MayMiss(s, D)
       /\ syncs' = [syncs EXCEPT ![s].pc = "select", ![s].since = Nothing,
                                 ![s].recs = Only(D, source)]
       /\ cut' = cut \cup (Wanted(s) \ D)
  /\ UNCHANGED <<source, second, integ, docs, points, fired>>

-----------------------------------------------------------------------------
(* _batch_save_and_embed_logs.                                              *)

(* One element of S for every content f gives them: "keep only the first".  *)
OnePer(S, f) == {T \in SUBSET S : /\ \A d \in S : \E t \in T : f[t] = f[d]
                                  /\ \A t, u \in T : f[t] = f[u] => t = u}

Text == [d \in Doc |-> docs[d].content]

(* Rows that hold the hash of a fetched record.                             *)
Matching(recs) == {e \in Doc : \E d \in Holding(recs) : docs[e].content = recs[d]}

(* Mutant: every row counts as synced, whether or not it was embedded.      *)
MutSelectHashes(s) ==
  /\ syncs[s].pc = "select"
  /\ LET recs == syncs[s].recs
         met  == Matching(recs)
     IN  \E batch \in OnePer(Holding(recs), recs) :
           LET fresh == {d \in batch : \A e \in met : docs[e].content # recs[d]}
           IN  syncs' = [syncs EXCEPT ![s].recs = Only(fresh, recs),
                                      ![s].fresh = fresh, ![s].embed = fresh,
                                      ![s].left = fresh,
                                      ![s].pc = IF fresh = {} THEN "finish" ELSE "insert"]
  /\ UNCHANGED <<source, second, integ, docs, points, fired, cut>>

(* Mutant: with nothing to embed, the sync ends here.                       *)
MutSelectReturns(s) ==
  /\ syncs[s].pc = "select"
  /\ LET recs == syncs[s].recs
     IN  /\ \A d \in Holding(recs) : \E e \in Doc : docs[e].content = recs[d]
         /\ \A e \in Matching(recs) : docs[e].status = "done"
  /\ syncs' = [syncs EXCEPT ![s] = IdleSync]
  /\ UNCHANGED <<source, second, integ, docs, points, fired, cut>>

(* Steps 1 to 3b: rows with the hash of a record are done, or stuck and     *)
(* embedded again, one for each hash; the records of no row are new.        *)
SelectHashes(s) ==
  /\ syncs[s].pc = "select"
  /\ LET recs == syncs[s].recs
         met  == Matching(recs)
     IN  \E batch \in OnePer(Holding(recs), recs),
            stuck \in OnePer({e \in met : docs[e].status # "done"}, Text) :
           LET fresh == {d \in batch : \A e \in met : docs[e].content # recs[d]}
               embed == fresh \cup stuck
           IN  syncs' = [syncs EXCEPT ![s].recs = Only(fresh, recs),
                                      ![s].fresh = fresh, ![s].embed = embed,
                                      ![s].left = embed,
                                      ![s].pc = IF embed = {} THEN "finish"
                                                ELSE IF fresh = {} THEN "put"
                                                ELSE "insert"]
  /\ UNCHANGED <<source, second, integ, docs, points, fired, cut>>

(* Step 4: one transaction.  If a row of one of the documents exists, the   *)
(* unique constraint refuses all of them, and only FailSync is left.        *)
InsertNew(s) ==
  /\ syncs[s].pc = "insert"
  /\ \A d \in syncs[s].fresh : ~Exists(docs[d])
  /\ docs' = [d \in Doc |-> IF d \in syncs[s].fresh
                            THEN Rewritten(docs[d], syncs[s].recs[d]) ELSE docs[d]]
  /\ syncs' = [syncs EXCEPT ![s].pc = "put", ![s].recs = Nothing]
  /\ UNCHANGED <<source, second, integ, points, fired, cut>>

(* Mutant: only the first upsert request is sent.                           *)
MutPutPoints(s) ==
  /\ syncs[s].pc = "put"
  /\ \E D \in SUBSET syncs[s].left :
       /\ D # {}
       /\ points' = points \cup D
       /\ syncs' = [syncs EXCEPT ![s].left = {}, ![s].pc = "mark"]
  /\ UNCHANGED <<source, second, integ, docs, fired, cut>>

(* Steps 5 to 7: everything is embedded, then upserted in requests of at    *)
(* most 500 points; D are the rows a request completes.                     *)
PutPoints(s) ==
  /\ syncs[s].pc = "put"
  /\ \E D \in SUBSET syncs[s].left :
       /\ D # {}
       /\ points' = points \cup D
       /\ LET left == syncs[s].left \ D
          IN  syncs' = [syncs EXCEPT ![s].left = left,
                                     ![s].pc = IF left = {} THEN "mark" ELSE "put"]
  /\ UNCHANGED <<source, second, integ, docs, fired, cut>>

(* Step 8, by primary key.                                                  *)
MarkDone(s) ==
  /\ syncs[s].pc = "mark"
  /\ docs' = [d \in Doc |-> IF d \in syncs[s].embed
                            THEN [docs[d] EXCEPT !.status = "done"] ELSE docs[d]]
  /\ syncs' = [syncs EXCEPT ![s].pc = "scan"]
  /\ UNCHANGED <<source, second, integ, points, fired, cut>>

(* Mutant: recovered rows are scanned like new ones.                        *)
MutScan(s) ==
  /\ syncs[s].pc = "scan"
  /\ fired' = IF IsLog(integ.type)
              THEN [d \in Doc |-> IF d \in syncs[s].embed THEN fired[d] + 1 ELSE fired[d]]
              ELSE fired
  /\ syncs' = [syncs EXCEPT ![s].pc = "finish", ![s].fresh = {}, ![s].embed = {}]
  /\ UNCHANGED <<source, second, integ, docs, points, cut>>

(* The incident scan over the new records of a log source.  Its exceptions  *)
(* are swallowed; D are the records it got through.                         *)
Scan(s) ==
  /\ syncs[s].pc = "scan"
  /\ \E D \in SUBSET syncs[s].fresh :
       /\ ~IsLog(integ.type) => D = {}
       /\ fired' = [d \in Doc |-> IF d \in D THEN fired[d] + 1 ELSE fired[d]]
  /\ syncs' = [syncs EXCEPT ![s].pc = "finish", ![s].fresh = {}, ![s].embed = {}]
  /\ UNCHANGED <<source, second, integ, docs, points, cut>>

-----------------------------------------------------------------------------
SyncStep(s) ==
  \/ BeginSync(s)
  \/ Fetch(s)
  \/ SelectHashes(s)
  \/ InsertNew(s)
  \/ PutPoints(s)
  \/ MarkDone(s)
  \/ Scan(s)
  \/ Finish(s)
  \/ FailSync(s)
  \/ Die(s)

Next ==
  \/ \E d \in Doc : SourceChanges(d) \/ EmbeddedElsewhere(d)
  \/ NextSecond
  \/ RefuseSync
  \/ \E s \in Sync : SyncStep(s)

Spec == Init /\ [][Next]_vars

-----------------------------------------------------------------------------
(* Properties                                                               *)

(* The content c of document d, or a later edit of it, is in a row that is  *)
(* done and has its points.                                                 *)
Searchable(d, c) ==
  \E e \in Doc : /\ docs[e].content \in Source[d] /\ docs[e].content >= c
                 /\ docs[e].status = "done" /\ e \in points

(* What the source held at the cursor is searchable, unless a fetch cut it  *)
(* off.  Syncs overlap, fail half way, die, and move the cursor back;       *)
(* records arrive in the middle of a fetch; a log source never offers       *)
(* again what is before its cursor, so a row left stuck there, or a record  *)
(* that arrived after the fetch but before the cursor, would be lost.       *)
CursorCovers ==
  \A d \in Doc : integ.cursor[d] # NoContent =>
                   Searchable(d, integ.cursor[d]) \/ d \in cut

(* A row a sync stored or recovered is marked done only with all its        *)
(* points, whichever of several syncs marks it.                             *)
DoneIsIndexed == \A d \in Doc : docs[d].status = "done" => d \in points

(* No record is scanned for incidents twice, although syncs overlap and     *)
(* fetch the same records, and failed syncs fetch theirs again.             *)
FiredOnce == \A d \in Doc : fired[d] <= 1

(* An integration stays pending only while a sync of it runs, or when the   *)
(* last one died: any other end of a sync, also one that had nothing to     *)
(* store, writes the status.                                                *)
PendingExplained ==
  integ.status = "pending" => integ.died \/ \E s \in Sync : syncs[s].pc # "idle"
=============================================================================
