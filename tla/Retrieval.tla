------------------------------ MODULE Retrieval ------------------------------
(***************************************************************************)
(* How the planner gathers context: hybrid_retrieve for every sub-query at *)
(* once (dense and keyword search, fused by reciprocal rank, reranked),    *)
(* then one list without duplicates, in the order of the fused scores, with*)
(* a cap per kind of source.                                               *)
(*                                                                         *)
(* A search returns any ranking of documents or fails.  Documents are told *)
(* apart by the first 200 characters, so the points of Blank, which were   *)
(* written without page_content, are one document NoText to the retriever. *)
(* The order that the reranker or the recency sort gives is left out: the  *)
(* planner sorts by the fused score again.  The sub-queries share nothing  *)
(* before they are gathered, so they are taken one after the other.        *)
(***************************************************************************)
EXTENDS Lists, FiniteSets, SequencesExt

CONSTANTS
  Doc,
  Blank,         \* documents whose points have no page_content (staged ones)
  SourceOf,      \* the source_type of a document
  MaxSubs,       \* MAX_SUB_QUERIES
  TopK, RrfK,    \* TOP_K, RRF_K
  SourceCap,     \* max(3, 40 % of 2 * TOP_K)
  MaxHits        \* bound: hits per search, at most 2 * TOP_K

ASSUME RetrievalAssumption ==
  /\ IsFiniteSet(Doc) /\ Blank \subseteq Doc
  /\ MaxSubs \in Nat \ {0} /\ TopK \in Nat \ {0} /\ RrfK \in Nat
  /\ SourceCap \in Nat /\ MaxHits \in 0 .. 2 * TopK

VARIABLES
  restricted,    \* the user has a list of allowed sources, not empty
  subs,          \* the sub-queries
  result         \* retrieved_docs, once gathered

retrievalVars == <<restricted, subs, result>>

NoText == "no text"    \* every dense hit without page_content
Count == "count"       \* the document _aggregate_count makes up

Kind(d) == IF d \in Doc THEN SourceOf[d] ELSE "unknown"

Ranking == {r \in UNION {[1 .. n -> Doc] : n \in 0 .. MaxHits} : IsInjective(r)}

-----------------------------------------------------------------------------
(* Reciprocal rank fusion.  Weight(r) is 1 / (RrfK + r) times a constant    *)
(* that makes it whole for every rank.                                      *)
Scale ==
  LET product[r \in 0 .. MaxHits] == IF r = 0 THEN 1 ELSE product[r - 1] * (RrfK + r)
  IN  product[MaxHits]

Weight(rank) == Scale \div (RrfK + rank)

Scored(d, score) == [doc |-> d, score |-> score]

(* Mutant: the sign of the sort key is lost.                                *)
MutAhead(list, i) ==
  {j \in DOMAIN list : \/ list[j].score < list[i].score
                       \/ list[j].score = list[i].score /\ j <= i}

(* A stable sort by falling score: what stands before the i-th entry, and   *)
(* the entry itself.                                                        *)
Ahead(list, i) ==
  {j \in DOMAIN list : \/ list[j].score > list[i].score
                       \/ list[j].score = list[i].score /\ j <= i}

SortByScore(list) ==
  [k \in DOMAIN list |->
     list[CHOOSE i \in DOMAIN list : Cardinality(Ahead(list, i)) = k]]

(* The score of a key: a term for every place it has in either list.        *)
Terms(list, key) ==
  LET sum[r \in 0 .. Len(list)] ==
        IF r = 0 THEN 0 ELSE sum[r - 1] + IF list[r] = key THEN Weight(r) ELSE 0
  IN  sum[Len(list)]

FusedScore(dense, words, key) == Terms(dense, key) + Terms(words, key)

(* The first entry of a document stays, whatever its later scores.          *)
Merge(list) ==
  LET kept[n \in 0 .. Len(list)] ==
        IF n = 0 THEN <<>>
        ELSE IF \E k \in DOMAIN kept[n - 1] : kept[n - 1][k].doc = list[n].doc
             THEN kept[n - 1] ELSE Append(kept[n - 1], list[n])
  IN  kept[Len(list)]

(* _rrf_merge *)
RrfMerge(dense, words) ==
  LET keys == dense \o words
  IN  SortByScore(Merge([i \in DOMAIN keys |->
        Scored(keys[i], FusedScore(dense, words, keys[i]))]))

(* What the dense search makes of its hits.                                 *)
DenseKeys(hits) == [i \in DOMAIN hits |-> IF hits[i] \in Blank THEN NoText ELSE hits[i]]

Take(list, n) == SubSeq(list, 1, IF n < Len(list) THEN n ELSE Len(list))

-----------------------------------------------------------------------------
RetrievalInit ==
  /\ restricted \in BOOLEAN
  /\ \E n \in 1 .. MaxSubs :
       subs = [s \in 1 .. n |-> [pc |-> "search", counts |-> FALSE,
                                 dense |-> <<>>, words |-> <<>>, found |-> <<>>]]
  /\ result = <<>>

Found(s, docs) ==
  subs' = [subs EXCEPT ![s] =
    [pc |-> "found", counts |-> FALSE, dense |-> <<>>, words |-> <<>>, found |-> docs]]

Turn(s) == subs[s].pc = "search" /\ \A r \in 1 .. s - 1 : subs[r].pc = "found"

CountDoc == <<Scored(Count, 0)>>

(* A query that names an identifier takes the matching rows, without scores.*)
LookUpIds(s) ==
  /\ Turn(s)
  /\ \E d \in Doc : Found(s, <<Scored(d, 0)>>)
  /\ UNCHANGED <<restricted, result>>

(* The query is embedded and both searches run; each may fail or find       *)
(* nothing.  No point has the metadata.source_id that a restricted search   *)
(* filters by.  counts: it asks for a number, and the count was made.       *)
Search(s) ==
  /\ Turn(s)
  /\ \E hits \in Ranking, words \in Ranking, counts \in BOOLEAN :
       /\ restricted => hits = <<>>
       /\ hits # <<>> \/ words # <<>>
       /\ subs' = [subs EXCEPT ![s] =
            [pc |-> "fused", counts |-> counts, dense |-> DenseKeys(hits),
             words |-> words, found |-> RrfMerge(DenseKeys(hits), words)]]
  /\ UNCHANGED <<restricted, result>>

(* Nothing was found, the embedding failed, the filters matched nothing, or *)
(* the sub-query raised.                                                    *)
Nothing(s) ==
  /\ Turn(s)
  /\ \E docs \in {<<>>, CountDoc} : Found(s, docs)
  /\ UNCHANGED <<restricted, result>>

(* _cohere_rerank picks any TopK of the fused list, or fails and the first  *)
(* ones stay; the count goes in front and pushes out one of them.           *)
Rerank(s) ==
  /\ subs[s].pc = "fused"
  /\ \E chosen \in SUBSET ToSet(subs[s].found) :
       LET fused == subs[s].found
           room  == IF subs[s].counts THEN TopK - 1 ELSE TopK
           kept  == Only(fused, chosen)
       IN  /\ Cardinality(chosen) = (IF room < Len(fused) THEN room ELSE Len(fused))
           /\ Found(s, IF subs[s].counts THEN CountDoc \o kept ELSE kept)
  /\ UNCHANGED <<restricted, result>>

-----------------------------------------------------------------------------
(* The places of the entries of one kind.                                   *)
OfKind(list, kind) == {k \in DOMAIN list : Kind(list[k].doc) = kind}

Diverse(list) ==
  LET kept[n \in 0 .. Len(list)] ==
        IF n = 0 THEN <<>>
        ELSE IF Cardinality(OfKind(kept[n - 1], Kind(list[n].doc))) < SourceCap
             THEN Append(kept[n - 1], list[n]) ELSE kept[n - 1]
  IN  kept[Len(list)]

Pool == Merge(FlattenSeq([s \in DOMAIN subs |-> subs[s].found]))

Capped == ~restricted \/ Len(subs) > 1

(* Mutant: the list is cut before it is made diverse.                       *)
MutPick(pool) ==
  LET cut == Take(SortByScore(pool), 2 * TopK)
  IN  IF Capped THEN Diverse(cut) ELSE cut

Pick(pool) ==
  LET sorted == SortByScore(pool)
  IN  Take(IF Capped THEN Diverse(sorted) ELSE sorted, 2 * TopK)

(* The end of _retrieve_node, when every sub-query is back.                 *)
Gather ==
  /\ \A s \in DOMAIN subs : subs[s].pc = "found"
  /\ result' = Pick(Pool)
  /\ subs' = [s \in DOMAIN subs |-> [subs[s] EXCEPT !.pc = "gathered"]]
  /\ UNCHANGED restricted

RetrievalNext ==
  \/ \E s \in DOMAIN subs : LookUpIds(s) \/ Search(s) \/ Nothing(s) \/ Rerank(s)
  \/ Gather

RetrievalSpec == RetrievalInit /\ [][RetrievalNext]_retrievalVars

-----------------------------------------------------------------------------
(* Properties                                                               *)

RankIn(list, key) ==
  IF key \in ToSet(list) THEN CHOOSE r \in DOMAIN list : list[r] = key ELSE Len(list) + 1

(* A document that neither search ranks lower than another one, and one of  *)
(* them ranks higher, comes before it in the fused list; every document     *)
(* found is in it once.  The blank one is left out: all blank hits add up in*)
(* its score.                                                               *)
RankedFairly ==
  \A s \in DOMAIN subs : subs[s].pc = "fused" =>
    LET dense == subs[s].dense
        words == subs[s].words
        fused == [i \in DOMAIN subs[s].found |-> subs[s].found[i].doc]
        keys  == ToSet(dense \o words)
        Behind(d, e) == /\ RankIn(dense, d) >= RankIn(dense, e)
                        /\ RankIn(words, d) >= RankIn(words, e)
    IN  /\ IsInjective(fused) /\ ToSet(fused) = keys
        /\ \A d, e \in keys \ {NoText} :
             Behind(d, e) /\ ~Behind(e, d) => RankIn(fused, e) < RankIn(fused, d)

(* A document is left out of the context only for better ones: as many of   *)
(* its kind as the cap allows, or a whole context of them.                  *)
BestKept ==
  \A s \in DOMAIN subs : subs[s].pc = "gathered" =>
    \A x \in ToSet(Pool) \ ToSet(result) :
      LET better == {k \in DOMAIN result : result[k].score >= x.score}
      IN  \/ Cardinality(better) = 2 * TopK
          \/ Capped /\ Cardinality(better \cap OfKind(result, Kind(x.doc))) = SourceCap
=============================================================================
