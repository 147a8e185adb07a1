-------------------------- MODULE IngestionPipeline --------------------------
(***************************************************************************)
(* StagingQueue and DocEmbedding together.  They share canonical_documents *)
(* and the broker: a staging run upserts rows and sends one message, the   *)
(* embedding workers read the rows again when they execute it, and nothing *)
(* orders the two.  The staging runs are the environment DocEmbedding      *)
(* assumes, which Embed!Spec, checked as a property, confirms.             *)
(***************************************************************************)
EXTENDS CanonicalDocs

CONSTANTS
  Record, Payload, Run, BatchLimit, MaxRetries,  \* see StagingQueue
  Worker, RetryLimit, MaxGroups,                 \* see DocEmbedding
  MaxTaskRetries

VARIABLES queue, runs, docs, index, jobs, broker

vars == <<queue, runs, docs, index, jobs, broker>>

Staging == INSTANCE StagingQueue
Embed   == INSTANCE DocEmbedding

(* What the two stages assume of their constants.                           *)
ASSUME PipelineAssumption == Staging!QueueAssumption /\ Embed!EmbeddingAssumption

(* Every variable keeps its type.                                           *)
TypeOK == Staging!TypeOK /\ Embed!TypeOK

Init == Staging!Init /\ Embed!Init

StagingStep == Staging!Next /\ UNCHANGED <<index, jobs>>

EmbeddingStep ==
  /\ Embed!Resend \/ \E w \in Worker : Embed!WorkerStep(w)
  /\ UNCHANGED <<queue, runs>>

Next == StagingStep \/ EmbeddingStep

Spec == Init /\ [][Next]_vars

FairSpec == Spec /\ Staging!Fairness /\ Embed!Fairness /\ Embed!OutagesEnd

-----------------------------------------------------------------------------
(* Properties                                                               *)

(* Overlapping nothing, staging keeps the newest processed edit of every    *)
(* document, whatever the embedding jobs commit to the same rows meanwhile. *)
NewestWins == Staging!NewestWins

(* What staging does to the rows and the broker is what DocEmbedding allows *)
(* its environment: content arrives only as an insert or a change, and      *)
(* messages name only stored documents.                                     *)
EmbeddingImplemented == Embed!Spec

(* A good record whose document can be embedded ends as a done document,    *)
(* although the dispatch after the commit may be lost and jobs may die.     *)
EndToEnd ==
  \A r \in Record :
    LET d == Payload[r].doc
    IN  /\ Payload[r].kind = "good"
        /\ \A c \in Source[d] : Groups[c] > 0 /\ c \notin Unparsable \cup Oversize
        => (Staging!Waiting(r) ~> Exists(docs[d]) /\ docs[d].status = "done")
=============================================================================
