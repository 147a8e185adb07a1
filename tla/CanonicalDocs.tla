---------------------------- MODULE CanonicalDocs ----------------------------
(***************************************************************************)
(* The row of opslens.canonical_documents, as far as the ingestion         *)
(* pipeline reads and writes it, and the messages the pipeline sends       *)
(* through the Celery broker.  This module has no state of its own: the    *)
(* staging, embedding, sync and pipeline modules all extend it.            *)
(*                                                                         *)
(* One tenant is modelled.  Rows carry a tenant_id, every statement        *)
(* filters on it or on a primary key, and each tenant has its own Qdrant   *)
(* collection.                                                             *)
(***************************************************************************)
EXTENDS Integers, FiniteSets

CONSTANTS
  Doc,          \* documents: (source_type, source_id) pairs of the tenant
  Content,      \* content values; a larger number is a later edit at the source
  Source,       \* Source[d]: the contents that may ever arrive for document d
  Groups,       \* Groups[c]: batches of EMBED_BATCH chunks that content c parses to
  Blank,        \* contents that are empty after strip()
  Unparsable,   \* contents on which structural_parse raises
  Oversize,     \* contents the embeddings API always refuses
  MaxAttempts   \* MAX_EMBEDDING_RETRY_ATTEMPTS

NoContent == 0

ASSUME DocsAssumption ==
  /\ Content \subseteq Nat \ {NoContent}
  /\ Source \in [Doc -> SUBSET Content]
  /\ Groups \in [Content -> Nat]
  /\ Blank \subseteq Content /\ Unparsable \subseteq Content /\ Oversize \subseteq Content
  /\ \A c \in Blank : Groups[c] = 0
  /\ \A c \in Unparsable \cup Oversize : Groups[c] > 0
  /\ MaxAttempts \in Nat

EmbeddingStatus == {"pending", "done", "failed"}

(* content = NoContent stands for "no row with this source id yet".         *)
DocRow == [content  : Content \cup {NoContent},
           status   : EmbeddingStatus,
           attempts : 0 .. MaxAttempts]

NoDoc == [content |-> NoContent, status |-> "pending", attempts |-> 0]

Exists(row) == row.content # NoContent

(* The UPDATE of INSERT ... ON CONFLICT DO UPDATE, and its INSERT when row   *)
(* is NoDoc: the attempts made so far stay.                                 *)
Rewritten(row, c) == [row EXCEPT !.content = c, !.status = "pending"]

(* processing_attempts + 1.  Only "attempts < MaxAttempts" is ever asked,   *)
(* so the count saturates there.                                            *)
Counted(row) ==
  [row EXCEPT !.attempts = IF @ < MaxAttempts THEN @ + 1 ELSE @]

(* Messages of process_document ("one") and process_documents_batch         *)
(* ("batch"); tries is Celery's request.retries.                            *)
Message(MaxTaskRetries) ==
  [op : {"one", "batch"}, docs : SUBSET Doc, tries : 0 .. MaxTaskRetries]

OneMessage(d)   == [op |-> "one",   docs |-> {d}, tries |-> 0]
BatchMessage(D) == [op |-> "batch", docs |-> D,   tries |-> 0]
=============================================================================
