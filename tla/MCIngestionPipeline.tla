------------------------- MODULE MCIngestionPipeline -------------------------
(***************************************************************************)
(* IngestionPipeline with one staging run and one worker: two versions of  *)
(* a log line, the second of which may arrive while the first is being     *)
(* embedded, and one between them below the minimum severity.              *)
(***************************************************************************)
EXTENDS IngestionPipeline, Normalizers

CONSTANTS u1, w1

Line(level) == [from |-> "elasticsearch", thing |-> 1, has |-> {"id", "parts"},
                level |-> level]

MCDoc == {Document(Line("ERROR"), 1)}

Raw(raw, c) == [kind |-> Outcome(raw), doc |-> Document(raw, 1), content |-> c]

MCPayload == <<Raw(Line("ERROR"), 1), Raw(Line("INFO"), 1), Raw(Line("ERROR"), 2)>>
MCSource  == [d \in MCDoc |-> {1, 2}]
MCGroups  == <<2, 1>>
=============================================================================
