--------------------------- MODULE MCStagingQueue ----------------------------
(***************************************************************************)
(* StagingQueue with two overlapping runs and four records of Jira: two    *)
(* edits of one issue with one between them whose reporter is null, and    *)
(* last a version that PostgreSQL refuses.                                 *)
(***************************************************************************)
EXTENDS StagingQueue, Normalizers

CONSTANTS u1, u2

Issue(parts) == [from |-> "jira", thing |-> 1, has |-> {"id", "dates"} \cup parts,
                 level |-> "none"]
Whole  == Issue({"parts"})
Broken == Issue({})

MCDoc == {Document(Whole, 1)}

Raw(raw, c) == [kind |-> Outcome(raw), doc |-> Document(raw, 1), content |-> c]

MCPayload ==
  <<Raw(Whole, 1), Raw(Broken, 1), Raw(Whole, 2),
    [Raw(Whole, 2) EXCEPT !.kind = "rejected"]>>
MCSource == [d \in MCDoc |-> {1, 2}]
MCGroups == <<1, 1>>
=============================================================================
