--------------------------- MODULE MCDocEmbedding ----------------------------
(***************************************************************************)
(* A log record of two point groups and a page that turns from a good text *)
(* into one that does not parse, or back, with two workers.                *)
(***************************************************************************)
EXTENDS DocEmbedding, TLC

CONSTANTS log, page, w1, w2

MCSource == log :> {1} @@ page :> {2, 3}

MCGroups   == <<2, 1, 2>>
Symmetry == Permutations(Worker)
=============================================================================
