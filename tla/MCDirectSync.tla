---------------------------- MODULE MCDirectSync -----------------------------
(***************************************************************************)
(* DirectSync with two records, which may have the same text or different  *)
(* ones and, in a contextual source, are edited; two syncs at a time.      *)
(***************************************************************************)
EXTENDS DirectSync, TLC

CONSTANTS a, b, s1, s2

MCSource == a :> {1} @@ b :> {1, 2}
MCGroups == <<1, 1>>

Symmetry == Permutations(Sync)
=============================================================================
