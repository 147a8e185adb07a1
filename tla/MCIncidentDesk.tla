--------------------------- MODULE MCIncidentDesk ----------------------------
(***************************************************************************)
(* Two teams, two workers, one alert or a repeated one, and a desk where   *)
(* two people may push one brief or investigate one incident at once.      *)
(***************************************************************************)
EXTENDS IncidentDesk, TLC

CONSTANTS w1, w2, x, y, a, r1, r2, v1, v2

Symmetry == Permutations({w1, w2}) \cup Permutations({x, y})
              \cup Permutations({r1, r2}) \cup Permutations({v1, v2})
=============================================================================
