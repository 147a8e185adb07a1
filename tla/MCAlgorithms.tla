---------------------------- MODULE MCAlgorithms -----------------------------
(***************************************************************************)
(* Retrieval has up to three sub-queries over two issues and a staged      *)
(* ticket, and contexts of two, one of a kind; texts are of up to MaxLines *)
(* lines, traces of up to MaxTrace.                                        *)
(***************************************************************************)
EXTENDS Algorithms

CONSTANTS d1, d2, d3, f, g

MCSourceOf == [d \in {d1, d2, d3} |-> IF d = d3 THEN "jira" ELSE "github"]

MCRemotes ==
  {[status |-> "none", repos |-> <<>>], [status |-> "fails", repos |-> <<{f, g}>>]} \cup
  {[status |-> "ok", repos |-> repos] : repos \in {<<>>, <<{f}>>, <<{g}, {f, g}>>}}

MCDisks == {{}, {f}, {f, g}}
=============================================================================
