------------------------------- MODULE MCChat -------------------------------
(***************************************************************************)
(* Two questions at once in one session, research and one other agent, the *)
(* two rounds of the planner.                                              *)
(***************************************************************************)
EXTENDS Chat

CONSTANTS q1, q2
=============================================================================
