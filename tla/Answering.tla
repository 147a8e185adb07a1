------------------------------ MODULE Answering ------------------------------
(***************************************************************************)
(* What a chat session promises: a question is stored, at most one answer  *)
(* to it is stored after it, each stored answer is one billable event and  *)
(* nothing else is, and a deleted session stays empty.  Billable events    *)
(* outlive the session, and those written since the tenant has a           *)
(* subscription are due.                                                   *)
(***************************************************************************)
EXTENDS Naturals

CONSTANT Question

VARIABLES
  asked, answered,   \* the questions stored, and those with a stored answer
  billed,            \* billable events
  metered, due,      \* there is a subscription, and what it owes
  closed             \* the session was deleted

answeringVars == <<asked, answered, billed, metered, due, closed>>

AnsweringInit ==
  /\ asked = {}
  /\ answered = {}
  /\ billed = 0
  /\ metered = FALSE
  /\ due = 0
  /\ closed = FALSE

Ask(q) ==
  /\ ~closed
  /\ q \notin asked
  /\ asked' = asked \cup {q}
  /\ UNCHANGED <<answered, billed, metered, due, closed>>

Answer(q) ==
  /\ q \in asked \ answered
  /\ answered' = answered \cup {q}
  /\ billed' = billed + 1
  /\ due' = IF metered THEN due + 1 ELSE due
  /\ UNCHANGED <<asked, metered, closed>>

Close ==
  /\ closed' = TRUE
  /\ asked' = {}
  /\ answered' = {}
  /\ UNCHANGED <<billed, metered, due>>

Meter ==
  /\ metered' = TRUE
  /\ UNCHANGED <<asked, answered, billed, due, closed>>

AnsweringNext == Close \/ Meter \/ \E q \in Question : Ask(q) \/ Answer(q)

AnsweringSpec == AnsweringInit /\ [][AnsweringNext]_answeringVars
=============================================================================
