---------------------------- MODULE MCMembership -----------------------------
(***************************************************************************)
(* Two people, one of whom has no email in the token, of two domains; two  *)
(* requests at once, and one invite.                                       *)
(***************************************************************************)
EXTENDS Membership, TLC

CONSTANTS a, b, q1, q2, d, e

MCDomainOf == (a :> d) @@ (b :> e)

Symmetry == Permutations({q1, q2})
=============================================================================
