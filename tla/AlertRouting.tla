---------------------------- MODULE AlertRouting -----------------------------
(***************************************************************************)
(* Which teams hear of an error: _rule_matches, shared by the fast scan    *)
(* and the ingest, simulate and test endpoints, and _resolve_routing.      *)
(*                                                                         *)
(* A line is the set of the words a pattern can find in it.  A pattern     *)
(* list holds tags; a tag is the set of its comma-separated parts, and a   *)
(* blank tag has none.                                                     *)
(***************************************************************************)
EXTENDS Naturals, Sequences, SequencesExt

CONSTANTS Word, Container

NoContainer == "no container"   \* what fast_scan passes

RoutingRule ==
  [service : SUBSET SUBSET Word, error : SUBSET SUBSET Word,
   source : SUBSET Container, matchAll : BOOLEAN, active : BOOLEAN,
   stop : BOOLEAN, slack : BOOLEAN, pagerduty : BOOLEAN, cooldown : Nat]

AnyMatch(patterns, line) == UNION patterns \cap line # {}

(* The three tests of a rule: whether the list was given, whether it hits.  *)
Checks(rule, line, container) ==
  { [given |-> rule.service # {}, hit |-> AnyMatch(rule.service, line)],
    [given |-> rule.error # {},   hit |-> AnyMatch(rule.error, line)],
    [given |-> rule.source # {},  hit |-> container \in rule.source] }

RuleMatches(rule, line, container) ==
  LET checks == Checks(rule, line, container)
      asked  == {c \in checks : c.given}
  IN  IF rule.matchAll THEN asked # {} /\ \A c \in asked : c.hit
                       ELSE \E c \in checks : c.hit

(* One turn of the loop over the rules in priority order; 0 stands for the  *)
(* default team of the fallback webhook.                                    *)
Consider(rules, line, container, found, i) ==
  IF found.halted \/ ~rules[i].active \/ ~RuleMatches(rules[i], line, container)
  THEN found
  ELSE [teams |-> Append(found.teams, i), halted |-> rules[i].stop]

FallbackTargets(fallback) == IF fallback THEN <<0>> ELSE <<>>

ResolveRouting(rules, line, container, fallback) ==
  LET turn(found, i) == Consider(rules, line, container, found, i)
      found == FoldLeft(turn, [teams |-> <<>>, halted |-> FALSE],
                        [i \in 1 .. Len(rules) |-> i])
  IN  IF found.teams = <<>> THEN FallbackTargets(fallback) ELSE found.teams
=============================================================================
