---------------------------- MODULE MCFastAlerts -----------------------------
(***************************************************************************)
(* Two tenants with the same error on one host.  The rules of the first    *)
(* tenant reach a team without a PagerDuty key and go on to one with it;   *)
(* the second tenant has no rules and the fallback webhook.                *)
(***************************************************************************)
EXTENDS FastAlerts, TLC

CONSTANTS t1, t2, s1, p1, p2, w1, w2

Routing == INSTANCE AlertRouting WITH Word <- {w1, w2}, Container <- {}

Rule(word, stop, slack, pagerduty, cooldown) ==
  [service |-> {}, error |-> {{word}}, source |-> {}, matchAll |-> FALSE,
   active |-> TRUE, stop |-> stop, slack |-> slack, pagerduty |-> pagerduty,
   cooldown |-> cooldown]

RulesOf == [t \in Tenant |->
  IF t = t1 THEN << Rule(w1, FALSE, TRUE, FALSE, 3), Rule(w1, TRUE, TRUE, TRUE, 1),
                    Rule(w1, FALSE, TRUE, TRUE, 0) >>
  ELSE <<>>]
DefaultTeam == [slack |-> TRUE, pagerduty |-> FALSE, cooldown |-> 2]

TargetAt(t, i) ==
  IF i = 0 THEN DefaultTeam
  ELSE [slack |-> RulesOf[t][i].slack, pagerduty |-> RulesOf[t][i].pagerduty,
        cooldown |-> RulesOf[t][i].cooldown]

MCRoute == [t \in Tenant |-> [s \in {s1} |->
  LET found == Routing!ResolveRouting(RulesOf[t], {w1}, Routing!NoContainer, TRUE)
  IN  [k \in DOMAIN found |-> TargetAt(t, found[k])]]]
MCFallback == <<DefaultTeam>>
=============================================================================
