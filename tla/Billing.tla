------------------------------- MODULE Billing -------------------------------
(***************************************************************************)
(* The subscription rows that mirror one Stripe subscription: admins name  *)
(* the customer and the plan, Stripe's webhooks are applied in the order   *)
(* they arrive, which need not be the order they were sent in.             *)
(*                                                                         *)
(* Several tenants may name the same customer, as nothing keeps an admin   *)
(* from typing in any.  The limits of a plan, the periods and the ids of   *)
(* Stripe are left out; settings has no STRIPE_SECRET_KEY, so the report   *)
(* of the pending usage always skips.  latest and disturbed are history.   *)
(***************************************************************************)
EXTENDS Naturals, Sequences, FiniteSets

CONSTANTS
  Tenant,
  Plan,                    \* the plans, "free" among them
  MaxSent, MaxPlanChanges  \* bounds

ASSUME BillingAssumption ==
  /\ "free" \in Plan
  /\ MaxSent \in Nat /\ MaxPlanChanges \in Nat

VARIABLES
  subscriptions,  \* billing_subscriptions
  stripe,         \* the status the subscription has at Stripe
  sent,           \* how many webhooks Stripe has sent
  webhooks,       \* those it has to deliver, also again
  latest,         \* the newest one that was applied, ignored or given up
  disturbed,      \* tenants whose status is not from the newest webhook
  planChanges

billingVars ==
  <<subscriptions, stripe, sent, webhooks, latest, disturbed, planChanges>>

(* customer: "payer" is the one with the subscription, "other" any other.   *)
NoSubscription == [plan |-> "none", status |-> "none", customer |-> "none"]
Subscription ==
  [plan : Plan \cup {"none"},
   status : {"none", "trialing", "active", "incomplete", "past_due", "canceled"},
   customer : {"none", "payer", "other"}]

Webhook == [n : Nat, kind : {"updated", "deleted", "failed"}, status : STRING]

BillingInit ==
  /\ subscriptions = [t \in Tenant |-> NoSubscription]
  /\ stripe = "none"
  /\ sent = 0
  /\ webhooks = {}
  /\ latest = 0
  /\ disturbed = {}
  /\ planChanges = 0

-----------------------------------------------------------------------------
(* The tenants                                                              *)

(* _get_or_create_subscription *)
Created(t) ==
  IF subscriptions[t] # NoSubscription THEN subscriptions[t]
  ELSE [plan |-> "free", status |-> "trialing", customer |-> "none"]

(* Any look at the plan or its usage creates the row; of two at once one    *)
(* fails on the unique tenant.                                              *)
GetSubscription(t) ==
  /\ subscriptions[t] = NoSubscription
  /\ subscriptions' = [subscriptions EXCEPT ![t] = Created(t)]
  /\ UNCHANGED <<stripe, sent, webhooks, latest, disturbed, planChanges>>

(* upsert_subscription: the plan, and the customer if one is given.  A      *)
(* subscription id makes the row active, whatever Stripe says.              *)
UpsertSubscription(t) ==
  /\ planChanges < MaxPlanChanges
  /\ planChanges' = planChanges + 1
  /\ \E plan \in Plan, named \in {Created(t).customer, "payer", "other"},
       subscribed \in BOOLEAN :
       /\ subscriptions' = [subscriptions EXCEPT ![t] =
            [plan |-> plan,
             status |-> IF subscribed THEN "active" ELSE Created(t).status,
             customer |-> named]]
       /\ disturbed' = IF subscribed \/ named # Created(t).customer
                          \/ (stripe = "canceled" /\ plan # "free")
                       THEN disturbed \cup {t} ELSE disturbed
  /\ UNCHANGED <<stripe, sent, webhooks, latest>>

-----------------------------------------------------------------------------
(* Stripe, outside the program.                                             *)

Notify(kinds) ==
  /\ sent + Len(kinds) <= MaxSent
  /\ sent' = sent + Len(kinds)
  /\ webhooks' = webhooks \cup
       {[n |-> sent + k, kind |-> kinds[k], status |-> stripe'] : k \in DOMAIN kinds}
  /\ UNCHANGED <<subscriptions, latest, disturbed, planChanges>>

Subscribe ==
  /\ stripe \in {"none", "canceled"}
  /\ \/ stripe' = "active"     /\ Notify(<<"updated">>)
     \/ stripe' = "incomplete" /\ Notify(<<"updated", "failed">>)

FailPayment == stripe = "active" /\ stripe' = "past_due" /\ Notify(<<"failed", "updated">>)

Pay == stripe \in {"incomplete", "past_due"} /\ stripe' = "active" /\ Notify(<<"updated">>)

Cancel == stripe \in {"active", "past_due"} /\ stripe' = "canceled" /\ Notify(<<"deleted">>)

(* After days of failures Stripe stops delivering a webhook.                *)
GiveUp(e) ==
  /\ webhooks' = webhooks \ {e}
  /\ IF e.n >= latest
     THEN latest' = e.n /\ disturbed' = Tenant
     ELSE UNCHANGED <<latest, disturbed>>
  /\ UNCHANGED <<subscriptions, stripe, sent, planChanges>>

-----------------------------------------------------------------------------
Payers == {t \in Tenant : subscriptions[t].customer = "payer"}

(* Mutant: the end of a subscription only takes the plan away.              *)
MutApply(row, e) ==
  CASE e.kind = "updated" -> [row EXCEPT !.status = e.status]
    [] e.kind = "deleted" -> [row EXCEPT !.plan = "free"]
    [] e.kind = "failed"  -> [row EXCEPT !.status = "past_due"]

Apply(row, e) ==
  CASE e.kind = "updated" -> [row EXCEPT !.status = e.status]
    [] e.kind = "deleted" -> [row EXCEPT !.status = "canceled", !.plan = "free"]
    [] e.kind = "failed"  -> [row EXCEPT !.status = "past_due"]

(* stripe_webhook: an unknown customer is ignored; one that two tenants     *)
(* name makes the query raise, so the webhook is sent again.  It is also    *)
(* when the answer does not reach Stripe.                                   *)
StripeWebhook(e) ==
  /\ Cardinality(Payers) <= 1
  /\ subscriptions' = [t \in Tenant |->
       IF t \in Payers THEN Apply(subscriptions[t], e) ELSE subscriptions[t]]
  /\ webhooks' \in {webhooks, webhooks \ {e}}
  /\ IF e.n >= latest
     THEN latest' = e.n /\ disturbed' = (disturbed \ Payers) \cup (Tenant \ Payers)
     ELSE disturbed' = disturbed \cup Payers /\ UNCHANGED latest
  /\ UNCHANGED <<stripe, sent, planChanges>>

BillingStep ==
  \/ \E t \in Tenant : GetSubscription(t) \/ UpsertSubscription(t)
  \/ Subscribe \/ FailPayment \/ Pay \/ Cancel
  \/ \E e \in webhooks : StripeWebhook(e) \/ GiveUp(e)

-----------------------------------------------------------------------------
Agrees(row) ==
  /\ \/ row.status = stripe
     \/ row.status = "past_due" /\ stripe = "incomplete"
  /\ stripe = "canceled" => row.plan = "free"

(* When Stripe has nothing left to deliver, a tenant that names the customer*)
(* has the status of the subscription, and a cancelled one no paid plan,    *)
(* unless the newest webhook was overtaken by an older one, was given up or *)
(* came before the customer was named, or an admin set the row afterwards.  *)
BillingExplained ==
  sent > 0 /\ webhooks = {} =>
    \A t \in Payers : t \in disturbed \/ Agrees(subscriptions[t])
=============================================================================
