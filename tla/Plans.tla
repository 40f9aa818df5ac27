--------------------------------- MODULE Plans ---------------------------------
(***************************************************************************)
(* Subscription plans, their publication, and purchases confirmed by a     *)
(* webhook (plans.service.ts).                                             *)
(*                                                                         *)
(* Every handler reads and then writes.  A document is named by the        *)
(* request that created it: the ids come from an atomic counter.           *)
(***************************************************************************)
EXTENDS BackendIds

CONSTANTS
  Offers,     \* bound: createPlan requests
  Terms,      \* what createPlan compares: tier and duration
  Purchases,  \* bound: createSubscription requests
  Confirms    \* bound: webhookPlanPurchased calls

ASSUME PlansAssumption == IsFiniteSet(Offers) /\ IsFiniteSet(Purchases) /\ IsFiniteSet(Confirms)

VARIABLES
  plans,      \* createPlan requests and the Plans documents they create
  subs,       \* createSubscription requests and their Subscription documents
  confirms,   \* webhookPlanPurchased calls
  bought      \* PURCHASE_PLAN activities, by subscription

planVars == <<plans, subs, confirms, bought>>

Key == [by : Users, terms : Terms]

\* late: a request that checked while another of the same kind had not written;
\* moved: the plan was given other terms by updatePlan.
Plan == [pc : {"new", "asked", "live", "refused"}, key : Key \union {None}, published : BOOLEAN,
         late : BOOLEAN, moved : BOOLEAN]
Sub == [pc : {"new", "asked", "pending", "active", "refused"}, user : Users \union {None},
        plan : Offers \union {None}, late : BOOLEAN]
Confirm == [pc : {"new", "read", "note", "done", "refused"}, sub : Purchases \union {None}, late : BOOLEAN]

PlanTypeOK ==
  /\ plans \in [Offers -> Plan]
  /\ subs \in [Purchases -> Sub]
  /\ confirms \in [Confirms -> Confirm]
  /\ bought \in [Purchases -> Nat]
  /\ \A s \in Purchases : subs[s].plan # None => plans[subs[s].plan].pc = "live"

PlanInit ==
  /\ plans = [o \in Offers |-> [pc |-> "new", key |-> None, published |-> FALSE,
                                late |-> FALSE, moved |-> FALSE]]
  /\ subs = [s \in Purchases |-> [pc |-> "new", user |-> None, plan |-> None, late |-> FALSE]]
  /\ confirms = [c \in Confirms |-> [pc |-> "new", sub |-> None, late |-> FALSE]]
  /\ bought = [s \in Purchases |-> 0]

-----------------------------------------------------------------------------

Live == {o \in Offers : plans[o].pc = "live"}

Asked(k) == [pc |-> "asked", key |-> k, published |-> FALSE, moved |-> FALSE,
             late |-> \E q \in Offers : plans[q].pc = "asked" /\ plans[q].key = k]

Offered(k) == \E o \in Live : plans[o].key = k

\* createPlan: the look-up by address, tier and duration.
CreatePlan(o, k) ==
  /\ plans[o].pc = "new"
  /\ plans' = [plans EXCEPT ![o] = IF Offered(k) THEN [@ EXCEPT !.pc = "refused"] ELSE Asked(k)]
  /\ UNCHANGED <<subs, confirms, bought>>

SavePlan(o) ==
  /\ plans[o].pc = "asked"
  /\ plans' = [plans EXCEPT ![o].pc = "live"]
  /\ UNCHANGED <<subs, confirms, bought>>

\* updatePlan compares nothing and replaces the chains, publication included.
UpdatePlan(o, k, shown) ==
  /\ o \in Live
  /\ plans' = [plans EXCEPT ![o].key = k, ![o].moved = @ \/ k # plans[o].key, ![o].published = shown]
  /\ UNCHANGED <<subs, confirms, bought>>

\* webhookPlanCreate: one update with the offerer in its filter.
PublishPlan(o, shown) ==
  /\ o \in Live
  /\ plans' = [plans EXCEPT ![o].published = shown]
  /\ UNCHANGED <<subs, confirms, bought>>

-----------------------------------------------------------------------------

Twins(s, u, o) == {t \in Purchases \ {s} : subs[t].user = u /\ subs[t].plan = o}

\* Slip: whoever never confirmed counts as a subscriber, and nobody else.
BuyPlanPending(s, u, o) ==
  /\ subs[s].pc = "new" /\ o \in Live
  /\ subs' = [subs EXCEPT ![s] =
       IF \E t \in Twins(s, u, o) : subs[t].pc = "pending"
         THEN [@ EXCEPT !.pc = "refused"]
         ELSE [pc |-> "asked", user |-> u, plan |-> o,
               late |-> \E t \in Twins(s, u, o) : subs[t].pc \in {"asked", "pending"}]]
  /\ UNCHANGED <<plans, confirms, bought>>

\* createSubscription: a plan that exists, whether published or not, and no
\* active subscription to it.
BuyPlan(s, u, o) ==
  /\ subs[s].pc = "new" /\ o \in Live
  /\ subs' = [subs EXCEPT ![s] =
       IF \E t \in Twins(s, u, o) : subs[t].pc = "active"
         THEN [@ EXCEPT !.pc = "refused"]
         ELSE [pc |-> "asked", user |-> u, plan |-> o,
               late |-> \E t \in Twins(s, u, o) : subs[t].pc \in {"asked", "pending"}]]
  /\ UNCHANGED <<plans, confirms, bought>>

SaveSubscription(s) ==
  /\ subs[s].pc = "asked"
  /\ subs' = [subs EXCEPT ![s].pc = "pending"]
  /\ UNCHANGED <<plans, confirms, bought>>

Saved(s) == subs[s].pc \in {"pending", "active"}

\* webhookPlanPurchased: an unsuccessful purchase and an active subscription
\* are refused, the plan is read in between.
PurchaseRefused(c, s) ==
  /\ confirms[c].pc = "new" /\ Saved(s)
  /\ confirms' = [confirms EXCEPT ![c].pc = "refused"]
  /\ UNCHANGED <<plans, subs, bought>>

\* Slip: active is never asked for.
ReadInactiveAny(c, s) ==
  /\ confirms[c].pc = "new" /\ Saved(s)
  /\ confirms' = [confirms EXCEPT ![c] =
       [pc |-> "read", sub |-> s,
        late |-> \E d \in Confirms \ {c} : confirms[d].pc = "read" /\ confirms[d].sub = s]]
  /\ UNCHANGED <<plans, subs, bought>>

ReadInactive(c, s) ==
  /\ confirms[c].pc = "new" /\ subs[s].pc = "pending"
  /\ confirms' = [confirms EXCEPT ![c] =
       [pc |-> "read", sub |-> s,
        late |-> \E d \in Confirms \ {c} : confirms[d].pc = "read" /\ confirms[d].sub = s]]
  /\ UNCHANGED <<plans, subs, bought>>

Activate(c) ==
  /\ confirms[c].pc = "read"
  /\ subs' = [subs EXCEPT ![confirms[c].sub].pc = "active"]
  /\ confirms' = [confirms EXCEPT ![c].pc = "note"]
  /\ UNCHANGED <<plans, bought>>

\* onPlanPurchased, which nobody waits for.
NotePurchase(c) ==
  /\ confirms[c].pc = "note"
  /\ bought' = [bought EXCEPT ![confirms[c].sub] = @ + 1]
  /\ confirms' = [confirms EXCEPT ![c].pc = "done"]
  /\ UNCHANGED <<plans, subs>>

ConfirmFails(c) ==
  /\ confirms[c].pc \in {"read", "note"}
  /\ confirms' = [confirms EXCEPT ![c].pc = "refused"]
  /\ UNCHANGED <<plans, subs, bought>>

OfferNext ==
  \E o \in Offers :
    \/ SavePlan(o)
    \/ \E k \in Key : CreatePlan(o, k)
    \/ \E k \in Key, shown \in BOOLEAN : UpdatePlan(o, k, shown)
    \/ \E shown \in BOOLEAN : PublishPlan(o, shown)

PurchaseNext ==
  \/ \E s \in Purchases :
       \/ SaveSubscription(s)
       \/ \E u \in Users, o \in Offers : BuyPlan(s, u, o)
  \/ \E c \in Confirms :
       \/ Activate(c)
       \/ NotePurchase(c)
       \/ ConfirmFails(c)
       \/ \E s \in Purchases : PurchaseRefused(c, s) \/ ReadInactive(c, s)

PlanNext == OfferNext \/ PurchaseNext

PlanSpec == PlanInit /\ [][PlanNext]_planVars

-----------------------------------------------------------------------------

(***************************************************************************)
(* A user with two active subscriptions to one plan asked for the second   *)
(* when the first was not confirmed yet (createSubscription looks for      *)
(* active ones, a subscription is born inactive, and the webhook that      *)
(* activates one looks at no other).                                       *)
(***************************************************************************)
SecondActiveNeedsPending ==
  \A s, t \in Purchases :
    /\ s # t /\ subs[s].pc = "active" /\ subs[t].pc = "active"
    /\ subs[s].user = subs[t].user /\ subs[s].plan = subs[t].plan
    => subs[s].late \/ subs[t].late

(***************************************************************************)
(* A purchase is recorded once, however often its webhook comes, unless    *)
(* two calls of the webhook overlapped: then each starts the subscription  *)
(* anew (webhookPlanPurchased reads active and writes it in two calls).    *)
(***************************************************************************)
PurchaseCountsOnce ==
  \A s \in Purchases :
    /\ bought[s] > 0 => subs[s].pc = "active"
    /\ bought[s] > 1 => \E c \in Confirms : confirms[c].sub = s /\ confirms[c].late
=============================================================================
