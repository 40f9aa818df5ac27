----------------------------- MODULE DpayCheckout -----------------------------
(***************************************************************************)
(* The checkout half of DPay: checkout and the Stripe webhooks of          *)
(* dehub-pay-service.ts, the expiry cron and the pending monitor of        *)
(* dehub-pay-monitor.ts, and the verifyTransaction jobs of                 *)
(* dpay-transaction.processor.ts.  Stripe and the buyer are the            *)
(* environment: a Checkout session is opened, paid or closed by them, and  *)
(* their webhooks are delivered at least once, late and in any order.      *)
(***************************************************************************)
EXTENDS DpayTnx, FiniteSets

CONSTANTS
  Verifiers,     \* concurrent verifyTransaction jobs
  NoJob,         \* what an idle verifier works on
  MaxVerifyJobs  \* bound: verify jobs of a purchase waiting in the queue

ASSUME VerifiersAssumption == IsFiniteSet(Verifiers) /\ NoJob \notin Tnxs
ASSUME MaxVerifyJobsAssumption == MaxVerifyJobs \in Nat

VARIABLES
  checkoutPc,  \* where the checkout request of each purchase is
  session,     \* the Checkout session Stripe holds for it
  age,         \* how long ago the document was created
  events,      \* the webhook events Stripe has emitted: <<type, purchase>>
  verifyJobs,  \* verifyTransaction jobs waiting in the queue
  vTnx,        \* the purchase each verifier works on
  vPaid        \* its isPaid, read before its other awaits

checkoutOnlyVars == <<checkoutPc, session, age, events, verifyJobs, vTnx, vPaid>>
checkoutVars == <<statusStripe, tokenSendStatus, checkoutOnlyVars>>

EventType == {"intent_succeeded", "intent_failed", "session_completed"}

CheckoutTypeOK ==
  /\ checkoutPc \in [Tnxs -> {"new", "session", "save", "done", "aborted"}]
  /\ session \in [Tnxs -> {"none", "open", "paid", "closed"}]
  /\ age \in [Tnxs -> {"under20", "under30", "over30"}]
  /\ events \in SUBSET (EventType \X Tnxs)
  /\ verifyJobs \in [Tnxs -> Nat]
  /\ vTnx \in [Verifiers -> Tnxs \union {NoJob}]
  /\ vPaid \in [Verifiers -> BOOLEAN]

CheckoutInit ==
  /\ checkoutPc = [t \in Tnxs |-> "new"]
  /\ session = [t \in Tnxs |-> "none"]
  /\ age = [t \in Tnxs |-> "under20"]
  /\ events = {}
  /\ verifyJobs = [t \in Tnxs |-> 0]
  /\ vTnx = [v \in Verifiers |-> NoJob]
  /\ vPaid = [v \in Verifiers |-> FALSE]

-----------------------------------------------------------------------------
(***************************************************************************)
(* The checkout request.  The document carries the session id and          *)
(* expires_at only after its second save.                                  *)
(***************************************************************************)

Linked(t) == checkoutPc[t] = "done"

Checkout(t) ==
  /\ checkoutPc[t] = "new"
  /\ SetStripe(t, "init")
  /\ checkoutPc' = [checkoutPc EXCEPT ![t] = "session"]
  /\ UNCHANGED <<tokenSendStatus, session, age, events, verifyJobs, vTnx, vPaid>>

CreateStripeSession(t) ==
  /\ checkoutPc[t] = "session"
  /\ session' = [session EXCEPT ![t] = "open"]
  /\ checkoutPc' = [checkoutPc EXCEPT ![t] = "save"]
  /\ UNCHANGED <<statusStripe, tokenSendStatus, age, events, verifyJobs, vTnx, vPaid>>

SaveSession(t) ==
  /\ checkoutPc[t] = "save"
  /\ SetStripe(t, "pending")
  /\ checkoutPc' = [checkoutPc EXCEPT ![t] = "done"]
  /\ UNCHANGED <<tokenSendStatus, session, age, events, verifyJobs, vTnx, vPaid>>

\* createStripeSession or the second save throws: the buyer gets no URL.
CheckoutFails(t) ==
  /\ checkoutPc[t] \in {"session", "save"}
  /\ checkoutPc' = [checkoutPc EXCEPT ![t] = "aborted"]
  /\ UNCHANGED <<statusStripe, tokenSendStatus, session, age, events, verifyJobs, vTnx, vPaid>>

-----------------------------------------------------------------------------
(***************************************************************************)
(* The environment: the buyer, who has the session's URL once the request  *)
(* returned, Stripe, and the passing of time.                              *)
(***************************************************************************)

PayableAt(t) == session[t] = "open" /\ Linked(t)

BuyerPays(t) ==
  /\ PayableAt(t)
  /\ session' = [session EXCEPT ![t] = "paid"]
  /\ events' = events \union {<<"intent_succeeded", t>>, <<"session_completed", t>>}
  /\ UNCHANGED <<statusStripe, tokenSendStatus, checkoutPc, age, verifyJobs, vTnx, vPaid>>

CardDeclined(t) ==
  /\ PayableAt(t)
  /\ events' = events \union {<<"intent_failed", t>>}
  /\ UNCHANGED <<statusStripe, tokenSendStatus, checkoutPc, session, age, verifyJobs, vTnx,
                 vPaid>>

\* Stripe closes an unpaid session at its expires_at.
SessionCloses(t) ==
  /\ session[t] = "open"
  /\ age[t] = "over30"
  /\ session' = [session EXCEPT ![t] = "closed"]
  /\ UNCHANGED <<statusStripe, tokenSendStatus, checkoutPc, age, events, verifyJobs, vTnx,
                 vPaid>>

TimePasses(t) ==
  /\ checkoutPc[t] # "new"
  /\ age[t] # "over30"
  /\ age' = [age EXCEPT ![t] = IF @ = "under20" THEN "under30" ELSE "over30"]
  /\ UNCHANGED <<statusStripe, tokenSendStatus, checkoutPc, session, events, verifyJobs, vTnx,
                 vPaid>>

-----------------------------------------------------------------------------
(***************************************************************************)
(* Webhooks.  Each handler writes the status its event carries, whatever   *)
(* the document says by then.  An event is kept: Stripe may redeliver it.  *)
(***************************************************************************)

Delivered(type, t) == <<type, t>> \in events /\ Linked(t)

HandlePaymentIntentSucceeded(t) ==
  /\ Delivered("intent_succeeded", t)
  /\ SetStripe(t, "succeeded")
  /\ UNCHANGED <<tokenSendStatus, checkoutOnlyVars>>

HandlePaymentIntentFailed(t) ==
  /\ Delivered("intent_failed", t)
  /\ SetStripe(t, "requires_payment_method")
  /\ UNCHANGED <<tokenSendStatus, checkoutOnlyVars>>

\* Slip: the handler stores the session's payment_status.
HandleSessionPaymentStatus(t) ==
  /\ Delivered("session_completed", t)
  /\ SetStripe(t, "paid")
  /\ UNCHANGED <<tokenSendStatus, checkoutOnlyVars>>

HandleCheckoutSessionCompleted(t) ==
  /\ Delivered("session_completed", t)
  /\ SetStripe(t, "complete")
  /\ UNCHANGED <<tokenSendStatus, checkoutOnlyVars>>

-----------------------------------------------------------------------------
(***************************************************************************)
(* Crons.  A document without expires_at matches neither comparison.       *)
(***************************************************************************)

AwaitsPayment(t) ==
  /\ statusStripe[t] \in {"pending", "init"}
  /\ tokenSendStatus[t] = "not_sent"
  /\ Linked(t)

ExpireTheTnx ==
  /\ statusStripe' =
       [t \in Tnxs |->
         IF AwaitsPayment(t) /\ age[t] = "over30" THEN "expired" ELSE statusStripe[t]]
  /\ UNCHANGED <<tokenSendStatus, checkoutOnlyVars>>

Pollable(t) ==
  AwaitsPayment(t) /\ age[t] # "over30" /\ verifyJobs[t] < MaxVerifyJobs

MonitorStripePending ==
  /\ verifyJobs' = [t \in Tnxs |-> IF Pollable(t) THEN verifyJobs[t] + 1 ELSE verifyJobs[t]]
  /\ UNCHANGED <<statusStripe, tokenSendStatus, checkoutPc, session, age, events, vTnx, vPaid>>

-----------------------------------------------------------------------------
(***************************************************************************)
(* processTransaction: a verifyTransaction job.                            *)
(***************************************************************************)

EndVerify(v) ==
  /\ vTnx' = [vTnx EXCEPT ![v] = NoJob]
  /\ vPaid' = [vPaid EXCEPT ![v] = FALSE]
  /\ UNCHANGED <<checkoutPc, session, age, events, verifyJobs>>

\* verifyTransactionStatus answers false also when Stripe cannot be asked.
VerifyAsksStripe(v, t) ==
  /\ vTnx[v] = NoJob
  /\ verifyJobs[t] > 0
  /\ verifyJobs' = [verifyJobs EXCEPT ![t] = @ - 1]
  /\ vTnx' = [vTnx EXCEPT ![v] = t]
  /\ \E isPaid \in BOOLEAN :
       /\ isPaid => session[t] = "paid"
       /\ vPaid' = [vPaid EXCEPT ![v] = isPaid]
  /\ UNCHANGED <<statusStripe, tokenSendStatus, checkoutPc, session, age, events>>

VerifiedPaid(v) ==
  /\ vTnx[v] # NoJob
  /\ vPaid[v]
  /\ SetStripe(vTnx[v], "succeeded")
  /\ EndVerify(v)
  /\ UNCHANGED tokenSendStatus

\* Unpaid for more than 20 minutes.
VerifiedOverdue(v) ==
  /\ vTnx[v] # NoJob
  /\ ~vPaid[v]
  /\ age[vTnx[v]] # "under20"
  /\ FailAndCancel(vTnx[v])
  /\ EndVerify(v)

\* Unpaid but young, or one of the later calls to Stripe throws.
VerifyEnds(v) ==
  /\ vTnx[v] # NoJob
  /\ vPaid[v] \/ age[vTnx[v]] = "under20"
  /\ EndVerify(v)
  /\ UNCHANGED <<statusStripe, tokenSendStatus>>

-----------------------------------------------------------------------------

\* What a restart of the process does to this half: requests die, and the active jobs
\* of R stall and return to the queue while the others are removed by clearAllJobs.
CheckoutRestart ==
  /\ checkoutPc' =
       [t \in Tnxs |->
         IF checkoutPc[t] \in {"session", "save"} THEN "aborted" ELSE checkoutPc[t]]
  /\ \E R \in SUBSET {v \in Verifiers : vTnx[v] # NoJob} :
       verifyJobs' = [t \in Tnxs |-> verifyJobs[t] + Cardinality({v \in R : vTnx[v] = t})]
  /\ vTnx' = [v \in Verifiers |-> NoJob]
  /\ vPaid' = [v \in Verifiers |-> FALSE]
  /\ UNCHANGED <<session, age, events>>

PurchaseStep(t) ==
  \/ Checkout(t)
  \/ CreateStripeSession(t)
  \/ SaveSession(t)
  \/ CheckoutFails(t)
  \/ BuyerPays(t)
  \/ CardDeclined(t)
  \/ SessionCloses(t)
  \/ TimePasses(t)
  \/ HandlePaymentIntentSucceeded(t)
  \/ HandlePaymentIntentFailed(t)
  \/ HandleCheckoutSessionCompleted(t)

VerifyStep(v) ==
  \/ \E t \in Tnxs : VerifyAsksStripe(v, t)
  \/ VerifiedPaid(v)
  \/ VerifiedOverdue(v)
  \/ VerifyEnds(v)

\* Everything the checkout half and its environment do but restart.
CheckoutStep ==
  \/ \E t \in Tnxs : PurchaseStep(t)
  \/ ExpireTheTnx
  \/ MonitorStripePending
  \/ \E v \in Verifiers : VerifyStep(v)
=============================================================================
