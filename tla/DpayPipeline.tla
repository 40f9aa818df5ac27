----------------------------- MODULE DpayPipeline -----------------------------
(***************************************************************************)
(* DPay as a whole: the checkout half and the payout half over the same    *)
(* documents, in one process that restarts as one.                         *)
(***************************************************************************)
EXTENDS DpayCheckout, DpayPayout

\* The payout half is specified against every payment state the checkout half stores.
ASSUME CompleteAssumption == StripeStatus \ {"none"} \subseteq CheckoutStatuses

vars == <<checkoutOnlyVars, payoutVars>>

PipelineTypeOK == TypeOK /\ CheckoutTypeOK

PipelineInit == Init /\ CheckoutInit

CheckoutHalf ==
  CheckoutStep /\ UNCHANGED <<ethSendStatus, tokenSendRetryCount, attemptCount, payoutOnlyVars>>

PayoutHalf == PayoutStep /\ UNCHANGED checkoutOnlyVars

ProcessRestart == Restart /\ CheckoutRestart

PipelineNext == CheckoutHalf \/ PayoutHalf \/ ProcessRestart

PipelineSpec == PipelineInit /\ [][PipelineNext]_vars

-----------------------------------------------------------------------------

\* The payout half never touches a purchase whose buyer did not pay, although no part of
\* it asks Stripe: a worker trusts its job, the job trusts the monitor's query, and the
\* query trusts a status that webhooks, verify jobs and crons overwrite in any order,
\* across restarts that requeue some jobs and drop others.
UnpaidIsUntouched ==
  \A t \in Tnxs :
    session[t] # "paid" =>
      /\ tokenSendStatus[t] \in {"not_sent", "cancelled"}
      /\ ethSendStatus[t] = "not_sent"
      /\ tokenSendRetryCount[t] = 0
      /\ attemptCount[t] = 0
      /\ waiting[t] = 0 /\ delayed[t] = 0
      /\ tokensOut[t] = 0 /\ t \notin gasOut

\* A purchase marked 'failed' is out of the payout's reach: no query that looks for
\* 'not_sent' token legs finds it, although late marks of the monitor and the workers
\* overwrite its 'cancelled' and the cron resets such marks (updateTransactionStatus).
FailedIsCancelled ==
  \A t \in Tnxs : statusStripe[t] = "failed" => tokenSendStatus[t] # "not_sent"

\* The pipeline keeps the promise of the sale: Stripe's paid sessions are the charges,
\* mined transfers the deliveries.
Sale ==
  INSTANCE DpaySale WITH
    charged <- {t \in Tnxs : session[t] = "paid"},
    delivered <- tokensOut,
    gifted <- gasOut

SaleSpec == Sale!Spec
=============================================================================
