------------------------------- MODULE DpayTnx -------------------------------
(***************************************************************************)
(* The dpay-tnx collection: one document for each token purchase.  The     *)
(* checkout half (Stripe) and the payout half (treasury wallet) of DPay    *)
(* share nothing but these documents and the process they run in, and      *)
(* every write below is one MongoDB updateOne: atomic, unconditional on    *)
(* the field's old value, last writer wins.                                *)
(***************************************************************************)
EXTENDS Naturals

CONSTANTS
  Tnxs,       \* the purchases, numbered in the order of their createdAt
  MaxRetries  \* MAX_RETRIES: 3 in the code

ASSUME TnxsAssumption == Tnxs \subseteq Nat
ASSUME MaxRetriesAssumption == MaxRetries \in Nat

VARIABLES
  statusStripe,         \* status_stripe of each document
  tokenSendStatus,      \* tokenSendStatus: the ERC20 leg of the payout
  ethSendStatus,        \* ethSendStatus: the native gas leg
  tokenSendRetryCount,  \* tokenSendRetryCount
  attemptCount          \* attemptCount

tnxVars ==
  <<statusStripe, tokenSendStatus, ethSendStatus, tokenSendRetryCount, attemptCount>>

\* The schema's payment states, "none" for a purchase with no document yet, and
\* the raw PaymentIntent status the payment_failed webhook stores.
StripeStatus ==
  {"none", "init", "pending", "succeeded", "complete", "failed", "expired",
   "requires_payment_method"}

\* The schema's send states, and "sending", which the transfer worker stores.
SendStatus ==
  {"not_sent", "processing", "sending", "sent", "failed", "cancelled"}

TnxTypeOK ==
  /\ statusStripe \in [Tnxs -> StripeStatus]
  /\ tokenSendStatus \in [Tnxs -> SendStatus]
  /\ ethSendStatus \in [Tnxs -> SendStatus]
  /\ tokenSendRetryCount \in [Tnxs -> Nat]
  /\ attemptCount \in [Tnxs -> Nat]

\* The schema's defaults.
TnxInit ==
  /\ statusStripe = [t \in Tnxs |-> "none"]
  /\ tokenSendStatus = [t \in Tnxs |-> "not_sent"]
  /\ ethSendStatus = [t \in Tnxs |-> "not_sent"]
  /\ tokenSendRetryCount = [t \in Tnxs |-> 0]
  /\ attemptCount = [t \in Tnxs |-> 0]

\* The payment filter of the success monitor and of the retry cron.
Settled(t) == statusStripe[t] \in {"succeeded", "complete"}

-----------------------------------------------------------------------------

SetStripe(t, s) == statusStripe' = [statusStripe EXCEPT ![t] = s]

SetToken(t, s) == tokenSendStatus' = [tokenSendStatus EXCEPT ![t] = s]

SetEth(t, s) == ethSendStatus' = [ethSendStatus EXCEPT ![t] = s]

IncRetryCount(t) ==
  tokenSendRetryCount' = [tokenSendRetryCount EXCEPT ![t] = @ + 1]

IncAttemptCount(t) == attemptCount' = [attemptCount EXCEPT ![t] = @ + 1]

\* updateTransactionStatus(sessionId, 'failed') cancels the payout with the payment.
FailAndCancel(t) ==
  /\ SetStripe(t, "failed")
  /\ SetToken(t, "cancelled")

=============================================================================
