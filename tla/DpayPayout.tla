------------------------------ MODULE DpayPayout ------------------------------
(***************************************************************************)
(* The payout half of DPay: the success monitor and the retry cron of      *)
(* dehub-pay-monitor.ts, the Bull queue of transferToken jobs, the workers *)
(* of dpay-transaction.processor.ts and the transfers they make on chain.  *)
(*                                                                         *)
(* A step of the model ends at each await whose effect another actor can   *)
(* observe.  Crons fire at any time: the model has no clock.  Jobs leave   *)
(* the queue in any order, which covers Bull's several named processors.   *)
(* The definitions marked Slip are not part of the specification: each is  *)
(* a plausible bug that some property below excludes.                      *)
(***************************************************************************)
EXTENDS DpayTnx, FiniteSets

CONSTANTS
  Workers,           \* concurrent transferToken jobs in the process
  Monitors,          \* overlapping ticks of monitorStripeSuccessTransactions
  NoTnx,             \* what an idle worker or tick works on
  CheckoutStatuses,  \* the payment states the checkout half may store
  MaxJobs,           \* bound: queued jobs of a purchase at which the cron skips it
  MaxAttempts,       \* bound: attempts of a purchase at which the cron skips it
  FaultKinds,        \* bound: the kinds of fault explored
  MaxFaults          \* bound: how many faults are explored

ASSUME ActorsAssumption == IsFiniteSet(Workers) /\ IsFiniteSet(Monitors)
ASSUME NoTnxAssumption == NoTnx \notin Tnxs
ASSUME CheckoutStatusesAssumption == CheckoutStatuses \subseteq StripeStatus
ASSUME FaultKindsAssumption == FaultKinds \subseteq {"restart", "outage"}
ASSUME BoundsAssumption == MaxJobs \in Nat /\ MaxAttempts \in Nat /\ MaxFaults \in Nat

VARIABLES
  waiting,    \* transferToken jobs of a purchase that a worker may take
  delayed,    \* transferToken jobs serving their retry delay
  wpc,        \* where each worker is in processTokenTransfer
  wTnx,       \* the purchase it works on
  sawToken,   \* its findOne snapshot: tokenSendStatus was 'sent'
  sawEth,     \* its findOne snapshot: ethSendStatus was 'sent'
  mpc,        \* where each tick of the success monitor is
  mTnx,       \* the purchase it found
  mSawToken,  \* its aggregate snapshot: tokenSendStatus was 'sent'
  tokensOut,  \* history: ERC20 transfers to the buyer mined on chain
  gasOut,     \* history: the purchases whose gas transfer was mined on chain
  faults      \* history: restarts and outages so far

queueVars == <<waiting, delayed>>
workerVars == <<wpc, wTnx, sawToken, sawEth>>
monitorVars == <<mpc, mTnx, mSawToken>>
chainVars == <<tokensOut, gasOut>>
payoutOnlyVars == <<queueVars, workerVars, monitorVars, chainVars, faults>>
payoutVars == <<tnxVars, payoutOnlyVars>>

WorkerPc ==
  {"idle", "snapshot", "token", "tokenMined", "gasStart", "gas", "gasMined",
   "catch", "retry", "requeue", "giveUp"}

TypeOK ==
  /\ TnxTypeOK
  /\ waiting \in [Tnxs -> Nat]
  /\ delayed \in [Tnxs -> Nat]
  /\ wpc \in [Workers -> WorkerPc]
  /\ wTnx \in [Workers -> Tnxs \union {NoTnx}]
  /\ \A w \in Workers : wpc[w] = "idle" <=> wTnx[w] = NoTnx
  /\ sawToken \in [Workers -> BOOLEAN]
  /\ sawEth \in [Workers -> BOOLEAN]
  /\ mpc \in [Monitors -> {"idle", "found", "markToken", "markEth"}]
  /\ mTnx \in [Monitors -> Tnxs \union {NoTnx}]
  /\ \A m \in Monitors : mpc[m] = "idle" <=> mTnx[m] = NoTnx
  /\ mSawToken \in [Monitors -> BOOLEAN]
  /\ tokensOut \in [Tnxs -> Nat]
  /\ gasOut \in SUBSET Tnxs
  /\ faults \in Nat

PayoutInit ==
  /\ waiting = [t \in Tnxs |-> 0]
  /\ delayed = [t \in Tnxs |-> 0]
  /\ wpc = [w \in Workers |-> "idle"]
  /\ wTnx = [w \in Workers |-> NoTnx]
  /\ sawToken = [w \in Workers |-> FALSE]
  /\ sawEth = [w \in Workers |-> FALSE]
  /\ mpc = [m \in Monitors |-> "idle"]
  /\ mTnx = [m \in Monitors |-> NoTnx]
  /\ mSawToken = [m \in Monitors |-> FALSE]
  /\ tokensOut = [t \in Tnxs |-> 0]
  /\ gasOut = {}
  /\ faults = 0

Init == TnxInit /\ PayoutInit

-----------------------------------------------------------------------------
(***************************************************************************)
(* monitorStripeSuccessTransactions, every 5 seconds.  Nothing stops a     *)
(* tick from starting while an earlier one still awaits.                   *)
(***************************************************************************)

\* Slip: the query without its payment filter.
AwaitsPayoutUnfiltered(t) ==
  tokenSendStatus[t] = "not_sent" \/ ethSendStatus[t] = "not_sent"

AwaitsPayout(t) ==
  /\ Settled(t)
  /\ tokenSendStatus[t] = "not_sent" \/ ethSendStatus[t] = "not_sent"

\* $sort createdAt -1, $limit 1
NewestAwaiting(t) ==
  /\ AwaitsPayout(t)
  /\ \A u \in Tnxs : AwaitsPayout(u) => u <= t

MonitorFind(m) ==
  /\ mpc[m] = "idle"
  /\ \E t \in Tnxs :
       /\ NewestAwaiting(t)
       /\ mTnx' = [mTnx EXCEPT ![m] = t]
       /\ mSawToken' = [mSawToken EXCEPT ![m] = tokenSendStatus[t] = "sent"]
  /\ mpc' = [mpc EXCEPT ![m] = "found"]
  /\ UNCHANGED <<tnxVars, queueVars, workerVars, chainVars, faults>>

\* syncChargesFromStripe returned, and the job is added without awaiting it.
MonitorAddJob(m) ==
  /\ mpc[m] = "found"
  /\ waiting' = [waiting EXCEPT ![mTnx[m]] = @ + 1]
  /\ mpc' = [mpc EXCEPT ![m] = IF mSawToken[m] THEN "markEth" ELSE "markToken"]
  /\ UNCHANGED <<tnxVars, delayed, workerVars, mTnx, mSawToken, chainVars, faults>>

\* Slip: the tick ends without letting go of its purchase.
EndTickHolding(m) ==
  /\ mpc' = [mpc EXCEPT ![m] = "idle"]
  /\ UNCHANGED <<mTnx, mSawToken>>

EndTick(m) ==
  /\ mpc' = [mpc EXCEPT ![m] = "idle"]
  /\ mTnx' = [mTnx EXCEPT ![m] = NoTnx]
  /\ mSawToken' = [mSawToken EXCEPT ![m] = FALSE]

\* The tick's catch.  The aggregate projects no ethSendStatus, so the gas leg is
\* marked whatever its state was.
MarkFailed(m) ==
  /\ IF mSawToken[m] THEN UNCHANGED tokenSendStatus ELSE SetToken(mTnx[m], "failed")
  /\ SetEth(mTnx[m], "failed")
  /\ EndTick(m)
  /\ UNCHANGED <<statusStripe, tokenSendRetryCount, attemptCount, queueVars, workerVars,
                 chainVars>>

\* syncChargesFromStripe threw.
MonitorSyncFails(m) ==
  /\ mpc[m] = "found"
  /\ MarkFailed(m)
  /\ UNCHANGED faults

MonitorMarkToken(m) ==
  /\ mpc[m] = "markToken"
  /\ SetToken(mTnx[m], "processing")
  /\ mpc' = [mpc EXCEPT ![m] = "markEth"]
  /\ UNCHANGED <<statusStripe, ethSendStatus, tokenSendRetryCount, attemptCount, queueVars,
                 workerVars, mTnx, mSawToken, chainVars, faults>>

MonitorMarkEth(m) ==
  /\ mpc[m] = "markEth"
  /\ SetEth(mTnx[m], "processing")
  /\ EndTick(m)
  /\ UNCHANGED <<statusStripe, tokenSendStatus, tokenSendRetryCount, attemptCount, queueVars,
                 workerVars, chainVars, faults>>

-----------------------------------------------------------------------------
(***************************************************************************)
(* reTryJobTokenTransfer, every 5 minutes and at start: two updateMany     *)
(* calls, an action each: other actors run between them, and as ticks come *)
(* at any time the model lets either come first.  Neither looks at the     *)
(* queue.  The bounds end the endless loop of a purchase that is reset     *)
(* while its jobs still run.                                               *)
(***************************************************************************)

WithinBounds(t) == waiting[t] + delayed[t] < MaxJobs /\ attemptCount[t] < MaxAttempts

\* Slip: the cron forgets the failed token legs.
ProcessingRetryable(t) ==
  /\ Settled(t)
  /\ tokenSendStatus[t] = "processing"
  /\ tokenSendRetryCount[t] < MaxRetries
  /\ WithinBounds(t)

\* Slip: the cron resets a token leg whatever became of the payment.
AnyRetryable(t) ==
  /\ tokenSendStatus[t] \in {"processing", "failed"}
  /\ tokenSendRetryCount[t] < MaxRetries
  /\ WithinBounds(t)

TokenRetryable(t) ==
  /\ Settled(t)
  /\ tokenSendStatus[t] \in {"processing", "failed"}
  /\ tokenSendRetryCount[t] < MaxRetries
  /\ WithinBounds(t)

GasRetryable(t) ==
  /\ Settled(t)
  /\ tokenSendStatus[t] = "sent"
  /\ ethSendStatus[t] \in {"processing", "failed"}
  /\ tokenSendRetryCount[t] < MaxRetries
  /\ WithinBounds(t)

CronRetryToken ==
  /\ tokenSendStatus' =
       [t \in Tnxs |-> IF TokenRetryable(t) THEN "not_sent" ELSE tokenSendStatus[t]]
  /\ UNCHANGED <<statusStripe, ethSendStatus, tokenSendRetryCount, attemptCount, queueVars,
                 workerVars, monitorVars, chainVars, faults>>

CronRetryGas ==
  /\ ethSendStatus' =
       [t \in Tnxs |-> IF GasRetryable(t) THEN "not_sent" ELSE ethSendStatus[t]]
  /\ UNCHANGED <<statusStripe, tokenSendStatus, tokenSendRetryCount, attemptCount, queueVars,
                 workerVars, monitorVars, chainVars, faults>>

-----------------------------------------------------------------------------
(***************************************************************************)
(* processTokenTransfer: one job, from its findOne snapshot to its end.    *)
(***************************************************************************)

Goto(w, pc) == wpc' = [wpc EXCEPT ![w] = pc]

EndJob(w) ==
  /\ wpc' = [wpc EXCEPT ![w] = "idle"]
  /\ wTnx' = [wTnx EXCEPT ![w] = NoTnx]
  /\ sawToken' = [sawToken EXCEPT ![w] = FALSE]
  /\ sawEth' = [sawEth EXCEPT ![w] = FALSE]

SameJob == UNCHANGED <<wTnx, sawToken, sawEth>>

\* The inner catch has no use for the snapshot.
EnterCatch(w) ==
  /\ Goto(w, "catch")
  /\ sawToken' = [sawToken EXCEPT ![w] = FALSE]
  /\ sawEth' = [sawEth EXCEPT ![w] = FALSE]
  /\ UNCHANGED wTnx

\* The delay of a retry is over.
Promote(t) ==
  /\ delayed[t] > 0
  /\ delayed' = [delayed EXCEPT ![t] = @ - 1]
  /\ waiting' = [waiting EXCEPT ![t] = @ + 1]
  /\ UNCHANGED <<tnxVars, workerVars, monitorVars, chainVars, faults>>

\* The job becomes active and its findOne returns.
TakeJob(w, t) ==
  /\ wpc[w] = "idle"
  /\ waiting[t] > 0
  /\ waiting' = [waiting EXCEPT ![t] = @ - 1]
  /\ Goto(w, "snapshot")
  /\ wTnx' = [wTnx EXCEPT ![w] = t]
  /\ sawToken' = [sawToken EXCEPT ![w] = tokenSendStatus[t] = "sent"]
  /\ sawEth' = [sawEth EXCEPT ![w] = ethSendStatus[t] = "sent"]
  /\ UNCHANGED <<tnxVars, delayed, monitorVars, chainVars, faults>>

\* The price of the native token is not to be had: no status is written.
NativePriceFails(w) ==
  /\ wpc[w] = "snapshot"
  /\ EnterCatch(w)
  /\ UNCHANGED <<tnxVars, queueVars, monitorVars, chainVars, faults>>

\* Slip: the attempt is not counted.
StartTokenUncounted(w) ==
  /\ wpc[w] = "snapshot"
  /\ ~sawToken[w]
  /\ SetToken(wTnx[w], "sending")
  /\ Goto(w, "token")
  /\ SameJob
  /\ UNCHANGED <<statusStripe, ethSendStatus, tokenSendRetryCount, attemptCount, queueVars,
                 monitorVars, chainVars, faults>>

StartToken(w) ==
  /\ wpc[w] = "snapshot"
  /\ ~sawToken[w]
  /\ SetToken(wTnx[w], "sending")
  /\ IncAttemptCount(wTnx[w])
  /\ Goto(w, "token")
  /\ SameJob
  /\ UNCHANGED <<statusStripe, ethSendStatus, tokenSendRetryCount, queueVars, monitorVars,
                 chainVars, faults>>

\* "Token is Already sent or its status ... skipping token sending"
SkipToken(w) ==
  /\ wpc[w] = "snapshot"
  /\ sawToken[w]
  /\ Goto(w, "gasStart")
  /\ sawToken' = [sawToken EXCEPT ![w] = FALSE]
  /\ UNCHANGED <<wTnx, sawEth>>
  /\ UNCHANGED <<tnxVars, queueVars, monitorVars, chainVars, faults>>

\* transferERC20: the transfer is mined, whether or not tx.wait then tells us so.
TransferToken(w) ==
  /\ wpc[w] = "token"
  /\ tokensOut' = [tokensOut EXCEPT ![wTnx[w]] = @ + 1]
  /\ Goto(w, "tokenMined")
  /\ SameJob
  /\ UNCHANGED <<tnxVars, queueVars, monitorVars, gasOut, faults>>

\* Slip: 'sent' is stored without waiting for the receipt.
TokenConfirmedUnseen(w) ==
  /\ wpc[w] \in {"token", "tokenMined"}
  /\ SetToken(wTnx[w], "sent")
  /\ Goto(w, "gasStart")
  /\ SameJob
  /\ UNCHANGED <<statusStripe, ethSendStatus, tokenSendRetryCount, attemptCount, queueVars,
                 monitorVars, chainVars, faults>>

\* tx.wait returned and the receipt has status 1.
TokenConfirmed(w) ==
  /\ wpc[w] = "tokenMined"
  /\ SetToken(wTnx[w], "sent")
  /\ Goto(w, "gasStart")
  /\ SameJob
  /\ UNCHANGED <<statusStripe, ethSendStatus, tokenSendRetryCount, attemptCount, queueVars,
                 monitorVars, chainVars, faults>>

\* Slip: the catch of the token leg does not store 'failed'.
TokenFailsUnmarked(w) ==
  /\ \/ wpc[w] = "snapshot" /\ ~sawToken[w]
     \/ wpc[w] \in {"token", "tokenMined"}
  /\ EnterCatch(w)
  /\ UNCHANGED <<tnxVars, queueVars, monitorVars, chainVars, faults>>

\* Slip: the catch of the token leg does not rethrow, and the gas leg runs.
TokenFailsSwallowed(w) ==
  /\ \/ wpc[w] = "snapshot" /\ ~sawToken[w]
     \/ wpc[w] \in {"token", "tokenMined"}
  /\ SetToken(wTnx[w], "failed")
  /\ Goto(w, "gasStart")
  /\ SameJob
  /\ UNCHANGED <<statusStripe, ethSendStatus, tokenSendRetryCount, attemptCount, queueVars,
                 monitorVars, chainVars, faults>>

\* The catch of the token leg: no price or network; the transfer was refused or
\* reverted; or it was mined but tx.wait, the receipt or the write of 'sent' failed.
TokenFails(w) ==
  /\ \/ wpc[w] = "snapshot" /\ ~sawToken[w]
     \/ wpc[w] = "token"
     \/ wpc[w] = "tokenMined"
  /\ SetToken(wTnx[w], "failed")
  /\ EnterCatch(w)
  /\ UNCHANGED <<statusStripe, ethSendStatus, tokenSendRetryCount, attemptCount, queueVars,
                 monitorVars, chainVars, faults>>

StartGas(w) ==
  /\ wpc[w] = "gasStart"
  /\ ~sawEth[w]
  /\ SetEth(wTnx[w], "sending")
  /\ Goto(w, "gas")
  /\ SameJob
  /\ UNCHANGED <<statusStripe, tokenSendStatus, tokenSendRetryCount, attemptCount, queueVars,
                 monitorVars, chainVars, faults>>

SkipGas(w) ==
  /\ wpc[w] = "gasStart"
  /\ sawEth[w]
  /\ EndJob(w)
  /\ UNCHANGED <<tnxVars, queueVars, monitorVars, chainVars, faults>>

TransferGas(w) ==
  /\ wpc[w] = "gas"
  /\ gasOut' = gasOut \union {wTnx[w]}
  /\ Goto(w, "gasMined")
  /\ SameJob
  /\ UNCHANGED <<tnxVars, queueVars, monitorVars, tokensOut, faults>>

GasConfirmed(w) ==
  /\ wpc[w] = "gasMined"
  /\ SetEth(wTnx[w], "sent")
  /\ EndJob(w)
  /\ UNCHANGED <<statusStripe, tokenSendStatus, tokenSendRetryCount, attemptCount, queueVars,
                 monitorVars, chainVars, faults>>

GasFails(w) ==
  /\ \/ wpc[w] = "gasStart" /\ ~sawEth[w]
     \/ wpc[w] \in {"gas", "gasMined"}
  /\ SetEth(wTnx[w], "failed")
  /\ EnterCatch(w)
  /\ UNCHANGED <<statusStripe, tokenSendStatus, tokenSendRetryCount, attemptCount, queueVars,
                 monitorVars, chainVars, faults>>

\* The inner catch reads the retry count, and acts on it in later steps.
ReadRetryCount(w) ==
  /\ wpc[w] = "catch"
  /\ Goto(w, IF tokenSendRetryCount[wTnx[w]] < MaxRetries THEN "retry" ELSE "giveUp")
  /\ SameJob
  /\ UNCHANGED <<tnxVars, queueVars, monitorVars, chainVars, faults>>

CountRetry(w) ==
  /\ wpc[w] = "retry"
  /\ IncRetryCount(wTnx[w])
  /\ Goto(w, "requeue")
  /\ SameJob
  /\ UNCHANGED <<statusStripe, tokenSendStatus, ethSendStatus, attemptCount, queueVars,
                 monitorVars, chainVars, faults>>

Requeue(w) ==
  /\ wpc[w] = "requeue"
  /\ delayed' = [delayed EXCEPT ![wTnx[w]] = @ + 1]
  /\ EndJob(w)
  /\ UNCHANGED <<tnxVars, waiting, monitorVars, chainVars, faults>>

\* Max retries: the token leg is marked failed, even when only the gas leg was.
GiveUp(w) ==
  /\ wpc[w] = "giveUp"
  /\ SetToken(wTnx[w], "failed")
  /\ EndJob(w)
  /\ UNCHANGED <<statusStripe, ethSendStatus, tokenSendRetryCount, attemptCount, queueVars,
                 monitorVars, chainVars, faults>>

-----------------------------------------------------------------------------
(***************************************************************************)
(* Faults.                                                                 *)
(***************************************************************************)

Fault(kind) ==
  /\ kind \in FaultKinds
  /\ faults < MaxFaults
  /\ faults' = faults + 1

\* A mark could not be written, and the tick's catch undoes it: the job is queued by then.
MonitorMarkFails(m) ==
  /\ Fault("outage")
  /\ mpc[m] \in {"markToken", "markEth"}
  /\ MarkFailed(m)

\* The write of the tick's catch throws too.
MonitorDies(m) ==
  /\ Fault("outage")
  /\ mpc[m] # "idle"
  /\ EndTick(m)
  /\ UNCHANGED <<tnxVars, queueVars, workerVars, chainVars>>

\* The catch of a leg cannot store 'failed': the inner catch runs all the same.
FailureUnwritten(w) ==
  /\ Fault("outage")
  /\ wpc[w] \in {"token", "tokenMined", "gas", "gasMined"}
  /\ EnterCatch(w)
  /\ UNCHANGED <<tnxVars, queueVars, monitorVars, chainVars>>

\* A call of the inner catch throws (Redis or MongoDB): the outer catch.
OuterCatch(w) ==
  /\ Fault("outage")
  /\ wpc[w] \in {"catch", "retry", "requeue", "giveUp"}
  /\ SetToken(wTnx[w], "failed")
  /\ IncRetryCount(wTnx[w])
  /\ EndJob(w)
  /\ UNCHANGED <<statusStripe, ethSendStatus, attemptCount, queueVars, monitorVars,
                 chainVars>>

\* MongoDB is away: both catches throw in turn, and Bull marks the job failed.
JobFails(w) ==
  /\ Fault("outage")
  /\ wpc[w] # "idle"
  /\ EndJob(w)
  /\ UNCHANGED <<tnxVars, queueVars, monitorVars, chainVars>>

\* The active jobs Bull's stalled-job check gives back to the queue after a restart.
Stalled(R, t) == Cardinality({w \in R : wTnx[w] = t})

\* The process restarts.  clearAllJobs removes the delayed jobs and every active
\* job whose lock has run out; the other active jobs stall and are queued again.
\* The waiting jobs stay.
PayoutRestart ==
  /\ \E R \in SUBSET {w \in Workers : wpc[w] # "idle"} :
       waiting' = [t \in Tnxs |-> waiting[t] + Stalled(R, t)]
  /\ delayed' = [t \in Tnxs |-> 0]
  /\ wpc' = [w \in Workers |-> "idle"]
  /\ wTnx' = [w \in Workers |-> NoTnx]
  /\ sawToken' = [w \in Workers |-> FALSE]
  /\ sawEth' = [w \in Workers |-> FALSE]
  /\ mpc' = [m \in Monitors |-> "idle"]
  /\ mTnx' = [m \in Monitors |-> NoTnx]
  /\ mSawToken' = [m \in Monitors |-> FALSE]
  /\ UNCHANGED chainVars

Restart ==
  /\ Fault("restart")
  /\ PayoutRestart
  /\ UNCHANGED tnxVars

-----------------------------------------------------------------------------
(***************************************************************************)
(* What the checkout half may do to the documents between two steps of     *)
(* this half: one update stores one payment state in some of them, and     *)
(* 'failed' cancels the payout.                                            *)
(***************************************************************************)
CheckoutSide ==
  /\ \E S \in SUBSET Tnxs, s \in CheckoutStatuses :
       /\ statusStripe' = [t \in Tnxs |-> IF t \in S THEN s ELSE statusStripe[t]]
       /\ tokenSendStatus' =
            [t \in Tnxs |-> IF t \in S /\ s = "failed" THEN "cancelled" ELSE tokenSendStatus[t]]
  /\ UNCHANGED <<ethSendStatus, tokenSendRetryCount, attemptCount, payoutOnlyVars>>

MonitorStep(m) ==
  \/ MonitorFind(m)
  \/ MonitorAddJob(m)
  \/ MonitorSyncFails(m)
  \/ MonitorMarkToken(m)
  \/ MonitorMarkEth(m)

MonitorFault(m) == MonitorMarkFails(m) \/ MonitorDies(m)

CronStep == CronRetryToken \/ CronRetryGas

\* The steps of a job once it is taken.
JobStep(w) ==
  \/ NativePriceFails(w)
  \/ StartToken(w)
  \/ SkipToken(w)
  \/ TransferToken(w)
  \/ TokenConfirmed(w)
  \/ TokenFails(w)
  \/ StartGas(w)
  \/ SkipGas(w)
  \/ TransferGas(w)
  \/ GasConfirmed(w)
  \/ GasFails(w)
  \/ ReadRetryCount(w)
  \/ CountRetry(w)
  \/ Requeue(w)
  \/ GiveUp(w)

JobFault(w) == FailureUnwritten(w) \/ OuterCatch(w) \/ JobFails(w)

\* Everything the payout half does but restart, which it shares with the checkout half.
PayoutStep ==
  \/ \E m \in Monitors : MonitorStep(m) \/ MonitorFault(m)
  \/ CronStep
  \/ \E t \in Tnxs : Promote(t)
  \/ \E w \in Workers, t \in Tnxs : TakeJob(w, t)
  \/ \E w \in Workers : JobStep(w) \/ JobFault(w)

Next == PayoutStep \/ Restart \/ CheckoutSide

Spec == Init /\ [][Next]_payoutVars
-----------------------------------------------------------------------------
(***************************************************************************)
(* Properties.                                                             *)
(***************************************************************************)

\* The workers that hold a started, unrecorded token transfer of t.
Transferring(t) ==
  {w \in Workers : wTnx[w] = t /\ wpc[w] \in {"token", "tokenMined"}}

\* The workers that may still send the tokens of t.
AboutToTransfer(t) == {w \in Workers : wTnx[w] = t /\ wpc[w] = "token"}

\* A document that says 'sent' is the truth about the chain: the buyer's tokens left the
\* treasury, whatever stale snapshots and late writes of the monitor, the cron and the
\* other workers came in between (dpay-transaction.processor.ts:122-142).
SentMeansPaid == \A t \in Tnxs : tokenSendStatus[t] = "sent" => tokensOut[t] > 0

\* The gas gift never leaves the treasury ahead of the tokens it is for: the job reaches
\* its gas leg only behind a confirmed token leg, its own or an earlier job's.
GasFollowsTokens == \A t \in gasOut : tokensOut[t] > 0

\* attemptCount accounts for the treasury's outlay: every transfer that was mined, or
\* that a worker may still send, was first counted in the document, even when jobs of
\* one purchase run side by side, stall, or die with the process.
AttemptsCoverPayouts ==
  \A t \in Tnxs :
    tokensOut[t] + Cardinality(AboutToTransfer(t)) <= attemptCount[t]

\* As long as no job died, 'sending' always has a job behind it that will replace it.
\* This matters because neither the cron nor the monitor ever picks up 'sending': a
\* purchase left in it without a job is never paid out.
SendingIsOwned ==
  \A t \in Tnxs :
    tokenSendStatus[t] = "sending" => Transferring(t) # {} \/ faults > 0

\* The retry count limits retries: a purchase gets its first attempt and MAX_RETRIES more
\* (models/dpay/dpay-transactions.ts:56).
RetriesAreLimited == \A t \in Tnxs : attemptCount[t] <= MaxRetries + 1

\* A purchase is paid out once: "Token is Already sent ... skipping token sending"
\* (dpay-transaction.processor.ts:153).
PaidAtMostOnce == \A t \in Tnxs : tokensOut[t] <= 1

\* A settled purchase is worked on until its tokens and its gas are out or its retries are
\* used up, unless the checkout half takes the payment back: no order of the monitor's
\* marks, the worker's writes and the cron's resets strands it while the process lives.
PayoutCompletes ==
  \A t \in Tnxs :
    Settled(t) /\ tokenSendStatus[t] = "not_sent"
      ~> \/ tokensOut[t] > 0 /\ t \in gasOut
         \/ tokenSendRetryCount[t] >= MaxRetries
         \/ ~Settled(t)

\* The process keeps running: crons fire, delays end, free workers take jobs and taken
\* jobs go on.  Stripe's charge API is not down every time the monitor asks it.
Fairness ==
  /\ \A m \in Monitors : WF_payoutVars(MonitorStep(m)) /\ SF_payoutVars(MonitorAddJob(m))
  /\ WF_payoutVars(CronRetryToken) /\ WF_payoutVars(CronRetryGas)
  /\ \A t \in Tnxs : WF_payoutVars(Promote(t))
  /\ \A w \in Workers :
       WF_payoutVars(JobStep(w)) /\ WF_payoutVars(\E t \in Tnxs : TakeJob(w, t))

FairSpec == Spec /\ Fairness
=============================================================================
