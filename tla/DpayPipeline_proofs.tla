-------------------------- MODULE DpayPipeline_proofs --------------------------
(***************************************************************************)
(* Proofs about DPay, for any number of purchases, workers, ticks and      *)
(* faults, and any bounds.                                                 *)
(*                                                                         *)
(* First the payout half: its type invariant and the three invariants of   *)
(* the documents and the chain.  Then the whole: the pipeline implements   *)
(* the payout half's specification, so that these theorems hold of it;     *)
(* nothing is paid out to a buyer who did not pay; and the pipeline keeps  *)
(* the promise of DpaySale.                                                *)
(***************************************************************************)
EXTENDS DpayPipeline, FiniteSetTheorems, TLAPS

-----------------------------------------------------------------------------
(***************************************************************************)
(* Types.                                                                  *)
(***************************************************************************)

\* Every document, job count and program counter has its type in the initial state.
LEMMA InitTypeOK == Init => TypeOK
BY NoTnxAssumption
   DEF Init, TnxInit, PayoutInit, TypeOK, TnxTypeOK, StripeStatus, SendStatus, WorkerPc

\* A tick of the success monitor keeps the types.
LEMMA MonitorTypeOK ==
  ASSUME TypeOK, NEW m \in Monitors, MonitorStep(m) \/ MonitorFault(m)
  PROVE  TypeOK'
<1> USE NoTnxAssumption
        DEF TypeOK, TnxTypeOK, tnxVars, queueVars, workerVars, chainVars, SetToken, SetEth
<1>1. CASE MonitorFind(m)
  BY <1>1 DEF MonitorFind
<1>2. CASE MonitorAddJob(m)
  BY <1>2 DEF MonitorAddJob
<1>3. CASE MonitorSyncFails(m)
  BY <1>3 DEF MonitorSyncFails, MarkFailed, EndTick, SendStatus
<1>4. CASE MonitorMarkToken(m)
  BY <1>4 DEF MonitorMarkToken, SendStatus
<1>5. CASE MonitorMarkEth(m)
  BY <1>5 DEF MonitorMarkEth, EndTick, SendStatus
<1>6. CASE MonitorMarkFails(m)
  BY <1>6 DEF MonitorMarkFails, MarkFailed, EndTick, Fault, SendStatus
<1>7. CASE MonitorDies(m)
  BY <1>7 DEF MonitorDies, EndTick, Fault
<1> QED
  BY <1>1, <1>2, <1>3, <1>4, <1>5, <1>6, <1>7 DEF MonitorStep, MonitorFault

\* The retry cron and the end of a delay keep the types.
LEMMA QueueTypeOK ==
  ASSUME TypeOK, CronStep \/ (\E t \in Tnxs : Promote(t))
  PROVE  TypeOK'
<1> USE DEF TypeOK, TnxTypeOK, tnxVars, queueVars, workerVars, monitorVars, chainVars
<1>1. CASE CronRetryToken
  BY <1>1 DEF CronRetryToken, SendStatus
<1>2. CASE CronRetryGas
  BY <1>2 DEF CronRetryGas, SendStatus
<1>3. ASSUME NEW t \in Tnxs, Promote(t) PROVE TypeOK'
  BY <1>3 DEF Promote
<1> QED
  BY <1>1, <1>2, <1>3 DEF CronStep

\* Taking a job keeps the types.
LEMMA TakeJobTypeOK ==
  ASSUME TypeOK, NEW w \in Workers, NEW t \in Tnxs, TakeJob(w, t)
  PROVE  TypeOK'
BY NoTnxAssumption
   DEF TypeOK, TnxTypeOK, TakeJob, Goto, tnxVars, monitorVars, chainVars, WorkerPc

\* Every step of a taken job keeps the types.
LEMMA JobTypeOK ==
  ASSUME TypeOK, NEW w \in Workers, JobStep(w)
  PROVE  TypeOK'
<1> USE DEF TypeOK, TnxTypeOK, tnxVars, queueVars, monitorVars, chainVars,
            SetToken, SetEth, IncRetryCount, IncAttemptCount, Goto, SameJob, EnterCatch, EndJob
<1>1. CASE NativePriceFails(w)
  BY <1>1 DEF NativePriceFails, WorkerPc
<1>2. CASE StartToken(w)
  BY <1>2 DEF StartToken, WorkerPc, SendStatus
<1>3. CASE SkipToken(w)
  BY <1>3 DEF SkipToken, WorkerPc
<1>4. CASE TransferToken(w)
  BY <1>4 DEF TransferToken, WorkerPc
<1>5. CASE TokenConfirmed(w)
  BY <1>5 DEF TokenConfirmed, WorkerPc, SendStatus
<1>6. CASE TokenFails(w)
  BY <1>6 DEF TokenFails, WorkerPc, SendStatus
<1>7. CASE StartGas(w)
  BY <1>7 DEF StartGas, WorkerPc, SendStatus
<1>8. CASE SkipGas(w)
  BY <1>8 DEF SkipGas, WorkerPc
<1>9. CASE TransferGas(w)
  BY <1>9 DEF TransferGas, WorkerPc
<1>10. CASE GasConfirmed(w)
  BY <1>10 DEF GasConfirmed, WorkerPc, SendStatus
<1>11. CASE GasFails(w)
  BY <1>11 DEF GasFails, WorkerPc, SendStatus
<1>12. CASE ReadRetryCount(w)
  BY <1>12 DEF ReadRetryCount, WorkerPc
<1>13. CASE CountRetry(w)
  BY <1>13 DEF CountRetry, WorkerPc
<1>14. CASE Requeue(w)
  BY <1>14 DEF Requeue, WorkerPc
<1>15. CASE GiveUp(w)
  BY <1>15 DEF GiveUp, WorkerPc, SendStatus
<1> QED
  BY <1>1, <1>2, <1>3, <1>4, <1>5, <1>6, <1>7, <1>8, <1>9, <1>10, <1>11, <1>12, <1>13,
     <1>14, <1>15 DEF JobStep

\* A job that meets an outage keeps the types.
LEMMA JobFaultTypeOK ==
  ASSUME TypeOK, NEW w \in Workers, JobFault(w)
  PROVE  TypeOK'
<1> USE DEF TypeOK, TnxTypeOK, tnxVars, queueVars, monitorVars, chainVars, Fault, Goto,
            EndJob, WorkerPc
<1>1. CASE FailureUnwritten(w)
  BY <1>1 DEF FailureUnwritten, EnterCatch
<1>2. CASE OuterCatch(w)
  BY <1>2 DEF OuterCatch, SetToken, IncRetryCount, SendStatus
<1>3. CASE JobFails(w)
  BY <1>3 DEF JobFails
<1> QED
  BY <1>1, <1>2, <1>3 DEF JobFault

\* There are finitely many workers, so any group of them has a size.
LEMMA WorkerGroups ==
  ASSUME NEW S \in SUBSET Workers
  PROVE  IsFiniteSet(S) /\ Cardinality(S) \in Nat
BY ActorsAssumption, FS_Subset, FS_CardinalityType

\* A restart returns finitely many stalled jobs to the queue, and keeps the types.
LEMMA RestartTypeOK ==
  ASSUME TypeOK, Restart
  PROVE  TypeOK'
<1> PICK R \in SUBSET {w \in Workers : wpc[w] # "idle"} :
      waiting' = [t \in Tnxs |-> waiting[t] + Stalled(R, t)]
  BY DEF Restart, PayoutRestart
<1>1. \A t \in Tnxs : Stalled(R, t) \in Nat
  BY WorkerGroups DEF Stalled
<1>2. waiting' \in [Tnxs -> Nat]
  BY <1>1 DEF TypeOK
<1> QED
  BY <1>2, NoTnxAssumption
  DEF TypeOK, TnxTypeOK, Restart, PayoutRestart, Fault, tnxVars, chainVars, WorkerPc

\* The checkout half stores payment states of the schema only.
LEMMA CheckoutSideTypeOK ==
  ASSUME TypeOK, CheckoutSide
  PROVE  TypeOK'
BY CheckoutStatusesAssumption
   DEF TypeOK, TnxTypeOK, CheckoutSide, payoutOnlyVars, queueVars, workerVars, monitorVars,
       chainVars, SendStatus

\* A step of the payout half keeps the types, and so does any step of the specification.
LEMMA PayoutStepTypeOK ==
  ASSUME TypeOK, PayoutStep
  PROVE  TypeOK'
BY MonitorTypeOK, QueueTypeOK, TakeJobTypeOK, JobTypeOK, JobFaultTypeOK DEF PayoutStep

LEMMA NextTypeOK ==
  ASSUME TypeOK, [Next]_payoutVars
  PROVE  TypeOK'
<1>1. CASE UNCHANGED payoutVars
  BY <1>1 DEF TypeOK, TnxTypeOK, payoutVars, payoutOnlyVars, tnxVars, queueVars, workerVars,
              monitorVars, chainVars
<1> QED
  BY <1>1, PayoutStepTypeOK, RestartTypeOK, CheckoutSideTypeOK DEF Next

\* The documents, the queue, the workers and the ticks always have their types: statuses
\* stay within the schema (and 'sending'), and only an idle actor holds no purchase.
THEOREM TypesHold == Spec => []TypeOK
BY InitTypeOK, NextTypeOK, PTL DEF Spec

-----------------------------------------------------------------------------
(***************************************************************************)
(* 'sent' is the truth about the chain.  The status alone is not           *)
(* inductive: a worker that read 'sent' may act on it long after the cron  *)
(* or the monitor overwrote it, and a worker between the mining and its    *)
(* write knows more than the document.  PaidKnowledge says that everyone   *)
(* who believes the tokens are out is right.                               *)
(***************************************************************************)

PaidKnowledge ==
  /\ SentMeansPaid
  /\ GasFollowsTokens
  /\ \A w \in Workers :
       /\ sawToken[w] => wTnx[w] # NoTnx /\ tokensOut[wTnx[w]] > 0
       /\ wpc[w] \in {"tokenMined", "gasStart", "gas", "gasMined"} => tokensOut[wTnx[w]] > 0

\* No one believes that tokens are out before any document exists.
LEMMA InitPaidKnowledge == Init => PaidKnowledge
BY DEF Init, TnxInit, PayoutInit, PaidKnowledge, SentMeansPaid, GasFollowsTokens

\* The monitor, the crons and the queue never make a token leg 'sent'.
LEMMA MonitorPaidKnowledge ==
  ASSUME TypeOK, PaidKnowledge, NEW m \in Monitors, MonitorStep(m) \/ MonitorFault(m)
  PROVE  PaidKnowledge'
BY DEF TypeOK, TnxTypeOK, PaidKnowledge, SentMeansPaid, GasFollowsTokens, MonitorStep,
       MonitorFault, MonitorFind, MonitorAddJob, MonitorSyncFails, MonitorMarkToken,
       MonitorMarkEth, MonitorMarkFails, MonitorDies, MarkFailed, EndTick, SetToken, SetEth,
       tnxVars, workerVars, chainVars

LEMMA QueuePaidKnowledge ==
  ASSUME TypeOK, PaidKnowledge, CronStep \/ (\E t \in Tnxs : Promote(t))
  PROVE  PaidKnowledge'
BY DEF TypeOK, TnxTypeOK, PaidKnowledge, SentMeansPaid, GasFollowsTokens, CronStep,
       CronRetryToken, CronRetryGas, Promote, tnxVars, workerVars, chainVars

\* A job's snapshot of 'sent' is right because the document is.
LEMMA TakeJobPaidKnowledge ==
  ASSUME TypeOK, PaidKnowledge, NEW w \in Workers, NEW t \in Tnxs, TakeJob(w, t)
  PROVE  PaidKnowledge'
BY NoTnxAssumption
   DEF TypeOK, TnxTypeOK, PaidKnowledge, SentMeansPaid, GasFollowsTokens, TakeJob, Goto,
       tnxVars, chainVars

\* Only TokenConfirmed stores 'sent', behind a mined transfer, and only a worker that saw
\* or caused one reaches the gas leg.
LEMMA JobPaidKnowledge ==
  ASSUME TypeOK, PaidKnowledge, NEW w \in Workers, JobStep(w)
  PROVE  PaidKnowledge'
<1> USE DEF TypeOK, TnxTypeOK, PaidKnowledge, SentMeansPaid, GasFollowsTokens, tnxVars,
            chainVars, SetToken, SetEth, Goto, SameJob, EnterCatch, EndJob
<1>1. CASE NativePriceFails(w)
  BY <1>1 DEF NativePriceFails
<1>2. CASE StartToken(w)
  BY <1>2 DEF StartToken
<1>3. CASE SkipToken(w)
  BY <1>3 DEF SkipToken
<1>4. CASE TransferToken(w)
  BY <1>4 DEF TransferToken
<1>5. CASE TokenConfirmed(w)
  BY <1>5 DEF TokenConfirmed
<1>6. CASE TokenFails(w)
  BY <1>6 DEF TokenFails
<1>7. CASE StartGas(w)
  BY <1>7 DEF StartGas
<1>8. CASE SkipGas(w)
  BY <1>8 DEF SkipGas
<1>9. CASE TransferGas(w)
  BY <1>9 DEF TransferGas
<1>10. CASE GasConfirmed(w)
  BY <1>10 DEF GasConfirmed
<1>11. CASE GasFails(w)
  BY <1>11 DEF GasFails
<1>12. CASE ReadRetryCount(w)
  BY <1>12 DEF ReadRetryCount
<1>13. CASE CountRetry(w)
  BY <1>13 DEF CountRetry
<1>14. CASE Requeue(w)
  BY <1>14 DEF Requeue
<1>15. CASE GiveUp(w)
  BY <1>15 DEF GiveUp
<1> QED
  BY <1>1, <1>2, <1>3, <1>4, <1>5, <1>6, <1>7, <1>8, <1>9, <1>10, <1>11, <1>12, <1>13,
     <1>14, <1>15 DEF JobStep

LEMMA JobFaultPaidKnowledge ==
  ASSUME TypeOK, PaidKnowledge, NEW w \in Workers, JobFault(w)
  PROVE  PaidKnowledge'
BY DEF TypeOK, TnxTypeOK, PaidKnowledge, SentMeansPaid, GasFollowsTokens, JobFault,
       FailureUnwritten, OuterCatch, JobFails, Goto, EnterCatch, EndJob, SetToken, tnxVars,
       chainVars

\* A restart forgets what the workers knew; the documents and the chain stay.
LEMMA RestartPaidKnowledge ==
  ASSUME TypeOK, PaidKnowledge, Restart
  PROVE  PaidKnowledge'
BY DEF TypeOK, TnxTypeOK, PaidKnowledge, SentMeansPaid, GasFollowsTokens, Restart,
       PayoutRestart, tnxVars, chainVars

LEMMA CheckoutSidePaidKnowledge ==
  ASSUME TypeOK, PaidKnowledge, CheckoutSide
  PROVE  PaidKnowledge'
BY DEF TypeOK, TnxTypeOK, PaidKnowledge, SentMeansPaid, GasFollowsTokens, CheckoutSide,
       payoutOnlyVars, workerVars, chainVars

LEMMA NextPaidKnowledge ==
  ASSUME TypeOK, PaidKnowledge, [Next]_payoutVars
  PROVE  PaidKnowledge'
<1>1. CASE UNCHANGED payoutVars
  BY <1>1 DEF PaidKnowledge, SentMeansPaid, GasFollowsTokens, payoutVars, payoutOnlyVars,
              tnxVars, workerVars, chainVars
<1>2. CASE PayoutStep
  BY <1>2, MonitorPaidKnowledge, QueuePaidKnowledge, TakeJobPaidKnowledge, JobPaidKnowledge,
     JobFaultPaidKnowledge DEF PayoutStep
<1> QED
  BY <1>1, <1>2, RestartPaidKnowledge, CheckoutSidePaidKnowledge DEF Next

\* Every worker that believes the tokens are out is right, always.
THEOREM PaidKnowledgeHolds == Spec => []PaidKnowledge
BY InitPaidKnowledge, NextPaidKnowledge, TypesHold, PTL DEF Spec

\* A document that says 'sent' has a mined transfer behind it, whatever stale snapshots,
\* late marks, resets, outages and restarts came in between.
THEOREM SentMeansPaidHolds == Spec => []SentMeansPaid
<1>1. PaidKnowledge => SentMeansPaid
  BY DEF PaidKnowledge
<1> QED
  BY <1>1, PaidKnowledgeHolds, PTL

\* No gas gift leaves the treasury ahead of the tokens it is for.
THEOREM GasFollowsTokensHolds == Spec => []GasFollowsTokens
<1>1. PaidKnowledge => GasFollowsTokens
  BY DEF PaidKnowledge
<1> QED
  BY <1>1, PaidKnowledgeHolds, PTL

-----------------------------------------------------------------------------
(***************************************************************************)
(* 'sending' has a job behind it.  The invariant is inductive together     *)
(* with the types: only StartToken stores 'sending', and the two ways out  *)
(* of the transfer store something else.                                   *)
(***************************************************************************)

LEMMA InitSendingIsOwned == Init => SendingIsOwned
BY DEF Init, TnxInit, SendingIsOwned

LEMMA MonitorSendingIsOwned ==
  ASSUME TypeOK, SendingIsOwned, NEW m \in Monitors, MonitorStep(m) \/ MonitorFault(m)
  PROVE  SendingIsOwned'
BY DEF TypeOK, TnxTypeOK, SendingIsOwned, Transferring, MonitorStep, MonitorFault,
       MonitorFind, MonitorAddJob, MonitorSyncFails, MonitorMarkToken, MonitorMarkEth,
       MonitorMarkFails, MonitorDies, MarkFailed, EndTick, SetToken, SetEth, Fault, tnxVars,
       workerVars

LEMMA QueueSendingIsOwned ==
  ASSUME TypeOK, SendingIsOwned, CronStep \/ (\E t \in Tnxs : Promote(t))
  PROVE  SendingIsOwned'
BY DEF TypeOK, TnxTypeOK, SendingIsOwned, Transferring, CronStep, CronRetryToken,
       CronRetryGas, Promote, tnxVars, workerVars

LEMMA TakeJobSendingIsOwned ==
  ASSUME TypeOK, SendingIsOwned, NEW w \in Workers, NEW t \in Tnxs, TakeJob(w, t)
  PROVE  SendingIsOwned'
BY DEF TypeOK, TnxTypeOK, SendingIsOwned, Transferring, TakeJob, Goto, tnxVars

\* A worker leaves its transfer only by storing 'sent' or 'failed'.
LEMMA JobSendingIsOwned ==
  ASSUME TypeOK, SendingIsOwned, NEW w \in Workers, JobStep(w)
  PROVE  SendingIsOwned'
<1> USE DEF TypeOK, TnxTypeOK, SendingIsOwned, Transferring, tnxVars, SetToken, SetEth, Goto,
            SameJob, EnterCatch, EndJob
<1>1. CASE StartToken(w)
  BY <1>1 DEF StartToken
<1>2. CASE TransferToken(w)
  BY <1>2 DEF TransferToken
<1>3. CASE TokenConfirmed(w)
  BY <1>3 DEF TokenConfirmed
<1>4. CASE TokenFails(w)
  BY <1>4 DEF TokenFails
<1>5. CASE NativePriceFails(w) \/ SkipToken(w)
  BY <1>5 DEF NativePriceFails, SkipToken
<1>6. CASE StartGas(w) \/ SkipGas(w) \/ TransferGas(w) \/ GasConfirmed(w) \/ GasFails(w)
  BY <1>6 DEF StartGas, SkipGas, TransferGas, GasConfirmed, GasFails
<1>7. CASE ReadRetryCount(w) \/ CountRetry(w) \/ Requeue(w) \/ GiveUp(w)
  BY <1>7 DEF ReadRetryCount, CountRetry, Requeue, GiveUp
<1> QED
  BY <1>1, <1>2, <1>3, <1>4, <1>5, <1>6, <1>7 DEF JobStep

\* A fault counts, and from then on the invariant asks nothing.
LEMMA FaultSendingIsOwned ==
  ASSUME TypeOK, Restart \/ (\E w \in Workers : JobFault(w))
  PROVE  SendingIsOwned'
<1>1. faults' > 0
  BY DEF TypeOK, Restart, JobFault, FailureUnwritten, OuterCatch, JobFails, Fault
<1> QED
  BY <1>1 DEF SendingIsOwned

LEMMA CheckoutSideSendingIsOwned ==
  ASSUME TypeOK, SendingIsOwned, CheckoutSide
  PROVE  SendingIsOwned'
BY DEF TypeOK, TnxTypeOK, SendingIsOwned, Transferring, CheckoutSide, payoutOnlyVars,
       workerVars

\* As long as no job died, a document in 'sending' has a worker that will replace it.
THEOREM SendingIsOwnedHolds == Spec => []SendingIsOwned
<1>1. ASSUME TypeOK, SendingIsOwned, [Next]_payoutVars PROVE SendingIsOwned'
  <2>1. CASE UNCHANGED payoutVars
    BY <1>1, <2>1 DEF SendingIsOwned, Transferring, payoutVars, payoutOnlyVars, tnxVars,
                      workerVars
  <2>2. CASE PayoutStep
    BY <1>1, <2>2, MonitorSendingIsOwned, QueueSendingIsOwned, TakeJobSendingIsOwned,
       JobSendingIsOwned, FaultSendingIsOwned DEF PayoutStep
  <2> QED
    BY <1>1, <2>1, <2>2, FaultSendingIsOwned, CheckoutSideSendingIsOwned DEF Next
<1> QED
  BY <1>1, InitSendingIsOwned, TypesHold, PTL DEF Spec

-----------------------------------------------------------------------------
(***************************************************************************)
(* attemptCount covers the treasury's outlay.  The measure of a purchase   *)
(* is its mined transfers plus the workers about to send: a step that does *)
(* not count an attempt may move one from the second to the first, or drop *)
(* it, and never adds one.                                                 *)
(***************************************************************************)

Outlay(t) == tokensOut[t] + Cardinality(AboutToTransfer(t))

\* The outlay is a number, and losing workers about to send does not raise it.
LEMMA OutlayShrinks ==
  ASSUME TypeOK, NEW t \in Tnxs, AboutToTransfer(t)' \subseteq AboutToTransfer(t),
         tokensOut'[t] = tokensOut[t]
  PROVE  Outlay(t)' \in Nat /\ Outlay(t) \in Nat /\ Outlay(t)' <= Outlay(t)
<1>1. AboutToTransfer(t) \in SUBSET Workers
  BY DEF AboutToTransfer
<1>2. /\ Cardinality(AboutToTransfer(t)) \in Nat
      /\ Cardinality(AboutToTransfer(t)') \in Nat
      /\ Cardinality(AboutToTransfer(t)') <= Cardinality(AboutToTransfer(t))
  BY <1>1, WorkerGroups, FS_Subset
<1>3. tokensOut[t] \in Nat
  BY DEF TypeOK
<1> QED
  BY <1>2, <1>3 DEF Outlay

\* A step that starts no transfer, mines none and leaves the counts alone keeps the bound.
LEMMA NoNewOutlay ==
  ASSUME TypeOK, AttemptsCoverPayouts,
         \A t \in Tnxs : AboutToTransfer(t)' \subseteq AboutToTransfer(t),
         UNCHANGED <<tokensOut, attemptCount>>
  PROVE  AttemptsCoverPayouts'
<1> SUFFICES ASSUME NEW t \in Tnxs
             PROVE  Outlay(t)' <= attemptCount'[t]
  BY DEF AttemptsCoverPayouts, Outlay
<1>1. Outlay(t)' \in Nat /\ Outlay(t) \in Nat /\ Outlay(t)' <= Outlay(t)
  BY OutlayShrinks
<1>2. Outlay(t) <= attemptCount[t] /\ attemptCount[t] \in Nat
  BY DEF AttemptsCoverPayouts, Outlay, TypeOK, TnxTypeOK
<1> QED
  BY <1>1, <1>2

\* One more worker makes a group larger by one at most.
LEMMA OneMore ==
  ASSUME NEW S, NEW x, IsFiniteSet(S)
  PROVE  /\ Cardinality(S \union {x}) \in Nat
         /\ Cardinality(S \union {x}) <= Cardinality(S) + 1
<1>1. Cardinality(S) \in Nat
  BY FS_CardinalityType
<1>2. Cardinality(S \union {x}) = IF x \in S THEN Cardinality(S) ELSE Cardinality(S) + 1
  BY FS_AddElement
<1> QED
  BY <1>1, <1>2

\* A new attempt is counted as it starts.
LEMMA StartTokenCounts ==
  ASSUME TypeOK, AttemptsCoverPayouts, NEW w \in Workers, StartToken(w)
  PROVE  AttemptsCoverPayouts'
<1> SUFFICES ASSUME NEW t \in Tnxs
             PROVE  Outlay(t)' <= attemptCount'[t]
  BY DEF AttemptsCoverPayouts, Outlay
<1>1. /\ tokensOut[t] \in Nat /\ attemptCount[t] \in Nat
      /\ tokensOut'[t] = tokensOut[t]
      /\ Outlay(t) <= attemptCount[t]
  BY DEF TypeOK, TnxTypeOK, AttemptsCoverPayouts, Outlay, StartToken, chainVars
<1>2. AboutToTransfer(t) \in SUBSET Workers /\ IsFiniteSet(AboutToTransfer(t))
      /\ Cardinality(AboutToTransfer(t)) \in Nat
  BY WorkerGroups DEF AboutToTransfer
<1>3. CASE wTnx[w] = t
  <2>1. AboutToTransfer(t)' = AboutToTransfer(t) \union {w}
    BY <1>3 DEF TypeOK, AboutToTransfer, StartToken, Goto, SameJob
  <2>2. Cardinality(AboutToTransfer(t)') <= Cardinality(AboutToTransfer(t)) + 1
        /\ Cardinality(AboutToTransfer(t)') \in Nat
    BY <1>2, <2>1, OneMore
  <2>3. attemptCount'[t] = attemptCount[t] + 1
    BY <1>3 DEF TypeOK, TnxTypeOK, StartToken, IncAttemptCount
  <2> QED
    BY <1>1, <1>2, <2>2, <2>3 DEF Outlay
<1>4. CASE wTnx[w] # t
  <2>1. AboutToTransfer(t)' = AboutToTransfer(t)
    BY <1>4 DEF TypeOK, AboutToTransfer, StartToken, Goto, SameJob
  <2>2. attemptCount'[t] = attemptCount[t]
    BY <1>4 DEF TypeOK, TnxTypeOK, StartToken, IncAttemptCount
  <2> QED
    BY <1>1, <2>1, <2>2 DEF Outlay
<1> QED
  BY <1>3, <1>4

\* A mined transfer had a worker about to send it.
LEMMA TransferTokenCounts ==
  ASSUME TypeOK, AttemptsCoverPayouts, NEW w \in Workers, TransferToken(w)
  PROVE  AttemptsCoverPayouts'
<1> SUFFICES ASSUME NEW t \in Tnxs
             PROVE  Outlay(t)' <= attemptCount'[t]
  BY DEF AttemptsCoverPayouts, Outlay
<1>1. /\ tokensOut[t] \in Nat /\ attemptCount[t] \in Nat
      /\ attemptCount'[t] = attemptCount[t]
      /\ Outlay(t) <= attemptCount[t]
  BY DEF TypeOK, TnxTypeOK, AttemptsCoverPayouts, Outlay, TransferToken, tnxVars
<1>2. AboutToTransfer(t) \in SUBSET Workers /\ IsFiniteSet(AboutToTransfer(t))
      /\ Cardinality(AboutToTransfer(t)) \in Nat
  BY WorkerGroups DEF AboutToTransfer
<1>3. CASE wTnx[w] = t
  <2>1. AboutToTransfer(t)' = AboutToTransfer(t) \ {w} /\ w \in AboutToTransfer(t)
    BY <1>3 DEF TypeOK, AboutToTransfer, TransferToken, Goto, SameJob, WorkerPc
  <2>2. Cardinality(AboutToTransfer(t)') = Cardinality(AboutToTransfer(t)) - 1
    BY <1>2, <2>1, FS_RemoveElement
  <2>3. tokensOut'[t] = tokensOut[t] + 1
    BY <1>3 DEF TypeOK, TransferToken
  <2> QED
    BY <1>1, <1>2, <2>2, <2>3 DEF Outlay
<1>4. CASE wTnx[w] # t
  <2>1. AboutToTransfer(t)' = AboutToTransfer(t) /\ tokensOut'[t] = tokensOut[t]
    BY <1>4 DEF TypeOK, AboutToTransfer, TransferToken, Goto, SameJob
  <2> QED
    BY <1>1, <2>1 DEF Outlay
<1> QED
  BY <1>3, <1>4

\* The other steps of a job start and mine nothing.
LEMMA JobAttempts ==
  ASSUME TypeOK, AttemptsCoverPayouts, NEW w \in Workers, JobStep(w) \/ JobFault(w)
  PROVE  AttemptsCoverPayouts'
<1> USE DEF TypeOK, AboutToTransfer, Goto, SameJob, EnterCatch, EndJob, tnxVars, chainVars
<1>1. CASE StartToken(w)
  BY <1>1, StartTokenCounts
<1>2. CASE TransferToken(w)
  BY <1>2, TransferTokenCounts
<1>3. CASE NativePriceFails(w) \/ SkipToken(w) \/ TokenConfirmed(w) \/ TokenFails(w)
  BY <1>3, NoNewOutlay DEF NativePriceFails, SkipToken, TokenConfirmed, TokenFails
<1>4. CASE StartGas(w) \/ SkipGas(w) \/ TransferGas(w) \/ GasConfirmed(w) \/ GasFails(w)
  BY <1>4, NoNewOutlay DEF StartGas, SkipGas, TransferGas, GasConfirmed, GasFails
<1>5. CASE ReadRetryCount(w) \/ CountRetry(w) \/ Requeue(w) \/ GiveUp(w)
  BY <1>5, NoNewOutlay DEF ReadRetryCount, CountRetry, Requeue, GiveUp
<1>6. CASE FailureUnwritten(w) \/ OuterCatch(w) \/ JobFails(w)
  BY <1>6, NoNewOutlay DEF FailureUnwritten, OuterCatch, JobFails
<1> QED
  BY <1>1, <1>2, <1>3, <1>4, <1>5, <1>6 DEF JobStep, JobFault

\* Nor does anything else.
LEMMA OtherAttempts ==
  ASSUME TypeOK, AttemptsCoverPayouts,
         \/ \E m \in Monitors : MonitorStep(m) \/ MonitorFault(m)
         \/ CronStep
         \/ \E t \in Tnxs : Promote(t)
         \/ \E w \in Workers, t \in Tnxs : TakeJob(w, t)
         \/ Restart
         \/ CheckoutSide
         \/ UNCHANGED payoutVars
  PROVE  AttemptsCoverPayouts'
<1> USE DEF AboutToTransfer, tnxVars, workerVars, chainVars
<1>1. ASSUME NEW m \in Monitors, MonitorStep(m) \/ MonitorFault(m) PROVE AttemptsCoverPayouts'
  BY <1>1, NoNewOutlay
  DEF MonitorStep, MonitorFault, MonitorFind, MonitorAddJob, MonitorSyncFails,
      MonitorMarkToken, MonitorMarkEth, MonitorMarkFails, MonitorDies, MarkFailed
<1>2. CASE CronStep \/ \E t \in Tnxs : Promote(t)
  BY <1>2, NoNewOutlay DEF CronStep, CronRetryToken, CronRetryGas, Promote
<1>3. ASSUME NEW w \in Workers, NEW t \in Tnxs, TakeJob(w, t) PROVE AttemptsCoverPayouts'
  BY <1>3, NoNewOutlay DEF TypeOK, TakeJob, Goto
<1>4. CASE Restart
  BY <1>4, NoNewOutlay DEF Restart, PayoutRestart
<1>5. CASE CheckoutSide \/ UNCHANGED payoutVars
  BY <1>5, NoNewOutlay DEF CheckoutSide, payoutVars, payoutOnlyVars
<1> QED
  BY <1>1, <1>2, <1>3, <1>4, <1>5

LEMMA InitAttempts == Init => AttemptsCoverPayouts
<1> SUFFICES ASSUME Init, NEW t \in Tnxs
             PROVE  tokensOut[t] + Cardinality(AboutToTransfer(t)) <= attemptCount[t]
  BY DEF AttemptsCoverPayouts
<1>1. AboutToTransfer(t) = {}
  BY DEF Init, PayoutInit, AboutToTransfer
<1> QED
  BY <1>1, FS_EmptySet DEF Init, TnxInit, PayoutInit

\* Every transfer that was mined, or that a worker may still send, was first counted in
\* the document's attemptCount.
THEOREM AttemptsCoverPayoutsHolds == Spec => []AttemptsCoverPayouts
<1>1. ASSUME TypeOK, AttemptsCoverPayouts, [Next]_payoutVars PROVE AttemptsCoverPayouts'
  BY <1>1, JobAttempts, OtherAttempts DEF Next, PayoutStep
<1> QED
  BY <1>1, InitAttempts, TypesHold, PTL DEF Spec

-----------------------------------------------------------------------------
(***************************************************************************)
(* The checkout half keeps to CheckoutSide, which is all the payout half   *)
(* was specified against.                                                  *)
(***************************************************************************)

\* The payment states the handlers and crons of the checkout half store.
LEMMA Stored ==
  {"init", "pending", "succeeded", "complete", "failed", "expired",
   "requires_payment_method"} \subseteq CheckoutStatuses
BY CompleteAssumption DEF StripeStatus

\* Storing a state other than 'failed' in one document is a step of CheckoutSide.
LEMMA SetStripeIsCheckoutSide ==
  ASSUME TypeOK, NEW t \in Tnxs, NEW s \in CheckoutStatuses, s # "failed", SetStripe(t, s),
         UNCHANGED <<tokenSendStatus, ethSendStatus, tokenSendRetryCount, attemptCount,
                     payoutOnlyVars>>
  PROVE  CheckoutSide
<1>1. statusStripe' = [u \in Tnxs |-> IF u \in {t} THEN s ELSE statusStripe[u]]
  BY DEF SetStripe, TypeOK, TnxTypeOK
<1>2. tokenSendStatus' =
        [u \in Tnxs |-> IF u \in {t} /\ s = "failed" THEN "cancelled" ELSE tokenSendStatus[u]]
  BY DEF TypeOK, TnxTypeOK
<1> QED
  BY <1>1, <1>2 DEF CheckoutSide

\* So is the expiry of all overdue documents at once.
LEMMA ExpiryIsCheckoutSide ==
  ASSUME TypeOK, ExpireTheTnx,
         UNCHANGED <<ethSendStatus, tokenSendRetryCount, attemptCount, payoutOnlyVars>>
  PROVE  CheckoutSide
<1> DEFINE S == {t \in Tnxs : AwaitsPayment(t) /\ age[t] = "over30"}
<1>1. statusStripe' = [t \in Tnxs |-> IF t \in S THEN "expired" ELSE statusStripe[t]]
  BY DEF ExpireTheTnx
<1>2. tokenSendStatus' =
        [t \in Tnxs |->
          IF t \in S /\ "expired" = "failed" THEN "cancelled" ELSE tokenSendStatus[t]]
  BY DEF ExpireTheTnx, TypeOK, TnxTypeOK
<1>3. "expired" \in CheckoutStatuses /\ S \in SUBSET Tnxs
  BY Stored
<1> HIDE DEF S
<1> QED
  BY <1>1, <1>2, <1>3 DEF CheckoutSide

\* And so is the cancellation of a purchase that was never paid.
LEMMA CancelIsCheckoutSide ==
  ASSUME TypeOK, NEW t \in Tnxs, FailAndCancel(t),
         UNCHANGED <<ethSendStatus, tokenSendRetryCount, attemptCount, payoutOnlyVars>>
  PROVE  CheckoutSide
<1>1. statusStripe' = [u \in Tnxs |-> IF u \in {t} THEN "failed" ELSE statusStripe[u]]
  BY DEF FailAndCancel, SetStripe, TypeOK, TnxTypeOK
<1>2. tokenSendStatus' =
        [u \in Tnxs |->
          IF u \in {t} /\ "failed" = "failed" THEN "cancelled" ELSE tokenSendStatus[u]]
  BY DEF FailAndCancel, SetToken, TypeOK, TnxTypeOK
<1>3. "failed" \in CheckoutStatuses
  BY Stored
<1> QED
  BY <1>1, <1>2, <1>3 DEF CheckoutSide

\* Every step of the checkout half is a step of CheckoutSide or leaves the payout half be.
LEMMA CheckoutHalfIsCheckoutSide ==
  ASSUME PipelineTypeOK, CheckoutHalf
  PROVE  CheckoutSide \/ UNCHANGED payoutVars
<1> USE DEF PipelineTypeOK, CheckoutHalf, payoutVars, tnxVars
<1>1. ASSUME NEW t \in Tnxs, PurchaseStep(t) PROVE CheckoutSide \/ UNCHANGED payoutVars
  <2>1. CASE \/ Checkout(t) \/ SaveSession(t) \/ HandlePaymentIntentSucceeded(t)
             \/ HandlePaymentIntentFailed(t) \/ HandleCheckoutSessionCompleted(t)
    <3>1. PICK s \in CheckoutStatuses : s # "failed" /\ SetStripe(t, s)
      BY <2>1, Stored
      DEF Checkout, SaveSession, HandlePaymentIntentSucceeded, HandlePaymentIntentFailed,
          HandleCheckoutSessionCompleted
    <3>2. UNCHANGED tokenSendStatus
      BY <2>1
      DEF Checkout, SaveSession, HandlePaymentIntentSucceeded, HandlePaymentIntentFailed,
          HandleCheckoutSessionCompleted
    <3> QED
      BY <3>1, <3>2, SetStripeIsCheckoutSide
  <2>2. CASE \/ CreateStripeSession(t) \/ CheckoutFails(t) \/ BuyerPays(t)
             \/ CardDeclined(t) \/ SessionCloses(t) \/ TimePasses(t)
    BY <2>2 DEF CreateStripeSession, CheckoutFails, BuyerPays, CardDeclined, SessionCloses,
                TimePasses
  <2> QED
    BY <1>1, <2>1, <2>2 DEF PurchaseStep
<1>2. CASE ExpireTheTnx
  BY <1>2, ExpiryIsCheckoutSide
<1>3. CASE MonitorStripePending
  BY <1>3 DEF MonitorStripePending
<1>4. ASSUME NEW v \in Verifiers, VerifyStep(v) PROVE CheckoutSide \/ UNCHANGED payoutVars
  <2>1. CASE VerifiedPaid(v)
    <3>1. vTnx[v] \in Tnxs /\ SetStripe(vTnx[v], "succeeded") /\ UNCHANGED tokenSendStatus
      BY <2>1 DEF VerifiedPaid, CheckoutTypeOK
    <3> QED
      BY <3>1, Stored, SetStripeIsCheckoutSide
  <2>2. CASE VerifiedOverdue(v)
    <3>1. vTnx[v] \in Tnxs /\ FailAndCancel(vTnx[v])
      BY <2>2 DEF VerifiedOverdue, CheckoutTypeOK
    <3> QED
      BY <3>1, CancelIsCheckoutSide
  <2>3. CASE VerifyEnds(v) \/ \E t \in Tnxs : VerifyAsksStripe(v, t)
    BY <2>3 DEF VerifyEnds, VerifyAsksStripe
  <2> QED
    BY <1>4, <2>1, <2>2, <2>3 DEF VerifyStep
<1> QED
  BY <1>1, <1>2, <1>3, <1>4 DEF CheckoutStep

\* Every step of the pipeline is a step of the payout half's specification.
LEMMA PipelineStepIsPayoutStep ==
  ASSUME PipelineTypeOK, [PipelineNext]_vars
  PROVE  [Next]_payoutVars
BY CheckoutHalfIsCheckoutSide DEF PipelineNext, PayoutHalf, ProcessRestart, Next, vars

-----------------------------------------------------------------------------
(***************************************************************************)
(* Types.                                                                  *)
(***************************************************************************)

LEMMA CheckoutStepTypeOK ==
  ASSUME CheckoutTypeOK, CheckoutStep
  PROVE  CheckoutTypeOK'
<1> USE VerifiersAssumption, MaxVerifyJobsAssumption DEF CheckoutTypeOK, checkoutOnlyVars
<1>1. ASSUME NEW t \in Tnxs, PurchaseStep(t) PROVE CheckoutTypeOK'
  <2>1. CASE Checkout(t) \/ CreateStripeSession(t) \/ SaveSession(t) \/ CheckoutFails(t)
    BY <2>1 DEF Checkout, CreateStripeSession, SaveSession, CheckoutFails
  <2>2. CASE BuyerPays(t)
    BY <2>2 DEF BuyerPays, EventType
  <2>3. CASE CardDeclined(t)
    BY <2>3 DEF CardDeclined, EventType
  <2>4. CASE SessionCloses(t) \/ TimePasses(t)
    BY <2>4 DEF SessionCloses, TimePasses
  <2>5. CASE \/ HandlePaymentIntentSucceeded(t) \/ HandlePaymentIntentFailed(t)
             \/ HandleCheckoutSessionCompleted(t)
    BY <2>5 DEF HandlePaymentIntentSucceeded, HandlePaymentIntentFailed,
                HandleCheckoutSessionCompleted
  <2> QED
    BY <1>1, <2>1, <2>2, <2>3, <2>4, <2>5 DEF PurchaseStep
<1>2. CASE ExpireTheTnx
  BY <1>2 DEF ExpireTheTnx
<1>3. CASE MonitorStripePending
  BY <1>3 DEF MonitorStripePending
<1>4. ASSUME NEW v \in Verifiers, VerifyStep(v) PROVE CheckoutTypeOK'
  <2>1. ASSUME NEW t \in Tnxs, VerifyAsksStripe(v, t) PROVE CheckoutTypeOK'
    BY <2>1 DEF VerifyAsksStripe
  <2>2. CASE VerifiedPaid(v) \/ VerifiedOverdue(v) \/ VerifyEnds(v)
    BY <2>2 DEF VerifiedPaid, VerifiedOverdue, VerifyEnds, EndVerify
  <2> QED
    BY <1>4, <2>1, <2>2 DEF VerifyStep
<1> QED
  BY <1>1, <1>2, <1>3, <1>4 DEF CheckoutStep

LEMMA CheckoutRestartTypeOK ==
  ASSUME CheckoutTypeOK, CheckoutRestart
  PROVE  CheckoutTypeOK'
<1> PICK R \in SUBSET {v \in Verifiers : vTnx[v] # NoJob} :
      verifyJobs' = [t \in Tnxs |-> verifyJobs[t] + Cardinality({v \in R : vTnx[v] = t})]
  BY DEF CheckoutRestart
<1>1. ASSUME NEW t \in Tnxs PROVE Cardinality({v \in R : vTnx[v] = t}) \in Nat
  <2>1. {v \in R : vTnx[v] = t} \in SUBSET Verifiers
    OBVIOUS
  <2> QED
    BY <2>1, VerifiersAssumption, FS_Subset, FS_CardinalityType
<1>2. verifyJobs' \in [Tnxs -> Nat]
  BY <1>1 DEF CheckoutTypeOK
<1> QED
  BY <1>2 DEF CheckoutTypeOK, CheckoutRestart

LEMMA PipelineNextTypeOK ==
  ASSUME PipelineTypeOK, [PipelineNext]_vars
  PROVE  PipelineTypeOK'
<1>1. TypeOK'
  BY PipelineStepIsPayoutStep, NextTypeOK DEF PipelineTypeOK
<1>2. CheckoutTypeOK'
  <2>1. CASE UNCHANGED checkoutOnlyVars
    BY <2>1 DEF PipelineTypeOK, CheckoutTypeOK, checkoutOnlyVars
  <2> QED
    BY <2>1, CheckoutStepTypeOK, CheckoutRestartTypeOK
    DEF PipelineTypeOK, PipelineNext, CheckoutHalf, PayoutHalf, ProcessRestart, vars
<1> QED
  BY <1>1, <1>2 DEF PipelineTypeOK

\* The documents, the two halves of the process, Stripe's sessions and the events always
\* have their types: no handler, cron or worker stores a state outside the schema's.
THEOREM PipelineTypesHold == PipelineSpec => []PipelineTypeOK
<1>1. PipelineInit => PipelineTypeOK
  BY InitTypeOK DEF PipelineInit, PipelineTypeOK, CheckoutInit, CheckoutTypeOK
<1> QED
  BY <1>1, PipelineNextTypeOK, PTL DEF PipelineSpec

\* The payout half inside the pipeline behaves as DpayPayout specifies it in isolation:
\* the checkout half never does more to the documents than CheckoutSide allows.
THEOREM PipelineImplementsPayout == PipelineSpec => Spec
<1>1. PipelineInit => Init
  BY DEF PipelineInit
<1> QED
  BY <1>1, PipelineStepIsPayoutStep, PipelineTypesHold, PTL DEF PipelineSpec, Spec

-----------------------------------------------------------------------------
(***************************************************************************)
(* Nothing is paid out to a buyer who did not pay.  Everything the payout  *)
(* half acts on descends from a paid session: the payment states it        *)
(* queries, the events and verify answers those come from, its jobs, and   *)
(* the purchases its ticks and workers hold.  PaidDescent says so of each  *)
(* link; a session, once paid, stays paid.                                 *)
(***************************************************************************)

Paid(t) == session[t] = "paid"

PaidEvidence ==
  /\ \A t \in Tnxs :
       /\ checkoutPc[t] \in {"new", "session"} => session[t] = "none"
       /\ <<"intent_succeeded", t>> \in events => Paid(t)
       /\ <<"session_completed", t>> \in events => Paid(t)
       /\ Settled(t) => Paid(t)
  /\ \A v \in Verifiers : vPaid[v] => vTnx[v] # NoJob /\ Paid(vTnx[v])

PaidHolders ==
  /\ \A w \in Workers : wTnx[w] # NoTnx => Paid(wTnx[w])
  /\ \A m \in Monitors : mTnx[m] # NoTnx => Paid(mTnx[m])

PaidDescent == PaidEvidence /\ PaidHolders /\ UnpaidIsUntouched

LEMMA InitPaidDescent == PipelineInit => PaidDescent
BY DEF PipelineInit, Init, TnxInit, PayoutInit, CheckoutInit, PaidDescent, PaidEvidence,
       PaidHolders, UnpaidIsUntouched, Settled, Paid

\* A paid session stays paid: Stripe closes open sessions only, and a request creates its
\* session once.
LEMMA PaidIsForever ==
  ASSUME PipelineTypeOK, PaidEvidence, CheckoutStep, NEW t \in Tnxs, Paid(t)
  PROVE  Paid(t)'
<1> USE DEF PipelineTypeOK, CheckoutTypeOK, PaidEvidence, Paid, checkoutOnlyVars
<1>1. ASSUME NEW u \in Tnxs, PurchaseStep(u) PROVE Paid(t)'
  BY <1>1
  DEF PurchaseStep, Checkout, CreateStripeSession, SaveSession, CheckoutFails, BuyerPays,
      CardDeclined, SessionCloses, TimePasses, HandlePaymentIntentSucceeded,
      HandlePaymentIntentFailed, HandleCheckoutSessionCompleted, PayableAt
<1>2. ASSUME NEW v \in Verifiers, VerifyStep(v) PROVE Paid(t)'
  BY <1>2 DEF VerifyStep, VerifyAsksStripe, VerifiedPaid, VerifiedOverdue, VerifyEnds, EndVerify
<1> QED
  BY <1>1, <1>2 DEF CheckoutStep, ExpireTheTnx, MonitorStripePending

\* A payment state that starts the payout is stored on Stripe's word only.
LEMMA CheckoutPaidEvidence ==
  ASSUME PipelineTypeOK, PaidEvidence, CheckoutStep
  PROVE  PaidEvidence'
<1> USE DEF PipelineTypeOK, TypeOK, TnxTypeOK, CheckoutTypeOK, PaidEvidence, Paid, Settled,
            checkoutOnlyVars, SetStripe
<1>1. ASSUME NEW u \in Tnxs, PurchaseStep(u) PROVE PaidEvidence'
  <2>1. CASE Checkout(u) \/ CheckoutFails(u) \/ TimePasses(u)
    BY <2>1 DEF Checkout, CheckoutFails, TimePasses
  <2>2. CASE CreateStripeSession(u)
    <3>1. session[u] = "none" /\ ~Paid(u)
      BY <2>2 DEF CreateStripeSession
    <3>2. \A t \in Tnxs : t # u => session'[t] = session[t] /\ checkoutPc'[t] = checkoutPc[t]
      BY <2>2 DEF CreateStripeSession
    <3>3. checkoutPc'[u] = "save" /\ UNCHANGED <<events, statusStripe, vTnx, vPaid>>
      BY <2>2 DEF CreateStripeSession
    <3> QED
      BY <3>1, <3>2, <3>3
  <2>3. CASE SaveSession(u)
    BY <2>3 DEF SaveSession
  <2>4. CASE BuyerPays(u)
    BY <2>4 DEF BuyerPays, PayableAt, Linked
  <2>5. CASE CardDeclined(u) \/ SessionCloses(u)
    BY <2>5 DEF CardDeclined, SessionCloses
  <2>6. CASE HandlePaymentIntentSucceeded(u) \/ HandleCheckoutSessionCompleted(u)
    BY <2>6 DEF HandlePaymentIntentSucceeded, HandleCheckoutSessionCompleted, Delivered
  <2>7. CASE HandlePaymentIntentFailed(u)
    BY <2>7 DEF HandlePaymentIntentFailed
  <2> QED
    BY <1>1, <2>1, <2>2, <2>3, <2>4, <2>5, <2>6, <2>7 DEF PurchaseStep
<1>2. CASE ExpireTheTnx \/ MonitorStripePending
  BY <1>2 DEF ExpireTheTnx, MonitorStripePending
<1>3. ASSUME NEW v \in Verifiers, VerifyStep(v) PROVE PaidEvidence'
  <2>1. ASSUME NEW t \in Tnxs, VerifyAsksStripe(v, t) PROVE PaidEvidence'
    BY <2>1, VerifiersAssumption DEF VerifyAsksStripe
  <2>2. CASE VerifiedPaid(v)
    BY <2>2 DEF VerifiedPaid, EndVerify
  <2>3. CASE VerifiedOverdue(v)
    BY <2>3 DEF VerifiedOverdue, FailAndCancel, EndVerify
  <2>4. CASE VerifyEnds(v)
    BY <2>4 DEF VerifyEnds, EndVerify
  <2> QED
    BY <1>3, <2>1, <2>2, <2>3, <2>4 DEF VerifyStep
<1> QED
  BY <1>1, <1>2, <1>3 DEF CheckoutStep

\* The checkout half cancels an unpaid purchase at most, and takes no payment away.
LEMMA CheckoutPaidDescent ==
  ASSUME PipelineTypeOK, PaidDescent, CheckoutHalf
  PROVE  PaidDescent'
<1>1. PaidEvidence'
  BY CheckoutPaidEvidence DEF PaidDescent, CheckoutHalf
<1>2. \A t \in Tnxs : Paid(t) => Paid(t)'
  BY PaidIsForever DEF PaidDescent, CheckoutHalf
<1>3. \A t \in Tnxs : tokenSendStatus'[t] \in {tokenSendStatus[t], "cancelled"}
  <2>1. CASE CheckoutSide
    BY <2>1 DEF CheckoutSide
  <2>2. CASE UNCHANGED payoutVars
    BY <2>2 DEF payoutVars, tnxVars
  <2> QED
    BY <2>1, <2>2, CheckoutHalfIsCheckoutSide
<1>4. UNCHANGED <<ethSendStatus, tokenSendRetryCount, attemptCount, waiting, delayed, wTnx,
                  mTnx, tokensOut, gasOut>>
  BY DEF CheckoutHalf, payoutOnlyVars, queueVars, workerVars, monitorVars, chainVars
<1>5. PaidHolders'
  BY <1>2, <1>4 DEF PipelineTypeOK, TypeOK, PaidDescent, PaidHolders
<1>6. UnpaidIsUntouched'
  BY <1>2, <1>3, <1>4 DEF PaidDescent, UnpaidIsUntouched, Paid
<1> QED
  BY <1>1, <1>5, <1>6 DEF PaidDescent

\* The payout half acts only on purchases that are settled, queued or held: paid ones.
LEMMA PayoutPaidDescent ==
  ASSUME PipelineTypeOK, PaidDescent, PayoutHalf
  PROVE  PaidDescent'
<1> USE NoTnxAssumption
        DEF PipelineTypeOK, TypeOK, TnxTypeOK, PaidHolders, UnpaidIsUntouched, Paid,
            tnxVars, queueVars, workerVars, monitorVars, chainVars, SetToken, SetEth
<1>1. PaidEvidence'
  <2>1. UNCHANGED checkoutOnlyVars
    BY DEF PayoutHalf
  <2>2. UNCHANGED statusStripe
    BY DEF PayoutHalf, PayoutStep, MonitorStep, MonitorFault, MonitorFind, MonitorAddJob,
           MonitorSyncFails, MonitorMarkToken, MonitorMarkEth, MonitorMarkFails, MonitorDies,
           MarkFailed, CronStep, CronRetryToken, CronRetryGas, Promote, TakeJob, JobStep,
           NativePriceFails, StartToken, SkipToken, TransferToken, TokenConfirmed, TokenFails,
           StartGas, SkipGas, TransferGas, GasConfirmed, GasFails, ReadRetryCount, CountRetry,
           Requeue, GiveUp, JobFault, FailureUnwritten, OuterCatch, JobFails
  <2> QED
    BY <2>1, <2>2 DEF PaidDescent, PaidEvidence, Settled, checkoutOnlyVars
<1>2. UNCHANGED session
  BY DEF PayoutHalf, checkoutOnlyVars
<1>3. ASSUME NEW m \in Monitors, MonitorStep(m) \/ MonitorFault(m)
      PROVE  PaidHolders' /\ UnpaidIsUntouched'
  <2>1. CASE MonitorFind(m)
    <3>1. PICK t \in Tnxs : Settled(t) /\ mTnx' = [mTnx EXCEPT ![m] = t]
      BY <2>1 DEF MonitorFind, NewestAwaiting, AwaitsPayout
    <3>2. session[t] = "paid"
      BY <3>1 DEF PaidDescent, PaidEvidence
    <3>3. UNCHANGED <<tnxVars, queueVars, workerVars, chainVars>>
      BY <2>1 DEF MonitorFind
    <3> QED
      BY <1>2, <3>1, <3>2, <3>3 DEF PaidDescent
  <2>2. CASE MonitorAddJob(m)
    BY <1>2, <2>2 DEF PaidDescent, MonitorAddJob
  <2>3. CASE MonitorSyncFails(m) \/ MonitorMarkFails(m)
    BY <1>2, <2>3 DEF PaidDescent, MonitorSyncFails, MonitorMarkFails, MarkFailed, EndTick
  <2>4. CASE MonitorMarkToken(m) \/ MonitorMarkEth(m) \/ MonitorDies(m)
    BY <1>2, <2>4 DEF PaidDescent, MonitorMarkToken, MonitorMarkEth, MonitorDies, EndTick
  <2> QED
    BY <1>3, <2>1, <2>2, <2>3, <2>4 DEF MonitorStep, MonitorFault
<1>4. CASE CronStep
  <2>1. \A t \in Tnxs : ~Paid(t) => ~Settled(t)
    BY DEF PaidDescent, PaidEvidence
  <2>2. PaidHolders'
    BY <1>2, <1>4 DEF PaidDescent, CronStep, CronRetryToken, CronRetryGas
  <2>3. UnpaidIsUntouched'
    BY <1>2, <1>4, <2>1
    DEF PaidDescent, CronStep, CronRetryToken, CronRetryGas, TokenRetryable, GasRetryable
  <2> QED
    BY <1>1, <2>2, <2>3 DEF PaidDescent
<1>5. ASSUME NEW t \in Tnxs, Promote(t) PROVE PaidHolders' /\ UnpaidIsUntouched'
  BY <1>2, <1>5 DEF PaidDescent, Promote
<1>6. ASSUME NEW w \in Workers, NEW t \in Tnxs, TakeJob(w, t)
      PROVE  PaidHolders' /\ UnpaidIsUntouched'
  BY <1>2, <1>6 DEF PaidDescent, TakeJob
<1>7. ASSUME NEW w \in Workers, JobStep(w) \/ JobFault(w)
      PROVE  PaidHolders' /\ UnpaidIsUntouched'
  <2> USE DEF PaidDescent, Goto, SameJob, EnterCatch, EndJob, IncRetryCount, IncAttemptCount
  <2>1. CASE NativePriceFails(w) \/ SkipToken(w) \/ ReadRetryCount(w)
    BY <1>2, <2>1 DEF NativePriceFails, SkipToken, ReadRetryCount
  <2>2. CASE StartToken(w) \/ TokenConfirmed(w) \/ TokenFails(w)
    BY <1>2, <2>2 DEF StartToken, TokenConfirmed, TokenFails
  <2>3. CASE TransferToken(w) \/ TransferGas(w)
    BY <1>2, <2>3 DEF TransferToken, TransferGas
  <2>4. CASE StartGas(w) \/ SkipGas(w) \/ GasConfirmed(w) \/ GasFails(w)
    BY <1>2, <2>4 DEF StartGas, SkipGas, GasConfirmed, GasFails
  <2>5. CASE CountRetry(w) \/ Requeue(w) \/ GiveUp(w)
    BY <1>2, <2>5 DEF CountRetry, Requeue, GiveUp
  <2>6. CASE FailureUnwritten(w) \/ OuterCatch(w) \/ JobFails(w)
    BY <1>2, <2>6 DEF FailureUnwritten, OuterCatch, JobFails
  <2> QED
    BY <1>7, <2>1, <2>2, <2>3, <2>4, <2>5, <2>6 DEF JobStep, JobFault
<1> QED
  BY <1>1, <1>3, <1>4, <1>5, <1>6, <1>7 DEF PaidDescent, PayoutHalf, PayoutStep

\* A restart queues again only jobs that workers held.
LEMMA RestartPaidDescent ==
  ASSUME PipelineTypeOK, PaidDescent, ProcessRestart
  PROVE  PaidDescent'
<1> PICK R \in SUBSET {w \in Workers : wpc[w] # "idle"} :
      waiting' = [t \in Tnxs |-> waiting[t] + Stalled(R, t)]
  BY DEF ProcessRestart, Restart, PayoutRestart
<1>1. ASSUME NEW t \in Tnxs, ~Paid(t) PROVE Stalled(R, t) = 0
  <2>1. {w \in R : wTnx[w] = t} = {}
    BY <1>1, NoTnxAssumption DEF PaidDescent, PaidHolders
  <2> QED
    BY <2>1, FS_EmptySet DEF Stalled
<1>2. UNCHANGED <<tnxVars, chainVars, session, events>>
  BY DEF ProcessRestart, Restart, PayoutRestart, CheckoutRestart
<1>3. PaidEvidence'
  BY <1>2
  DEF PaidDescent, PaidEvidence, Paid, Settled, tnxVars, ProcessRestart, CheckoutRestart,
      PipelineTypeOK, CheckoutTypeOK
<1>4. PaidHolders'
  BY DEF PaidHolders, ProcessRestart, Restart, PayoutRestart
<1>5. UnpaidIsUntouched'
  BY <1>1, <1>2
  DEF PaidDescent, UnpaidIsUntouched, Paid, tnxVars, chainVars, ProcessRestart, Restart,
      PayoutRestart
<1> QED
  BY <1>3, <1>4, <1>5 DEF PaidDescent

\* Every link between a payment and its payout is sound, always.
THEOREM PaidDescentHolds == PipelineSpec => []PaidDescent
<1>1. ASSUME PipelineTypeOK, PaidDescent, [PipelineNext]_vars PROVE PaidDescent'
  <2>1. CASE UNCHANGED vars
    BY <1>1, <2>1
    DEF PaidDescent, PaidEvidence, PaidHolders, UnpaidIsUntouched, Paid, Settled, vars,
        checkoutOnlyVars, payoutVars, payoutOnlyVars, tnxVars, queueVars, workerVars,
        monitorVars, chainVars
  <2> QED
    BY <1>1, <2>1, CheckoutPaidDescent, PayoutPaidDescent, RestartPaidDescent
    DEF PipelineNext
<1> QED
  BY <1>1, InitPaidDescent, PipelineTypesHold, PTL DEF PipelineSpec

\* The payout half never touches a purchase whose buyer did not pay.
THEOREM UnpaidIsUntouchedHolds == PipelineSpec => []UnpaidIsUntouched
<1>1. PaidDescent => UnpaidIsUntouched
  BY DEF PaidDescent
<1> QED
  BY <1>1, PaidDescentHolds, PTL

-----------------------------------------------------------------------------
(***************************************************************************)
(* 'failed' cancels.  The invariant is inductive with the types: whatever  *)
(* overwrites the 'cancelled' of a failed purchase, only the cron stores   *)
(* 'not_sent', and only in settled documents.                              *)
(***************************************************************************)

\* A step of the payout half makes no token leg 'not_sent' unless the document is settled.
LEMMA PayoutFailedIsCancelled ==
  ASSUME TypeOK, FailedIsCancelled, PayoutStep
  PROVE  FailedIsCancelled'
<1> USE DEF TypeOK, TnxTypeOK, FailedIsCancelled, SetToken, SetEth, tnxVars
<1>1. ASSUME NEW m \in Monitors, MonitorStep(m) \/ MonitorFault(m) PROVE FailedIsCancelled'
  BY <1>1
  DEF MonitorStep, MonitorFault, MonitorFind, MonitorAddJob, MonitorSyncFails,
      MonitorMarkToken, MonitorMarkEth, MonitorMarkFails, MonitorDies, MarkFailed
<1>2. CASE CronStep
  BY <1>2 DEF CronStep, CronRetryToken, CronRetryGas, TokenRetryable, Settled
<1>3. CASE \/ \E t \in Tnxs : Promote(t)
           \/ \E w \in Workers, t \in Tnxs : TakeJob(w, t)
  BY <1>3 DEF Promote, TakeJob
<1>4. ASSUME NEW w \in Workers, JobStep(w) \/ JobFault(w) PROVE FailedIsCancelled'
  <2>1. CASE \/ StartToken(w) \/ TokenConfirmed(w) \/ TokenFails(w) \/ GiveUp(w)
             \/ OuterCatch(w)
    BY <2>1 DEF StartToken, TokenConfirmed, TokenFails, GiveUp, OuterCatch
  <2>2. CASE ~ \/ StartToken(w) \/ TokenConfirmed(w) \/ TokenFails(w) \/ GiveUp(w)
               \/ OuterCatch(w)
    <3>1. UNCHANGED <<statusStripe, tokenSendStatus>>
      BY <1>4, <2>2
      DEF JobStep, JobFault, NativePriceFails, SkipToken, TransferToken, StartGas, SkipGas,
          TransferGas, GasConfirmed, GasFails, ReadRetryCount, CountRetry, Requeue,
          FailureUnwritten, JobFails
    <3> QED
      BY <3>1
  <2> QED
    BY <2>1, <2>2
<1> QED
  BY <1>1, <1>2, <1>3, <1>4 DEF PayoutStep

\* A purchase marked 'failed' is out of the reach of every query for 'not_sent' tokens.
THEOREM FailedIsCancelledHolds == PipelineSpec => []FailedIsCancelled
<1>1. PipelineInit => FailedIsCancelled
  BY DEF PipelineInit, Init, TnxInit, FailedIsCancelled
<1>2. ASSUME PipelineTypeOK, FailedIsCancelled, [PipelineNext]_vars PROVE FailedIsCancelled'
  <2>1. TypeOK /\ [Next]_payoutVars
    BY <1>2, PipelineStepIsPayoutStep DEF PipelineTypeOK
  <2>2. CASE CheckoutSide
    BY <1>2, <2>2 DEF PipelineTypeOK, TypeOK, TnxTypeOK, CheckoutSide, FailedIsCancelled
  <2>3. CASE Restart \/ UNCHANGED payoutVars
    BY <1>2, <2>3 DEF Restart, payoutVars, tnxVars, FailedIsCancelled
  <2> QED
    BY <1>2, <2>1, <2>2, <2>3, PayoutFailedIsCancelled DEF Next
<1> QED
  BY <1>1, <1>2, PipelineTypesHold, PTL DEF PipelineSpec

-----------------------------------------------------------------------------
(***************************************************************************)
(* The sale.  A charge is Stripe's, a delivery the chain's: every step of  *)
(* the pipeline is one of DpaySale or a stutter.  Deliveries need a        *)
(* charge because workers hold paid purchases (PaidDescent), gifts need a  *)
(* delivery because a worker at the gas leg knows of one (PaidKnowledge).  *)
(***************************************************************************)

\* The checkout half delivers and gives nothing, and a buyer pays once.
LEMMA CheckoutHalfKeepsSale ==
  ASSUME PipelineTypeOK, PaidDescent, CheckoutHalf
  PROVE  [Sale!Next]_(Sale!vars)
<1> USE DEF PipelineTypeOK, CheckoutTypeOK, checkoutOnlyVars
<1>1. UNCHANGED <<tokensOut, gasOut>>
  BY DEF CheckoutHalf, payoutOnlyVars, chainVars
<1>2. ASSUME NEW t \in Tnxs, BuyerPays(t) PROVE Sale!Charge(t)
  <2>1. session' = [session EXCEPT ![t] = "paid"] /\ session[t] = "open"
    BY <1>2 DEF BuyerPays, PayableAt
  <2>2. {u \in Tnxs : session'[u] = "paid"} = {u \in Tnxs : session[u] = "paid"} \union {t}
    BY <2>1
  <2> QED
    BY <1>1, <2>1, <2>2 DEF Sale!Charge
<1>3. CASE ~ \E t \in Tnxs : BuyerPays(t)
  <2>1. \A t \in Tnxs : session'[t] = "paid" => session[t] = "paid"
    <3>1. ASSUME NEW u \in Tnxs, PurchaseStep(u), NEW t \in Tnxs, session'[t] = "paid"
          PROVE  session[t] = "paid"
      BY <1>3, <3>1
      DEF PurchaseStep, Checkout, CreateStripeSession, SaveSession, CheckoutFails,
          CardDeclined, SessionCloses, TimePasses, HandlePaymentIntentSucceeded,
          HandlePaymentIntentFailed, HandleCheckoutSessionCompleted
    <3>2. ASSUME NEW v \in Verifiers, VerifyStep(v) PROVE UNCHANGED session
      BY <3>2
      DEF VerifyStep, VerifyAsksStripe, VerifiedPaid, VerifiedOverdue, VerifyEnds, EndVerify
    <3> QED
      BY <3>1, <3>2 DEF CheckoutHalf, CheckoutStep, ExpireTheTnx, MonitorStripePending
  <2>2. \A t \in Tnxs : session[t] = "paid" => session'[t] = "paid"
    BY PaidIsForever DEF PaidDescent, Paid, CheckoutHalf
  <2>3. {t \in Tnxs : session'[t] = "paid"} = {t \in Tnxs : session[t] = "paid"}
    BY <2>1, <2>2
  <2> QED
    BY <1>1, <2>3 DEF Sale!vars
<1> QED
  BY <1>2, <1>3 DEF Sale!Next

\* The payout half charges no one, delivers to the charged, and gives behind a delivery.
LEMMA PayoutHalfKeepsSale ==
  ASSUME PipelineTypeOK, PaidDescent, PaidKnowledge, PayoutHalf
  PROVE  [Sale!Next]_(Sale!vars)
<1>1. UNCHANGED session
  BY DEF PayoutHalf, checkoutOnlyVars
<1>2. ASSUME NEW w \in Workers, TransferToken(w) PROVE Sale!Next
  <2>1. wTnx[w] \in Tnxs /\ session[wTnx[w]] = "paid"
    BY <1>2 DEF TransferToken, PipelineTypeOK, TypeOK, PaidDescent, PaidHolders, Paid
  <2>2. Sale!Deliver(wTnx[w])
    BY <1>1, <1>2, <2>1 DEF TransferToken, Sale!Deliver
  <2> QED
    BY <2>1, <2>2 DEF Sale!Next
<1>3. ASSUME NEW w \in Workers, TransferGas(w) PROVE Sale!Next
  <2>1. wTnx[w] \in Tnxs /\ tokensOut[wTnx[w]] > 0
    BY <1>3 DEF TransferGas, PipelineTypeOK, TypeOK, PaidKnowledge
  <2>2. Sale!Gift(wTnx[w])
    BY <1>1, <1>3, <2>1 DEF TransferGas, Sale!Gift
  <2> QED
    BY <2>1, <2>2 DEF Sale!Next
<1>4. CASE ~ \E w \in Workers : TransferToken(w) \/ TransferGas(w)
  <2>1. UNCHANGED chainVars
    BY <1>4
    DEF PayoutHalf, PayoutStep, MonitorStep, MonitorFault, MonitorFind, MonitorAddJob,
        MonitorSyncFails, MonitorMarkToken, MonitorMarkEth, MonitorMarkFails, MonitorDies,
        MarkFailed, CronStep, CronRetryToken, CronRetryGas, Promote, TakeJob, JobStep,
        NativePriceFails, StartToken, SkipToken, TokenConfirmed, TokenFails, StartGas,
        SkipGas, GasConfirmed, GasFails, ReadRetryCount, CountRetry, Requeue, GiveUp,
        JobFault, FailureUnwritten, OuterCatch, JobFails
  <2> QED
    BY <1>1, <2>1 DEF chainVars, Sale!vars
<1> QED
  BY <1>2, <1>3, <1>4

\* The pipeline keeps the promise of the sale: buyers are charged once, tokens go only to
\* buyers who were charged, and gas only behind tokens.
THEOREM PipelineKeepsSale == PipelineSpec => SaleSpec
<1>1. PipelineInit => Sale!Init
  BY DEF PipelineInit, CheckoutInit, Init, PayoutInit, Sale!Init
<1>2. ASSUME PipelineTypeOK, PaidDescent, PaidKnowledge, [PipelineNext]_vars
      PROVE  [Sale!Next]_(Sale!vars)
  <2>1. CASE ProcessRestart \/ UNCHANGED vars
    BY <2>1
    DEF ProcessRestart, Restart, PayoutRestart, CheckoutRestart, vars, checkoutOnlyVars,
        payoutVars, payoutOnlyVars, chainVars, Sale!vars
  <2> QED
    BY <1>2, <2>1, CheckoutHalfKeepsSale, PayoutHalfKeepsSale DEF PipelineNext
<1>3. PipelineSpec => []PaidKnowledge
  BY PipelineImplementsPayout, PaidKnowledgeHolds
<1> QED
  BY <1>1, <1>2, <1>3, PipelineTypesHold, PaidDescentHolds, PTL
  DEF PipelineSpec, SaleSpec, Sale!Spec

=============================================================================
