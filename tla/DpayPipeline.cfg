\* One purchase from its checkout to its payout, one process restart.
SPECIFICATION PipelineSpec
CONSTANTS
  Tnxs = {1}
  Workers = {w1}
  Monitors = {m1}
  Verifiers = {v1}
  NoTnx = none
  NoJob = none
  MaxRetries = 1
  CheckoutStatuses = {"init", "pending", "succeeded", "complete", "failed", "expired", "requires_payment_method"}
  MaxJobs = 1
  MaxAttempts = 1
  FaultKinds = {"restart"}
  MaxFaults = 1
  MaxVerifyJobs = 1
INVARIANT PipelineTypeOK
INVARIANT UnpaidIsUntouched
INVARIANT FailedIsCancelled
PROPERTY SaleSpec
