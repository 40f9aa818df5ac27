\* One worker, one tick at a time, the code's MAX_RETRIES, no faults.
SPECIFICATION FairSpec
CONSTANTS
  Tnxs = {1}
  Workers = {w1}
  Monitors = {m1}
  NoTnx = none
  MaxRetries = 3
  CheckoutStatuses = {"succeeded", "failed"}
  MaxJobs = 2
  MaxAttempts = 3
  FaultKinds = {}
  MaxFaults = 0
PROPERTY PayoutCompletes
