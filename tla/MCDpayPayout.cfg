\* Two jobs of one purchase side by side, a tick of the monitor, one fault.
SPECIFICATION Spec
CONSTANTS
  Tnxs = {1}
  Workers = {w1, w2}
  Monitors = {m1}
  NoTnx = none
  MaxRetries = 1
  CheckoutStatuses = {"succeeded", "failed"}
  MaxJobs = 1
  MaxAttempts = 1
  FaultKinds = {"restart", "outage"}
  MaxFaults = 1
SYMMETRY Symmetry
INVARIANT TypeOK
INVARIANT SentMeansPaid
INVARIANT AttemptsCoverPayouts
INVARIANT SendingIsOwned
