\* One account, one join, no failures.
SPECIFICATION Spec
CONSTANTS
  Addresses = {a1}
  Tasks = {t1}
  NoAddress = none
  MaxRequests = 1
  MaxFaults = 0
INVARIANT CountedOnce
