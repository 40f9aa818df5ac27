\* Two accounts, two handlers in flight, one failure or restart.
SPECIFICATION Spec
CONSTANTS
  Addresses = {a1, a2}
  Tasks = {t1, t2}
  NoAddress = none
  MaxRequests = 4
  MaxFaults = 1
SYMMETRY Symmetry
INVARIANT TypeOK
INVARIANT DuplicatesAreBounded
INVARIANT ViewsAreEntries
