\* Two sockets of one account, two handlers in flight.
SPECIFICATION FairSpec
CONSTANTS
  Addresses = {a1}
  Sockets = {c1, c2}
  Owner <- OneOwner
  Tasks = {t1, t2}
  NoSock = none
INVARIANT TypeOK
INVARIANT TimerEntriesAreLive
PROPERTY HeartbeatsRetrack
