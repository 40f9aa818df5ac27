\* Three sockets of one account: the third reconnects after the others left.
SPECIFICATION Spec
CONSTANTS
  Addresses = {a1}
  Sockets = {c1, c2, c3}
  Owner <- OneOwner
  Tasks = {t1, t2}
  NoSock = none
PROPERTY ReconnectClearsTimers
