-------------------------- MODULE MCLiveConnections --------------------------
(***************************************************************************)
(* TLC instances of LiveConnections: every socket belongs to one account.  *)
(***************************************************************************)
EXTENDS LiveConnections

OneOwner == [c \in Sockets |-> CHOOSE a \in Addresses : TRUE]
=============================================================================
