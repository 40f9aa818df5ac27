---------------------------- MODULE MCLiveViewers ----------------------------
(***************************************************************************)
(* TLC instances of LiveViewers.  Accounts are interchangeable, and so are *)
(* the slots of handlers.                                                  *)
(***************************************************************************)
EXTENDS LiveViewers, TLC

Symmetry == Permutations(Addresses) \union Permutations(Tasks)
=============================================================================
