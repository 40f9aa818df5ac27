---------------------------- MODULE MCDpayPayout ----------------------------
(***************************************************************************)
(* TLC instances of DpayPayout.  Workers and ticks are interchangeable.    *)
(***************************************************************************)
EXTENDS DpayPayout, TLC

Symmetry == Permutations(Workers) \union Permutations(Monitors)
=============================================================================
