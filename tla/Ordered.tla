-------------------------------- MODULE Ordered --------------------------------
(***************************************************************************)
(* Lists as the database makes them: documents in the order of a $sort,    *)
(* and the items of an array that a $match or a $pull leaves.  They stand  *)
(* for SelectSeq and SortSeq, which the proof system cannot look into.     *)
(***************************************************************************)
EXTENDS Integers, Sequences, FiniteSets

\* The members of S as R orders them: the n-th has n - 1 of them before it.
InOrder(S, R) ==
  [n \in 1 .. Cardinality(S) |->
     CHOOSE x \in S : Cardinality({y \in S : <<y, x>> \in R}) = n - 1]

\* The items of s that are in S, in their order.
Those(s, S) ==
  LET its == {i \in DOMAIN s : s[i] \in S}
      order == InOrder(its, {e \in its \X its : e[1] < e[2]})
  IN [n \in 1 .. Cardinality(its) |-> s[order[n]]]
=============================================================================
