------------------------------- MODULE DpaySale -------------------------------
(***************************************************************************)
(* What DPay promises about a sale, without saying how: a buyer is charged *)
(* once, tokens are delivered only to buyers who were charged, and the gas *)
(* gift only after tokens.  Delivery is not bounded: the code does not     *)
(* deliver at most once.                                                   *)
(***************************************************************************)
EXTENDS Naturals

CONSTANT Tnxs

VARIABLES
  charged,    \* the purchases whose buyers paid
  delivered,  \* how often the tokens of each purchase were delivered
  gifted      \* the purchases whose gas was delivered

vars == <<charged, delivered, gifted>>

Init ==
  /\ charged = {}
  /\ delivered = [t \in Tnxs |-> 0]
  /\ gifted = {}

Charge(t) ==
  /\ t \notin charged
  /\ charged' = charged \union {t}
  /\ UNCHANGED <<delivered, gifted>>

Deliver(t) ==
  /\ t \in charged
  /\ delivered' = [delivered EXCEPT ![t] = @ + 1]
  /\ UNCHANGED <<charged, gifted>>

Gift(t) ==
  /\ delivered[t] > 0
  /\ gifted' = gifted \union {t}
  /\ UNCHANGED <<charged, delivered>>

Next == \E t \in Tnxs : Charge(t) \/ Deliver(t) \/ Gift(t)

Spec == Init /\ [][Next]_vars
=============================================================================
