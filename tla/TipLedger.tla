------------------------------- MODULE TipLedger -------------------------------
(***************************************************************************)
(* Tips on a post: requestTip and requestTipFunc of reaction.service.ts    *)
(* over the balances, tokens and rewards collections.                      *)
(*                                                                         *)
(* A tip is one HTTP request.  Every awaited call is a step of its own:    *)
(* nothing holds the five documents together, so tips interleave, and a    *)
(* call that throws (or a process that stops) leaves a tip half booked.    *)
(***************************************************************************)
EXTENDS BackendIds, Functions

CONSTANTS
  Tips,       \* bound: the requests ever made
  Amounts,    \* the amounts isValidTipAmount accepts
  Deposit     \* what an account with a balance document starts with

ASSUME AmountsAssumption == Amounts \subseteq Nat \ {0}
ASSUME DepositAssumption == Deposit \in Nat
ASSUME TipsAssumption == IsFiniteSet(Tips)

VARIABLES
  owner,      \* Token.owner, missing until the chain indexer has seen the mint
  holders,    \* the accounts that have a balance document
  balance,    \* Balance.balance
  sentTips,   \* Balance.sentTips
  paidTips,   \* Balance.paidTips
  rewards,    \* the sum of the tip rewards of each post
  totalTips,  \* Token.totalTips
  tip         \* the requests

ledgerVars == <<holders, balance, sentTips, paidTips, rewards, totalTips>>
tipVars == <<owner, ledgerVars, tip>>

\* rival: the balance was checked while another tip of the sender had been
\* checked and not debited.  moved: what has left the sender and has not
\* arrived anywhere.
Tip ==
  [pc : {"new", "balance", "debit", "credit", "reward", "total", "notify",
         "done", "failed"},
   from : Users \union {None}, post : Posts \union {None},
   to : Users \union {None}, amount : Amounts \union {0},
   rival : BOOLEAN, moved : Nat]

NewTip == [pc |-> "new", from |-> None, post |-> None, to |-> None,
           amount |-> 0, rival |-> FALSE, moved |-> 0]

TipTypeOK ==
  /\ owner \in [Posts -> Users \union {None}]
  /\ holders \in SUBSET Users
  /\ balance \in [Users -> Int]
  /\ sentTips \in [Users -> Nat] /\ paidTips \in [Users -> Nat]
  /\ rewards \in [Posts -> Nat] /\ totalTips \in [Posts -> Nat]
  /\ tip \in [Tips -> Tip]
  /\ \A t \in Tips : tip[t].pc # "new" => tip[t].from \in Users /\ tip[t].post \in Posts
  /\ \A t \in Tips : tip[t].pc \in {"debit", "credit", "reward", "total"} => tip[t].to \in Users

TipInit ==
  /\ owner \in [Posts -> Users \union {None}]
  /\ holders \in SUBSET Users
  /\ balance = [u \in Users |-> IF u \in holders THEN Deposit ELSE 0]
  /\ sentTips = [u \in Users |-> 0] /\ paidTips = [u \in Users |-> 0]
  /\ rewards = [p \in Posts |-> 0] /\ totalTips = [p \in Posts |-> 0]
  /\ tip = [t \in Tips |-> NewTip]

-----------------------------------------------------------------------------

TipAt(t, pc) == tip[t].pc = pc

TipGoto(t, pc) == tip' = [tip EXCEPT ![t].pc = pc]

\* The request: the amount is in range; the token is read here, and whoever
\* owns it now is paid, however late.
RequestTip(t, u, p, a) ==
  /\ TipAt(t, "new")
  /\ tip' = [tip EXCEPT ![t] = [NewTip EXCEPT !.pc = "balance", !.from = u, !.post = p,
                                              !.to = owner[p], !.amount = a]]
  /\ UNCHANGED <<owner, ledgerVars>>

CanPay(u, a) == u \in holders /\ balance[u] # 0 /\ balance[u] >= a

\* Another tip of the sender has been checked and not debited.
DebitDue(t) == \E s \in Tips \ {t} : tip[s].from = tip[t].from /\ TipAt(s, "debit")

HasPayee(t) == tip[t].to \notin {tip[t].from, None}

\* Slip: a balance of any size will do.
AnyVerdict(t) == IF HasPayee(t) THEN "debit" ELSE "notify"

\* A refused tip and a tip on a post without an owner move nothing, and the
\* owner is notified all the same.
Verdict(t) == IF CanPay(tip[t].from, tip[t].amount) /\ HasPayee(t) THEN "debit" ELSE "notify"

\* The checks on the balance that was read.
CheckBalance(t) ==
  /\ TipAt(t, "balance")
  /\ tip' = [tip EXCEPT ![t].pc = Verdict(t), ![t].rival = DebitDue(t)]
  /\ UNCHANGED <<owner, ledgerVars>>

\* Slip: the debit's filter asks for the balance, and nobody asks whether it
\* matched.
DebitIfCovered(t) ==
  LET me == tip[t] IN
  /\ TipAt(t, "debit")
  /\ balance' = [balance EXCEPT ![me.from] = IF @ >= me.amount THEN @ - me.amount ELSE @]
  /\ sentTips' = [sentTips EXCEPT ![me.from] = @ + me.amount]
  /\ tip' = [tip EXCEPT ![t].pc = "credit", ![t].moved = me.amount]
  /\ UNCHANGED <<owner, holders, paidTips, rewards, totalTips>>

Debit(t) ==
  LET me == tip[t] IN
  /\ TipAt(t, "debit")
  /\ balance' = [balance EXCEPT ![me.from] = @ - me.amount]
  /\ sentTips' = [sentTips EXCEPT ![me.from] = @ + me.amount]
  /\ tip' = [tip EXCEPT ![t].pc = "credit", ![t].moved = me.amount]
  /\ UNCHANGED <<owner, holders, paidTips, rewards, totalTips>>

\* The credit is not an upsert: an owner without a balance document gets
\* nothing, and the amount is gone.
Credit(t) ==
  LET me == tip[t]
      there == me.to \in holders
  IN /\ TipAt(t, "credit")
     /\ balance' = IF there THEN [balance EXCEPT ![me.to] = @ + me.amount] ELSE balance
     /\ paidTips' = IF there THEN [paidTips EXCEPT ![me.to] = @ + me.amount] ELSE paidTips
     /\ tip' = [tip EXCEPT ![t].pc = "reward", ![t].moved = IF there THEN 0 ELSE @]
     /\ UNCHANGED <<owner, holders, sentTips, rewards, totalTips>>

BookReward(t) ==
  /\ TipAt(t, "reward")
  /\ rewards' = [rewards EXCEPT ![tip[t].post] = @ + tip[t].amount]
  /\ TipGoto(t, "total")
  /\ UNCHANGED <<owner, holders, balance, sentTips, paidTips, totalTips>>

CountTip(t) ==
  /\ TipAt(t, "total")
  /\ totalTips' = [totalTips EXCEPT ![tip[t].post] = @ + tip[t].amount]
  /\ TipGoto(t, "notify")
  /\ UNCHANGED <<owner, holders, balance, sentTips, paidTips, rewards>>

NotifyOwner(t) ==
  /\ TipAt(t, "notify")
  /\ TipGoto(t, "done")
  /\ UNCHANGED <<owner, ledgerVars>>

\* Any call may throw: the request answers 500 and nothing is undone.
TipFails(t) ==
  /\ tip[t].pc \notin {"new", "done", "failed"}
  /\ TipGoto(t, "failed")
  /\ UNCHANGED <<owner, ledgerVars>>

\* The chain indexer writes a new owner.
OwnerChanges(p, u) ==
  /\ owner[p] # u
  /\ owner' = [owner EXCEPT ![p] = u]
  /\ UNCHANGED <<ledgerVars, tip>>

TipNext ==
  \/ \E t \in Tips :
       \/ \E u \in Users, p \in Posts, a \in Amounts : RequestTip(t, u, p, a)
       \/ CheckBalance(t)
       \/ Debit(t)
       \/ Credit(t)
       \/ BookReward(t)
       \/ CountTip(t)
       \/ NotifyOwner(t)
       \/ TipFails(t)
  \/ \E p \in Posts, u \in Users : OwnerChanges(p, u)

TipSpec == TipInit /\ [][TipNext]_tipVars

-----------------------------------------------------------------------------

(***************************************************************************)
(* A balance below zero takes two tips of the same sender of which one was *)
(* checked between the other's check and its debit (reaction.service.ts,   *)
(* requestTipFunc reads the balance and debits it in two calls).           *)
(***************************************************************************)
OverdraftNeedsOverlap ==
  \A u \in Users : balance[u] < 0 => \E t \in Tips : tip[t].from = u /\ tip[t].rival

(***************************************************************************)
(* Tips create no money and lose it only where a record says so: what all  *)
(* balances hold and what is on its way, stranded by a failure between     *)
(* debit and credit, or sent to an owner without a balance document, is    *)
(* what was deposited.  And a failure only cuts the tail off a tip: a post *)
(* counts no tip that its rewards do not show, and nothing is rewarded or  *)
(* credited that no sender has paid.                                       *)
(***************************************************************************)
TipsConserved ==
  LET moved == [t \in Tips |-> tip[t].moved] IN
  /\ SumFunction(balance) + SumFunction(moved) = Deposit * Cardinality(holders)
  /\ SumFunction(totalTips) <= SumFunction(rewards)
  /\ SumFunction(rewards) <= SumFunction(sentTips)
  /\ SumFunction(paidTips) <= SumFunction(sentTips)
=============================================================================
