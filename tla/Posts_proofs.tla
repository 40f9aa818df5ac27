------------------------------ MODULE Posts_proofs ------------------------------
(***************************************************************************)
(* Proofs about the components around posts: the ledger of tips, votes and *)
(* comments, subscriptions, the pictures of posts, their records and       *)
(* lists.  They hold for any number of accounts, posts and requests.       *)
(*                                                                         *)
(* Last, the instance MCContent, which holds these components, the indexer *)
(* and the media: it behaves as each of them, so that it has all of their  *)
(* properties.                                                             *)
(***************************************************************************)
EXTENDS MCContent, Background_proofs, Media_proofs, Data_proofs, TLAPS

-----------------------------------------------------------------------------
(***************************************************************************)
(* Tips.                                                                   *)
(***************************************************************************)

\* The request t becomes q, and the others stay what they are.
Becomes(t, q) ==
  /\ q \in Tip
  /\ tip' = [tip EXCEPT ![t] = q]

\* A check of the balance ends with one of two verdicts.
LEMMA CheckOutcome ==
  ASSUME TipTypeOK, NEW t \in Tips, CheckBalance(t)
  PROVE  \E q \in Tip :
           /\ Becomes(t, q)
           /\ q.pc \in {"debit", "notify"}
           /\ q.pc = "debit" => HasPayee(t) /\ CanPay(tip[t].from, tip[t].amount)
           /\ q.from = tip[t].from /\ q.post = tip[t].post /\ q.to = tip[t].to
           /\ q.amount = tip[t].amount
           /\ q.rival = DebitDue(t)
<1> DEFINE pc == Verdict(t)
           rival == DebitDue(t)
           q == [tip[t] EXCEPT !.pc = pc, !.rival = rival]
<1>1. /\ pc \in {"debit", "notify"}
      /\ pc = "debit" => HasPayee(t) /\ CanPay(tip[t].from, tip[t].amount)
  BY DEF Verdict
<1>2. rival \in BOOLEAN
  BY DEF DebitDue
<1>3. tip' = [tip EXCEPT ![t] = q]
  BY Zenon DEF CheckBalance
<1> HIDE DEF pc, rival
<1>4. q \in Tip
  BY <1>1, <1>2, AmountsAssumption DEF TipTypeOK, Tip
<1>5. /\ q.pc = pc /\ q.rival = rival
      /\ q.from = tip[t].from /\ q.post = tip[t].post /\ q.to = tip[t].to
      /\ q.amount = tip[t].amount
  BY DEF TipTypeOK, Tip
<1> HIDE DEF q
<1>6. Becomes(t, q)
  BY <1>3, <1>4 DEF Becomes
<1> QED
  BY <1>1, <1>4, <1>5, <1>6 DEF rival

\* A debit and a credit move the amount and nothing else of the request.
Moves(t, pc, moved) == tip' = [tip EXCEPT ![t].pc = pc, ![t].moved = moved]

LEMMA MoneyMoves ==
  ASSUME TipTypeOK, NEW t \in Tips, NEW pc, NEW moved,
         pc \in {"credit", "reward"}, moved \in Nat,
         Moves(t, pc, moved)
  PROVE  \E q \in Tip :
           /\ Becomes(t, q)
           /\ q.pc = pc /\ q.moved = moved
           /\ q.from = tip[t].from /\ q.post = tip[t].post /\ q.to = tip[t].to
           /\ q.amount = tip[t].amount /\ q.rival = tip[t].rival
<1> DEFINE q == [tip[t] EXCEPT !.pc = pc, !.moved = moved]
<1>1. tip' = [tip EXCEPT ![t] = q]
  BY Zenon DEF Moves
<1>2. q \in Tip
  BY AmountsAssumption DEF TipTypeOK, Tip
<1>3. /\ q.pc = pc /\ q.moved = moved
      /\ q.from = tip[t].from /\ q.post = tip[t].post /\ q.to = tip[t].to
      /\ q.amount = tip[t].amount /\ q.rival = tip[t].rival
  BY DEF TipTypeOK, Tip
<1> HIDE DEF q
<1> QED
  BY <1>1, <1>2, <1>3 DEF Becomes

\* What the requests are after one of them has become another.
LEMMA OthersStay ==
  ASSUME TipTypeOK, NEW t \in Tips, NEW q, Becomes(t, q)
  PROVE  /\ tip' \in [Tips -> Tip] /\ tip'[t] = q
         /\ \A s \in Tips : s # t => tip'[s] = tip[s]
  BY DEF TipTypeOK, Becomes

\* A request that has its sender, its post and its payee keeps the types.
LEMMA BecomesTypeOK ==
  ASSUME TipTypeOK, NEW t \in Tips, NEW q, Becomes(t, q),
         q.from \in Users, q.post \in Posts,
         q.pc \in {"debit", "credit", "reward", "total"} => q.to \in Users
  PROVE  /\ tip' \in [Tips -> Tip]
         /\ \A s \in Tips : tip'[s].pc # "new" => tip'[s].from \in Users /\ tip'[s].post \in Posts
         /\ \A s \in Tips : tip'[s].pc \in {"debit", "credit", "reward", "total"} => tip'[s].to \in Users
  BY OthersStay DEF TipTypeOK

\* A check, a debit and a credit keep the types.
LEMMA CheckTypeOK ==
  ASSUME TipTypeOK, NEW t \in Tips, CheckBalance(t)
  PROVE  TipTypeOK'
<1>1. UNCHANGED <<owner, ledgerVars>> /\ tip[t].pc = "balance"
  BY DEF CheckBalance, TipAt
<1>2. PICK q \in Tip :
        /\ Becomes(t, q)
        /\ q.pc \in {"debit", "notify"} /\ (q.pc = "debit" => HasPayee(t))
        /\ q.from = tip[t].from /\ q.post = tip[t].post /\ q.to = tip[t].to
  BY CheckOutcome
<1>3. /\ q.from \in Users /\ q.post \in Posts
      /\ q.pc \in {"debit", "credit", "reward", "total"} => q.to \in Users
  BY <1>1, <1>2 DEF TipTypeOK, HasPayee, Tip
<1> QED
  BY <1>1, <1>2, <1>3, BecomesTypeOK DEF TipTypeOK, ledgerVars

LEMMA DebitTypeOK ==
  ASSUME TipTypeOK, NEW t \in Tips, Debit(t)
  PROVE  TipTypeOK'
<1>1. /\ tip[t].pc = "debit" /\ tip[t].amount \in Nat
      /\ tip[t].from \in Users /\ tip[t].post \in Posts /\ tip[t].to \in Users
  BY AmountsAssumption DEF Debit, TipAt, TipTypeOK, Tip
<1>2. /\ Moves(t, "credit", tip[t].amount)
      /\ balance' = [balance EXCEPT ![tip[t].from] = @ - tip[t].amount]
      /\ sentTips' = [sentTips EXCEPT ![tip[t].from] = @ + tip[t].amount]
      /\ UNCHANGED <<owner, holders, paidTips, rewards, totalTips>>
  BY Zenon DEF Debit, Moves
<1>3. PICK q \in Tip :
        /\ Becomes(t, q)
        /\ q.from = tip[t].from /\ q.post = tip[t].post /\ q.to = tip[t].to
  BY <1>1, <1>2, MoneyMoves
<1>4. balance' \in [Users -> Int] /\ sentTips' \in [Users -> Nat]
  BY <1>1, <1>2 DEF TipTypeOK
<1> QED
  BY <1>1, <1>2, <1>3, <1>4, BecomesTypeOK DEF TipTypeOK

LEMMA CreditTypeOK ==
  ASSUME TipTypeOK, NEW t \in Tips, Credit(t)
  PROVE  TipTypeOK'
<1> DEFINE moved == IF tip[t].to \in holders THEN 0 ELSE tip[t].moved
<1>1. /\ tip[t].pc = "credit" /\ tip[t].amount \in Nat /\ moved \in Nat
      /\ tip[t].from \in Users /\ tip[t].post \in Posts /\ tip[t].to \in Users
  BY AmountsAssumption DEF Credit, TipAt, TipTypeOK, Tip
<1>2. Moves(t, "reward", moved)
  BY Zenon DEF Credit, Moves
<1>3. balance' \in [Users -> Int] /\ paidTips' \in [Users -> Nat]
  BY <1>1 DEF Credit, TipTypeOK
<1> HIDE DEF moved
<1>4. PICK q \in Tip :
        /\ Becomes(t, q)
        /\ q.from = tip[t].from /\ q.post = tip[t].post /\ q.to = tip[t].to
  BY <1>1, <1>2, MoneyMoves
<1>5. UNCHANGED <<owner, holders, sentTips, rewards, totalTips>>
  BY DEF Credit
<1> QED
  BY <1>1, <1>3, <1>4, <1>5, BecomesTypeOK DEF TipTypeOK

\* Every step of a tip keeps the types.
LEMMA TipStepTypeOK ==
  ASSUME TipTypeOK, NEW t \in Tips,
         \/ \E u \in Users, p \in Posts, a \in Amounts : RequestTip(t, u, p, a)
         \/ CheckBalance(t) \/ Debit(t) \/ Credit(t) \/ BookReward(t) \/ CountTip(t)
         \/ NotifyOwner(t) \/ TipFails(t)
  PROVE  TipTypeOK'
<1> USE AmountsAssumption, UsersAssumption, PostsAssumption
        DEF TipTypeOK, ledgerVars, TipAt, TipGoto, Tip
<1>1. ASSUME NEW u \in Users, NEW p \in Posts, NEW a \in Amounts, RequestTip(t, u, p, a)
      PROVE  TipTypeOK'
  BY <1>1 DEF RequestTip, NewTip
<1>5. CASE BookReward(t)
  BY <1>5 DEF BookReward
<1>6. CASE CountTip(t)
  BY <1>6 DEF CountTip
<1>7. CASE NotifyOwner(t)
  BY <1>7 DEF NotifyOwner
<1>8. CASE TipFails(t)
  BY <1>8 DEF TipFails
<1> QED
  BY <1>1, CheckTypeOK, DebitTypeOK, CreditTypeOK, <1>5, <1>6, <1>7, <1>8

\* Balances, rewards and requests keep their types, and a tip that is on its way has a
\* sender, a post and somebody to pay.
THEOREM TipTypesHold == TipSpec => []TipTypeOK
<1>1. TipInit => TipTypeOK
  BY DepositAssumption, AmountsAssumption DEF TipInit, TipTypeOK, NewTip, Tip
<1>2. TipTypeOK /\ [TipNext]_tipVars => TipTypeOK'
  <2> SUFFICES ASSUME TipTypeOK, [TipNext]_tipVars PROVE TipTypeOK'
    OBVIOUS
  <2>1. CASE UNCHANGED tipVars
    BY <2>1 DEF TipTypeOK, tipVars, ledgerVars
  <2>2. ASSUME NEW p \in Posts, NEW u \in Users, OwnerChanges(p, u) PROVE TipTypeOK'
    BY <2>2 DEF OwnerChanges, TipTypeOK, ledgerVars
  <2> QED
    BY <2>1, <2>2, TipStepTypeOK DEF TipNext
<1> QED
  BY <1>1, <1>2, PTL DEF TipSpec

\* A sender's balance covers the debit that is due, of which there is one, until one of
\* his tips was checked between the check and the debit of another.
Doubtful(u) == \E t \in Tips : tip[t].from = u /\ tip[t].rival

DueIsCovered(u) ==
  /\ balance[u] >= 0
  /\ \A t \in Tips : tip[t].from = u /\ tip[t].pc = "debit" =>
       /\ balance[u] >= tip[t].amount
       /\ \A s \in Tips : tip[s].from = u /\ tip[s].pc = "debit" => s = t

Covered ==
  /\ \A t \in Tips : tip[t].pc \in {"new", "balance"} => ~tip[t].rival
  /\ \A u \in Users : Doubtful(u) \/ DueIsCovered(u)

LEMMA RequestCovered ==
  ASSUME TipTypeOK, Covered, NEW t \in Tips, NEW u \in Users, NEW p \in Posts, NEW a \in Amounts,
         RequestTip(t, u, p, a)
  PROVE  Covered'
<1> DEFINE q == [NewTip EXCEPT !.pc = "balance", !.from = u, !.post = p, !.to = owner[p], !.amount = a]
<1>1. /\ tip[t].pc = "new" /\ balance' = balance
      /\ tip' = [tip EXCEPT ![t] = q]
  BY DEF RequestTip, TipAt, ledgerVars
<1>2. q.pc = "balance" /\ q.rival = FALSE
  BY DEF NewTip
<1> HIDE DEF q
<1>3. tip'[t] = q /\ \A s \in Tips : s # t => tip'[s] = tip[s]
  BY <1>1 DEF TipTypeOK
<1> QED
  BY <1>1, <1>2, <1>3 DEF Covered, Doubtful, DueIsCovered

LEMMA CheckCovered ==
  ASSUME TipTypeOK, Covered, NEW t \in Tips, CheckBalance(t)
  PROVE  Covered'
<1>1. tip[t].pc = "balance" /\ balance' = balance
  BY DEF CheckBalance, TipAt, ledgerVars
<1>2. PICK q \in Tip :
        /\ Becomes(t, q)
        /\ q.pc \in {"debit", "notify"}
        /\ q.pc = "debit" => CanPay(tip[t].from, tip[t].amount)
        /\ q.from = tip[t].from /\ q.amount = tip[t].amount /\ q.rival = DebitDue(t)
  BY CheckOutcome
<1>3. tip'[t] = q /\ \A s \in Tips : s # t => tip'[s] = tip[s]
  BY <1>2, OthersStay
<1>4. \A s \in Tips : tip'[s].pc \in {"new", "balance"} => ~tip'[s].rival
  BY <1>2, <1>3 DEF Covered
<1>5. ASSUME NEW u \in Users PROVE Doubtful(u)' \/ DueIsCovered(u)'
  <2>1. CASE u # tip[t].from
    BY <1>1, <1>2, <1>3, <2>1 DEF Covered, Doubtful, DueIsCovered
  <2>2. CASE u = tip[t].from /\ DebitDue(t)
    BY <1>2, <1>3, <2>2 DEF Doubtful
  <2>3. CASE Doubtful(u)
    BY <1>1, <1>3, <2>3 DEF Covered, Doubtful
  <2>4. CASE u = tip[t].from /\ ~DebitDue(t) /\ DueIsCovered(u)
    BY <1>1, <1>2, <1>3, <2>4 DEF DueIsCovered, DebitDue, CanPay, TipAt
  <2> QED
    BY <2>1, <2>2, <2>3, <2>4 DEF Covered
<1> QED
  BY <1>4, <1>5 DEF Covered

LEMMA DebitCovered ==
  ASSUME TipTypeOK, Covered, NEW t \in Tips, Debit(t)
  PROVE  Covered'
<1>1. /\ tip[t].pc = "debit" /\ tip[t].amount \in Nat /\ tip[t].from \in Users
  BY AmountsAssumption DEF Debit, TipAt, TipTypeOK, Tip
<1>2. /\ Moves(t, "credit", tip[t].amount)
      /\ balance' = [balance EXCEPT ![tip[t].from] = @ - tip[t].amount]
  BY Zenon DEF Debit, Moves
<1>3. PICK q \in Tip :
        /\ Becomes(t, q) /\ q.pc = "credit"
        /\ q.from = tip[t].from /\ q.amount = tip[t].amount /\ q.rival = tip[t].rival
  BY <1>1, <1>2, MoneyMoves
<1>4. tip'[t] = q /\ \A s \in Tips : s # t => tip'[s] = tip[s]
  BY <1>3, OthersStay
<1>5. \A s \in Tips : tip'[s].pc \in {"new", "balance"} => ~tip'[s].rival
  BY <1>3, <1>4 DEF Covered
<1>6. ASSUME NEW u \in Users PROVE Doubtful(u)' \/ DueIsCovered(u)'
  <2>1. CASE Doubtful(u)
    BY <1>3, <1>4, <2>1 DEF Doubtful
  <2>2. CASE DueIsCovered(u) /\ u # tip[t].from
    BY <1>2, <1>3, <1>4, <2>2 DEF DueIsCovered, TipTypeOK
  <2>3. CASE DueIsCovered(u) /\ u = tip[t].from
    <3>1. balance'[u] = balance[u] - tip[t].amount /\ balance[u] >= tip[t].amount /\ balance[u] \in Int
      BY <1>1, <1>2, <2>3 DEF DueIsCovered, TipTypeOK
    <3>2. balance'[u] >= 0
      BY <1>1, <3>1
    <3>3. \A s \in Tips : ~(tip'[s].from = u /\ tip'[s].pc = "debit")
      BY <1>1, <1>3, <1>4, <2>3 DEF DueIsCovered
    <3> QED
      BY <3>2, <3>3 DEF DueIsCovered
  <2> QED
    BY <2>1, <2>2, <2>3 DEF Covered
<1> QED
  BY <1>5, <1>6 DEF Covered

LEMMA AmountsAreNat == TipTypeOK => \A s \in Tips : tip[s].amount \in Nat
<1> SUFFICES ASSUME TipTypeOK, NEW s \in Tips PROVE tip[s].amount \in Nat
  OBVIOUS
<1>1. tip[s] \in Tip
  BY DEF TipTypeOK
<1>2. tip[s].amount \in Amounts \union {0}
  BY <1>1 DEF Tip
<1>3. \A a \in Amounts \union {0} : a \in Nat
  BY AmountsAssumption
<1> QED
  BY <1>2, <1>3

\* A step behind the debit leaves what is due and takes nothing.
LEMMA LaterCovered ==
  ASSUME TipTypeOK, Covered, NEW t \in Tips, NEW q, Becomes(t, q),
         q.pc \notin {"new", "balance", "debit"}, q.from = tip[t].from, q.rival = tip[t].rival,
         \A u \in Users : balance'[u] \in Int /\ balance'[u] >= balance[u]
  PROVE  Covered'
<1>1. tip'[t] = q /\ \A s \in Tips : s # t => tip'[s] = tip[s]
  BY OthersStay
<1>2. \A s \in Tips : tip'[s].pc \in {"new", "balance"} => ~tip'[s].rival
  BY <1>1 DEF Covered
<1>3. ASSUME NEW u \in Users, Doubtful(u) PROVE Doubtful(u)'
  BY <1>1, <1>3 DEF Doubtful
<1>4. ASSUME NEW u \in Users, DueIsCovered(u) PROVE DueIsCovered(u)'
  <2>1. \A s \in Tips : tip'[s].from = u /\ tip'[s].pc = "debit" =>
          tip[s].from = u /\ tip[s].pc = "debit" /\ tip'[s].amount = tip[s].amount
    BY <1>1
  <2>2. \A s \in Tips : tip[s].amount \in Nat
    BY AmountsAreNat
  <2> QED
    BY <1>4, <2>1, <2>2 DEF DueIsCovered, TipTypeOK
<1> QED
  BY <1>2, <1>3, <1>4 DEF Covered

LEMMA GotoBecomes ==
  ASSUME TipTypeOK, NEW t \in Tips, NEW pc,
         pc \in {"total", "notify", "done", "failed"}, TipGoto(t, pc)
  PROVE  \E q \in Tip : Becomes(t, q) /\ q.pc = pc /\ q.from = tip[t].from /\ q.rival = tip[t].rival
<1> DEFINE q == [tip[t] EXCEPT !.pc = pc]
<1>1. tip' = [tip EXCEPT ![t] = q]
  BY DEF TipGoto
<1>2. q \in Tip
  BY DEF TipTypeOK, Tip
<1>3. q.pc = pc /\ q.from = tip[t].from /\ q.rival = tip[t].rival
  BY DEF TipTypeOK, Tip
<1> HIDE DEF q
<1> QED
  BY <1>1, <1>2, <1>3 DEF Becomes

LEMMA GotoCovered ==
  ASSUME TipTypeOK, Covered, NEW t \in Tips, NEW pc,
         pc \in {"total", "notify", "done", "failed"}, TipGoto(t, pc), UNCHANGED balance
  PROVE  Covered'
<1>1. PICK q \in Tip : Becomes(t, q) /\ q.pc = pc /\ q.from = tip[t].from /\ q.rival = tip[t].rival
  BY GotoBecomes
<1>2. \A u \in Users : balance'[u] \in Int /\ balance'[u] >= balance[u]
  BY DEF TipTypeOK
<1>3. q.pc \notin {"new", "balance", "debit"}
  BY <1>1
<1> QED
  BY <1>1, <1>2, <1>3, LaterCovered

LEMMA CreditCovered ==
  ASSUME TipTypeOK, Covered, NEW t \in Tips, Credit(t)
  PROVE  Covered'
<1> DEFINE moved == IF tip[t].to \in holders THEN 0 ELSE tip[t].moved
<1>1. tip[t].amount \in Nat /\ moved \in Nat /\ tip[t].to \in Users
  BY AmountsAssumption DEF Credit, TipAt, TipTypeOK, Tip
<1>2. Moves(t, "reward", moved)
  BY Zenon DEF Credit, Moves
<1>3. balance' = [balance EXCEPT ![tip[t].to] = @ + tip[t].amount] \/ balance' = balance
  BY DEF Credit
<1>4. \A u \in Users : balance'[u] \in Int /\ balance'[u] >= balance[u]
  BY <1>1, <1>3 DEF TipTypeOK
<1> HIDE DEF moved
<1>5. PICK q \in Tip :
        Becomes(t, q) /\ q.pc = "reward" /\ q.from = tip[t].from /\ q.rival = tip[t].rival
  BY <1>1, <1>2, MoneyMoves
<1>6. q.pc \notin {"new", "balance", "debit"}
  BY <1>5
<1> QED
  BY <1>4, <1>5, <1>6, LaterCovered

\* A balance below zero takes two tips of one sender of which one was checked between the
\* other's check and its debit (requestTipFunc), for any number of senders and tips.
THEOREM OverdraftsOverlap == TipSpec => []OverdraftNeedsOverlap
<1>1. TipInit => Covered
  BY DepositAssumption DEF TipInit, Covered, Doubtful, DueIsCovered, NewTip
<1>2. TipTypeOK /\ Covered /\ [TipNext]_tipVars => Covered'
  <2> SUFFICES ASSUME TipTypeOK, Covered, [TipNext]_tipVars PROVE Covered'
    OBVIOUS
  <2>1. CASE UNCHANGED tipVars
    BY <2>1 DEF tipVars, ledgerVars, Covered, Doubtful, DueIsCovered
  <2>2. ASSUME NEW p \in Posts, NEW u \in Users, OwnerChanges(p, u) PROVE Covered'
    BY <2>2 DEF OwnerChanges, ledgerVars, Covered, Doubtful, DueIsCovered
  <2>3. ASSUME NEW t \in Tips, \E u \in Users, p \in Posts, a \in Amounts : RequestTip(t, u, p, a)
        PROVE  Covered'
    BY <2>3, RequestCovered
  <2>4. ASSUME NEW t \in Tips, CheckBalance(t) PROVE Covered'
    BY <2>4, CheckCovered
  <2>5. ASSUME NEW t \in Tips, Debit(t) PROVE Covered'
    BY <2>5, DebitCovered
  <2>6. ASSUME NEW t \in Tips, Credit(t) PROVE Covered'
    BY <2>6, CreditCovered
  <2>7. ASSUME NEW t \in Tips, BookReward(t) \/ CountTip(t) \/ NotifyOwner(t) \/ TipFails(t)
        PROVE  Covered'
    BY <2>7, GotoCovered DEF BookReward, CountTip, NotifyOwner, TipFails, ledgerVars
  <2> QED
    BY <2>1, <2>2, <2>3, <2>4, <2>5, <2>6, <2>7 DEF TipNext
<1>3. TipTypeOK /\ Covered => OverdraftNeedsOverlap
  BY DEF TipTypeOK, Covered, Doubtful, DueIsCovered, OverdraftNeedsOverlap
<1> QED
  BY <1>1, <1>2, <1>3, TipTypesHold, PTL DEF TipSpec

\* The books of the tips.  What has left a sender and has not arrived, and what the requests
\* at some of the steps are worth.
Moved == [t \in Tips |-> tip[t].moved]

WorthAt(pcs, q) == IF q.pc \in pcs THEN q.amount ELSE 0

Worth(pcs) == [t \in Tips |-> WorthAt(pcs, tip[t])]

Booked ==
  /\ SumFunction(balance) + SumFunction(Moved) = Deposit * Cardinality(holders)
  /\ SumFunction(totalTips) + SumFunction(Worth({"total"})) <= SumFunction(rewards)
  /\ SumFunction(rewards) + SumFunction(Worth({"credit", "reward"})) <= SumFunction(sentTips)
  /\ SumFunction(paidTips) + SumFunction(Worth({"credit"})) <= SumFunction(sentTips)

OnItsWay ==
  \A t \in Tips : /\ tip[t].pc \in {"new", "balance", "debit"} => tip[t].moved = 0
                  /\ tip[t].pc = "credit" => tip[t].moved = tip[t].amount

\* The books are made of integers.
LEMMA BooksAreInt ==
  ASSUME TipTypeOK
  PROVE  /\ Moved \in [Tips -> Int] /\ \A pcs : Worth(pcs) \in [Tips -> Nat]
         /\ SumFunction(Moved) \in Int /\ \A pcs : SumFunction(Worth(pcs)) \in Nat
         /\ SumFunction(balance) \in Int /\ SumFunction(sentTips) \in Nat
         /\ SumFunction(paidTips) \in Nat /\ SumFunction(rewards) \in Nat
         /\ SumFunction(totalTips) \in Nat
<1>1. Moved \in [Tips -> Int]
  BY DEF TipTypeOK, Moved, Tip
<1>2. ASSUME NEW pcs PROVE Worth(pcs) \in [Tips -> Nat]
  BY AmountsAreNat DEF Worth, WorthAt
<1>3. /\ balance \in [Users -> Int] /\ sentTips \in [Users -> Nat] /\ paidTips \in [Users -> Nat]
      /\ rewards \in [Posts -> Nat] /\ totalTips \in [Posts -> Nat]
  BY DEF TipTypeOK
<1>4. IsFiniteSet(Tips) /\ IsFiniteSet(Users) /\ IsFiniteSet(Posts)
  BY TipsAssumption, UsersAssumption, PostsAssumption
<1> QED
  BY <1>1, <1>2, <1>3, <1>4, SumType

\* What a step of one request does to the sums over the requests.
LEMMA BooksOfStep ==
  ASSUME TipTypeOK, NEW t \in Tips, NEW q \in Tip, Becomes(t, q)
  PROVE  /\ SumFunction(Moved)' = SumFunction(Moved) + (q.moved - tip[t].moved)
         /\ \A pcs : SumFunction(Worth(pcs))'
                       = SumFunction(Worth(pcs)) + (WorthAt(pcs, q) - WorthAt(pcs, tip[t]))
<1>1. /\ tip' \in [Tips -> Tip] /\ tip'[t] = q
      /\ \A s \in Tips : s # t => tip'[s] = tip[s]
  BY OthersStay
<1>2. \A r \in Tip : r.moved \in Nat /\ r.amount \in Nat
  <2> SUFFICES ASSUME NEW r \in Tip PROVE r.moved \in Nat /\ r.amount \in Nat
    OBVIOUS
  <2>1. r.moved \in Nat /\ r.amount \in Amounts \union {0}
    BY DEF Tip
  <2>2. \A a \in Amounts \union {0} : a \in Nat
    BY AmountsAssumption
  <2> QED
    BY <2>1, <2>2
<1>3. IsFiniteSet(Tips)
  BY TipsAssumption
<1>4. SumFunction(Moved)' = SumFunction(Moved) + (q.moved - tip[t].moved)
  <2> DEFINE h == [s \in Tips |-> tip'[s].moved]
  <2>1. h \in [Tips -> Int] /\ h[t] = q.moved /\ \A s \in Tips : s # t => h[s] = Moved[s]
    BY <1>1, <1>2 DEF Moved
  <2>2. Moved \in [Tips -> Int] /\ Moved[t] = tip[t].moved
    BY BooksAreInt DEF Moved
  <2>3. SumFunction(Moved)' = SumFunction(h)
    BY DEF Moved
  <2> HIDE DEF h
  <2> QED
    BY <1>3, <2>1, <2>2, <2>3, SumChange
<1>5. ASSUME NEW pcs
      PROVE  SumFunction(Worth(pcs))'
               = SumFunction(Worth(pcs)) + (WorthAt(pcs, q) - WorthAt(pcs, tip[t]))
  <2> DEFINE h == [s \in Tips |-> WorthAt(pcs, tip'[s])]
  <2>1. h \in [Tips -> Int] /\ h[t] = WorthAt(pcs, q)
        /\ \A s \in Tips : s # t => h[s] = Worth(pcs)[s]
    BY <1>1, <1>2 DEF Worth, WorthAt
  <2>2. Worth(pcs) \in [Tips -> Int] /\ Worth(pcs)[t] = WorthAt(pcs, tip[t])
    BY BooksAreInt DEF Worth
  <2>3. SumFunction(Worth(pcs))' = SumFunction(h)
    BY DEF Worth, WorthAt
  <2> HIDE DEF h
  <2> QED
    BY <1>3, <2>1, <2>2, <2>3, SumChange
<1> QED
  BY <1>4, <1>5

\* A step that moves no money keeps the books.
LEMMA QuietBooked ==
  ASSUME TipTypeOK, Booked, OnItsWay, NEW t \in Tips, NEW q \in Tip, Becomes(t, q),
         UNCHANGED ledgerVars, q.moved = tip[t].moved,
         \/ tip[t].pc \in {"new", "balance"} /\ q.pc \in {"balance", "debit", "notify"}
         \/ q.pc \in {"done", "failed"}
  PROVE  Booked' /\ OnItsWay'
<1>1. /\ tip' \in [Tips -> Tip] /\ tip'[t] = q
      /\ \A s \in Tips : s # t => tip'[s] = tip[s]
  BY OthersStay
<1>2. OnItsWay'
  BY <1>1 DEF OnItsWay
<1>3. SumFunction(Moved)' = SumFunction(Moved)
  BY BooksOfStep, BooksAreInt DEF TipTypeOK, Tip
<1>4. ASSUME NEW pcs, pcs \in {{"total"}, {"credit", "reward"}, {"credit"}}
      PROVE  SumFunction(Worth(pcs))' <= SumFunction(Worth(pcs)) /\ SumFunction(Worth(pcs))' \in Int
  <2>1. WorthAt(pcs, q) = 0 /\ WorthAt(pcs, tip[t]) \in Nat
    BY <1>4, AmountsAreNat DEF WorthAt
  <2> QED
    BY <2>1, BooksOfStep, BooksAreInt
<1>5. UNCHANGED <<holders, balance, sentTips, paidTips, rewards, totalTips>>
  BY DEF ledgerVars
<1> HIDE DEF Becomes
<1> QED
  BY <1>2, <1>3, <1>4, <1>5, BooksAreInt DEF Booked

LEMMA DebitBooked ==
  ASSUME TipTypeOK, Booked, OnItsWay, NEW t \in Tips, Debit(t)
  PROVE  Booked' /\ OnItsWay'
<1>1. /\ tip[t].pc = "debit" /\ tip[t].amount \in Nat /\ tip[t].from \in Users
  BY AmountsAssumption DEF Debit, TipAt, TipTypeOK, Tip
<1>2. /\ Moves(t, "credit", tip[t].amount)
      /\ balance' = [balance EXCEPT ![tip[t].from] = @ - tip[t].amount]
      /\ sentTips' = [sentTips EXCEPT ![tip[t].from] = @ + tip[t].amount]
      /\ UNCHANGED <<holders, paidTips, rewards, totalTips>>
  BY Zenon DEF Debit, Moves
<1>3. PICK q \in Tip :
        /\ Becomes(t, q) /\ q.pc = "credit"
        /\ q.moved = tip[t].amount /\ q.amount = tip[t].amount
  BY <1>1, <1>2, MoneyMoves
<1>4. tip'[t] = q /\ \A s \in Tips : s # t => tip'[s] = tip[s]
  BY <1>3, OthersStay
<1>5. OnItsWay'
  BY <1>3, <1>4 DEF OnItsWay
<1> DEFINE a == tip[t].amount
<1>6. SumFunction(balance') = SumFunction(balance) + (-a)
  <2>1. Grows(balance, balance', Users, tip[t].from, 0 - a)
    BY <1>1, <1>2 DEF TipTypeOK, Grows
  <2>2. SumFunction(balance') = SumFunction(balance) + (0 - a)
    BY <1>1, <2>1, UsersAssumption, SumGrows
  <2> QED
    BY <1>1, <2>2
<1>7. SumFunction(sentTips') = SumFunction(sentTips) + a
  <2>1. Grows(sentTips, sentTips', Users, tip[t].from, a)
    BY <1>1, <1>2 DEF TipTypeOK, Grows
  <2> QED
    BY <1>1, <2>1, UsersAssumption, SumGrows
<1>8. SumFunction(Moved)' = SumFunction(Moved) + a
  BY <1>1, <1>3, BooksOfStep DEF OnItsWay
<1>9. /\ SumFunction(Worth({"total"}))' = SumFunction(Worth({"total"}))
      /\ SumFunction(Worth({"credit", "reward"}))' = SumFunction(Worth({"credit", "reward"})) + a
      /\ SumFunction(Worth({"credit"}))' = SumFunction(Worth({"credit"})) + a
  BY <1>1, <1>3, BooksOfStep, BooksAreInt DEF WorthAt
<1> HIDE DEF a
<1>10. a \in Nat
  BY <1>1 DEF a
<1> QED
  BY <1>2, <1>5, <1>6, <1>7, <1>8, <1>9, <1>10, BooksAreInt DEF Booked

LEMMA CreditBooked ==
  ASSUME TipTypeOK, Booked, OnItsWay, NEW t \in Tips, Credit(t)
  PROVE  Booked' /\ OnItsWay'
<1> DEFINE a == tip[t].amount
           there == tip[t].to \in holders
           moved == IF there THEN 0 ELSE a
<1>1. /\ tip[t].pc = "credit" /\ a \in Nat /\ tip[t].to \in Users /\ tip[t].moved = a
  BY AmountsAssumption DEF Credit, TipAt, TipTypeOK, Tip, OnItsWay
<1>2. /\ Moves(t, "reward", IF there THEN 0 ELSE tip[t].moved)
      /\ balance' = IF there THEN [balance EXCEPT ![tip[t].to] = @ + a] ELSE balance
      /\ paidTips' = IF there THEN [paidTips EXCEPT ![tip[t].to] = @ + a] ELSE paidTips
      /\ UNCHANGED <<holders, sentTips, rewards, totalTips>>
  BY Zenon DEF Credit, Moves
<1>3. PICK q \in Tip :
        /\ Becomes(t, q) /\ q.pc = "reward" /\ q.moved = moved /\ q.amount = a
  BY <1>1, <1>2, MoneyMoves
<1>4. tip'[t] = q /\ \A s \in Tips : s # t => tip'[s] = tip[s]
  BY <1>3, OthersStay
<1>5. OnItsWay'
  BY <1>3, <1>4 DEF OnItsWay
<1>6. SumFunction(balance') = SumFunction(balance) + (a - moved)
  <2>1. CASE there
    <3>1. Grows(balance, balance', Users, tip[t].to, a) /\ a - moved = a
      BY <1>1, <1>2, <2>1 DEF TipTypeOK, Grows
    <3> QED
      BY <1>1, <3>1, UsersAssumption, SumGrows
  <2>2. CASE ~there
    BY <1>1, <1>2, <2>2, BooksAreInt
  <2> QED
    BY <2>1, <2>2
<1>7. SumFunction(paidTips') = SumFunction(paidTips) + (a - moved)
  <2>1. CASE there
    <3>1. Grows(paidTips, paidTips', Users, tip[t].to, a) /\ a - moved = a
      BY <1>1, <1>2, <2>1 DEF TipTypeOK, Grows
    <3> QED
      BY <1>1, <3>1, UsersAssumption, SumGrows
  <2>2. CASE ~there
    BY <1>1, <1>2, <2>2, BooksAreInt
  <2> QED
    BY <2>1, <2>2
<1>8. SumFunction(Moved)' = SumFunction(Moved) + (moved - a)
  BY <1>1, <1>3, BooksOfStep
<1>9. /\ SumFunction(Worth({"total"}))' = SumFunction(Worth({"total"}))
      /\ SumFunction(Worth({"credit", "reward"}))' = SumFunction(Worth({"credit", "reward"}))
      /\ SumFunction(Worth({"credit"}))' = SumFunction(Worth({"credit"})) - a
  BY <1>1, <1>3, BooksOfStep, BooksAreInt DEF WorthAt
<1>10. a \in Nat /\ moved \in Nat /\ a - moved <= a
  BY <1>1
<1> HIDE DEF a, moved
<1>11. UNCHANGED <<holders, sentTips, rewards, totalTips>>
  BY <1>2
<1> QED
  BY <1>11, <1>5, <1>6, <1>7, <1>8, <1>9, <1>10, BooksAreInt DEF Booked

LEMMA RewardBooked ==
  ASSUME TipTypeOK, Booked, OnItsWay, NEW t \in Tips, BookReward(t) \/ CountTip(t)
  PROVE  Booked' /\ OnItsWay'
<1> DEFINE a == tip[t].amount
           pc == IF BookReward(t) THEN "total" ELSE "notify"
           q == [tip[t] EXCEPT !.pc = pc]
<1>0. a \in Nat /\ tip[t].post \in Posts /\ tip[t].pc \in {"reward", "total"}
  BY AmountsAreNat DEF BookReward, CountTip, TipAt, TipTypeOK
<1>1. /\ q \in Tip /\ q.pc = pc /\ q.amount = a /\ q.moved = tip[t].moved
  BY DEF TipTypeOK, Tip
<1>2. Becomes(t, q)
  <2>1. CASE BookReward(t)
    BY <1>1, <2>1 DEF Becomes, BookReward, TipGoto
  <2>2. CASE CountTip(t)
    BY <1>0, <1>1, <2>2 DEF Becomes, BookReward, CountTip, TipGoto, TipAt
  <2> QED
    BY <2>1, <2>2
<1> HIDE DEF q
<1>3. tip'[t] = q /\ \A s \in Tips : s # t => tip'[s] = tip[s]
  BY <1>2, OthersStay
<1>4. OnItsWay'
  BY <1>1, <1>3 DEF OnItsWay
<1>5. SumFunction(Moved)' = SumFunction(Moved)
  BY <1>1, <1>2, BooksOfStep, BooksAreInt DEF TipTypeOK, Tip
<1>7. CASE BookReward(t)
  <2>1. tip[t].pc = "reward" /\ q.pc = "total"
    BY <1>1, <1>7 DEF BookReward, TipAt
  <2>2. SumFunction(rewards') = SumFunction(rewards) + a
    <3>1. Grows(rewards, rewards', Posts, tip[t].post, a)
      BY <1>0, <1>7 DEF BookReward, TipTypeOK, Grows
    <3> QED
      BY <1>0, <3>1, PostsAssumption, SumGrows
  <2>3. /\ SumFunction(Worth({"total"}))' = SumFunction(Worth({"total"})) + a
        /\ SumFunction(Worth({"credit", "reward"}))' = SumFunction(Worth({"credit", "reward"})) - a
        /\ SumFunction(Worth({"credit"}))' = SumFunction(Worth({"credit"}))
    BY <1>0, <1>1, <1>2, <2>1, BooksOfStep, BooksAreInt DEF WorthAt
  <2>4. UNCHANGED <<holders, balance, sentTips, paidTips, totalTips>>
    BY <1>7 DEF BookReward
  <2> HIDE DEF a
  <2> QED
    BY <1>0, <1>4, <1>5, <2>2, <2>3, <2>4, BooksAreInt DEF Booked
<1>8. CASE CountTip(t)
  <2>1. tip[t].pc = "total" /\ q.pc = "notify"
    BY <1>1, <1>8 DEF BookReward, CountTip, TipAt
  <2>2. SumFunction(totalTips') = SumFunction(totalTips) + a
    <3>1. Grows(totalTips, totalTips', Posts, tip[t].post, a)
      BY <1>0, <1>8 DEF CountTip, TipTypeOK, Grows
    <3> QED
      BY <1>0, <3>1, PostsAssumption, SumGrows
  <2>3. /\ SumFunction(Worth({"total"}))' = SumFunction(Worth({"total"})) - a
        /\ SumFunction(Worth({"credit", "reward"}))' = SumFunction(Worth({"credit", "reward"}))
        /\ SumFunction(Worth({"credit"}))' = SumFunction(Worth({"credit"}))
    BY <1>0, <1>1, <1>2, <2>1, BooksOfStep, BooksAreInt DEF WorthAt
  <2>4. UNCHANGED <<holders, balance, sentTips, paidTips, rewards>>
    BY <1>8 DEF CountTip
  <2> HIDE DEF a
  <2> QED
    BY <1>0, <1>4, <1>5, <2>2, <2>3, <2>4, BooksAreInt DEF Booked
<1> QED
  BY <1>7, <1>8

\* Tips create no money and lose it only where a record says so, and a failure only cuts
\* the tail off a tip (requestTipFunc), for any number of accounts, posts and tips.
THEOREM TipsStayConserved == TipSpec => []TipsConserved
<1>1. TipInit => Booked /\ OnItsWay
  <2> SUFFICES ASSUME TipInit PROVE Booked /\ OnItsWay
    OBVIOUS
  <2>1. OnItsWay
    BY DEF TipInit, OnItsWay, NewTip
  <2>2. IsFiniteSet(Users) /\ IsFiniteSet(Posts) /\ IsFiniteSet(Tips)
    BY UsersAssumption, PostsAssumption, TipsAssumption
  <2>3. SumFunction(balance) = Deposit * Cardinality(holders)
    BY <2>2, DepositAssumption, SumOfEqual DEF TipInit
  <2>4. ASSUME NEW S, IsFiniteSet(S) PROVE SumFunction([x \in S |-> 0]) = 0
    <3>1. [x \in S |-> 0] = [x \in S |-> IF x \in {} THEN 0 ELSE 0] /\ {} \in SUBSET S
      OBVIOUS
    <3>2. SumFunction([x \in S |-> IF x \in {} THEN 0 ELSE 0]) = 0 * Cardinality({})
      BY <2>4, SumOfEqual
    <3> QED
      BY <3>1, <3>2, FS_EmptySet
  <2>5. Moved = [t \in Tips |-> 0] /\ \A pcs : Worth(pcs) = [t \in Tips |-> 0]
    BY DEF TipInit, Moved, Worth, WorthAt, NewTip
  <2>6. /\ sentTips = [u \in Users |-> 0] /\ paidTips = [u \in Users |-> 0]
        /\ rewards = [p \in Posts |-> 0] /\ totalTips = [p \in Posts |-> 0]
    BY DEF TipInit
  <2>7. SumFunction(balance) \in Int
    <3>1. balance \in [Users -> Int]
      BY DepositAssumption DEF TipInit
    <3> QED
      BY <2>2, <3>1, SumType
  <2> QED
    BY <2>1, <2>2, <2>3, <2>4, <2>5, <2>6, <2>7 DEF Booked
<1>2. TipTypeOK /\ Booked /\ OnItsWay /\ [TipNext]_tipVars => Booked' /\ OnItsWay'
  <2> SUFFICES ASSUME TipTypeOK, Booked, OnItsWay, [TipNext]_tipVars PROVE Booked' /\ OnItsWay'
    OBVIOUS
  <2>1. CASE UNCHANGED <<ledgerVars, tip>>
    BY <2>1 DEF ledgerVars, Booked, OnItsWay, Moved, Worth, WorthAt
  <2>2. ASSUME NEW t \in Tips, NEW u \in Users, NEW p \in Posts, NEW a \in Amounts, RequestTip(t, u, p, a)
        PROVE  Booked' /\ OnItsWay'
    <3> DEFINE q == [NewTip EXCEPT !.pc = "balance", !.from = u, !.post = p, !.to = owner[p], !.amount = a]
    <3>1. /\ tip[t].pc = "new" /\ UNCHANGED ledgerVars
          /\ tip' = [tip EXCEPT ![t] = q]
      BY <2>2 DEF RequestTip, TipAt
    <3>2. q \in Tip /\ q.pc = "balance" /\ q.moved = 0
      BY DEF NewTip, Tip, TipTypeOK
    <3> HIDE DEF q
    <3>3. Becomes(t, q) /\ tip[t].moved = 0
      BY <3>1, <3>2 DEF Becomes, OnItsWay
    <3> QED
      BY <3>1, <3>2, <3>3, QuietBooked
  <2>3. ASSUME NEW t \in Tips, CheckBalance(t) PROVE Booked' /\ OnItsWay'
    <3>1. tip[t].pc = "balance" /\ UNCHANGED ledgerVars
      BY <2>3 DEF CheckBalance, TipAt
    <3>2. PICK q \in Tip : Becomes(t, q) /\ q.pc \in {"debit", "notify"} /\ q.moved = tip[t].moved
      <4> DEFINE q == [tip[t] EXCEPT !.pc = Verdict(t), !.rival = DebitDue(t)]
      <4>1. q.moved = tip[t].moved /\ tip' = [tip EXCEPT ![t] = q]
        BY <2>3, Zenon DEF CheckBalance, TipTypeOK, Tip
      <4>2. PICK r \in Tip : Becomes(t, r) /\ r.pc \in {"debit", "notify"}
        BY <2>3, CheckOutcome
      <4>3. r = q
        BY <4>1, <4>2 DEF Becomes, TipTypeOK
      <4> QED
        BY <4>1, <4>2, <4>3
    <3> QED
      BY <3>1, <3>2, QuietBooked
  <2>4. ASSUME NEW t \in Tips, NotifyOwner(t) \/ TipFails(t) PROVE Booked' /\ OnItsWay'
    <3>1. PICK pc \in {"done", "failed"} : TipGoto(t, pc)
      BY <2>4 DEF NotifyOwner, TipFails
    <3> DEFINE q == [tip[t] EXCEPT !.pc = pc]
    <3>2. q \in Tip /\ q.pc = pc /\ q.moved = tip[t].moved
      BY DEF TipTypeOK, Tip
    <3> HIDE DEF q
    <3>3. Becomes(t, q)
      BY <3>1, <3>2 DEF Becomes, TipGoto, q
    <3>4. UNCHANGED ledgerVars
      BY <2>4 DEF NotifyOwner, TipFails
    <3> QED
      BY <3>2, <3>3, <3>4, QuietBooked
  <2>5. CASE UNCHANGED tipVars
    BY <2>1, <2>5 DEF tipVars
  <2>6. ASSUME NEW p \in Posts, NEW u \in Users, OwnerChanges(p, u) PROVE Booked' /\ OnItsWay'
    BY <2>1, <2>6 DEF OwnerChanges
  <2> QED
    BY <2>2, <2>3, <2>4, <2>5, <2>6, DebitBooked, CreditBooked, RewardBooked DEF TipNext
<1>3. TipTypeOK /\ Booked => TipsConserved
  <2> SUFFICES ASSUME TipTypeOK, Booked PROVE TipsConserved
    OBVIOUS
  <2>1. Moved = [t \in Tips |-> tip[t].moved]
    BY DEF Moved
  <2> QED
    BY <2>1, BooksAreInt DEF Booked, TipsConserved
<1> QED
  BY <1>1, <1>2, <1>3, TipTypesHold, PTL DEF TipSpec

-----------------------------------------------------------------------------
(***************************************************************************)
(* Subscriptions.                                                          *)
(***************************************************************************)

\* What a subscription and a confirmation may be: a confirmation that is under way
\* names a subscription that was saved.
SubsWellFormed ==
  /\ subs \in [Purchases -> Sub]
  /\ confirms \in [Confirms -> Confirm]
  /\ bought \in [Purchases -> Nat]
  /\ \A c \in Confirms : confirms[c].pc \in {"read", "note"} =>
       confirms[c].sub \in Purchases /\ Saved(confirms[c].sub)
  /\ \A c \in Confirms : confirms[c].pc = "new" => ~confirms[c].late

\* What a purchase becomes when the plan is asked for.
Asks(s, u, o) ==
  [pc |-> "asked", user |-> u, plan |-> o,
   late |-> \E t \in Twins(s, u, o) : subs[t].pc \in {"asked", "pending"}]

LEMMA BuyOutcome ==
  ASSUME SubsWellFormed, NEW s \in Purchases, NEW u \in Users, NEW o \in Offers, BuyPlan(s, u, o)
  PROVE  \E q \in Sub :
           /\ subs' = [subs EXCEPT ![s] = q]
           /\ \/ q.pc = "refused" /\ q.plan = subs[s].plan
              \/ /\ q.pc = "asked" /\ q.user = u /\ q.plan = o
                 /\ \A t \in Twins(s, u, o) : subs[t].pc # "active"
                 /\ q.late <=> \E t \in Twins(s, u, o) : subs[t].pc \in {"asked", "pending"}
<1>1. CASE \E t \in Twins(s, u, o) : subs[t].pc = "active"
  <2> DEFINE q == [subs[s] EXCEPT !.pc = "refused"]
  <2>1. subs' = [subs EXCEPT ![s] = q]
    BY <1>1 DEF BuyPlan
  <2>2. q \in Sub /\ q.pc = "refused" /\ q.plan = subs[s].plan
    BY DEF SubsWellFormed, Sub
  <2> HIDE DEF q
  <2> QED
    BY <2>1, <2>2
<1>2. CASE \A t \in Twins(s, u, o) : subs[t].pc # "active"
  <2> DEFINE late == \E t \in Twins(s, u, o) : subs[t].pc \in {"asked", "pending"}
             q == [pc |-> "asked", user |-> u, plan |-> o, late |-> late]
  <2>1. subs' = [subs EXCEPT ![s] = q]
    BY <1>2 DEF BuyPlan
  <2>2. late \in BOOLEAN
    OBVIOUS
  <2> HIDE DEF late
  <2>3. q \in Sub /\ q.pc = "asked" /\ q.user = u /\ q.plan = o /\ q.late = late
    BY <2>2 DEF Sub
  <2> HIDE DEF q
  <2> QED
    BY <1>2, <2>1, <2>3 DEF late
<1> QED
  BY <1>1, <1>2

LEMMA ReadOutcome ==
  ASSUME SubsWellFormed, NEW c \in Confirms, NEW s \in Purchases, ReadInactive(c, s)
  PROVE  \E q \in Confirm :
           /\ confirms' = [confirms EXCEPT ![c] = q]
           /\ q.pc = "read" /\ q.sub = s
           /\ q.late <=> \E d \in Confirms \ {c} : confirms[d].pc = "read" /\ confirms[d].sub = s
<1> DEFINE late == \E d \in Confirms \ {c} : confirms[d].pc = "read" /\ confirms[d].sub = s
           q == [pc |-> "read", sub |-> s, late |-> late]
<1>1. confirms' = [confirms EXCEPT ![c] = q]
  BY DEF ReadInactive
<1>2. late \in BOOLEAN
  OBVIOUS
<1> HIDE DEF late
<1>3. q \in Confirm /\ q.pc = "read" /\ q.sub = s /\ q.late = late
  BY <1>2 DEF Confirm
<1> HIDE DEF q
<1> QED
  BY <1>1, <1>3 DEF late

LEMMA ActivateOutcome ==
  ASSUME SubsWellFormed, NEW c \in Confirms, Activate(c)
  PROVE  \E s \in Purchases :
           /\ confirms[c].pc = "read" /\ confirms[c].sub = s
           /\ subs' \in [Purchases -> Sub] /\ subs'[s].pc = "active"
           /\ \A t \in Purchases : t # s => subs'[t] = subs[t]
           /\ confirms' \in [Confirms -> Confirm]
           /\ confirms'[c].pc = "note" /\ confirms'[c].sub = s /\ confirms'[c].late = confirms[c].late
           /\ \A d \in Confirms : d # c => confirms'[d] = confirms[d]
<1>1. confirms[c].pc = "read" /\ confirms[c].sub \in Purchases
  BY DEF Activate, SubsWellFormed
<1>2. /\ subs' = [subs EXCEPT ![confirms[c].sub].pc = "active"]
      /\ confirms' = [confirms EXCEPT ![c].pc = "note"]
  BY DEF Activate
<1>3. /\ confirms' \in [Confirms -> Confirm]
      /\ confirms'[c].pc = "note" /\ confirms'[c].sub = confirms[c].sub /\ confirms'[c].late = confirms[c].late
      /\ \A d \in Confirms : d # c => confirms'[d] = confirms[d]
  BY <1>2 DEF SubsWellFormed, Confirm
<1>4. /\ subs' \in [Purchases -> Sub] /\ subs'[confirms[c].sub].pc = "active"
      /\ \A t \in Purchases : t # confirms[c].sub => subs'[t] = subs[t]
  BY <1>1, <1>2 DEF SubsWellFormed, Sub
<1> QED
  BY <1>1, <1>3, <1>4

LEMMA SubsStep == SubsWellFormed /\ [PlanNext]_planVars => SubsWellFormed'
<1> SUFFICES ASSUME SubsWellFormed, [PlanNext]_planVars PROVE SubsWellFormed'
  OBVIOUS
<1>1. CASE UNCHANGED planVars \/ OfferNext
  <2>1. UNCHANGED <<subs, confirms, bought>>
    BY <1>1 DEF planVars, OfferNext, SavePlan, CreatePlan, UpdatePlan, PublishPlan
  <2> QED
    BY <2>1 DEF SubsWellFormed, Saved
<1>2. ASSUME NEW s \in Purchases, SaveSubscription(s) PROVE SubsWellFormed'
  BY <1>2 DEF SaveSubscription, SubsWellFormed, Saved, Sub
<1>3. ASSUME NEW s \in Purchases, NEW u \in Users, NEW o \in Offers, BuyPlan(s, u, o)
      PROVE  SubsWellFormed'
  <2>1. PICK q \in Sub : subs' = [subs EXCEPT ![s] = q]
    BY <1>3, BuyOutcome
  <2>2. subs[s].pc = "new" /\ UNCHANGED <<confirms, bought>>
    BY <1>3 DEF BuyPlan
  <2> QED
    BY <2>1, <2>2 DEF SubsWellFormed, Saved
<1>4. ASSUME NEW c \in Confirms, Activate(c) PROVE SubsWellFormed'
  <2>1. UNCHANGED bought
    BY <1>4 DEF Activate
  <2> QED
    BY <1>4, <2>1, ActivateOutcome DEF SubsWellFormed, Saved
<1>5. ASSUME NEW c \in Confirms, NotePurchase(c) PROVE SubsWellFormed'
  BY <1>5 DEF NotePurchase, SubsWellFormed, Saved, Confirm
<1>6. ASSUME NEW c \in Confirms, ConfirmFails(c) PROVE SubsWellFormed'
  BY <1>6 DEF ConfirmFails, SubsWellFormed, Saved, Confirm
<1>7. ASSUME NEW c \in Confirms, NEW s \in Purchases, PurchaseRefused(c, s) PROVE SubsWellFormed'
  BY <1>7 DEF PurchaseRefused, SubsWellFormed, Saved, Confirm
<1>8. ASSUME NEW c \in Confirms, NEW s \in Purchases, ReadInactive(c, s) PROVE SubsWellFormed'
  <2>1. PICK q \in Confirm : confirms' = [confirms EXCEPT ![c] = q] /\ q.pc = "read" /\ q.sub = s
    BY <1>8, ReadOutcome
  <2>2. subs[s].pc = "pending" /\ UNCHANGED <<subs, bought>>
    BY <1>8 DEF ReadInactive
  <2> QED
    BY <2>1, <2>2 DEF SubsWellFormed, Saved
<1> QED
  BY <1>1, <1>2, <1>3, <1>4, <1>5, <1>6, <1>7, <1>8 DEF PlanNext, PurchaseNext

LEMMA SubsStayWellFormed == PlanSpec => []SubsWellFormed
<1>1. PlanInit => SubsWellFormed
  BY DEF PlanInit, SubsWellFormed, Sub, Confirm
<1> QED
  BY <1>1, SubsStep, PTL DEF PlanSpec

\* A plan that someone asked to buy is there.
PlansAreThere ==
  /\ plans \in [Offers -> Plan]
  /\ \A s \in Purchases : subs[s].plan # None => plans[subs[s].plan].pc = "live"

\* A step that changes one plan and leaves it there if it was.
LEMMA OnePlanGoesOn ==
  ASSUME SubsWellFormed, PlansAreThere, NEW o \in Offers, NEW p \in Plan, plans' = [plans EXCEPT ![o] = p],
         plans[o].pc = "live" => p.pc = "live", UNCHANGED subs
  PROVE  PlansAreThere'
<1>1. plans' \in [Offers -> Plan] /\ \A q \in Offers : plans[q].pc = "live" => plans'[q].pc = "live"
  BY DEF PlansAreThere
<1>2. \A s \in Purchases : subs[s].plan # None => subs[s].plan \in Offers
  BY DEF SubsWellFormed, Sub
<1> QED
  BY <1>1, <1>2 DEF PlansAreThere

\* A step that changes purchases, whose plans stay theirs or are on offer.
LEMMA PlansStayThere ==
  ASSUME SubsWellFormed, PlansAreThere, UNCHANGED plans,
         \A s \in Purchases : subs'[s].plan = subs[s].plan \/ subs'[s].plan \in Live
  PROVE  PlansAreThere'
  BY DEF PlansAreThere, Live

LEMMA PlansStep == SubsWellFormed /\ PlansAreThere /\ [PlanNext]_planVars => PlansAreThere'
<1> SUFFICES ASSUME SubsWellFormed, PlansAreThere, [PlanNext]_planVars PROVE PlansAreThere'
  OBVIOUS
<1>1. CASE UNCHANGED planVars
  BY <1>1 DEF PlansAreThere, planVars
<1>2. ASSUME NEW o \in Offers, SavePlan(o) \/ (\E shown \in BOOLEAN : PublishPlan(o, shown)) PROVE PlansAreThere'
  <2>1. UNCHANGED subs /\ plans[o] \in Plan /\ (SavePlan(o) => plans[o].pc = "asked")
    BY <1>2 DEF SavePlan, PublishPlan, PlansAreThere
  <2>2. CASE SavePlan(o)
    <3> DEFINE p == [plans[o] EXCEPT !.pc = "live"]
    <3>1. p \in Plan /\ p.pc = "live"
      BY <2>1 DEF Plan
    <3>2. plans' = [plans EXCEPT ![o] = p]
      BY <2>2 DEF SavePlan
    <3> QED
      BY <2>1, <3>1, <3>2, OnePlanGoesOn
  <2>3. ASSUME NEW shown \in BOOLEAN, PublishPlan(o, shown) PROVE PlansAreThere'
    <3> DEFINE p == [plans[o] EXCEPT !.published = shown]
    <3>1. p \in Plan /\ p.pc = plans[o].pc
      BY <2>1 DEF Plan
    <3>2. plans' = [plans EXCEPT ![o] = p]
      BY <2>3 DEF PublishPlan
    <3> QED
      BY <2>1, <3>1, <3>2, OnePlanGoesOn
  <2> QED
    BY <1>2, <2>2, <2>3
<1>3. ASSUME NEW o \in Offers, NEW k \in Key, CreatePlan(o, k) PROVE PlansAreThere'
  <2> DEFINE late == \E q \in Offers : plans[q].pc = "asked" /\ plans[q].key = k
             fresh == [pc |-> "asked", key |-> k, published |-> FALSE, moved |-> FALSE, late |-> late]
             p == IF Offered(k) THEN [plans[o] EXCEPT !.pc = "refused"] ELSE fresh
  <2>1. plans[o].pc = "new" /\ plans[o] \in Plan /\ UNCHANGED subs
    BY <1>3 DEF CreatePlan, PlansAreThere
  <2>2. plans' = [plans EXCEPT ![o] = p]
    BY <1>3 DEF CreatePlan, Asked
  <2>3. late \in BOOLEAN
    OBVIOUS
  <2> HIDE DEF late
  <2>4. fresh \in Plan
    BY <2>3 DEF Plan
  <2>5. [plans[o] EXCEPT !.pc = "refused"] \in Plan
    BY <2>1 DEF Plan
  <2> HIDE DEF fresh
  <2>6. p \in Plan
    BY <2>4, <2>5
  <2> HIDE DEF p
  <2> QED
    BY <2>1, <2>2, <2>6, OnePlanGoesOn
<1>4. ASSUME NEW o \in Offers, NEW k \in Key, NEW shown \in BOOLEAN, UpdatePlan(o, k, shown) PROVE PlansAreThere'
  <2> DEFINE moved == plans[o].moved \/ k # plans[o].key
             p == [plans[o] EXCEPT !.key = k, !.moved = moved, !.published = shown]
  <2>1. plans[o] \in Plan /\ plans[o].pc = "live" /\ UNCHANGED subs
    BY <1>4 DEF UpdatePlan, PlansAreThere, Live
  <2>2. plans' = [plans EXCEPT ![o] = p]
    BY <1>4 DEF UpdatePlan
  <2>3. moved \in BOOLEAN
    BY <2>1 DEF Plan
  <2> HIDE DEF moved
  <2>4. p \in Plan /\ p.pc = "live"
    BY <2>1, <2>3 DEF Plan
  <2> HIDE DEF p
  <2> QED
    BY <2>1, <2>2, <2>4, OnePlanGoesOn
<1>5. ASSUME NEW s \in Purchases, SaveSubscription(s) PROVE PlansAreThere'
  <2>1. UNCHANGED plans /\ \A t \in Purchases : subs'[t].plan = subs[t].plan
    BY <1>5 DEF SaveSubscription, SubsWellFormed, Sub
  <2> QED
    BY <2>1, PlansStayThere
<1>6. ASSUME NEW s \in Purchases, NEW u \in Users, NEW o \in Offers, BuyPlan(s, u, o) PROVE PlansAreThere'
  <2>1. PICK q \in Sub : subs' = [subs EXCEPT ![s] = q] /\ q.plan \in {subs[s].plan, o}
    BY <1>6, BuyOutcome
  <2>2. UNCHANGED plans /\ o \in Live
    BY <1>6 DEF BuyPlan
  <2>3. \A t \in Purchases : subs'[t].plan = subs[t].plan \/ subs'[t].plan \in Live
    BY <2>1, <2>2 DEF SubsWellFormed
  <2> QED
    BY <2>2, <2>3, PlansStayThere
<1>7. ASSUME NEW c \in Confirms, Activate(c) PROVE PlansAreThere'
  <2>1. UNCHANGED plans /\ subs' = [subs EXCEPT ![confirms[c].sub].pc = "active"] /\ confirms[c].sub \in Purchases
    BY <1>7 DEF Activate, SubsWellFormed
  <2>2. \A t \in Purchases : subs'[t].plan = subs[t].plan
    BY <2>1 DEF SubsWellFormed, Sub
  <2> QED
    BY <2>1, <2>2, PlansStayThere
<1>8. CASE UNCHANGED <<plans, subs>>
  BY <1>8 DEF PlansAreThere
<1>9. ASSUME NEW c \in Confirms, NotePurchase(c) \/ ConfirmFails(c) PROVE PlansAreThere'
  BY <1>8, <1>9 DEF NotePurchase, ConfirmFails
<1>10. ASSUME NEW c \in Confirms, NEW s \in Purchases, PurchaseRefused(c, s) \/ ReadInactive(c, s)
       PROVE  PlansAreThere'
  BY <1>8, <1>10 DEF PurchaseRefused, ReadInactive
<1> QED
  BY <1>1, <1>2, <1>3, <1>4, <1>5, <1>6, <1>7, <1>9, <1>10 DEF PlanNext, OfferNext, PurchaseNext

(***************************************************************************)
(* The documents of plans and subscriptions keep their type, and a         *)
(* subscription refers to a plan that exists: nothing deletes one, and     *)
(* createSubscription looks it up first (plans.service.ts).                *)
(***************************************************************************)
THEOREM PlansTyped == PlanSpec => []PlanTypeOK
<1>1. PlanInit => SubsWellFormed /\ PlansAreThere
  BY DEF PlanInit, SubsWellFormed, PlansAreThere, Sub, Confirm, Plan
<1>2. SubsWellFormed /\ PlansAreThere => PlanTypeOK
  BY DEF SubsWellFormed, PlansAreThere, PlanTypeOK
<1> QED
  BY <1>1, <1>2, SubsStep, PlansStep, PTL DEF PlanSpec

\* Of two purchases of one plan by one user that were not refused one came while the
\* other was not confirmed.
Standing(s) == subs[s].pc \in {"asked", "pending", "active"}

TwinsAreLate ==
  \A s, t \in Purchases :
    s # t /\ Standing(s) /\ Standing(t) /\ subs[s].user = subs[t].user /\ subs[s].plan = subs[t].plan
      => subs[s].late \/ subs[t].late

\* A user with two active subscriptions to one plan asked for the second before the first
\* was confirmed (createSubscription, webhookPlanPurchased).
THEOREM SecondActives == PlanSpec => []SecondActiveNeedsPending
<1>1. PlanInit => TwinsAreLate
  BY DEF PlanInit, TwinsAreLate, Standing
<1>2. SubsWellFormed /\ TwinsAreLate /\ [PlanNext]_planVars => TwinsAreLate'
  <2> SUFFICES ASSUME SubsWellFormed, TwinsAreLate, [PlanNext]_planVars PROVE TwinsAreLate'
    OBVIOUS
  <2>1. CASE UNCHANGED subs
    BY <2>1 DEF TwinsAreLate, Standing
  <2>2. ASSUME NEW s \in Purchases, SaveSubscription(s) PROVE TwinsAreLate'
    BY <2>2 DEF SaveSubscription, SubsWellFormed, TwinsAreLate, Standing, Sub
  <2>3. ASSUME NEW s \in Purchases, NEW u \in Users, NEW o \in Offers, BuyPlan(s, u, o)
        PROVE  TwinsAreLate'
    <3>1. PICK q \in Sub :
            /\ subs' = [subs EXCEPT ![s] = q]
            /\ \/ q.pc = "refused"
               \/ /\ q.pc = "asked" /\ q.user = u /\ q.plan = o
                  /\ \A t \in Twins(s, u, o) : subs[t].pc # "active"
                  /\ q.late <=> \E t \in Twins(s, u, o) : subs[t].pc \in {"asked", "pending"}
      BY <2>3, BuyOutcome
    <3>2. subs'[s] = q /\ \A t \in Purchases : t # s => subs'[t] = subs[t]
      BY <3>1 DEF SubsWellFormed
    <3>3. ASSUME NEW t \in Purchases, t # s, Standing(t), q.pc = "asked", subs[t].user = u, subs[t].plan = o
          PROVE  q.late
      BY <3>1, <3>3 DEF Twins, Standing
    <3> QED
      BY <3>1, <3>2, <3>3 DEF TwinsAreLate, Standing
  <2>4. ASSUME NEW c \in Confirms, Activate(c) PROVE TwinsAreLate'
    BY <2>4 DEF Activate, SubsWellFormed, Saved, TwinsAreLate, Standing, Sub
  <2> QED
    BY <2>1, <2>2, <2>3, <2>4 DEF PlanNext, OfferNext, PurchaseNext, planVars, SavePlan, CreatePlan,
       UpdatePlan, PublishPlan, NotePurchase, ConfirmFails, PurchaseRefused, ReadInactive
<1>3. TwinsAreLate => SecondActiveNeedsPending
  BY DEF TwinsAreLate, Standing, SecondActiveNeedsPending
<1> QED
  BY <1>1, <1>2, <1>3, SubsStayWellFormed, PTL DEF PlanSpec

\* Until two confirmations of a purchase overlap, one is under way at most, and none once
\* the purchase is recorded.
Overlapped(s) == \E c \in Confirms : confirms[c].sub = s /\ confirms[c].late

ConfirmedOnce(s) ==
  /\ bought[s] <= 1
  /\ \A c \in Confirms : confirms[c].sub = s /\ confirms[c].pc = "read" => subs[s].pc = "pending"
  /\ \A c, d \in Confirms :
       /\ confirms[c].sub = s /\ confirms[d].sub = s
       /\ confirms[c].pc \in {"read", "note"} /\ confirms[d].pc \in {"read", "note"}
       => c = d
  /\ bought[s] > 0 => \A c \in Confirms : confirms[c].sub = s => confirms[c].pc \notin {"read", "note"}

Recorded ==
  \A s \in Purchases :
    /\ bought[s] > 0 => subs[s].pc = "active"
    /\ \A c \in Confirms : confirms[c].sub = s /\ confirms[c].pc = "note" => subs[s].pc = "active"
    /\ Overlapped(s) \/ ConfirmedOnce(s)

LEMMA RecordedStep == SubsWellFormed /\ Recorded /\ [PlanNext]_planVars => Recorded'
<1> SUFFICES ASSUME SubsWellFormed, Recorded, [PlanNext]_planVars PROVE Recorded'
  OBVIOUS
<1>1. CASE UNCHANGED <<subs, confirms, bought>>
  BY <1>1 DEF Recorded, Overlapped, ConfirmedOnce
<1>2. ASSUME NEW s \in Purchases, NEW q, q.pc # "active", q.pc = "pending" \/ subs[s].pc = "new",
             subs[s].pc \notin {"pending", "active"}, subs' = [subs EXCEPT ![s] = q],
             UNCHANGED <<confirms, bought>>
      PROVE  Recorded'
  <2>1. \A c \in Confirms : confirms[c].pc \in {"read", "note"} => confirms[c].sub # s
    BY <1>2 DEF SubsWellFormed, Saved
  <2>2. \A t \in Purchases : t # s => subs'[t] = subs[t]
    BY <1>2 DEF SubsWellFormed
  <2> QED
    BY <1>2, <2>1, <2>2 DEF Recorded, Overlapped, ConfirmedOnce, SubsWellFormed
<1>3. ASSUME NEW s \in Purchases, SaveSubscription(s) PROVE Recorded'
  <2>1. subs' = [subs EXCEPT ![s] = [subs[s] EXCEPT !.pc = "pending"]] /\ subs[s].pc = "asked"
    BY <1>3 DEF SaveSubscription
  <2>2. [subs[s] EXCEPT !.pc = "pending"].pc = "pending"
    BY DEF SubsWellFormed, Sub
  <2>3. UNCHANGED <<confirms, bought>>
    BY <1>3 DEF SaveSubscription
  <2> QED
    BY <1>2, <2>1, <2>2, <2>3
<1>4. ASSUME NEW s \in Purchases, NEW u \in Users, NEW o \in Offers, BuyPlan(s, u, o) PROVE Recorded'
  <2>1. PICK q \in Sub : subs' = [subs EXCEPT ![s] = q] /\ q.pc \in {"refused", "asked"}
    BY <1>4, BuyOutcome
  <2>2. subs[s].pc = "new" /\ UNCHANGED <<confirms, bought>>
    BY <1>4 DEF BuyPlan
  <2> QED
    BY <1>2, <2>1, <2>2
<1>5. ASSUME NEW c \in Confirms, Activate(c) PROVE Recorded'
  <2>1. UNCHANGED bought
    BY <1>5 DEF Activate
  <2>2. PICK s \in Purchases :
          /\ confirms[c].pc = "read" /\ confirms[c].sub = s
          /\ subs'[s].pc = "active"
          /\ \A t \in Purchases : t # s => subs'[t] = subs[t]
          /\ confirms'[c].pc = "note" /\ confirms'[c].sub = s /\ confirms'[c].late = confirms[c].late
          /\ \A d \in Confirms : d # c => confirms'[d] = confirms[d]
    BY <1>5, ActivateOutcome
  <2>3. \A t \in Purchases : Overlapped(t) => Overlapped(t)'
    BY <2>2 DEF Overlapped
  <2>4. ConfirmedOnce(s) => ConfirmedOnce(s)'
    BY <2>1, <2>2 DEF ConfirmedOnce, Recorded, SubsWellFormed
  <2>5. \A t \in Purchases : t # s /\ ConfirmedOnce(t) => ConfirmedOnce(t)'
    BY <2>1, <2>2 DEF ConfirmedOnce
  <2> QED
    BY <2>1, <2>2, <2>3, <2>4, <2>5 DEF Recorded
<1>6. ASSUME NEW c \in Confirms, NotePurchase(c) PROVE Recorded'
  BY <1>6 DEF NotePurchase, SubsWellFormed, Recorded, Overlapped, ConfirmedOnce, Confirm
<1>7. ASSUME NEW c \in Confirms, ConfirmFails(c) \/ \E s \in Purchases : PurchaseRefused(c, s)
      PROVE  Recorded'
  BY <1>7 DEF ConfirmFails, PurchaseRefused, SubsWellFormed, Recorded, Overlapped, ConfirmedOnce, Confirm
<1>8. ASSUME NEW c \in Confirms, NEW s \in Purchases, ReadInactive(c, s) PROVE Recorded'
  <2>1. PICK q \in Confirm :
          /\ confirms' = [confirms EXCEPT ![c] = q]
          /\ q.pc = "read" /\ q.sub = s
          /\ q.late <=> \E d \in Confirms \ {c} : confirms[d].pc = "read" /\ confirms[d].sub = s
    BY <1>8, ReadOutcome
  <2>2. confirms'[c] = q /\ \A d \in Confirms : d # c => confirms'[d] = confirms[d]
    BY <2>1 DEF SubsWellFormed
  <2>3. confirms[c].pc = "new" /\ subs[s].pc = "pending" /\ UNCHANGED <<subs, bought>>
    BY <1>8 DEF ReadInactive
  <2>4. ~confirms[c].late
    BY <2>3 DEF SubsWellFormed
  <2> QED
    BY <2>1, <2>2, <2>3, <2>4 DEF Recorded, Overlapped, ConfirmedOnce, SubsWellFormed
<1> QED
  BY <1>1, <1>3, <1>4, <1>5, <1>6, <1>7, <1>8 DEF PlanNext, OfferNext, PurchaseNext, planVars, SavePlan,
     CreatePlan, UpdatePlan, PublishPlan

\* A purchase is recorded once unless two confirmations of it overlapped, and only of an
\* active subscription (webhookPlanPurchased).
THEOREM PurchasesCountOnce == PlanSpec => []PurchaseCountsOnce
<1>1. PlanInit => Recorded
  BY DEF PlanInit, Recorded, Overlapped, ConfirmedOnce
<1>2. Recorded /\ SubsWellFormed => PurchaseCountsOnce
  BY DEF Recorded, Overlapped, ConfirmedOnce, PurchaseCountsOnce, SubsWellFormed
<1> QED
  BY <1>1, <1>2, RecordedStep, SubsStayWellFormed, PTL DEF PlanSpec
-----------------------------------------------------------------------------
(***************************************************************************)
(* Votes, likes and comments.                                              *)
(***************************************************************************)

CallTypes ==
  /\ marks \in SUBSET Mark
  /\ count \in [Posts -> [Marks -> Nat]]
  /\ comments \in SUBSET Comment
  /\ replyIds \in [Calls -> SUBSET Calls]
  /\ call \in [Calls -> Call]
  /\ \A c \in Calls : call[c].pc \in {"create", "count", "upvote"} =>
       call[c].user \in Users /\ call[c].post \in Posts /\ call[c].kind \in Marks
  /\ \A c \in Calls : call[c].pc \in {"comment", "link"} => call[c].post \in Posts
  /\ \A c \in Calls : call[c].pc = "link" => call[c].parent \in Calls

CallBecomes(c, q) ==
  /\ q \in Call
  /\ call' = [call EXCEPT ![c] = q]

LEMMA OtherCalls ==
  ASSUME call \in [Calls -> Call], NEW c \in Calls, NEW q, CallBecomes(c, q)
  PROVE  /\ call' \in [Calls -> Call] /\ call'[c] = q
         /\ \A d \in Calls : d # c => call'[d] = call[d]
  BY DEF CallBecomes

CallStages == {"create", "count", "upvote", "apply", "insert", "comment", "link", "done", "refused", "failed"}

\* A request that goes on keeps what it is about.
LEMMA GotoOutcome ==
  ASSUME call \in [Calls -> Call], NEW c \in Calls, NEW pc \in CallStages, CallGoto(c, pc)
  PROVE  \E q \in Call :
           /\ CallBecomes(c, q) /\ q.pc = pc
           /\ q.user = call[c].user /\ q.post = call[c].post /\ q.kind = call[c].kind
           /\ q.parent = call[c].parent /\ q.rival = call[c].rival /\ q.op = call[c].op
<1> DEFINE q == [call[c] EXCEPT !.pc = pc]
<1>1. call' = [call EXCEPT ![c] = q]
  BY DEF CallGoto
<1>2. q \in Call
  BY DEF Call, CallStages
<1>3. /\ q.pc = pc
      /\ q.user = call[c].user /\ q.post = call[c].post /\ q.kind = call[c].kind
      /\ q.parent = call[c].parent /\ q.rival = call[c].rival /\ q.op = call[c].op
  BY DEF Call
<1> HIDE DEF q
<1> QED
  BY <1>1, <1>2, <1>3 DEF CallBecomes

LEMMA CheckMarkOutcome ==
  ASSUME NEW c \in Calls, NEW k \in Marks, NEW u \in Users, NEW p \in Posts, CheckMark(c, k, u, p)
  PROVE  \E q \in Call :
           /\ CallBecomes(c, q) /\ q.pc \in {"refused", "create"}
           /\ q.pc = "create" => ~Marked(u, p, k)
           /\ q.user = u /\ q.post = p /\ q.kind = k
           /\ q.rival <=> \E d \in Calls : CallAt(d, "create") /\ SameMark(d, k, u, p)
<1> DEFINE pc == IF Marked(u, p, k) THEN "refused" ELSE "create"
           rival == \E d \in Calls : CallAt(d, "create") /\ SameMark(d, k, u, p)
           q == [NewCall EXCEPT !.pc = pc, !.kind = k, !.user = u, !.post = p, !.rival = rival]
<1>1. pc \in {"refused", "create"} /\ (pc = "create" => ~Marked(u, p, k)) /\ rival \in BOOLEAN
  OBVIOUS
<1>2. call' = [call EXCEPT ![c] = q]
  BY Zenon DEF CheckMark, Begin
<1> HIDE DEF pc, rival
<1>3. q \in Call
  BY <1>1 DEF Call, NewCall
<1>4. /\ q.pc = pc /\ q.user = u /\ q.post = p /\ q.kind = k /\ q.rival = rival
  BY DEF NewCall
<1>5. CallBecomes(c, q)
  BY <1>2, <1>3 DEF CallBecomes
<1> HIDE DEF q
<1> QED
  BY <1>1, <1>3, <1>4, <1>5 DEF rival

LEMMA ReadReactionOutcome ==
  ASSUME NEW c \in Calls, NEW u \in Users, ReadReaction(c, u)
  PROVE  \E q \in Call :
           /\ CallBecomes(c, q) /\ q.pc = "apply" /\ q.kind = "reaction" /\ q.user = u
           /\ q.op = OpFor(u) /\ (q.rival <=> \E d \in Calls : Toggling(d))
<1> DEFINE op == OpFor(u)
           rival == \E d \in Calls : Toggling(d)
           q == [NewCall EXCEPT !.pc = "apply", !.kind = "reaction", !.user = u, !.op = op,
                                !.rival = rival]
<1>1. op \in Ops /\ rival \in BOOLEAN
  BY DEF OpFor, Ops
<1>2. call' = [call EXCEPT ![c] = q]
  BY Zenon DEF ReadReaction
<1> HIDE DEF op, rival
<1>3. /\ q \in Call /\ q.pc = "apply" /\ q.kind = "reaction" /\ q.user = u
      /\ q.op = op /\ q.rival = rival
  BY <1>1 DEF Call, NewCall
<1> HIDE DEF q
<1>4. CallBecomes(c, q)
  BY <1>2, <1>3 DEF CallBecomes
<1> QED
  BY <1>1, <1>3, <1>4 DEF op, rival

Known(p, parent) == parent = None \/ \E d \in comments : d.id = parent /\ d.post = p

LEMMA RequestCommentOutcome ==
  ASSUME NEW c \in Calls, NEW p \in Posts, NEW parent \in Calls \union {None},
         RequestComment(c, p, parent)
  PROVE  \E q \in Call :
           /\ CallBecomes(c, q) /\ q.pc \in {"comment", "refused"}
           /\ q.pc = "comment" => Known(p, parent)
           /\ q.post = p /\ q.parent = parent /\ q.kind = "comment"
<1> DEFINE pc == IF Known(p, parent) THEN "comment" ELSE "refused"
           q == [NewCall EXCEPT !.kind = "comment", !.post = p, !.parent = parent, !.pc = pc]
<1>1. pc \in {"comment", "refused"} /\ (pc = "comment" => Known(p, parent))
  OBVIOUS
<1>2. call' = [call EXCEPT ![c] = q]
  BY Zenon DEF RequestComment, Known
<1> HIDE DEF pc
<1>3. q \in Call
  BY <1>1 DEF Call, NewCall
<1>4. q.pc = pc /\ q.post = p /\ q.parent = parent /\ q.kind = "comment"
  BY DEF NewCall
<1> HIDE DEF q
<1> QED
  BY <1>1, <1>2, <1>3, <1>4 DEF CallBecomes

\* The documents and totals of a step that creates and counts nothing.
LEMMA SameDocuments ==
  ASSUME CallTypes, NEW c \in Calls, NEW q, CallBecomes(c, q),
         UNCHANGED <<marks, count, comments, replyIds>>,
         q.pc \in {"create", "count", "upvote"} => q.user \in Users /\ q.post \in Posts /\ q.kind \in Marks,
         q.pc \in {"comment", "link"} => q.post \in Posts,
         q.pc = "link" => q.parent \in Calls
  PROVE  CallTypes'
  BY OtherCalls DEF CallTypes

LEMMA CallStep == CallTypes /\ [ReactNext]_reactVars => CallTypes'
<1> SUFFICES ASSUME CallTypes, [ReactNext]_reactVars PROVE CallTypes'
  OBVIOUS
<1>1. CASE UNCHANGED reactVars
  BY <1>1 DEF reactVars, markVars, commentVars, CallTypes
<1>2. ASSUME NEW c \in Calls, NEW k \in Marks, NEW u \in Users, NEW p \in Posts, CheckMark(c, k, u, p)
      PROVE  CallTypes'
  <2>1. PICK q \in Call : CallBecomes(c, q) /\ q.pc \in {"refused", "create"}
                         /\ q.user = u /\ q.post = p /\ q.kind = k
    BY <1>2, CheckMarkOutcome
  <2>2. UNCHANGED <<marks, count, comments, replyIds>>
    BY <1>2 DEF CheckMark, markVars, commentVars
  <2> QED
    BY <2>1, <2>2, SameDocuments
<1>3. ASSUME NEW c \in Calls, CreateMark(c) PROVE CallTypes'
  <2>1. CallGoto(c, "count") /\ call[c].pc = "create"
    BY <1>3 DEF CreateMark, CallAt
  <2>2. PICK q \in Call : CallBecomes(c, q) /\ q.pc = "count"
                         /\ q.user = call[c].user /\ q.post = call[c].post /\ q.kind = call[c].kind
    BY <2>1, GotoOutcome DEF CallTypes, CallStages
  <2>3. /\ marks' = marks \union {[id |-> c, user |-> call[c].user, post |-> call[c].post,
                                  kind |-> call[c].kind]}
        /\ UNCHANGED <<count, comments, replyIds>>
    BY <1>3 DEF CreateMark, commentVars
  <2>4. marks' \in SUBSET Mark
    BY <2>1, <2>3 DEF CallTypes, Mark
  <2>5. call' \in [Calls -> Call] /\ call'[c] = q /\ \A d \in Calls : d # c => call'[d] = call[d]
    BY <2>2, OtherCalls DEF CallTypes
  <2> QED
    BY <2>1, <2>2, <2>3, <2>4, <2>5 DEF CallTypes
<1>4. ASSUME NEW c \in Calls, CountMark(c) PROVE CallTypes'
  <2> DEFINE pc == IF call[c].kind = "for" THEN "upvote" ELSE "done"
  <2>1. /\ CallGoto(c, pc) /\ call[c].pc = "count"
        /\ count' = [count EXCEPT ![call[c].post][call[c].kind] = @ + 1]
        /\ UNCHANGED <<marks, comments, replyIds>>
    BY <1>4 DEF CountMark, CallAt, commentVars
  <2>2. pc \in {"upvote", "done"}
    OBVIOUS
  <2> HIDE DEF pc
  <2>3. PICK q \in Call : CallBecomes(c, q) /\ q.pc = pc
                         /\ q.user = call[c].user /\ q.post = call[c].post /\ q.kind = call[c].kind
    BY <2>1, <2>2, GotoOutcome DEF CallTypes, CallStages
  <2>4. count' \in [Posts -> [Marks -> Nat]]
    BY <2>1 DEF CallTypes
  <2>5. call' \in [Calls -> Call] /\ call'[c] = q /\ \A d \in Calls : d # c => call'[d] = call[d]
    BY <2>3, OtherCalls DEF CallTypes
  <2> QED
    BY <2>1, <2>2, <2>3, <2>4, <2>5 DEF CallTypes
<1>5. ASSUME NEW c \in Calls, NEW pc \in {"done", "failed", "insert"}, CallGoto(c, pc),
             UNCHANGED <<marks, count, comments, replyIds>>
      PROVE  CallTypes'
  <2>1. PICK q \in Call : CallBecomes(c, q) /\ q.pc = pc
    BY <1>5, GotoOutcome DEF CallTypes, CallStages
  <2> QED
    BY <1>5, <2>1, SameDocuments
<1>6. ASSUME NEW c \in Calls, SaveUpvote(c) \/ ApplyReaction(c) \/ InsertReaction(c) \/ CallFails(c)
      PROVE  CallTypes'
  <2>1. UNCHANGED <<marks, count, comments, replyIds>>
    BY <1>6 DEF SaveUpvote, ApplyReaction, InsertReaction, CallFails, markVars, commentVars
  <2>2. \E pc \in {"done", "failed", "insert"} : CallGoto(c, pc)
    BY <1>6 DEF SaveUpvote, ApplyReaction, InsertReaction, CallFails
  <2> QED
    BY <1>5, <2>1, <2>2
<1>7. ASSUME NEW c \in Calls, NEW u \in Users, ReadReaction(c, u) PROVE CallTypes'
  <2>1. PICK q \in Call : CallBecomes(c, q) /\ q.pc = "apply"
    BY <1>7, ReadReactionOutcome
  <2>2. UNCHANGED <<marks, count, comments, replyIds>>
    BY <1>7 DEF ReadReaction, markVars, commentVars
  <2> QED
    BY <2>1, <2>2, SameDocuments
<1>8. ASSUME NEW c \in Calls, NEW p \in Posts, NEW parent \in Calls \union {None},
             RequestComment(c, p, parent)
      PROVE  CallTypes'
  <2>1. PICK q \in Call : CallBecomes(c, q) /\ q.pc \in {"comment", "refused"} /\ q.post = p
    BY <1>8, RequestCommentOutcome
  <2>2. UNCHANGED <<marks, count, comments, replyIds>>
    BY <1>8 DEF RequestComment, markVars, commentVars
  <2> QED
    BY <2>1, <2>2, SameDocuments
<1>9. ASSUME NEW c \in Calls, CreateComment(c) PROVE CallTypes'
  <2> DEFINE pc == IF call[c].parent = None THEN "done" ELSE "link"
  <2>1. /\ CallGoto(c, pc) /\ call[c].pc = "comment"
        /\ comments' = comments \union {[id |-> c, post |-> call[c].post, parent |-> call[c].parent]}
        /\ UNCHANGED <<marks, count, replyIds>>
    BY <1>9 DEF CreateComment, CallAt, markVars
  <2>2. pc \in {"done", "link"} /\ (pc = "link" => call[c].parent # None)
    OBVIOUS
  <2> HIDE DEF pc
  <2>3. PICK q \in Call : CallBecomes(c, q) /\ q.pc = pc /\ q.post = call[c].post
                         /\ q.parent = call[c].parent
    BY <2>1, <2>2, GotoOutcome DEF CallTypes, CallStages
  <2>4. call[c].parent \in Calls \union {None} /\ call[c].post \in Posts
    BY <2>1 DEF CallTypes, Call
  <2>5. comments' \in SUBSET Comment
    BY <2>1, <2>4 DEF CallTypes, Comment
  <2>6. call' \in [Calls -> Call] /\ call'[c] = q /\ \A d \in Calls : d # c => call'[d] = call[d]
    BY <2>3, OtherCalls DEF CallTypes
  <2> QED
    BY <2>1, <2>2, <2>3, <2>4, <2>5, <2>6 DEF CallTypes
<1>10. ASSUME NEW c \in Calls, LinkReply(c) PROVE CallTypes'
  <2>1. /\ CallGoto(c, "done") /\ call[c].pc = "link"
        /\ replyIds' = [replyIds EXCEPT ![call[c].parent] = @ \union {c}]
        /\ UNCHANGED <<marks, count, comments>>
    BY <1>10 DEF LinkReply, CallAt, markVars
  <2>2. PICK q \in Call : CallBecomes(c, q) /\ q.pc = "done"
    BY <2>1, GotoOutcome DEF CallTypes, CallStages
  <2>3. replyIds' \in [Calls -> SUBSET Calls]
    BY <2>1 DEF CallTypes
  <2>4. call' \in [Calls -> Call] /\ call'[c] = q /\ \A d \in Calls : d # c => call'[d] = call[d]
    BY <2>2, OtherCalls DEF CallTypes
  <2> QED
    BY <2>1, <2>2, <2>3, <2>4 DEF CallTypes
<1> QED
  BY <1>1, <1>2, <1>3, <1>4, <1>6, <1>7, <1>8, <1>9, <1>10
     DEF ReactNext, MarkNext, ToggleNext, CommentNext

LEMMA CallTypesHold == ReactSpec => []CallTypes
<1>1. ReactInit => CallTypes
  BY DEF ReactInit, CallTypes, NewCall, Call
<1> QED
  BY <1>1, CallStep, PTL DEF ReactSpec

\* A reply on its way answers a comment on its post, and is a comment itself before it
\* is linked.
RepliesOnTheirWay ==
  \A c \in Calls :
    /\ call[c].pc \in {"comment", "link"} => Known(call[c].post, call[c].parent)
    /\ call[c].pc = "link" =>
         \E d \in comments : d.id = c /\ d.parent = call[c].parent /\ d.post = call[c].post

RepliesKept == RepliesOnTheirWay /\ RepliesAreComments

LEMMA CommentsStay ==
  ASSUME CallTypes, RepliesKept, NEW c \in Calls, NEW q, CallBecomes(c, q),
         comments \subseteq comments', replyIds' = replyIds,
         q.pc \in {"comment", "link"} => Known(q.post, q.parent)',
         q.pc = "link" => \E d \in comments' : d.id = c /\ d.parent = q.parent /\ d.post = q.post
  PROVE  RepliesKept'
<1>1. call'[c] = q /\ \A d \in Calls : d # c => call'[d] = call[d]
  BY OtherCalls DEF CallTypes
<1>2. RepliesOnTheirWay'
  BY <1>1 DEF RepliesKept, RepliesOnTheirWay, Known
<1>3. RepliesAreComments'
  BY DEF RepliesKept, RepliesAreComments
<1> QED
  BY <1>2, <1>3 DEF RepliesKept

LEMMA RepliesStep == CallTypes /\ RepliesKept /\ [ReactNext]_reactVars => RepliesKept'
<1> SUFFICES ASSUME CallTypes, RepliesKept, [ReactNext]_reactVars PROVE RepliesKept'
  OBVIOUS
<1>1. CASE UNCHANGED reactVars
  BY <1>1 DEF reactVars, commentVars, RepliesKept, RepliesOnTheirWay, RepliesAreComments, Known
<1>2. ASSUME NEW c \in Calls, NEW q, CallBecomes(c, q), q.pc \notin {"comment", "link"},
             UNCHANGED <<comments, replyIds>>
      PROVE  RepliesKept'
  BY <1>2, CommentsStay
<1>3. ASSUME NEW c \in Calls,
             \/ \E k \in Marks, u \in Users, p \in Posts : CheckMark(c, k, u, p)
             \/ \E u \in Users : ReadReaction(c, u)
             \/ CreateMark(c) \/ CountMark(c) \/ SaveUpvote(c)
             \/ ApplyReaction(c) \/ InsertReaction(c) \/ CallFails(c)
      PROVE  RepliesKept'
  <2>1. UNCHANGED <<comments, replyIds>>
    BY <1>3 DEF CheckMark, ReadReaction, CreateMark, CountMark, SaveUpvote, ApplyReaction, InsertReaction,
                CallFails, commentVars
  <2>2. CASE \E k \in Marks, u \in Users, p \in Posts : CheckMark(c, k, u, p)
    BY <1>2, <2>1, <2>2, CheckMarkOutcome
  <2>3. CASE \E u \in Users : ReadReaction(c, u)
    BY <1>2, <2>1, <2>3, ReadReactionOutcome
  <2>4. CASE \E pc \in CallStages \ {"comment", "link"} : CallGoto(c, pc)
    BY <1>2, <2>1, <2>4, GotoOutcome DEF CallTypes
  <2> QED
    BY <1>3, <2>2, <2>3, <2>4 DEF CreateMark, CountMark, SaveUpvote, ApplyReaction, InsertReaction,
                                  CallFails, CallStages
<1>4. ASSUME NEW c \in Calls, NEW p \in Posts, NEW parent \in Calls \union {None},
             RequestComment(c, p, parent)
      PROVE  RepliesKept'
  <2>1. PICK q \in Call :
          /\ CallBecomes(c, q) /\ q.pc \in {"comment", "refused"}
          /\ q.pc = "comment" => Known(p, parent)
          /\ q.post = p /\ q.parent = parent
    BY <1>4, RequestCommentOutcome
  <2>2. UNCHANGED <<comments, replyIds>>
    BY <1>4 DEF RequestComment, commentVars
  <2> QED
    BY <2>1, <2>2, CommentsStay DEF Known
<1>5. ASSUME NEW c \in Calls, CreateComment(c) PROVE RepliesKept'
  <2> DEFINE pc == IF call[c].parent = None THEN "done" ELSE "link"
             d == [id |-> c, post |-> call[c].post, parent |-> call[c].parent]
  <2>1. /\ CallGoto(c, pc) /\ call[c].pc = "comment"
        /\ comments' = comments \union {d}
        /\ UNCHANGED replyIds
    BY <1>5 DEF CreateComment, CallAt
  <2>2. pc \in {"done", "link"}
    OBVIOUS
  <2> HIDE DEF pc
  <2>3. PICK q \in Call : CallBecomes(c, q) /\ q.pc = pc /\ q.post = call[c].post
                         /\ q.parent = call[c].parent
    BY <2>1, <2>2, GotoOutcome DEF CallTypes, CallStages
  <2>4. Known(q.post, q.parent)'
    BY <2>1, <2>3 DEF RepliesKept, RepliesOnTheirWay, Known
  <2>5. d \in comments' /\ d.id = c /\ d.parent = q.parent /\ d.post = q.post
    BY <2>1, <2>3
  <2> HIDE DEF d
  <2> QED
    BY <2>1, <2>3, <2>4, <2>5, CommentsStay
<1>6. ASSUME NEW c \in Calls, LinkReply(c) PROVE RepliesKept'
  <2>1. /\ CallGoto(c, "done") /\ call[c].pc = "link"
        /\ replyIds' = [replyIds EXCEPT ![call[c].parent] = @ \union {c}]
        /\ comments' = comments
    BY <1>6 DEF LinkReply, CallAt
  <2>2. PICK q \in Call : CallBecomes(c, q) /\ q.pc = "done"
    BY <2>1, GotoOutcome DEF CallTypes, CallStages
  <2>3. call'[c] = q /\ \A d \in Calls : d # c => call'[d] = call[d]
    BY <2>2, OtherCalls DEF CallTypes
  <2>4. RepliesOnTheirWay'
    BY <2>1, <2>2, <2>3 DEF RepliesKept, RepliesOnTheirWay, Known
  <2>5. call[c].parent \in Calls
    BY <2>1 DEF CallTypes
  <2>6. \E d, e \in comments : d.id = c /\ e.id = call[c].parent /\ d.parent = call[c].parent /\ d.post = e.post
    BY <2>1, <2>5, CallsAssumption DEF RepliesKept, RepliesOnTheirWay, Known
  <2>7. ASSUME NEW r \in Calls, NEW a \in replyIds'[r]
        PROVE  a \in replyIds[r] \/ (a = c /\ r = call[c].parent)
    BY <2>1, <2>7 DEF CallTypes
  <2>8. RepliesAreComments'
    BY <2>1, <2>6, <2>7 DEF RepliesKept, RepliesAreComments
  <2> QED
    BY <2>4, <2>8 DEF RepliesKept
<1> QED
  BY <1>1, <1>3, <1>4, <1>5, <1>6 DEF ReactNext, MarkNext, ToggleNext, CommentNext

\* What a comment lists as its replies are comments on its post that name it
\* (requestCommentFunc links a reply after it created it).
THEOREM RepliesExist == ReactSpec => []RepliesAreComments
<1>1. ReactInit => RepliesKept
  BY DEF ReactInit, RepliesKept, RepliesOnTheirWay, RepliesAreComments, NewCall
<1> QED
  BY <1>1, RepliesStep, CallTypesHold, PTL DEF ReactSpec, RepliesKept

\* A mark belongs to the request that created it, which is at its counting or behind it.
MarksHaveCalls ==
  /\ IsFiniteSet(marks)
  /\ \A m \in marks :
       /\ call[m.id].pc \in {"count", "upvote", "done", "failed"}
       /\ call[m.id].user = m.user /\ call[m.id].post = m.post /\ call[m.id].kind = m.kind
  /\ \A c \in Calls : call[c].pc \in {"count", "upvote"} => \E m \in marks : m.id = c

Its(p, k) == {m \in marks : m.post = p /\ m.kind = k}
Counted(p, k) == {m \in Its(p, k) : call[m.id].pc \in {"upvote", "done"}}
NotCounting(p, k) == {m \in Its(p, k) : call[m.id].pc # "count"}

Totalled ==
  \A p \in Posts, k \in Marks :
    /\ Cardinality(Counted(p, k)) <= count[p][k]
    /\ count[p][k] <= Cardinality(NotCounting(p, k))

\* A second mark, created or about to be, has read over the first.
Same(u, p, k, v, q, l) == u = v /\ p = q /\ k \in ListOf(l)

Overlaps ==
  /\ \A c, d \in Calls :
       /\ c # d /\ call[c].pc = "create" /\ call[d].pc = "create"
       /\ Same(call[c].user, call[c].post, call[c].kind, call[d].user, call[d].post, call[d].kind)
       => call[c].rival \/ call[d].rival
  /\ \A c \in Calls : \A m \in marks :
       call[c].pc = "create" /\ Same(call[c].user, call[c].post, call[c].kind, m.user, m.post, m.kind)
       => call[c].rival \/ call[m.id].rival
  /\ SecondMarkNeedsOverlap

LEMMA ListsAgree == \A k, l : k \in ListOf(l) /\ l \in Marks => l \in ListOf(k) /\ k \in Marks
  BY DEF ListOf, Marks

\* A mark is told from the others by its request.
LEMMA MarkIsItsCall ==
  ASSUME CallTypes, MarksHaveCalls, NEW m \in marks, NEW n \in marks, m.id = n.id
  PROVE  m = n
  BY DEF CallTypes, MarksHaveCalls, Mark

\* Sets of marks are finite.
LEMMA ItsFinite ==
  ASSUME MarksHaveCalls, NEW p, NEW k
  PROVE  IsFiniteSet(Counted(p, k)) /\ IsFiniteSet(NotCounting(p, k))
  BY FS_Subset DEF MarksHaveCalls, Counted, NotCounting, Its

\* A step of a request without a mark.
LEMMA UnmarkedStep ==
  ASSUME CallTypes, MarksHaveCalls, Totalled, NEW c \in Calls, NEW q, CallBecomes(c, q),
         call[c].pc \notin {"count", "upvote", "done", "failed"},
         q.pc \notin {"count", "upvote"}, UNCHANGED <<marks, count>>
  PROVE  MarksHaveCalls' /\ Totalled'
<1>1. call'[c] = q /\ \A d \in Calls : d # c => call'[d] = call[d]
  BY OtherCalls DEF CallTypes
<1>2. \A m \in marks : m.id \in Calls /\ call'[m.id] = call[m.id]
  BY <1>1 DEF CallTypes, MarksHaveCalls, Mark
<1>3. MarksHaveCalls'
  BY <1>1, <1>2 DEF MarksHaveCalls
<1>4. ASSUME NEW p \in Posts, NEW k \in Marks
      PROVE  Counted(p, k)' = Counted(p, k) /\ NotCounting(p, k)' = NotCounting(p, k)
  BY <1>2 DEF Counted, NotCounting, Its
<1> QED
  BY <1>3, <1>4 DEF Totalled

LEMMA CreateTotals ==
  ASSUME CallTypes, MarksHaveCalls, Totalled, NEW c \in Calls, CreateMark(c)
  PROVE  MarksHaveCalls' /\ Totalled'
<1> DEFINE n == [id |-> c, user |-> call[c].user, post |-> call[c].post, kind |-> call[c].kind]
<1>1. /\ CallGoto(c, "count") /\ call[c].pc = "create"
      /\ marks' = marks \union {n} /\ count' = count
  BY DEF CreateMark, CallAt
<1>2. PICK q \in Call : CallBecomes(c, q) /\ q.pc = "count"
                       /\ q.user = call[c].user /\ q.post = call[c].post /\ q.kind = call[c].kind
  BY <1>1, GotoOutcome DEF CallTypes, CallStages
<1>3. call'[c] = q /\ \A d \in Calls : d # c => call'[d] = call[d]
  BY <1>2, OtherCalls DEF CallTypes
<1>4. \A m \in marks : m.id \in Calls /\ m.id # c /\ call'[m.id] = call[m.id]
  BY <1>1, <1>3 DEF CallTypes, MarksHaveCalls, Mark
<1>5. n.id = c /\ n.user = q.user /\ n.post = q.post /\ n.kind = q.kind
  BY <1>2
<1> HIDE DEF n
<1>6. IsFiniteSet(marks')
  BY <1>1, FS_AddElement DEF MarksHaveCalls
<1>7. MarksHaveCalls'
  BY <1>1, <1>2, <1>3, <1>4, <1>5, <1>6 DEF MarksHaveCalls
<1>8. ASSUME NEW p \in Posts, NEW k \in Marks
      PROVE  Counted(p, k)' = Counted(p, k) /\ NotCounting(p, k)' = NotCounting(p, k)
  BY <1>1, <1>2, <1>3, <1>4, <1>5 DEF Counted, NotCounting, Its
<1> QED
  BY <1>1, <1>7, <1>8 DEF Totalled

LEMMA CountTotals ==
  ASSUME CallTypes, MarksHaveCalls, Totalled, NEW c \in Calls, CountMark(c)
  PROVE  MarksHaveCalls' /\ Totalled'
<1> DEFINE pc == IF call[c].kind = "for" THEN "upvote" ELSE "done"
<1>1. /\ CallGoto(c, pc) /\ call[c].pc = "count"
      /\ count' = [count EXCEPT ![call[c].post][call[c].kind] = @ + 1]
      /\ marks' = marks
  BY DEF CountMark, CallAt
<1>2. pc \in {"upvote", "done"}
  OBVIOUS
<1> HIDE DEF pc
<1>3. PICK q \in Call : CallBecomes(c, q) /\ q.pc = pc
                       /\ q.user = call[c].user /\ q.post = call[c].post /\ q.kind = call[c].kind
  BY <1>1, <1>2, GotoOutcome DEF CallTypes, CallStages
<1>4. call'[c] = q /\ \A d \in Calls : d # c => call'[d] = call[d]
  BY <1>3, OtherCalls DEF CallTypes
<1>5. PICK n \in marks : n.id = c
  BY <1>1 DEF MarksHaveCalls
<1>6. /\ n.post = call[c].post /\ n.kind = call[c].kind
      /\ call[c].post \in Posts /\ call[c].kind \in Marks
  BY <1>1, <1>5 DEF CallTypes, MarksHaveCalls
<1>7. \A m \in marks : m # n => m.id \in Calls /\ m.id # c /\ call'[m.id] = call[m.id]
  BY <1>4, <1>5, MarkIsItsCall DEF CallTypes, Mark
<1>8. MarksHaveCalls'
  BY <1>1, <1>2, <1>3, <1>4, <1>5, <1>7 DEF MarksHaveCalls
<1>9. ASSUME NEW p \in Posts, NEW k \in Marks, p # n.post \/ k # n.kind
      PROVE  /\ Cardinality(Counted(p, k)') <= count'[p][k]
             /\ count'[p][k] <= Cardinality(NotCounting(p, k)')
  <2>1. Counted(p, k)' = Counted(p, k) /\ NotCounting(p, k)' = NotCounting(p, k)
    BY <1>1, <1>7, <1>9 DEF Counted, NotCounting, Its
  <2>2. count'[p][k] = count[p][k]
    BY <1>1, <1>6, <1>9 DEF CallTypes
  <2> QED
    BY <2>1, <2>2 DEF Totalled
<1>10. ASSUME NEW p \in Posts, NEW k \in Marks, p = n.post, k = n.kind
       PROVE  /\ Cardinality(Counted(p, k)') <= count'[p][k]
              /\ count'[p][k] <= Cardinality(NotCounting(p, k)')
  <2>1. Counted(p, k)' = Counted(p, k) \union {n} /\ NotCounting(p, k)' = NotCounting(p, k) \union {n}
    BY <1>1, <1>2, <1>3, <1>4, <1>5, <1>7, <1>10 DEF Counted, NotCounting, Its
  <2>2. n \notin Counted(p, k) /\ n \notin NotCounting(p, k)
    BY <1>1, <1>5 DEF Counted, NotCounting
  <2>3. /\ Cardinality(Counted(p, k)') = Cardinality(Counted(p, k)) + 1
        /\ Cardinality(NotCounting(p, k)') = Cardinality(NotCounting(p, k)) + 1
    BY <2>1, <2>2, ItsFinite, FS_AddElement
  <2>4. count'[p][k] = count[p][k] + 1 /\ count[p][k] \in Nat
    BY <1>1, <1>6, <1>10 DEF CallTypes
  <2>5. Cardinality(Counted(p, k)) \in Nat /\ Cardinality(NotCounting(p, k)) \in Nat
    BY ItsFinite, FS_CardinalityType
  <2> QED
    BY <2>3, <2>4, <2>5 DEF Totalled
<1> QED
  BY <1>8, <1>9, <1>10 DEF Totalled

\* Behind its counting a request may only fall out of those that are done.
LEMMA LateTotals ==
  ASSUME CallTypes, MarksHaveCalls, Totalled, NEW c \in Calls, NEW q, CallBecomes(c, q),
         \/ call[c].pc \in {"count", "upvote"} /\ q.pc = "failed"
         \/ call[c].pc = "upvote" /\ q.pc = "done",
         q.user = call[c].user, q.post = call[c].post, q.kind = call[c].kind,
         UNCHANGED <<marks, count>>
  PROVE  MarksHaveCalls' /\ Totalled'
<1>1. call'[c] = q /\ \A d \in Calls : d # c => call'[d] = call[d]
  BY OtherCalls DEF CallTypes
<1>2. \A m \in marks : m.id \in Calls
  BY DEF CallTypes, Mark
<1>3. MarksHaveCalls'
  BY <1>1, <1>2 DEF MarksHaveCalls
<1>4. ASSUME NEW p \in Posts, NEW k \in Marks
      PROVE  Counted(p, k)' \subseteq Counted(p, k) /\ NotCounting(p, k) \subseteq NotCounting(p, k)'
  BY <1>1, <1>2 DEF Counted, NotCounting, Its
<1>5. ASSUME NEW p \in Posts, NEW k \in Marks
      PROVE  IsFiniteSet(Counted(p, k)) /\ IsFiniteSet(NotCounting(p, k)')
  BY <1>3, FS_Subset DEF MarksHaveCalls, Counted, NotCounting, Its
<1>6. ASSUME NEW p \in Posts, NEW k \in Marks
      PROVE  /\ Cardinality(Counted(p, k)') <= Cardinality(Counted(p, k))
             /\ Cardinality(NotCounting(p, k)) <= Cardinality(NotCounting(p, k)')
             /\ Cardinality(Counted(p, k)') \in Nat /\ Cardinality(Counted(p, k)) \in Nat
             /\ Cardinality(NotCounting(p, k)') \in Nat /\ Cardinality(NotCounting(p, k)) \in Nat
  BY <1>4, <1>5, FS_Subset, FS_CardinalityType
<1> QED
  BY <1>3, <1>6 DEF Totalled, CallTypes

LEMMA TotalsStep ==
  CallTypes /\ MarksHaveCalls /\ Totalled /\ [ReactNext]_reactVars => MarksHaveCalls' /\ Totalled'
<1> SUFFICES ASSUME CallTypes, MarksHaveCalls, Totalled, [ReactNext]_reactVars
             PROVE  MarksHaveCalls' /\ Totalled'
  OBVIOUS
<1>1. CASE UNCHANGED reactVars
  BY <1>1 DEF reactVars, markVars, MarksHaveCalls, Totalled, Counted, NotCounting, Its
<1>2. ASSUME NEW c \in Calls,
             \/ \E k \in Marks, u \in Users, p \in Posts : CheckMark(c, k, u, p)
             \/ \E u \in Users : ReadReaction(c, u)
             \/ \E p \in Posts, parent \in Calls \union {None} : RequestComment(c, p, parent)
      PROVE  MarksHaveCalls' /\ Totalled'
  <2>1. call[c].pc = "new" /\ UNCHANGED <<marks, count>>
    BY <1>2 DEF CheckMark, Begin, ReadReaction, RequestComment, CallAt, markVars
  <2>2. PICK q \in Call : CallBecomes(c, q) /\ q.pc \notin {"count", "upvote"}
    BY <1>2, CheckMarkOutcome, ReadReactionOutcome, RequestCommentOutcome
  <2> QED
    BY <2>1, <2>2, UnmarkedStep
<1>3. ASSUME NEW c \in Calls,
             ApplyReaction(c) \/ InsertReaction(c) \/ CreateComment(c) \/ LinkReply(c)
      PROVE  MarksHaveCalls' /\ Totalled'
  <2>1. call[c].pc \notin {"count", "upvote", "done", "failed"} /\ UNCHANGED <<marks, count>>
    BY <1>3 DEF ApplyReaction, InsertReaction, CreateComment, LinkReply, CallAt, markVars
  <2>2. \E pc \in CallStages \ {"count", "upvote"} : CallGoto(c, pc)
    BY <1>3 DEF ApplyReaction, InsertReaction, CreateComment, LinkReply, CallStages
  <2>3. PICK q \in Call : CallBecomes(c, q) /\ q.pc \notin {"count", "upvote"}
    BY <2>2, GotoOutcome DEF CallTypes
  <2> QED
    BY <2>1, <2>3, UnmarkedStep
<1>4. ASSUME NEW c \in Calls, SaveUpvote(c) PROVE MarksHaveCalls' /\ Totalled'
  <2>1. call[c].pc = "upvote" /\ UNCHANGED <<marks, count>> /\ CallGoto(c, "done")
    BY <1>4 DEF SaveUpvote, CallAt
  <2>2. PICK q \in Call : CallBecomes(c, q) /\ q.pc = "done"
                         /\ q.user = call[c].user /\ q.post = call[c].post /\ q.kind = call[c].kind
    BY <2>1, GotoOutcome DEF CallTypes, CallStages
  <2> QED
    BY <2>1, <2>2, LateTotals
<1>5. ASSUME NEW c \in Calls, CallFails(c) PROVE MarksHaveCalls' /\ Totalled'
  <2>1. /\ call[c].pc \notin {"new", "done", "refused", "failed"}
        /\ UNCHANGED <<marks, count>> /\ CallGoto(c, "failed")
    BY <1>5 DEF CallFails, markVars
  <2>2. PICK q \in Call : CallBecomes(c, q) /\ q.pc = "failed"
                         /\ q.user = call[c].user /\ q.post = call[c].post /\ q.kind = call[c].kind
    BY <2>1, GotoOutcome DEF CallTypes, CallStages
  <2>3. CASE call[c].pc \in {"count", "upvote"}
    BY <2>1, <2>2, <2>3, LateTotals
  <2>4. CASE call[c].pc \notin {"count", "upvote"}
    BY <2>1, <2>2, <2>4, UnmarkedStep
  <2> QED
    BY <2>3, <2>4
<1> QED
  BY <1>1, <1>2, <1>3, <1>4, <1>5, CreateTotals, CountTotals
     DEF ReactNext, MarkNext, ToggleNext, CommentNext

\* A step that creates no mark and brings no request to the creation of one.
LEMMA NoCreation ==
  ASSUME CallTypes, MarksHaveCalls, Overlaps, NEW c \in Calls, NEW q, CallBecomes(c, q),
         q.pc # "create", UNCHANGED marks,
         call[c].pc \in {"count", "upvote", "done", "failed"} => q.rival = call[c].rival
  PROVE  Overlaps'
<1>1. call'[c] = q /\ \A d \in Calls : d # c => call'[d] = call[d]
  BY OtherCalls DEF CallTypes
<1>2. \A m \in marks : m.id \in Calls /\ call'[m.id].rival = call[m.id].rival
  BY <1>1 DEF CallTypes, MarksHaveCalls, Mark
<1>3. \A d \in Calls : call'[d].pc = "create" => d # c /\ call'[d] = call[d]
  BY <1>1
<1> QED
  BY <1>2, <1>3 DEF Overlaps, SecondMarkNeedsOverlap

LEMMA CheckOverlaps ==
  ASSUME CallTypes, MarksHaveCalls, Overlaps, NEW c \in Calls, NEW k \in Marks, NEW u \in Users,
         NEW p \in Posts, CheckMark(c, k, u, p)
  PROVE  Overlaps'
<1>1. call[c].pc = "new" /\ marks' = marks
  BY DEF CheckMark, Begin, CallAt, markVars
<1>2. PICK q \in Call :
        /\ CallBecomes(c, q)
        /\ q.pc = "create" => ~Marked(u, p, k)
        /\ q.user = u /\ q.post = p /\ q.kind = k
        /\ q.rival <=> \E d \in Calls : CallAt(d, "create") /\ SameMark(d, k, u, p)
  BY CheckMarkOutcome
<1>3. call'[c] = q /\ \A d \in Calls : d # c => call'[d] = call[d]
  BY <1>2, OtherCalls DEF CallTypes
<1>4. \A m \in marks : m.id \in Calls /\ m.id # c /\ m.kind \in Marks
  BY <1>1 DEF MarksHaveCalls, CallTypes, Mark
<1>5. ASSUME NEW d \in Calls, d # c, call[d].pc = "create",
             \/ Same(u, p, k, call[d].user, call[d].post, call[d].kind)
             \/ Same(call[d].user, call[d].post, call[d].kind, u, p, k)
      PROVE  q.rival
  BY <1>2, <1>5, ListsAgree DEF Same, SameMark, CallAt, CallTypes
<1>6. ASSUME NEW m \in marks, q.pc = "create", Same(u, p, k, m.user, m.post, m.kind)
      PROVE  FALSE
  BY <1>2, <1>4, <1>6, ListsAgree DEF Same, Marked
<1>7. ASSUME NEW a \in Calls, NEW b \in Calls, a # b, call'[a].pc = "create", call'[b].pc = "create",
             Same(call'[a].user, call'[a].post, call'[a].kind, call'[b].user, call'[b].post, call'[b].kind)
      PROVE  call'[a].rival \/ call'[b].rival
  <2>1. CASE a = c
    BY <1>2, <1>3, <1>5, <1>7, <2>1
  <2>2. CASE b = c
    BY <1>2, <1>3, <1>5, <1>7, <2>2
  <2>3. CASE a # c /\ b # c
    BY <1>3, <1>7, <2>3 DEF Overlaps
  <2> QED
    BY <2>1, <2>2, <2>3
<1>8. ASSUME NEW a \in Calls, NEW m \in marks, call'[a].pc = "create",
             Same(call'[a].user, call'[a].post, call'[a].kind, m.user, m.post, m.kind)
      PROVE  call'[a].rival \/ call'[m.id].rival
  <2>1. CASE a = c
    BY <1>2, <1>3, <1>6, <1>8, <2>1
  <2>2. CASE a # c
    BY <1>3, <1>4, <1>8, <2>2 DEF Overlaps
  <2> QED
    BY <2>1, <2>2
<1>9. SecondMarkNeedsOverlap'
  BY <1>1, <1>3, <1>4 DEF Overlaps, SecondMarkNeedsOverlap
<1> QED
  BY <1>1, <1>7, <1>8, <1>9 DEF Overlaps

LEMMA CreateOverlaps ==
  ASSUME CallTypes, MarksHaveCalls, Overlaps, NEW c \in Calls, CreateMark(c)
  PROVE  Overlaps'
<1> DEFINE n == [id |-> c, user |-> call[c].user, post |-> call[c].post, kind |-> call[c].kind]
<1>1. /\ CallGoto(c, "count") /\ call[c].pc = "create"
      /\ marks' = marks \union {n}
  BY DEF CreateMark, CallAt
<1>2. PICK q \in Call : CallBecomes(c, q) /\ q.pc = "count" /\ q.rival = call[c].rival
  BY <1>1, GotoOutcome DEF CallTypes, CallStages
<1>3. call'[c] = q /\ \A d \in Calls : d # c => call'[d] = call[d]
  BY <1>2, OtherCalls DEF CallTypes
<1>4. \A m \in marks : m.id \in Calls /\ m.id # c /\ call'[m.id] = call[m.id] /\ m.kind \in Marks
  BY <1>1, <1>3 DEF CallTypes, MarksHaveCalls, Mark
<1>5. /\ n.id = c /\ n.user = call[c].user /\ n.post = call[c].post /\ n.kind = call[c].kind
      /\ n.kind \in Marks
  BY <1>1 DEF CallTypes
<1> HIDE DEF n
<1>6. \A d \in Calls : call'[d].pc = "create" => d # c /\ call'[d] = call[d]
  BY <1>2, <1>3
<1>7. \A d \in Calls : call[d].pc = "create" => call[d].kind \in Marks
  BY DEF CallTypes
<1>8. ASSUME NEW a \in Calls, NEW m \in marks', call'[a].pc = "create",
             Same(call'[a].user, call'[a].post, call'[a].kind, m.user, m.post, m.kind)
      PROVE  call'[a].rival \/ call'[m.id].rival
  <2>1. CASE m = n
    <3>1. a # c /\ call'[a] = call[a] /\ call[a].pc = "create" /\ call'[c].rival = call[c].rival
      BY <1>2, <1>3, <1>6, <1>8
    <3>2. call[a].rival \/ call[c].rival
      BY <1>1, <1>5, <1>8, <2>1, <3>1 DEF Overlaps
    <3> QED
      BY <1>5, <2>1, <3>1, <3>2
  <2>2. CASE m \in marks
    BY <1>4, <1>6, <1>8, <2>2 DEF Overlaps
  <2> QED
    BY <1>1, <2>1, <2>2
<1>9. ASSUME NEW m \in marks, Same(n.user, n.post, n.kind, m.user, m.post, m.kind)
      PROVE  call'[c].rival \/ call'[m.id].rival
  BY <1>1, <1>2, <1>3, <1>4, <1>5, <1>9 DEF Overlaps
<1>10. ASSUME NEW m \in marks', NEW l \in marks', m # l, m.user = l.user, m.post = l.post,
              m.kind \in ListOf(l.kind)
       PROVE  call'[m.id].rival \/ call'[l.id].rival
  <2>1. CASE m \in marks /\ l \in marks
    BY <1>4, <1>10, <2>1 DEF Overlaps, SecondMarkNeedsOverlap
  <2>2. CASE m = n /\ l \in marks
    BY <1>5, <1>9, <1>10, <2>2 DEF Same
  <2>3. CASE m \in marks /\ l = n
    BY <1>5, <1>9, <1>10, <2>3, ListsAgree DEF Same
  <2> QED
    BY <1>1, <1>10, <2>1, <2>2, <2>3
<1> QED
  BY <1>6, <1>8, <1>10 DEF Overlaps, SecondMarkNeedsOverlap

LEMMA OverlapsStep == CallTypes /\ MarksHaveCalls /\ Overlaps /\ [ReactNext]_reactVars => Overlaps'
<1> SUFFICES ASSUME CallTypes, MarksHaveCalls, Overlaps, [ReactNext]_reactVars
             PROVE  Overlaps'
  OBVIOUS
<1>1. CASE UNCHANGED reactVars
  BY <1>1 DEF reactVars, markVars, Overlaps, SecondMarkNeedsOverlap
<1>2. ASSUME NEW c \in Calls,
             \/ \E u \in Users : ReadReaction(c, u)
             \/ \E p \in Posts, parent \in Calls \union {None} : RequestComment(c, p, parent)
      PROVE  Overlaps'
  <2>1. call[c].pc = "new" /\ UNCHANGED marks
    BY <1>2 DEF ReadReaction, RequestComment, CallAt, markVars
  <2>2. PICK q \in Call : CallBecomes(c, q) /\ q.pc # "create"
    BY <1>2, ReadReactionOutcome, RequestCommentOutcome
  <2> QED
    BY <2>1, <2>2, NoCreation
<1>3. ASSUME NEW c \in Calls,
             \/ CountMark(c) \/ SaveUpvote(c) \/ ApplyReaction(c) \/ InsertReaction(c)
             \/ CreateComment(c) \/ LinkReply(c) \/ CallFails(c)
      PROVE  Overlaps'
  <2>1. UNCHANGED marks
    BY <1>3 DEF CountMark, SaveUpvote, ApplyReaction, InsertReaction, CreateComment, LinkReply, CallFails,
                markVars
  <2>2. \E pc \in CallStages \ {"create"} : CallGoto(c, pc)
    BY <1>3 DEF CountMark, SaveUpvote, ApplyReaction, InsertReaction, CreateComment, LinkReply, CallFails,
                CallStages
  <2>3. PICK q \in Call : CallBecomes(c, q) /\ q.pc # "create" /\ q.rival = call[c].rival
    BY <2>2, GotoOutcome DEF CallTypes
  <2> QED
    BY <2>1, <2>3, NoCreation
<1> QED
  BY <1>1, <1>2, <1>3, CheckOverlaps, CreateOverlaps DEF ReactNext, MarkNext, ToggleNext, CommentNext

\* Votes and likes of any number of accounts: totals lose no increment and make none
\* twice, and a second mark of one account takes two overlapping requests
\* (requestVoteFunc, requestLikeFunc).
THEOREM MarksAlwaysAddUp == ReactSpec => []MarksAddUp
<1>1. ReactInit => MarksHaveCalls /\ Totalled /\ Overlaps
  <2> SUFFICES ASSUME ReactInit PROVE MarksHaveCalls /\ Totalled /\ Overlaps
    OBVIOUS
  <2>1. marks = {} /\ \A c \in Calls : call[c].pc = "new"
    BY DEF ReactInit, NewCall
  <2>2. \A p, k : Counted(p, k) = {} /\ NotCounting(p, k) = {}
    BY <2>1 DEF Counted, NotCounting, Its
  <2>3. \A p \in Posts, k \in Marks : count[p][k] = 0
    BY DEF ReactInit
  <2>4. MarksHaveCalls /\ Overlaps
    BY <2>1, FS_EmptySet DEF MarksHaveCalls, Overlaps, SecondMarkNeedsOverlap
  <2> QED
    BY <2>2, <2>3, <2>4, FS_EmptySet DEF Totalled
<1>2. MarksHaveCalls /\ Totalled /\ Overlaps => MarksAddUp
  BY DEF Totalled, Overlaps, MarksAddUp, TotalsMatchMarks, Counted, NotCounting, Its
<1> QED
  BY <1>1, <1>2, CallTypesHold, TotalsStep, OverlapsStep, PTL DEF ReactSpec

Doc == [addresses : Seq(Users), value : Int]

\* A request on its way knows what to do, and one that found no document does not delete.
ReactionTypes ==
  /\ reaction \in Seq(Doc)
  /\ upvotes \in SUBSET Calls
  /\ \A c \in Calls : call[c].pc \in {"apply", "insert"} =>
       call[c].kind = "reaction" /\ call[c].user \in Users /\ call[c].op \in Ops
  /\ \A c \in Calls : call[c].pc = "insert" => call[c].op # "delete"
  /\ \A c \in Calls : call[c].pc = "new" => call[c].kind = "none"

\* A document as it should be, and the one there is.
Sound(r) == r.value = Len(r.addresses) /\ IsInjective(r.addresses) /\ r.value > 0

Alone == \A c \in Calls : call[c].kind = "reaction" => ~call[c].rival

Fits(q) ==
  /\ q.pc = "insert" => reaction = <<>> /\ q.op = "set"
  /\ q.op = "set" => reaction = <<>>
  /\ q.op \in {"push", "pull"} => reaction # <<>>
  /\ q.op = "push" => q.user \notin ToSet(reaction[1].addresses)
  /\ q.op = "pull" => q.user \in ToSet(reaction[1].addresses) /\ reaction[1].value > 1

OneReaction ==
  /\ Len(reaction) <= 1
  /\ \A i \in DOMAIN reaction : Sound(reaction[i])

\* While no two requests overlap there is one on its way at most, and what it is going to
\* do fits the document.
Kept ==
  Alone => /\ OneReaction
           /\ \A c, d \in Calls : Toggling(c) /\ Toggling(d) => c = d
           /\ \A c \in Calls : Toggling(c) => Fits(call[c])

LEMMA UpdatedTypes ==
  ASSUME NEW r \in Doc, NEW u \in Users, NEW op \in {"set", "push", "pull"}
  PROVE  Updated(r, op, u) \in Doc
<1>1. r.addresses \in Seq(Users) /\ r.value \in Int
  BY DEF Doc
<1>2. Those(r.addresses, Users \ {u}) \in Seq(Users)
  BY <1>1, ThoseList
<1>3. <<u>> \in Seq(Users) /\ Append(r.addresses, u) \in Seq(Users)
  BY <1>1
<1> DEFINE those == Those(r.addresses, Users \ {u})
<1> HIDE DEF those
<1>4. CASE op = "set"
  BY <1>3, <1>4 DEF Updated, Doc
<1>5. CASE op = "pull"
  <2>1. Updated(r, op, u) = [addresses |-> those, value |-> r.value - 1]
    BY <1>5 DEF Updated, those
  <2> QED
    BY <2>1, <1>1, <1>2 DEF Doc, those
<1>6. CASE op = "push"
  BY <1>1, <1>3, <1>6 DEF Updated, Doc
<1> QED
  BY <1>4, <1>5, <1>6

\* An update that fits leaves a sound document.
LEMMA UpdatedSound ==
  ASSUME NEW r \in Doc, NEW u \in Users,
         NEW op \in {"set", "push", "pull"},
         op # "set" => Sound(r),
         op = "push" => u \notin ToSet(r.addresses),
         op = "pull" => u \in ToSet(r.addresses) /\ r.value > 1
  PROVE  Sound(Updated(r, op, u))
<1> DEFINE s == r.addresses
<1>1. s \in Seq(Users) /\ r.value \in Int /\ Len(s) \in Nat
  BY DEF Doc
<1>2. CASE op = "set"
  <2>1. Updated(r, op, u) = [addresses |-> <<u>>, value |-> 1]
    BY <1>2 DEF Updated
  <2>2. Len(<<u>>) = 1 /\ IsInjective(<<u>>)
    BY DEF IsInjective
  <2> QED
    BY <2>1, <2>2 DEF Sound
<1>3. CASE op = "push"
  <2>1. Updated(r, op, u) = [addresses |-> Append(s, u), value |-> r.value + 1]
    BY <1>3 DEF Updated
  <2>2. IsInjective(s) /\ r.value = Len(s) /\ u \notin ToSet(s)
    BY <1>3 DEF Sound
  <2>3. ASSUME NEW i \in DOMAIN Append(s, u), NEW j \in DOMAIN Append(s, u), Append(s, u)[i] = Append(s, u)[j]
        PROVE  i = j
    <3>1. \A k \in DOMAIN s : s[k] # u
      BY <2>2 DEF ToSet
    <3>2. i \in 1 .. Len(s) + 1 /\ j \in 1 .. Len(s) + 1
      BY <1>1
    <3>3. \A k \in 1 .. Len(s) + 1 : Append(s, u)[k] = IF k <= Len(s) THEN s[k] ELSE u
      BY <1>1
    <3>4. DOMAIN s = 1 .. Len(s)
      BY <1>1
    <3> HIDE DEF s
    <3> QED
      BY <1>1, <2>2, <2>3, <3>1, <3>2, <3>3, <3>4 DEF IsInjective
  <2>4. Len(Append(s, u)) = Len(s) + 1
    BY <1>1
  <2> HIDE DEF s
  <2> QED
    BY <1>1, <2>1, <2>2, <2>3, <2>4 DEF Sound, IsInjective
<1>4. CASE op = "pull"
  <2> DEFINE those == Those(s, Users \ {u})
  <2>1. Updated(r, op, u) = [addresses |-> those, value |-> r.value - 1]
    BY <1>4 DEF Updated
  <2>2. IsInjective(s) /\ r.value = Len(s) /\ u \in ToSet(s) /\ r.value > 1
    BY <1>4 DEF Sound
  <2>3. IsInjective(those)
    BY <1>1, <2>2, ThoseList
  <2>4. Len(those) = Len(s) - 1
    BY <1>1, <2>2, ThoseButOne
  <2> HIDE DEF s, those
  <2> QED
    BY <1>1, <2>1, <2>2, <2>3, <2>4 DEF Sound
<1> QED
  BY <1>2, <1>3, <1>4

\* A step that has to do with no reaction.
LEMMA OtherKept ==
  ASSUME CallTypes, ReactionTypes, Kept, NEW c \in Calls, NEW q, CallBecomes(c, q),
         UNCHANGED reaction, upvotes' \in SUBSET Calls,
         q.pc \notin {"new", "apply", "insert"},
         \/ q.kind = call[c].kind /\ q.rival = call[c].rival
         \/ call[c].pc = "new" /\ q.kind # "reaction"
  PROVE  ReactionTypes' /\ Kept'
<1>1. call' \in [Calls -> Call] /\ call'[c] = q /\ \A d \in Calls : d # c => call'[d] = call[d]
  BY OtherCalls DEF CallTypes
<1>2. ReactionTypes'
  BY <1>1 DEF ReactionTypes
<1>3. ASSUME Alone' PROVE Alone
  BY <1>1, <1>3 DEF Alone, ReactionTypes
<1>4. \A d \in Calls : Toggling(d)' => d # c /\ Toggling(d) /\ call'[d] = call[d]
  BY <1>1 DEF Toggling
<1>5. ASSUME NEW d \in Calls, Fits(call[d]), call'[d] = call[d] PROVE Fits(call[d])'
  BY <1>5 DEF Fits
<1>6. OneReaction => OneReaction'
  BY DEF OneReaction
<1> QED
  BY <1>2, <1>3, <1>4, <1>5, <1>6 DEF Kept

LEMMA ReadKept ==
  ASSUME CallTypes, ReactionTypes, Kept, NEW c \in Calls, NEW u \in Users, ReadReaction(c, u)
  PROVE  ReactionTypes' /\ Kept'
<1>1. PICK q \in Call :
        /\ CallBecomes(c, q) /\ q.pc = "apply" /\ q.kind = "reaction" /\ q.user = u
        /\ q.op = OpFor(u) /\ (q.rival <=> \E d \in Calls : Toggling(d))
  BY ReadReactionOutcome
<1>2. call' \in [Calls -> Call] /\ call'[c] = q /\ \A d \in Calls : d # c => call'[d] = call[d]
  BY <1>1, OtherCalls DEF CallTypes
<1>3. call[c].pc = "new" /\ UNCHANGED <<reaction, upvotes>>
  BY DEF ReadReaction, CallAt, markVars
<1>4. q.op \in Ops
  BY <1>1 DEF OpFor, Ops
<1>5. ReactionTypes'
  BY <1>1, <1>2, <1>3, <1>4 DEF ReactionTypes
<1>6. ASSUME Alone' PROVE Alone /\ \A d \in Calls : ~Toggling(d)
  BY <1>1, <1>2, <1>3, <1>6 DEF Alone, ReactionTypes
<1>7. ASSUME Alone' PROVE Fits(q)
  <2>1. OneReaction
    BY <1>6, <1>7 DEF Kept
  <2>2. reaction # <<>> => 1 \in DOMAIN reaction /\ Head(reaction) = reaction[1] /\ reaction[1] \in Doc
    BY DEF ReactionTypes
  <2>3. reaction # <<>> => reaction[1].value # 0 /\ reaction[1].value \in Int
    BY <2>1, <2>2 DEF OneReaction, Sound, Doc
  <2> QED
    BY <1>1, <2>2, <2>3 DEF OpFor, Fits, Contains, ToSet
<1>8. ASSUME Alone' PROVE OneReaction'
  BY <1>3, <1>6, <1>8 DEF Kept, OneReaction
<1>9. \A d \in Calls : d # c /\ Toggling(d)' => Toggling(d)
  BY <1>2 DEF Toggling
<1>10. ASSUME Alone' PROVE Fits(call[c])'
  BY <1>2, <1>3, <1>7, <1>10 DEF Fits
<1> QED
  BY <1>5, <1>6, <1>8, <1>9, <1>10 DEF Kept

\* A write keeps the types, and the request that fits leaves the one document sound.
LEMMA WriteKept ==
  ASSUME CallTypes, ReactionTypes, Kept, NEW c \in Calls, Toggling(c), NEW q, CallBecomes(c, q),
         UNCHANGED upvotes, q.pc \in {"insert", "done"},
         q.kind = call[c].kind, q.rival = call[c].rival, q.op = call[c].op, q.user = call[c].user,
         reaction' \in Seq(Doc),
         q.pc = "insert" => q.op # "delete",
         OneReaction /\ Fits(call[c]) => OneReaction' /\ (q.pc = "insert" => Fits(q)')
  PROVE  ReactionTypes' /\ Kept'
<1>1. call' \in [Calls -> Call] /\ call'[c] = q /\ \A d \in Calls : d # c => call'[d] = call[d]
  BY OtherCalls DEF CallTypes
<1>2. ReactionTypes'
  BY <1>1 DEF ReactionTypes, Toggling
<1>3. ASSUME Alone' PROVE Alone
  BY <1>1, <1>3 DEF Alone
<1>4. ASSUME Alone', NEW d \in Calls, Toggling(d)' PROVE d = c /\ q.pc = "insert"
  BY <1>1, <1>3, <1>4 DEF Kept, Toggling
<1>5. Fits(q)' /\ call'[c] = q => Fits(call[c])'
  BY DEF Fits
<1> QED
  BY <1>1, <1>2, <1>3, <1>4, <1>5 DEF Kept

LEMMA ApplyKept ==
  ASSUME CallTypes, ReactionTypes, Kept, NEW c \in Calls, ApplyReaction(c)
  PROVE  ReactionTypes' /\ Kept'
<1> DEFINE me == call[c]
           gone == reaction = <<>> \/ me.op = "delete"
           pc == IF gone /\ me.op # "delete" THEN "insert" ELSE "done"
           new == Updated(Head(reaction), me.op, me.user)
<1>1. /\ me.pc = "apply" /\ me.op \in Ops /\ me.user \in Users /\ me.kind = "reaction"
      /\ UNCHANGED upvotes
  BY DEF ApplyReaction, CallAt, ReactionTypes, markVars
<1>2. CallGoto(c, pc) /\ pc \in {"insert", "done"}
  BY DEF ApplyReaction
<1>3. reaction \in Seq(Doc)
  BY DEF ReactionTypes
<1>4. PICK q \in Call :
        /\ CallBecomes(c, q) /\ q.pc = pc
        /\ q.kind = me.kind /\ q.rival = me.rival /\ q.op = me.op /\ q.user = me.user
  <2> HIDE DEF pc
  <2> QED
    BY <1>2, GotoOutcome DEF CallTypes, CallStages
<1>5. gone => reaction' = IF reaction = <<>> THEN reaction ELSE Tail(reaction)
  BY DEF ApplyReaction
<1>6. ~gone => reaction' = <<new>> \o Tail(reaction)
  BY DEF ApplyReaction
<1>7. ~gone => reaction # <<>> /\ Head(reaction) = reaction[1] /\ reaction[1] \in Doc
              /\ me.op \in {"set", "push", "pull"}
  BY <1>1, <1>3 DEF Ops
<1>8. ~gone => new \in Doc
  BY <1>1, <1>7, UpdatedTypes
<1>9. reaction' \in Seq(Doc)
  <2>1. CASE gone
    BY <1>3, <1>5, <2>1
  <2>2. CASE ~gone
    <3> HIDE DEF new, gone
    <3> QED
      BY <1>3, <1>6, <1>7, <1>8, <2>2
  <2> QED
    BY <2>1, <2>2
<1>10. ASSUME OneReaction, Fits(me) PROVE OneReaction' /\ (pc = "insert" => Fits(q)')
  <2>1. CASE reaction = <<>>
    <3>1. reaction' = <<>> /\ (pc = "insert" => q.op = "set")
      BY <1>1, <1>4, <1>5, <1>10, <2>1 DEF Fits, Ops
    <3> QED
      BY <3>1, <1>4 DEF OneReaction, Fits
  <2>2. CASE reaction # <<>> /\ me.op = "delete"
    <3>1. reaction' = <<>> /\ pc = "done"
      BY <1>3, <1>5, <1>10, <2>2 DEF OneReaction
    <3> QED
      BY <3>1 DEF OneReaction
  <2>3. CASE ~gone
    <3>0. reaction # <<>> /\ pc = "done" /\ reaction[1] \in Doc /\ Head(reaction) = reaction[1]
          /\ me.op \in {"push", "pull"}
      BY <1>7, <1>10, <2>3 DEF Fits
    <3>1. Len(reaction) = 1 /\ DOMAIN reaction = {1} /\ Sound(reaction[1])
      <4>1. Len(reaction) \in Nat /\ DOMAIN reaction = 1 .. Len(reaction) /\ Len(reaction) # 0
        BY <1>3, <3>0
      <4> QED
        BY <1>10, <4>1 DEF OneReaction
    <3> DEFINE r == reaction[1]
    <3>2. Sound(new)
      <4>1. /\ me.op = "push" => me.user \notin ToSet(r.addresses)
            /\ me.op = "pull" => me.user \in ToSet(r.addresses) /\ r.value > 1
        BY <1>10 DEF Fits
      <4>2. r \in Doc /\ Sound(r) /\ me.op \in {"set", "push", "pull"} /\ new = Updated(r, me.op, me.user)
        BY <3>0, <3>1
      <4> HIDE DEF r, new
      <4> QED
        BY <1>1, <4>1, <4>2, UpdatedSound
    <3> HIDE DEF new
    <3>3. reaction' = <<new>>
      <4>1. Len(Tail(reaction)) = 0 /\ Tail(reaction) \in Seq(Doc)
        BY <1>3, <3>0, <3>1
      <4>2. \A t \in Seq(Doc) : Len(t) = 0 => t = <<>>
        OBVIOUS
      <4>3. <<new>> \o <<>> = <<new>>
        OBVIOUS
      <4> QED
        BY <1>6, <2>3, <4>1, <4>2, <4>3
    <3> QED
      BY <3>1, <3>2, <3>3 DEF OneReaction
  <2> QED
    BY <2>1, <2>2, <2>3
<1>11. pc = "insert" => me.op # "delete"
  OBVIOUS
<1>12. Toggling(c)
  BY <1>1 DEF Toggling
<1> HIDE DEF new, gone, pc
<1> QED
  BY <1>1, <1>2, <1>4, <1>9, <1>10, <1>11, <1>12, WriteKept

LEMMA InsertKept ==
  ASSUME CallTypes, ReactionTypes, Kept, NEW c \in Calls, InsertReaction(c)
  PROVE  ReactionTypes' /\ Kept'
<1> DEFINE me == call[c]
           none == [addresses |-> <<>>, value |-> 0]
           new == Updated(none, me.op, me.user)
<1>1. /\ me.pc = "insert" /\ me.op \in {"set", "push", "pull"} /\ me.user \in Users
      /\ me.kind = "reaction" /\ UNCHANGED upvotes /\ CallGoto(c, "done")
  BY DEF InsertReaction, CallAt, ReactionTypes, markVars, Ops
<1>2. reaction' = Append(reaction, new)
  BY DEF InsertReaction
<1>3. reaction \in Seq(Doc) /\ none \in Doc
  BY DEF ReactionTypes, Doc
<1> HIDE DEF none
<1>4. new \in Doc
  BY <1>1, <1>3, UpdatedTypes
<1>5. PICK q \in Call :
        /\ CallBecomes(c, q) /\ q.pc = "done"
        /\ q.kind = me.kind /\ q.rival = me.rival /\ q.op = me.op /\ q.user = me.user
  BY <1>1, GotoOutcome DEF CallTypes, CallStages
<1>6. ASSUME Fits(me) PROVE OneReaction'
  <2>1. reaction = <<>> /\ me.op = "set"
    BY <1>1, <1>6 DEF Fits
  <2>2. Sound(new)
    BY <1>1, <1>3, <2>1, UpdatedSound
  <2> HIDE DEF new
  <2>3. reaction' = <<new>>
    BY <1>2, <2>1
  <2> QED
    BY <2>2, <2>3 DEF OneReaction
<1>7. Toggling(c)
  BY <1>1 DEF Toggling
<1> HIDE DEF new
<1>8. reaction' \in Seq(Doc)
  BY <1>2, <1>3, <1>4
<1> QED
  BY <1>1, <1>5, <1>6, <1>7, <1>8, WriteKept

LEMMA KeptStep ==
  CallTypes /\ ReactionTypes /\ Kept /\ [ReactNext]_reactVars => ReactionTypes' /\ Kept'
<1> SUFFICES ASSUME CallTypes, ReactionTypes, Kept, [ReactNext]_reactVars
             PROVE  ReactionTypes' /\ Kept'
  OBVIOUS
<1>1. CASE UNCHANGED reactVars
  BY <1>1 DEF reactVars, markVars, ReactionTypes, Kept, Alone, OneReaction, Toggling, Fits
<1>2. ASSUME NEW c \in Calls, NEW k \in Marks, NEW u \in Users, NEW p \in Posts, CheckMark(c, k, u, p)
      PROVE  ReactionTypes' /\ Kept'
  <2>1. PICK q \in Call : CallBecomes(c, q) /\ q.pc \in {"refused", "create"} /\ q.kind = k
    BY <1>2, CheckMarkOutcome
  <2>2. UNCHANGED <<reaction, upvotes>> /\ call[c].pc = "new"
    BY <1>2 DEF CheckMark, Begin, CallAt, markVars
  <2> QED
    BY <2>1, <2>2, OtherKept DEF Marks, ReactionTypes
<1>3. ASSUME NEW c \in Calls, NEW p \in Posts, NEW parent \in Calls \union {None},
             RequestComment(c, p, parent)
      PROVE  ReactionTypes' /\ Kept'
  <2>1. PICK q \in Call : CallBecomes(c, q) /\ q.pc \in {"comment", "refused"} /\ q.kind = "comment"
    BY <1>3, RequestCommentOutcome
  <2>2. UNCHANGED <<reaction, upvotes>> /\ call[c].pc = "new"
    BY <1>3 DEF RequestComment, CallAt, markVars
  <2> QED
    BY <2>1, <2>2, OtherKept DEF ReactionTypes
<1>4. ASSUME NEW c \in Calls,
             \/ CreateMark(c) \/ CountMark(c) \/ SaveUpvote(c) \/ CreateComment(c)
             \/ LinkReply(c) \/ CallFails(c)
      PROVE  ReactionTypes' /\ Kept'
  <2>1. PICK pc \in CallStages \ {"new", "apply", "insert"} : CallGoto(c, pc)
    BY <1>4 DEF CallStages, CreateMark, CountMark, SaveUpvote, CreateComment, LinkReply, CallFails
  <2>2. UNCHANGED reaction /\ upvotes' \in SUBSET Calls
    BY <1>4 DEF CreateMark, CountMark, SaveUpvote, CreateComment, LinkReply, CallFails,
                markVars, ReactionTypes
  <2>3. PICK q \in Call : CallBecomes(c, q) /\ q.pc = pc /\ q.kind = call[c].kind
                         /\ q.rival = call[c].rival
    BY <2>1, GotoOutcome DEF CallTypes
  <2> QED
    BY <2>1, <2>2, <2>3, OtherKept
<1> QED
  BY <1>1, <1>2, <1>3, <1>4, ReadKept, ApplyKept, InsertKept
     DEF ReactNext, MarkNext, ToggleNext, CommentNext

\* The documents and the requests for them keep their types.
THEOREM ReactTypesHold == ReactSpec => []ReactTypeOK
<1>1. ReactInit => ReactionTypes /\ Kept
  BY DEF ReactInit, ReactionTypes, Kept, Alone, OneReaction, Toggling, NewCall, Doc
<1>2. CallTypes /\ ReactionTypes => ReactTypeOK
  BY DEF CallTypes, ReactionTypes, ReactTypeOK, Doc
<1> QED
  BY <1>1, <1>2, KeptStep, CallTypesHold, PTL DEF ReactSpec

\* Requests for a reaction that do not overlap leave one document at most, whose value is
\* the number of its addresses, each there once (requestReactionFunc), for any number of
\* accounts and requests.
THEOREM ReactionsCount == ReactSpec => []ReactionCountsAddresses
<1>1. ReactInit => ReactionTypes /\ Kept
  BY DEF ReactInit, ReactionTypes, Kept, Alone, OneReaction, Toggling, NewCall, Doc
<1>2. Kept => ReactionCountsAddresses
  BY DEF Kept, Alone, OneReaction, Sound, ReactionCountsAddresses
<1> QED
  BY <1>1, <1>2, KeptStep, CallTypesHold, PTL DEF ReactSpec

-----------------------------------------------------------------------------
(***************************************************************************)
(* Pictures.                                                               *)
(***************************************************************************)

LEMMA OrderIsTitles ==
  /\ \A i \in 1 .. 4 : Order[i] \in Titles
  /\ \A t \in Titles : \E i \in 1 .. 4 : Order[i] = t
  /\ \A i \in 1 .. 4 : Order[i] = "funds" <=> i = 4
<1>1. Order[1] = "owner" /\ Order[2] = "subscription" /\ Order[3] = "ppv" /\ Order[4] = "funds"
  BY DEF Order
<1> HIDE DEF Order
<1>2. \A i \in 1 .. 4 : i = 1 \/ i = 2 \/ i = 3 \/ i = 4
  OBVIOUS
<1> QED
  BY <1>1, <1>2 DEF Titles

\* A request has read the titles before its step, saw none that was not there at some
\* moment, and missed none that was there at every moment.
ReadRightly(q) ==
  /\ q.seen \subseteq q.ever
  /\ \A t \in q.seen : Counts(t)
  /\ \A i \in 1 .. 4 : i < q.step /\ Order[i] \in q.always /\ Counts(Order[i]) => Order[i] \in q.seen

KeyOf(q) == IF ~isVideo /\ ~Open(q.signed, q.seen) THEN "blurred" ELSE "original"

LookOK(q) ==
  /\ ReadRightly(q)
  /\ q.pc = "new" => q.step = 1 /\ q.seen = {}
  /\ q.pc = "read" => /\ q.step <= 4 /\ q.user \in Users
                      /\ titles[q.user] \subseteq q.ever /\ q.always \subseteq titles[q.user]
  /\ q.pc \in {"answer", "fetch", "done"} => q.step = 5
  /\ q.pc = "fetch" => q.key = KeyOf(q)
  /\ q.served # None => q.pc = "done" /\ q.served = KeyOf(q)

LooksOK ==
  /\ titles \in [Users -> SUBSET Titles]
  /\ looks \in [Looks -> Look]
  /\ cached \in [Pictures -> Pictures \union {None}]
  /\ \A k \in Pictures : cached[k] \in {None, k}
  /\ \A l \in Looks : LookOK(looks[l])

LEMMA LookStays ==
  ASSUME LooksOK, NEW l \in Looks, NEW q \in Look, looks' = [looks EXCEPT ![l] = q],
         LookOK(q), UNCHANGED <<gates, isVideo, titles>>,
         cached' \in [Pictures -> Pictures \union {None}],
         \A k \in Pictures : cached'[k] \in {None, k}
  PROVE  LooksOK'
<1>1. looks' \in [Looks -> Look] /\ looks'[l] = q /\ \A m \in Looks : m # l => looks'[m] = looks[m]
  BY DEF LooksOK
<1>2. \A r : LookOK(r) => LookOK(r)'
  BY DEF LookOK, ReadRightly, KeyOf, Counts, Open
<1>3. \A m \in Looks : LookOK(looks[m])'
  BY <1>1, <1>2 DEF LooksOK
<1> QED
  BY <1>1, <1>3 DEF LooksOK

LEMMA AskOK ==
  ASSUME LooksOK, NEW l \in Looks, NEW u \in Users, NEW signed \in BOOLEAN, AskImage(l, u, signed)
  PROVE  LooksOK'
<1> DEFINE q == [looks[l] EXCEPT !.pc = "read", !.user = u, !.signed = signed,
                                 !.ever = titles[u], !.always = titles[u]]
<1>1. looks' = [looks EXCEPT ![l] = q] /\ looks[l].pc = "new"
  BY Zenon DEF AskImage
<1>2. looks[l] \in Look /\ titles[u] \in SUBSET Titles
  BY DEF LooksOK
<1>3. q \in Look
  BY <1>2 DEF Look
<1>4. /\ q.pc = "read" /\ q.user = u /\ q.ever = titles[u] /\ q.always = titles[u]
      /\ q.step = looks[l].step /\ q.seen = looks[l].seen /\ q.served = looks[l].served
  BY <1>2 DEF Look
<1> HIDE DEF q
<1>5. LookOK(looks[l])
  BY DEF LooksOK
<1>6. LookOK(q)
  BY <1>1, <1>4, <1>5 DEF LookOK, ReadRightly
<1>7. UNCHANGED <<gates, isVideo, titles, cached>>
  BY DEF AskImage
<1> QED
  BY <1>1, <1>3, <1>6, <1>7, LookStays DEF LooksOK

LEMMA ReadTitleOK ==
  ASSUME LooksOK, NEW l \in Looks, ReadTitle(l)
  PROVE  LooksOK'
<1> DEFINE t == Order[looks[l].step]
           found == IF Counts(t) THEN {t} \intersect titles[looks[l].user] ELSE {}
           seen == looks[l].seen \union found
           pc == IF t = "funds" THEN "answer" ELSE "read"
           step == looks[l].step + 1
           q == [looks[l] EXCEPT !.seen = seen, !.step = step, !.pc = pc]
<1>0. looks' = [looks EXCEPT ![l] = q]
  BY DEF ReadTitle
<1>1. looks[l].pc = "read"
  BY DEF ReadTitle
<1>2. looks[l] \in Look /\ LookOK(looks[l])
  BY DEF LooksOK
<1>3. /\ looks[l].step \in 1 .. 4 /\ looks[l].user \in Users /\ t \in Titles
      /\ t = "funds" <=> looks[l].step = 4
  BY <1>1, <1>2, OrderIsTitles DEF LookOK, Look
<1>4. /\ found \subseteq Titles /\ found \subseteq titles[looks[l].user]
      /\ \A x \in found : Counts(x)
      /\ t \in titles[looks[l].user] /\ Counts(t) => t \in found
  BY <1>3 DEF LooksOK
<1>5. pc \in {"answer", "read"} /\ (pc = "answer" <=> looks[l].step = 4)
  BY <1>3
<1> HIDE DEF found, pc
<1>6. seen \in SUBSET Titles
  BY <1>2, <1>4 DEF Look
<1>12. step \in 1 .. 5
  BY <1>3
<1> HIDE DEF seen, step
<1>7. q \in Look
  BY <1>2, <1>12, <1>5, <1>6 DEF Look
<1>8. /\ q.pc = pc /\ q.seen = seen /\ q.step = looks[l].step + 1
      /\ q.user = looks[l].user /\ q.ever = looks[l].ever /\ q.always = looks[l].always
      /\ q.served = looks[l].served
  BY <1>2 DEF Look, step
<1> HIDE DEF q
<1>9. ReadRightly(q)
  <2>1. q.seen \subseteq q.ever /\ \A x \in q.seen : Counts(x)
    BY <1>1, <1>2, <1>4, <1>8 DEF LookOK, ReadRightly, seen
  <2>2. ASSUME NEW i \in 1 .. 4, i < q.step, Order[i] \in q.always, Counts(Order[i])
        PROVE  Order[i] \in q.seen
    <3>1. i < looks[l].step \/ i = looks[l].step
      BY <1>3, <1>8, <2>2
    <3>2. CASE i < looks[l].step
      BY <1>2, <1>8, <2>2, <3>2 DEF LookOK, ReadRightly, seen
    <3>3. CASE i = looks[l].step
      BY <1>1, <1>2, <1>4, <1>8, <2>2, <3>3 DEF LookOK, seen
    <3> QED
      BY <3>1, <3>2, <3>3
  <2> QED
    BY <2>1, <2>2 DEF ReadRightly
<1>10. LookOK(q)
  BY <1>1, <1>2, <1>3, <1>5, <1>8, <1>9 DEF LookOK
<1>11. UNCHANGED <<gates, isVideo, titles, cached>>
  BY DEF ReadTitle
<1> QED
  BY <1>0, <1>7, <1>10, <1>11, LookStays DEF LooksOK

LEMMA AnswerOK ==
  ASSUME LooksOK, NEW l \in Looks, Answer(l)
  PROVE  LooksOK'
<1> DEFINE key == CacheKey(l)
           hit == cached[key] # None
           pc == IF hit THEN "done" ELSE "fetch"
           served == IF hit THEN key ELSE looks[l].served
           q == [looks[l] EXCEPT !.pc = pc, !.key = key, !.served = served]
<1>1. looks[l].pc = "answer" /\ UNCHANGED <<gates, isVideo, titles, cached>>
  BY DEF Answer
<1>2. looks[l] \in Look /\ LookOK(looks[l])
  BY DEF LooksOK
<1>3. key \in Pictures /\ key = KeyOf(looks[l]) /\ cached[key] \in {None, key}
  BY DEF CacheKey, KeyOf, Pictures, LooksOK
<1>4. looks' = [looks EXCEPT ![l] = q]
  <2>1. CASE hit
    <3>1. looks' = [looks EXCEPT ![l] = [looks[l] EXCEPT !.pc = "done", !.key = key, !.served = cached[key]]]
      BY Zenon, <2>1 DEF Answer
    <3> QED
      BY Zenon, <1>3, <2>1, <3>1
  <2>2. CASE ~hit
    <3>1. looks' = [looks EXCEPT ![l] = [looks[l] EXCEPT !.pc = "fetch", !.key = key]]
      BY Zenon, <2>2 DEF Answer
    <3>2. [looks[l] EXCEPT !.pc = "fetch", !.key = key] = q
      BY <1>2, <2>2 DEF Look
    <3> QED
      BY Zenon, <3>1, <3>2
  <2> QED
    BY <2>1, <2>2
<1>5. pc \in {"done", "fetch"} /\ served \in Pictures \union {None}
  BY <1>2, <1>3 DEF Look
<1>6. served # None => pc = "done" /\ served = key
  BY <1>1, <1>2 DEF LookOK
<1> HIDE DEF key, pc, served
<1>7. q \in Look
  BY <1>2, <1>3, <1>5 DEF Look
<1>8. /\ q.pc = pc /\ q.key = key /\ q.served = served
      /\ q.seen = looks[l].seen /\ q.step = looks[l].step /\ q.ever = looks[l].ever
      /\ q.always = looks[l].always /\ q.signed = looks[l].signed
  BY <1>2 DEF Look
<1> HIDE DEF q
<1>9. KeyOf(q) = key
  BY <1>3, <1>8 DEF KeyOf
<1>10. LookOK(q)
  BY <1>1, <1>2, <1>5, <1>6, <1>8, <1>9 DEF LookOK, ReadRightly
<1> QED
  BY <1>1, <1>4, <1>7, <1>10, LookStays DEF LooksOK

LEMMA FetchOK ==
  ASSUME LooksOK, NEW l \in Looks, FetchPicture(l)
  PROVE  LooksOK'
<1> DEFINE q == [looks[l] EXCEPT !.pc = "done", !.served = looks[l].key]
<1>1. /\ looks' = [looks EXCEPT ![l] = q] /\ looks[l].pc = "fetch"
      /\ cached' = [cached EXCEPT ![looks[l].key] = looks[l].key]
      /\ UNCHANGED <<gates, isVideo, titles>>
  BY Zenon DEF FetchPicture
<1>2. looks[l] \in Look /\ LookOK(looks[l])
  BY DEF LooksOK
<1>3. q \in Look
  BY <1>2 DEF Look
<1>4. /\ q.pc = "done" /\ q.served = looks[l].key
      /\ q.seen = looks[l].seen /\ q.step = looks[l].step /\ q.ever = looks[l].ever
      /\ q.always = looks[l].always /\ q.signed = looks[l].signed
  BY <1>2 DEF Look
<1> HIDE DEF q
<1>5. LookOK(q)
  BY <1>1, <1>2, <1>4 DEF LookOK, ReadRightly, KeyOf
<1>6. looks[l].key \in Pictures
  BY <1>1, <1>2 DEF LookOK, KeyOf, Pictures
<1>7. /\ cached' \in [Pictures -> Pictures \union {None}]
      /\ \A k \in Pictures : cached'[k] \in {None, k}
  BY <1>1, <1>6 DEF LooksOK
<1> QED
  BY <1>1, <1>3, <1>5, <1>7, LookStays

LEMMA FailOK ==
  ASSUME LooksOK, NEW l \in Looks, ImageFails(l)
  PROVE  LooksOK'
<1> DEFINE q == [looks[l] EXCEPT !.pc = "failed"]
<1>1. /\ looks' = [looks EXCEPT ![l] = q] /\ looks[l].pc \in {"read", "answer", "fetch"}
      /\ UNCHANGED <<gates, isVideo, titles, cached>>
  BY Zenon DEF ImageFails
<1>2. looks[l] \in Look /\ LookOK(looks[l])
  BY DEF LooksOK
<1>3. q \in Look
  BY <1>2 DEF Look
<1>4. /\ q.pc = "failed" /\ q.served = looks[l].served
      /\ q.seen = looks[l].seen /\ q.step = looks[l].step /\ q.ever = looks[l].ever
      /\ q.always = looks[l].always
  BY <1>2 DEF Look
<1> HIDE DEF q
<1>5. LookOK(q)
  BY <1>1, <1>2, <1>4 DEF LookOK, ReadRightly
<1> QED
  BY <1>1, <1>3, <1>5, LookStays DEF LooksOK

LEMMA ChangeOK ==
  ASSUME LooksOK, NEW u \in Users, NEW held \in SUBSET Held, ChangeTitles(u, held)
  PROVE  LooksOK'
<1>1. /\ titles' = [titles EXCEPT ![u] = held]
      /\ UNCHANGED <<gates, isVideo, cached>>
  BY DEF ChangeTitles
<1>2. titles' \in [Users -> SUBSET Titles] /\ titles'[u] = held
  BY <1>1, HeldAssumption DEF LooksOK
<1>3. ASSUME NEW r \in Look, NEW q \in Look, LookOK(r), r.pc = "read", r.user = u,
             q.pc = r.pc, q.user = r.user, q.seen = r.seen, q.step = r.step, q.served = r.served,
             q.ever = r.ever \union held, q.always = r.always \intersect held
      PROVE  LookOK(q)'
  BY <1>1, <1>2, <1>3 DEF LookOK, ReadRightly, Counts
<1>4. ASSUME NEW r \in Look, LookOK(r), ~(r.pc = "read" /\ r.user = u)
      PROVE  LookOK(r)'
  <2>1. \A v \in Users : v # u => titles'[v] = titles[v]
    BY <1>1 DEF LooksOK
  <2> QED
    BY <1>1, <1>4, <2>1 DEF LookOK, ReadRightly, KeyOf, Counts, Open
<1>6. ASSUME NEW l \in Looks, looks[l].pc = "read" /\ looks[l].user = u
      PROVE  looks'[l] \in Look /\ LookOK(looks[l])'
  <2> DEFINE q == [looks[l] EXCEPT !.ever = looks[l].ever \union held,
                                   !.always = looks[l].always \intersect held]
  <2>1. looks'[l] = q
    BY Zenon, <1>6 DEF ChangeTitles
  <2>2. looks[l] \in Look /\ LookOK(looks[l])
    BY DEF LooksOK
  <2>3. q \in Look
    BY <2>2, HeldAssumption DEF Look
  <2>4. /\ q.pc = looks[l].pc /\ q.user = looks[l].user /\ q.seen = looks[l].seen
        /\ q.step = looks[l].step /\ q.served = looks[l].served
        /\ q.ever = looks[l].ever \union held /\ q.always = looks[l].always \intersect held
    BY <2>2 DEF Look
  <2> HIDE DEF q
  <2> QED
    BY <1>3, <1>6, <2>1, <2>2, <2>3, <2>4
<1>7. ASSUME NEW l \in Looks, ~(looks[l].pc = "read" /\ looks[l].user = u)
      PROVE  looks'[l] \in Look /\ LookOK(looks[l])'
  <2>1. looks'[l] = looks[l]
    BY Zenon, <1>7 DEF ChangeTitles
  <2>2. looks[l] \in Look /\ LookOK(looks[l])
    BY DEF LooksOK
  <2> QED
    BY <1>4, <1>7, <2>1, <2>2
<1>8. looks' \in [Looks -> Look]
  BY <1>6, <1>7 DEF ChangeTitles
<1> QED
  BY <1>1, <1>2, <1>6, <1>7, <1>8 DEF LooksOK

LEMMA LooksInitOK == ImageInit => LooksOK
  BY HeldAssumption, PostsAssumption DEF ImageInit, LooksOK, LookOK, ReadRightly, Look, Pictures

LEMMA LooksStep == LooksOK /\ [ImageNext]_imageVars => LooksOK'
<1> SUFFICES ASSUME LooksOK, [ImageNext]_imageVars PROVE LooksOK'
  OBVIOUS
<1>1. CASE UNCHANGED imageVars
  BY <1>1 DEF imageVars, LooksOK, LookOK, ReadRightly, KeyOf, Counts, Open
<1>2. ASSUME NEW k \in Pictures, Expire(k) PROVE LooksOK'
  BY <1>2 DEF Expire, LooksOK, LookOK, ReadRightly, KeyOf, Counts, Open
<1> QED
  BY <1>1, <1>2, ChangeOK, AskOK, ReadTitleOK, AnswerOK, FetchOK, FailOK DEF ImageNext

(***************************************************************************)
(* A request, its picture and the cache keep their type, and what the post *)
(* asks for stays what it was (nft.service.ts).                            *)
(***************************************************************************)
THEOREM ImagesTyped == ImageSpec => []ImageTypeOK
<1> DEFINE Given == gates \in SUBSET Gates /\ isVideo \in BOOLEAN
<1>1. ImageInit => LooksOK /\ Given
  BY LooksInitOK DEF ImageInit
<1>2. Given /\ [ImageNext]_imageVars => Given'
  BY DEF ImageNext, imageVars, ChangeTitles, AskImage, ReadTitle, Answer, FetchPicture, ImageFails, Expire
<1>3. LooksOK /\ Given => ImageTypeOK
  BY DEF LooksOK, ImageTypeOK
<1> QED
  BY <1>1, <1>2, <1>3, LooksStep, PTL DEF ImageSpec

\* However titles come and go under a request and whatever the cache holds, a gated picture
\* is served unblurred only to a signed viewer who held a title at some moment of the
\* request, and blurred never to one who held a title all along (getNftImage).
THEOREM ImagesFollowTitles == ImageSpec => []ImageFollowsTitles
<1>1. LooksOK => ImageFollowsTitles
  <2> SUFFICES ASSUME LooksOK, NEW l \in Looks, looks[l].served # None
               PROVE  /\ looks[l].served = "original" /\ gates # {} /\ ~isVideo =>
                           looks[l].signed /\ \E t \in looks[l].ever : Counts(t)
                      /\ looks[l].served = "blurred" =>
                           gates # {} /\ ~isVideo /\ ~(looks[l].signed /\ \E t \in looks[l].always : Counts(t))
    BY PicturesAssumption DEF ImageFollowsTitles, Pictures
  <2>1. /\ looks[l] \in Look /\ looks[l].step = 5 /\ ReadRightly(looks[l])
        /\ looks[l].served = KeyOf(looks[l])
    BY DEF LooksOK, LookOK
  <2>2. \A t \in looks[l].always : Counts(t) => t \in looks[l].seen
    <3>1. \A i \in 1 .. 4 : Order[i] \in looks[l].always /\ Counts(Order[i]) => Order[i] \in looks[l].seen
      BY <2>1 DEF ReadRightly
    <3>2. looks[l].always \subseteq Titles
      BY <2>1 DEF Look
    <3> QED
      BY <3>1, <3>2, OrderIsTitles
  <2> QED
    BY <2>1, <2>2 DEF ReadRightly, KeyOf, Open
<1> QED
  BY <1>1, LooksInitOK, LooksStep, PTL DEF ImageSpec

-----------------------------------------------------------------------------
(***************************************************************************)
(* Posts, the lists that show them, and what visitors do with them.        *)
(***************************************************************************)

\* The visit v becomes q, and the others stay what they are.
VisitBecomes(v, q) ==
  /\ q \in Visit
  /\ visit' = [visit EXCEPT ![v] = q]

LEMMA OtherVisits ==
  ASSUME RecordTypeOK, NEW v \in Visits, NEW q, VisitBecomes(v, q)
  PROVE  /\ visit' \in [Visits -> Visit] /\ visit'[v] = q
         /\ \A w \in Visits : w # v => visit'[w] = visit[w]
  BY DEF VisitBecomes, RecordTypeOK

\* A visit that goes on keeps what it is about.
LEMMA VisitGoes ==
  ASSUME RecordTypeOK, NEW v \in Visits, NEW pc \in {"count", "done", "failed"}, VisitGoto(v, pc)
  PROVE  \E q \in Visit :
           /\ VisitBecomes(v, q) /\ q.pc = pc
           /\ q.kind = visit[v].kind /\ q.user = visit[v].user /\ q.post = visit[v].post
           /\ q.found = visit[v].found /\ q.rival = visit[v].rival
<1> DEFINE q == [visit[v] EXCEPT !.pc = pc]
<1>1. visit' = [visit EXCEPT ![v] = q]
  BY DEF VisitGoto
<1>2. visit[v] \in Visit
  BY DEF RecordTypeOK
<1>3. /\ q \in Visit /\ q.pc = pc
      /\ q.kind = visit[v].kind /\ q.user = visit[v].user /\ q.post = visit[v].post
      /\ q.found = visit[v].found /\ q.rival = visit[v].rival
  BY <1>2 DEF Visit
<1> HIDE DEF q
<1> QED
  BY <1>1, <1>3 DEF VisitBecomes

Meeting(kind, u, m) == \E w \in Visits : Pending(w) /\ SameVisit(w, kind, u, m)

LEMMA VisitBegins ==
  ASSUME RecordTypeOK, NEW v \in Visits, NEW pc \in {"write", "refused"},
         NEW kind \in {"view", "save", "report"}, NEW u \in Users, NEW m \in ToSet(posts),
         NEW found \in BOOLEAN, BeginVisit(v, pc, kind, u, m, found)
  PROVE  /\ visit[v].pc = "new" /\ UNCHANGED <<mintVars, views, history, kept>>
         /\ \E q \in Visit :
              /\ VisitBecomes(v, q) /\ q.pc = pc /\ q.kind = kind /\ q.user = u /\ q.post = m
              /\ q.found = found /\ (q.rival <=> Meeting(kind, u, m))
<1> DEFINE rival == Meeting(kind, u, m)
           q == [pc |-> pc, kind |-> kind, user |-> u, post |-> m, found |-> found, rival |-> rival]
<1>1. visit' = [visit EXCEPT ![v] = q]
  BY Zenon DEF BeginVisit, Meeting
<1>2. rival \in BOOLEAN
  BY DEF Meeting
<1> HIDE DEF rival
<1>3. m \in Mints
  BY DEF RecordTypeOK, ToSet
<1>4. /\ q \in Visit /\ q.pc = pc /\ q.kind = kind /\ q.user = u /\ q.post = m
      /\ q.found = found /\ q.rival = rival
  BY <1>2, <1>3 DEF Visit
<1> HIDE DEF q
<1>5. VisitBecomes(v, q)
  BY <1>1, <1>4 DEF VisitBecomes
<1>6. visit[v].pc = "new" /\ UNCHANGED <<mintVars, views, history, kept>>
  BY DEF BeginVisit
<1> QED
  BY <1>4, <1>5, <1>6 DEF rival

\* A token is there when its mint has got past creating it.
MintsPosted == \A m \in ToSet(posts) : mint[m].pc \in {"upload", "done", "failed"}

RecordTypes == RecordTypeOK /\ MintsPosted

LEMMA MintTypes ==
  ASSUME RecordTypes, MintNext
  PROVE  RecordTypes'
<1> DEFINE Others == UNCHANGED visitVars
<1>1. ASSUME NEW m \in Mints, NEW q, q \in Mint, mint' = [mint EXCEPT ![m] = q],
             categories' \in SUBSET Categories, UNCHANGED <<posts, minted, hidden, visitVars>>,
             m \in ToSet(posts) => q.pc \in {"upload", "done", "failed"}
      PROVE  RecordTypes'
  <2>1. mint' \in [Mints -> Mint] /\ mint'[m] = q /\ \A o \in Mints : o # m => mint'[o] = mint[o]
    BY <1>1 DEF RecordTypes, RecordTypeOK
  <2>2. MintsPosted'
    BY <1>1, <2>1 DEF RecordTypes, MintsPosted, RecordTypeOK, ToSet
  <2> QED
    BY <1>1, <2>1, <2>2 DEF RecordTypes, RecordTypeOK, visitVars
<1>2. ASSUME NEW m \in Mints, NEW u \in Users, NEW names \in SUBSET Categories, FindCategories(m, u, names)
      PROVE  RecordTypes'
  <2> DEFINE pc == IF names \subseteq categories THEN "create" ELSE "insert"
             q == [pc |-> pc, by |-> u, names |-> names, short |-> names \ categories]
  <2>1. mint' = [mint EXCEPT ![m] = q] /\ UNCHANGED <<categories, posts, minted, hidden, visitVars>>
    BY <1>2 DEF FindCategories
  <2>2. pc \in {"create", "insert"}
    OBVIOUS
  <2> HIDE DEF pc
  <2>3. q \in Mint
    BY <2>2 DEF Mint
  <2>4. m \notin ToSet(posts)
    BY <1>2 DEF FindCategories, RecordTypes, MintsPosted
  <2>5. categories' \in SUBSET Categories
    BY <2>1 DEF RecordTypes, RecordTypeOK
  <2> HIDE DEF q
  <2> QED
    BY <1>1, <2>1, <2>3, <2>4, <2>5
<1>3. ASSUME NEW m \in Mints, NEW pc \in {"create", "done", "failed"}, MintGoto(m, pc),
             categories' \in SUBSET Categories, UNCHANGED <<posts, minted, hidden, visitVars>>,
             m \in ToSet(posts) => pc # "create"
      PROVE  RecordTypes'
  <2> DEFINE q == [mint[m] EXCEPT !.pc = pc]
  <2>1. q \in Mint /\ q.pc = pc
    BY DEF RecordTypes, RecordTypeOK, Mint
  <2>2. mint' = [mint EXCEPT ![m] = q]
    BY <1>3 DEF MintGoto
  <2> HIDE DEF q
  <2> QED
    BY <1>1, <1>3, <2>1, <2>2
<1>4. ASSUME NEW m \in Mints, InsertCategories(m) PROVE RecordTypes'
  <2>1. m \notin ToSet(posts) /\ UNCHANGED <<posts, minted, hidden, visitVars>>
    BY <1>4 DEF InsertCategories, RecordTypes, MintsPosted
  <2>2. mint[m].short \in SUBSET Categories
    BY DEF RecordTypes, RecordTypeOK, Mint
  <2>3. categories' \in SUBSET Categories
    BY <1>4, <2>2 DEF InsertCategories, RecordTypes, RecordTypeOK
  <2>4. MintGoto(m, "create") \/ MintGoto(m, "failed")
    BY <1>4 DEF InsertCategories
  <2> QED
    BY <1>3, <2>1, <2>3, <2>4
<1>5. ASSUME NEW m \in Mints, UploadFiles(m) \/ MintFails(m) PROVE RecordTypes'
  <2>1. UNCHANGED <<categories, posts, minted, hidden, visitVars>>
    BY <1>5 DEF UploadFiles, MintFails
  <2>2. PICK pc \in {"done", "failed"} : MintGoto(m, pc)
    BY <1>5 DEF UploadFiles, MintFails
  <2>3. categories' \in SUBSET Categories
    BY <2>1 DEF RecordTypes, RecordTypeOK
  <2> QED
    BY <1>3, <2>1, <2>2, <2>3
<1>6. ASSUME NEW m \in Mints, CreateToken(m) PROVE RecordTypes'
  <2>1. /\ mint[m].pc = "create" /\ posts' = Append(posts, m)
        /\ mint' = [mint EXCEPT ![m].pc = "upload"]
        /\ UNCHANGED <<categories, minted, hidden, visitVars>>
    BY <1>6 DEF CreateToken, MintGoto
  <2>2. m \notin ToSet(posts) /\ posts \in Seq(Mints) /\ IsInjective(posts)
    BY <2>1 DEF RecordTypes, MintsPosted, RecordTypeOK
  <2>3. posts' \in Seq(Mints) /\ ToSet(posts') = ToSet(posts) \union {m} /\ IsInjective(posts')
    BY <2>1, <2>2, AppendOne
  <2>4. mint' \in [Mints -> Mint] /\ mint'[m].pc = "upload" /\ \A o \in Mints : o # m => mint'[o] = mint[o]
    BY <2>1 DEF RecordTypes, RecordTypeOK, Mint
  <2>5. MintsPosted'
    <3>1. \A o \in ToSet(posts) : o \in Mints /\ o # m
      BY <2>2 DEF ToSet
    <3> QED
      BY <2>3, <2>4, <3>1 DEF RecordTypes, MintsPosted
  <2> QED
    BY <2>1, <2>3, <2>4, <2>5 DEF RecordTypes, RecordTypeOK, visitVars
<1>7. ASSUME UNCHANGED <<mint, posts, visitVars>>, categories' \in SUBSET Categories,
             minted' \in SUBSET ToSet(posts), hidden' \in SUBSET ToSet(posts)
      PROVE  RecordTypes'
  BY <1>7 DEF RecordTypes, RecordTypeOK, MintsPosted, visitVars
<1>8. ASSUME NEW m \in ToSet(posts), ChainMints(m) PROVE RecordTypes'
  <2>1. UNCHANGED <<categories, mint, posts, hidden, visitVars>> /\ minted' = minted \union {m}
    BY <1>8 DEF ChainMints
  <2> QED
    BY <1>7, <2>1 DEF RecordTypes, RecordTypeOK
<1>9. ASSUME NEW m \in ToSet(posts), SetVisibility(m) PROVE RecordTypes'
  <2>1. UNCHANGED <<categories, mint, posts, minted, visitVars>>
        /\ (hidden' = hidden \union {m} \/ hidden' = hidden \ {m})
    BY <1>9 DEF SetVisibility
  <2> QED
    BY <1>7, <2>1 DEF RecordTypes, RecordTypeOK
<1>10. ASSUME NEW c \in Categories, AddCategory(c) PROVE RecordTypes'
  <2>1. UNCHANGED <<mint, posts, minted, hidden, visitVars>> /\ categories' = categories \union {c}
    BY <1>10 DEF AddCategory
  <2> QED
    BY <1>7, <2>1 DEF RecordTypes, RecordTypeOK
<1> QED
  BY <1>2, <1>4, <1>5, <1>6, <1>8, <1>9, <1>10 DEF MintNext

LEMMA VisitTypes ==
  ASSUME RecordTypes, VisitNext
  PROVE  RecordTypes'
<1>1. ASSUME NEW v \in Visits, NEW q \in Visit, VisitBecomes(v, q), UNCHANGED mintVars,
             q.pc # "new" => q.post \in ToSet(posts),
             history' \in SUBSET [id : Visits, confirmed : BOOLEAN], kept' \in SUBSET Visits,
             views' \in [Mints -> Nat]
      PROVE  RecordTypes'
  <2>1. /\ visit' \in [Visits -> Visit] /\ visit'[v] = q
        /\ \A w \in Visits : w # v => visit'[w] = visit[w]
    BY <1>1, OtherVisits DEF RecordTypes
  <2>2. \A w \in Visits : visit'[w].pc # "new" => visit'[w].post \in ToSet(posts)
    BY <1>1, <2>1 DEF RecordTypes, RecordTypeOK
  <2> QED
    BY <1>1, <2>1, <2>2 DEF RecordTypes, RecordTypeOK, MintsPosted, mintVars
<1>2. ASSUME NEW v \in Visits, NEW u \in Users, NEW m \in ToSet(posts),
             FindView(v, u, m) \/ FindSaved(v, u, m) \/ FindReport(v, u, m)
      PROVE  RecordTypes'
  <2>1. PICK pc \in {"write", "refused"}, kind \in {"view", "save", "report"}, found \in BOOLEAN :
          BeginVisit(v, pc, kind, u, m, found)
    <3>1. CASE FindView(v, u, m)
      <4>1. Confirmed(u, m) \in BOOLEAN
        BY DEF Confirmed
      <4> QED
        BY <3>1, <4>1 DEF FindView
    <3>2. CASE FindSaved(v, u, m)
      BY <3>2 DEF FindSaved
    <3>3. CASE FindReport(v, u, m)
      BY <3>3 DEF FindReport
    <3> QED
      BY <1>2, <3>1, <3>2, <3>3
  <2>2. /\ UNCHANGED <<mintVars, views, history, kept>>
        /\ \E q \in Visit : VisitBecomes(v, q) /\ q.post = m
    BY <2>1, VisitBegins DEF RecordTypes
  <2> QED
    BY <1>1, <2>2 DEF RecordTypes, RecordTypeOK
<1>3. ASSUME NEW v \in Visits,
             SaveView(v) \/ CountView(v) \/ ToggleSaved(v) \/ SaveReport(v) \/ VisitFails(v)
      PROVE  RecordTypes'
  <2>1. PICK pc \in {"count", "done", "failed"} : VisitGoto(v, pc)
    BY <1>3 DEF SaveView, CountView, ToggleSaved, SaveReport, VisitFails
  <2>2. PICK q \in Visit : VisitBecomes(v, q) /\ q.post = visit[v].post
    BY <2>1, VisitGoes DEF RecordTypes
  <2>3. visit[v].pc # "new" /\ UNCHANGED mintVars
    BY <1>3 DEF SaveView, CountView, ToggleSaved, SaveReport, VisitFails, Pending
  <2>4. visit[v].post \in ToSet(posts) /\ visit[v].post \in Mints
    BY <2>3 DEF RecordTypes, RecordTypeOK, ToSet
  <2>5. history' \in SUBSET [id : Visits, confirmed : BOOLEAN]
    <3>1. visit[v].found \in BOOLEAN
      BY DEF RecordTypes, RecordTypeOK, Visit
    <3>2. CASE SaveView(v)
      <4> DEFINE h == [id |-> v, confirmed |-> ~visit[v].found]
      <4>1. h \in [id : Visits, confirmed : BOOLEAN]
        BY <3>1
      <4>2. history' = history \union {h}
        BY <3>2 DEF SaveView
      <4> HIDE DEF h
      <4> QED
        BY <4>1, <4>2 DEF RecordTypes, RecordTypeOK
    <3>3. CASE UNCHANGED history
      BY <3>3 DEF RecordTypes, RecordTypeOK
    <3> QED
      BY <1>3, <3>2, <3>3 DEF CountView, ToggleSaved, SaveReport, VisitFails
  <2>6. kept' \in SUBSET Visits
    BY <1>3 DEF SaveView, CountView, ToggleSaved, SaveReport, VisitFails, RecordTypes, RecordTypeOK
  <2>7. views' \in [Mints -> Nat]
    BY <1>3, <2>4 DEF SaveView, CountView, ToggleSaved, SaveReport, VisitFails, RecordTypes, RecordTypeOK
  <2> QED
    BY <1>1, <2>2, <2>3, <2>4, <2>5, <2>6, <2>7
<1> QED
  BY <1>2, <1>3 DEF VisitNext

\* Posts, their mints and the visits to them keep their types.
LEMMA RecordTypesHold == RecordSpec => []RecordTypes
<1>1. RecordInit => RecordTypes
  <2>1. RecordInit => RecordTypeOK /\ ToSet(posts) = {}
    BY DEF RecordInit, RecordTypeOK, Mint, Visit, ToSet, IsInjective
  <2> QED
    BY <2>1 DEF RecordTypes, MintsPosted
<1>2. RecordTypes /\ UNCHANGED recordVars => RecordTypes'
  BY DEF recordVars, mintVars, visitVars, RecordTypes, RecordTypeOK, MintsPosted
<1> QED
  BY <1>1, <1>2, MintTypes, VisitTypes, PTL DEF RecordSpec, RecordNext

THEOREM RecordsTyped == RecordSpec => []RecordTypeOK
  BY RecordTypesHold, PTL DEF RecordTypes

-----------------------------------------------------------------------------

\* What a stream shows: the posts that are in the set.
LEMMA StreamShows ==
  ASSUME RecordTypeOK, NEW S
  PROVE  StreamNfts(S) \in Seq(Mints) /\ ToSet(StreamNfts(S)) = ToSet(posts) \cap S
<1>1. posts \in Seq(Mints)
  BY DEF RecordTypeOK
<1>2. Reverse(posts) \in Seq(Mints) /\ ToSet(Reverse(posts)) = ToSet(posts)
  BY <1>1, ReverseList
<1> DEFINE newest == Reverse(posts)
<1> HIDE DEF newest
<1>3. Those(newest, S) \in Seq(Mints) /\ ToSet(Those(newest, S)) = ToSet(newest) \cap S
  BY <1>2, ThoseList DEF newest
<1> QED
  BY <1>2, <1>3 DEF StreamNfts, newest

\* Every item is on a page: pages begin at the multiples of their length.
LEMMA PageOfItem ==
  \A k \in Nat : \E n \in 0 .. k : Unit * n <= k /\ k < Unit * n + Unit
<1> DEFINE Fit(k, n) == Unit * n <= k /\ k < Unit * n + Unit
           P == {k \in Nat : \E n \in 0 .. k : Fit(k, n)}
<1>0. Unit \in Nat \ {0}
  BY UnitAssumption
<1>1. 0 \in P
  <2>1. Fit(0, 0)
    BY <1>0
  <2> HIDE DEF Fit
  <2> QED
    BY <2>1
<1>2. ASSUME NEW k \in P PROVE k + 1 \in P
  <2>1. PICK n \in 0 .. k : Unit * n <= k /\ k < Unit * n + Unit
    OBVIOUS
  <2>2. k \in Nat /\ n \in Nat /\ Unit * n \in Nat /\ Unit * (n + 1) = Unit * n + Unit
    BY <1>0
  <2>3. n \in 0 .. k + 1 /\ n + 1 \in 0 .. k + 1
    BY <2>2
  <2>4. CASE k + 1 < Unit * n + Unit
    <3>1. Fit(k + 1, n)
      BY <2>1, <2>2, <2>4
    <3> HIDE DEF Fit
    <3> QED
      BY <2>2, <2>3, <3>1
  <2>5. CASE k + 1 = Unit * n + Unit
    <3>1. Fit(k + 1, n + 1)
      BY <1>0, <2>2, <2>5
    <3> HIDE DEF Fit
    <3> QED
      BY <2>2, <2>3, <3>1
  <2> QED
    BY <1>0, <2>1, <2>2, <2>4, <2>5
<1> HIDE DEF P
<1>3. P \in SUBSET Nat
  BY DEF P
<1>4. P = Nat
  BY <1>1, <1>2, <1>3, NatsByInduction
<1> QED
  BY <1>4 DEF P

\* The pages of a list show what it has.
LEMMA PagesCover ==
  ASSUME NEW list \in Seq(Mints)
  PROVE  ToSet(list) = UNION {ToSet(Page(list, n)) : n \in 0 .. Len(list)}
<1> DEFINE skip == [n \in Nat |-> Unit * n]
           end == [n \in Nat |-> Unit * (2 * n + 1)]
           last == [n \in Nat |-> IF end[n] > Len(list) THEN Len(list) ELSE end[n]]
<1>1. Len(list) \in Nat /\ DOMAIN list = 1 .. Len(list) /\ Unit \in Nat
  BY UnitAssumption
<1>2. \A n \in Nat : skip[n] \in Nat /\ end[n] = skip[n] + skip[n] + Unit
  BY <1>1
<1>3. \A n \in Nat : Page(list, n) = SubSeq(list, skip[n] + 1, last[n])
  BY DEF Page
<1>4. \A k \in Nat : \E n \in 0 .. k : skip[n] <= k /\ k < skip[n] + Unit
  BY PageOfItem
<1> HIDE DEF skip, end
<1>5. \A n \in Nat : /\ last[n] \in Nat /\ last[n] <= Len(list)
                     /\ last[n] = Len(list) \/ last[n] >= skip[n] + Unit
  BY <1>1, <1>2
<1> HIDE DEF last
<1>6. ASSUME NEW n \in Nat
      PROVE  ToSet(Page(list, n)) = {list[i] : i \in skip[n] + 1 .. last[n]}
  <2> DEFINE a == skip[n] + 1
             b == last[n]
  <2>1. a \in Nat \ {0} /\ b \in Nat /\ b <= Len(list)
    BY <1>2, <1>5
  <2>2. Page(list, n) = SubSeq(list, a, b)
    BY <1>3
  <2> HIDE DEF a, b
  <2>3. ToSet(SubSeq(list, a, b)) = {list[i] : i \in a .. b}
    BY <2>1, SubSeqItems
  <2> QED
    BY <2>2, <2>3 DEF a, b
<1>7. ASSUME NEW n \in 0 .. Len(list) PROVE ToSet(Page(list, n)) \subseteq ToSet(list)
  <2>1. n \in Nat
    BY <1>1
  <2>2. \A i \in skip[n] + 1 .. last[n] : i \in 1 .. Len(list)
    BY <1>1, <1>2, <1>5, <2>1
  <2>3. \A i \in 1 .. Len(list) : list[i] \in ToSet(list)
    BY <1>1 DEF ToSet
  <2> QED
    BY <1>6, <2>1, <2>2, <2>3
<1>8. ASSUME NEW x \in ToSet(list)
      PROVE  \E n \in 0 .. Len(list) : x \in ToSet(Page(list, n))
  <2>1. PICK i \in 1 .. Len(list) : list[i] = x
    BY <1>1 DEF ToSet
  <2>2. i - 1 \in Nat
    BY <1>1
  <2>3. PICK n \in 0 .. i - 1 : skip[n] <= i - 1 /\ i - 1 < skip[n] + Unit
    BY <1>4, <2>2
  <2>4. n \in 0 .. Len(list) /\ n \in Nat
    BY <1>1, <2>2
  <2>5. i \in skip[n] + 1 .. last[n]
    BY <1>1, <1>2, <1>5, <2>3, <2>4
  <2> QED
    BY <1>6, <2>1, <2>4, <2>5
<1> QED
  BY <1>7, <1>8

\* Lists show no post that is hidden or not minted unless it is asked for by its id, and
\* their pages leave none out (getFilteredNfts, getStreamNfts, searchAll), for any number
\* of posts and any length of a page.
THEOREM FeedsAlwaysShowVisible == RecordSpec => []FeedsShowVisible
<1>1. ASSUME RecordTypeOK PROVE FeedsShowVisible
  <2> DEFINE shown == minted \ hidden
  <2>1. minted \in SUBSET ToSet(posts) /\ ToSet(posts) \in SUBSET Mints
    BY <1>1 DEF RecordTypeOK, ToSet
  <2>2. ToSet(SearchedVideos) = shown
    <3> DEFINE S == {m \in Mints : \A clause \in BaseClauses : Meets(m, [ids |-> {}], clause)}
    <3>1. S = {m \in Mints : m \in minted /\ m \notin hidden}
      BY DEF BaseClauses, Meets
    <3> HIDE DEF S
    <3>2. ToSet(SearchedVideos) = ToSet(posts) \cap S
      BY <1>1, StreamShows DEF SearchedVideos, S
    <3> QED
      BY <2>1, <3>1, <3>2
  <2>3. ASSUME NEW q \in Query
        PROVE  LET list == Filtered(q) IN
               /\ ToSet(list) \subseteq shown \union q.ids
               /\ ToSet(list) = UNION {ToSet(Page(list, n)) : n \in 0 .. Len(list)}
               /\ q.minter # None /\ q.category = None /\ q.ids = {}
                    => ToSet(MyNfts(q.minter)) \ hidden = ToSet(list)
    <3> DEFINE S == {m \in Mints : \A clause \in Clauses(q) : Meets(m, q, clause)}
               list == Filtered(q)
    <3>1. list \in Seq(Mints) /\ ToSet(list) = ToSet(posts) \cap S
      BY <1>1, StreamShows DEF Filtered
    <3>2. ASSUME q.ids # {} PROVE S \subseteq q.ids
      BY <3>2 DEF Clauses, Meets
    <3>3. ASSUME q.ids = {} PROVE S \subseteq shown
      <4>1. "minted" \in Clauses(q) /\ "visible" \in Clauses(q)
        BY <3>3 DEF Clauses, BaseClauses
      <4> QED
        BY <4>1 DEF Meets
    <3>4. ASSUME q.minter # None, q.category = None, q.ids = {}
          PROVE  S = {m \in Mints : m \in minted /\ m \notin hidden /\ mint[m].by = q.minter}
      <4>1. /\ {"minted", "visible", "minter"} \subseteq Clauses(q)
            /\ Clauses(q) \subseteq {"minted", "visible", "minter", "search"}
        BY <3>4 DEF Clauses, BaseClauses
      <4> QED
        BY <4>1 DEF Meets
    <3>5. ToSet(MyNfts(q.minter)) = ToSet(posts) \cap {m \in minted : mint[m].by = q.minter}
      BY <1>1, StreamShows DEF MyNfts
    <3> HIDE DEF S, list
    <3>6. ToSet(list) \subseteq shown \union q.ids
      BY <3>1, <3>2, <3>3
    <3>7. ToSet(list) = UNION {ToSet(Page(list, n)) : n \in 0 .. Len(list)}
      BY <3>1, PagesCover
    <3>8. ASSUME q.minter # None, q.category = None, q.ids = {}
          PROVE  ToSet(MyNfts(q.minter)) \ hidden = ToSet(list)
      BY <2>1, <3>1, <3>4, <3>5, <3>8
    <3> QED
      BY <3>6, <3>7, <3>8 DEF list
  <2> HIDE DEF shown
  <2> QED
    BY <2>2, <2>3 DEF FeedsShowVisible, shown
<1> QED
  BY <1>1, RecordsTyped, PTL

-----------------------------------------------------------------------------
(***************************************************************************)
(* The views of a post and the sum its counter holds.                      *)
(***************************************************************************)

\* An entry of the history belongs to the view that saved it, which is at its counting or
\* behind it.
ViewsSaved ==
  /\ IsFiniteSet(history)
  /\ \A h \in history :
       /\ visit[h.id].kind = "view" /\ visit[h.id].pc \in {"count", "done", "failed"}
       /\ h.confirmed <=> ~visit[h.id].found
  /\ \A v \in Visits : visit[v].pc = "count" => visit[v].kind = "view" /\ \E h \in history : h.id = v

ViewsDone(m) == {h \in history : visit[h.id].post = m /\ visit[h.id].pc = "done"}
ViewsPast(m) == {h \in history : visit[h.id].post = m /\ visit[h.id].pc # "count"}

ViewsTotalled ==
  \A m \in Mints :
    /\ Cardinality(ViewsDone(m)) <= views[m]
    /\ views[m] <= Cardinality(ViewsPast(m))

\* A second first view, recorded or about to be, has read over the first.
SameView(v, w) ==
  /\ visit[v].kind = "view" /\ visit[w].kind = "view"
  /\ visit[v].user = visit[w].user /\ visit[v].post = visit[w].post

FirstView(v) == visit[v].kind = "view" /\ visit[v].pc = "write" /\ ~visit[v].found

FirstViewsOverlap ==
  /\ \A v, w \in Visits :
       v # w /\ FirstView(v) /\ FirstView(w) /\ SameView(v, w) => visit[v].rival \/ visit[w].rival
  /\ \A v \in Visits : \A h \in history :
       FirstView(v) /\ h.confirmed /\ SameView(v, h.id) => visit[v].rival \/ visit[h.id].rival
  /\ \A h, k \in history :
       h # k /\ h.confirmed /\ k.confirmed /\ SameView(h.id, k.id)
         => visit[h.id].rival \/ visit[k.id].rival

\* An entry is told from the others by its view.
LEMMA EntryIsItsView ==
  ASSUME RecordTypeOK, ViewsSaved, NEW h \in history, NEW k \in history, h.id = k.id
  PROVE  h = k
<1>1. h \in [id : Visits, confirmed : BOOLEAN] /\ k \in [id : Visits, confirmed : BOOLEAN]
  BY DEF RecordTypeOK
<1>2. h.confirmed = k.confirmed
  <2>1. (h.confirmed <=> ~visit[h.id].found) /\ (k.confirmed <=> ~visit[h.id].found)
    BY DEF ViewsSaved
  <2> QED
    BY <1>1, <2>1
<1> QED
  BY <1>1, <1>2

LEMMA EntriesFinite ==
  ASSUME ViewsSaved, NEW m
  PROVE  IsFiniteSet(ViewsDone(m)) /\ IsFiniteSet(ViewsPast(m))
  BY FS_Subset DEF ViewsSaved, ViewsDone, ViewsPast

\* A step of a visit without an entry.
LEMMA NoEntry ==
  ASSUME RecordTypeOK, ViewsSaved, ViewsTotalled, NEW v \in Visits, NEW q, VisitBecomes(v, q),
         visit[v].pc \in {"new", "write"}, q.pc # "count", UNCHANGED <<views, history>>
  PROVE  ViewsSaved' /\ ViewsTotalled'
<1>1. visit'[v] = q /\ \A w \in Visits : w # v => visit'[w] = visit[w]
  BY OtherVisits
<1>2. \A h \in history : h.id \in Visits /\ h.id # v /\ visit'[h.id] = visit[h.id]
  BY <1>1 DEF RecordTypeOK, ViewsSaved
<1>3. ViewsSaved'
  BY <1>1, <1>2 DEF ViewsSaved
<1>4. ASSUME NEW m \in Mints
      PROVE  ViewsDone(m)' = ViewsDone(m) /\ ViewsPast(m)' = ViewsPast(m)
  BY <1>2 DEF ViewsDone, ViewsPast
<1> QED
  BY <1>3, <1>4 DEF ViewsTotalled

LEMMA SaveTotals ==
  ASSUME RecordTypeOK, ViewsSaved, ViewsTotalled, NEW v \in Visits, SaveView(v)
  PROVE  ViewsSaved' /\ ViewsTotalled'
<1> DEFINE n == [id |-> v, confirmed |-> ~visit[v].found]
<1>1. /\ visit[v].pc = "write" /\ visit[v].kind = "view" /\ VisitGoto(v, "count")
      /\ history' = history \union {n} /\ UNCHANGED views
  BY DEF SaveView
<1>2. PICK q \in Visit :
        /\ VisitBecomes(v, q) /\ q.pc = "count" /\ q.kind = visit[v].kind
        /\ q.post = visit[v].post /\ q.found = visit[v].found
  BY <1>1, VisitGoes
<1>3. visit'[v] = q /\ \A w \in Visits : w # v => visit'[w] = visit[w]
  BY <1>2, OtherVisits
<1>4. \A h \in history : h.id \in Visits /\ h.id # v /\ visit'[h.id] = visit[h.id]
  BY <1>1, <1>3 DEF RecordTypeOK, ViewsSaved
<1>5. n.id = v /\ (n.confirmed <=> ~q.found)
  BY <1>2
<1> HIDE DEF n
<1>6. IsFiniteSet(history')
  BY <1>1, FS_AddElement DEF ViewsSaved
<1>7. ViewsSaved'
  <2>1. \A h \in history' :
          /\ visit'[h.id].kind = "view" /\ visit'[h.id].pc \in {"count", "done", "failed"}
          /\ h.confirmed <=> ~visit'[h.id].found
    BY <1>1, <1>2, <1>3, <1>4, <1>5 DEF ViewsSaved
  <2>2. \A w \in Visits : visit'[w].pc = "count" =>
          visit'[w].kind = "view" /\ \E h \in history' : h.id = w
    BY <1>1, <1>2, <1>3, <1>5 DEF ViewsSaved
  <2> QED
    BY <1>6, <2>1, <2>2 DEF ViewsSaved
<1>8. ASSUME NEW m \in Mints
      PROVE  ViewsDone(m)' = ViewsDone(m) /\ ViewsPast(m)' = ViewsPast(m)
  BY <1>1, <1>2, <1>3, <1>4, <1>5 DEF ViewsDone, ViewsPast
<1> QED
  BY <1>1, <1>7, <1>8 DEF ViewsTotalled

LEMMA CountViewTotals ==
  ASSUME RecordTypeOK, ViewsSaved, ViewsTotalled, NEW v \in Visits, CountView(v)
  PROVE  ViewsSaved' /\ ViewsTotalled'
<1>1. /\ visit[v].pc = "count" /\ VisitGoto(v, "done") /\ UNCHANGED history
      /\ views' = [views EXCEPT ![visit[v].post] = @ + 1]
  BY DEF CountView
<1>2. PICK q \in Visit :
        /\ VisitBecomes(v, q) /\ q.pc = "done" /\ q.kind = visit[v].kind
        /\ q.post = visit[v].post /\ q.found = visit[v].found
  BY <1>1, VisitGoes
<1>3. visit'[v] = q /\ \A w \in Visits : w # v => visit'[w] = visit[w]
  BY <1>2, OtherVisits
<1>4. PICK n \in history : n.id = v
  BY <1>1 DEF ViewsSaved
<1>5. \A h \in history : h # n => h.id \in Visits /\ h.id # v /\ visit'[h.id] = visit[h.id]
  <2>1. ASSUME NEW h \in history, h.id = v PROVE h = n
    BY <1>4, <2>1, EntryIsItsView
  <2>2. \A h \in history : h.id \in Visits
    BY DEF RecordTypeOK
  <2> QED
    BY <1>3, <2>1, <2>2
<1>6. visit[v].post \in Mints
  <2>1. visit[v].post \in ToSet(posts) /\ posts \in Seq(Mints)
    BY <1>1 DEF RecordTypeOK
  <2> QED
    BY <2>1 DEF ToSet
<1>7. ViewsSaved'
  BY <1>1, <1>2, <1>3, <1>4, <1>5 DEF ViewsSaved
<1>8. ASSUME NEW m \in Mints, m # q.post
      PROVE  Cardinality(ViewsDone(m)') <= views'[m] /\ views'[m] <= Cardinality(ViewsPast(m)')
  <2>1. ViewsDone(m)' = ViewsDone(m) /\ ViewsPast(m)' = ViewsPast(m)
    BY <1>1, <1>2, <1>3, <1>4, <1>5, <1>8 DEF ViewsDone, ViewsPast
  <2>2. views'[m] = views[m]
    BY <1>1, <1>2, <1>6, <1>8 DEF RecordTypeOK
  <2> QED
    BY <2>1, <2>2 DEF ViewsTotalled
<1>9. ASSUME NEW m \in Mints, m = q.post
      PROVE  Cardinality(ViewsDone(m)') <= views'[m] /\ views'[m] <= Cardinality(ViewsPast(m)')
  <2>1. ViewsDone(m)' = ViewsDone(m) \union {n} /\ ViewsPast(m)' = ViewsPast(m) \union {n}
    BY <1>1, <1>2, <1>3, <1>4, <1>5, <1>9 DEF ViewsDone, ViewsPast
  <2>2. n \notin ViewsDone(m) /\ n \notin ViewsPast(m)
    BY <1>1, <1>4 DEF ViewsDone, ViewsPast
  <2>3. /\ Cardinality(ViewsDone(m)') = Cardinality(ViewsDone(m)) + 1
        /\ Cardinality(ViewsPast(m)') = Cardinality(ViewsPast(m)) + 1
    BY <2>1, <2>2, EntriesFinite, FS_AddElement
  <2>4. views'[m] = views[m] + 1 /\ views[m] \in Nat
    BY <1>1, <1>2, <1>6, <1>9 DEF RecordTypeOK
  <2>5. Cardinality(ViewsDone(m)) \in Nat /\ Cardinality(ViewsPast(m)) \in Nat
    BY EntriesFinite, FS_CardinalityType
  <2> QED
    BY <2>3, <2>4, <2>5 DEF ViewsTotalled
<1> QED
  BY <1>7, <1>8, <1>9 DEF ViewsTotalled

\* A view that fails at its counting.
LEMMA FailTotals ==
  ASSUME RecordTypeOK, ViewsSaved, ViewsTotalled, NEW v \in Visits, NEW q, VisitBecomes(v, q),
         visit[v].pc = "count", q.pc = "failed", q.kind = visit[v].kind, q.post = visit[v].post,
         q.found = visit[v].found, UNCHANGED <<views, history>>
  PROVE  ViewsSaved' /\ ViewsTotalled'
<1>1. visit'[v] = q /\ \A w \in Visits : w # v => visit'[w] = visit[w]
  BY OtherVisits
<1>2. \A h \in history : h.id \in Visits
  BY DEF RecordTypeOK
<1>3. ViewsSaved'
  BY <1>1, <1>2 DEF ViewsSaved
<1>4. ASSUME NEW m \in Mints
      PROVE  ViewsDone(m)' = ViewsDone(m) /\ ViewsPast(m) \subseteq ViewsPast(m)'
  BY <1>1, <1>2 DEF ViewsDone, ViewsPast
<1>5. ASSUME NEW m \in Mints
      PROVE  /\ Cardinality(ViewsPast(m)) <= Cardinality(ViewsPast(m)')
             /\ Cardinality(ViewsPast(m)) \in Nat /\ Cardinality(ViewsPast(m)') \in Nat
  <2>1. IsFiniteSet(ViewsPast(m)')
    BY <1>3, FS_Subset DEF ViewsSaved, ViewsPast
  <2> QED
    BY <1>4, <2>1, EntriesFinite, FS_Subset, FS_CardinalityType
<1>6. \A m \in Mints : views'[m] \in Nat /\ views'[m] = views[m]
  BY DEF RecordTypeOK
<1> QED
  BY <1>3, <1>4, <1>5, <1>6 DEF ViewsTotalled

LEMMA FindOutcome ==
  ASSUME RecordTypeOK, NEW v \in Visits, NEW u \in Users, NEW m \in ToSet(posts),
         FindView(v, u, m) \/ FindSaved(v, u, m) \/ FindReport(v, u, m)
  PROVE  /\ visit[v].pc = "new" /\ UNCHANGED <<mintVars, views, history, kept>>
         /\ \E q \in Visit :
              /\ VisitBecomes(v, q) /\ q.user = u /\ q.post = m
              /\ q.rival <=> Meeting(q.kind, u, m)
              /\ \/ q.kind = "view" /\ q.pc = "write" /\ (q.found <=> Confirmed(u, m))
                 \/ q.kind = "save" /\ q.pc = "write" /\ (q.found <=> KeptOf("save", u, m) # {})
                 \/ /\ q.kind = "report"
                    /\ q.pc = IF KeptOf("report", u, m) = {} THEN "write" ELSE "refused"
<1>1. CASE FindView(v, u, m)
  <2>1. Confirmed(u, m) \in BOOLEAN
    BY DEF Confirmed
  <2>2. BeginVisit(v, "write", "view", u, m, Confirmed(u, m))
    BY <1>1 DEF FindView
  <2>3. /\ visit[v].pc = "new" /\ UNCHANGED <<mintVars, views, history, kept>>
        /\ \E q \in Visit :
             /\ VisitBecomes(v, q) /\ q.pc = "write" /\ q.kind = "view" /\ q.user = u /\ q.post = m
             /\ q.found = Confirmed(u, m) /\ (q.rival <=> Meeting("view", u, m))
    BY <2>1, <2>2, VisitBegins
  <2> QED
    BY <2>3
<1>2. CASE FindSaved(v, u, m)
  <2> DEFINE found == KeptOf("save", u, m) # {}
  <2>1. found \in BOOLEAN /\ BeginVisit(v, "write", "save", u, m, found)
    BY <1>2 DEF FindSaved
  <2> HIDE DEF found
  <2>2. /\ visit[v].pc = "new" /\ UNCHANGED <<mintVars, views, history, kept>>
        /\ \E q \in Visit :
             /\ VisitBecomes(v, q) /\ q.pc = "write" /\ q.kind = "save" /\ q.user = u /\ q.post = m
             /\ q.found = found /\ (q.rival <=> Meeting("save", u, m))
    BY <2>1, VisitBegins
  <2> QED
    BY <2>2 DEF found
<1>3. CASE FindReport(v, u, m)
  <2> DEFINE pc == IF KeptOf("report", u, m) = {} THEN "write" ELSE "refused"
  <2>1. pc \in {"write", "refused"} /\ BeginVisit(v, pc, "report", u, m, FALSE)
    BY <1>3 DEF FindReport
  <2> HIDE DEF pc
  <2>2. PICK found \in BOOLEAN : BeginVisit(v, pc, "report", u, m, found)
    BY <2>1, Zenon
  <2>3. /\ visit[v].pc = "new" /\ UNCHANGED <<mintVars, views, history, kept>>
        /\ \E q \in Visit :
             /\ VisitBecomes(v, q) /\ q.pc = pc /\ q.kind = "report" /\ q.user = u /\ q.post = m
             /\ (q.rival <=> Meeting("report", u, m))
    BY <2>1, <2>2, VisitBegins
  <2> QED
    BY <2>3 DEF pc
<1> QED
  BY <1>1, <1>2, <1>3

\* The steps of savePost and addReport behind their reads.
LEMMA LaterOutcome ==
  ASSUME RecordTypeOK, NEW v \in Visits,
         ToggleSaved(v) \/ SaveReport(v) \/ VisitFails(v) \/ SaveView(v) \/ CountView(v)
  PROVE  /\ visit[v].pc \in {"write", "count"} /\ UNCHANGED mintVars
         /\ \E q \in Visit :
              /\ VisitBecomes(v, q)
              /\ q.kind = visit[v].kind /\ q.user = visit[v].user /\ q.post = visit[v].post
              /\ q.found = visit[v].found /\ q.rival = visit[v].rival
              /\ q.pc = IF VisitFails(v) THEN "failed" ELSE IF SaveView(v) THEN "count" ELSE "done"
<1> DEFINE pc == IF VisitFails(v) THEN "failed" ELSE IF SaveView(v) THEN "count" ELSE "done"
<1>1. /\ visit[v].pc \in {"write", "count"} /\ UNCHANGED mintVars
  BY DEF ToggleSaved, SaveReport, VisitFails, SaveView, CountView, Pending
<1>2. VisitGoto(v, pc)
  <2>1. CASE VisitFails(v)
    BY <2>1 DEF VisitFails
  <2>2. CASE ~VisitFails(v) /\ SaveView(v)
    BY <2>2 DEF SaveView
  <2>3. CASE ~VisitFails(v) /\ ~SaveView(v)
    <3>1. VisitGoto(v, "done")
      BY <2>3 DEF ToggleSaved, SaveReport, CountView
    <3> QED
      BY <2>3, <3>1
  <2> QED
    BY <2>1, <2>2, <2>3
<1>3. pc \in {"count", "done", "failed"}
  OBVIOUS
<1> HIDE DEF pc
<1>4. \E q \in Visit :
         /\ VisitBecomes(v, q) /\ q.pc = pc
         /\ q.kind = visit[v].kind /\ q.user = visit[v].user /\ q.post = visit[v].post
         /\ q.found = visit[v].found /\ q.rival = visit[v].rival
  BY <1>2, <1>3, VisitGoes
<1> QED
  BY <1>1, <1>4 DEF pc

LEMMA ViewTotalsStep ==
  RecordTypeOK /\ ViewsSaved /\ ViewsTotalled /\ [RecordNext]_recordVars => ViewsSaved' /\ ViewsTotalled'
<1> SUFFICES ASSUME RecordTypeOK, ViewsSaved, ViewsTotalled, [RecordNext]_recordVars
             PROVE  ViewsSaved' /\ ViewsTotalled'
  OBVIOUS
<1>1. CASE UNCHANGED visitVars
  BY <1>1 DEF visitVars, ViewsSaved, ViewsTotalled, ViewsDone, ViewsPast
<1>2. ASSUME NEW v \in Visits, NEW u \in Users, NEW m \in ToSet(posts),
             FindView(v, u, m) \/ FindSaved(v, u, m) \/ FindReport(v, u, m)
      PROVE  ViewsSaved' /\ ViewsTotalled'
  <2>1. /\ visit[v].pc = "new" /\ UNCHANGED <<views, history>>
        /\ \E q \in Visit : VisitBecomes(v, q) /\ q.pc # "count"
    BY <1>2, FindOutcome
  <2> QED
    BY <2>1, NoEntry
<1>3. ASSUME NEW v \in Visits, ToggleSaved(v) \/ SaveReport(v) PROVE ViewsSaved' /\ ViewsTotalled'
  <2>1. visit[v].pc = "write" /\ VisitGoto(v, "done") /\ UNCHANGED <<views, history>>
    BY <1>3 DEF ToggleSaved, SaveReport
  <2>2. \E q \in Visit : VisitBecomes(v, q) /\ q.pc = "done"
    BY <2>1, VisitGoes
  <2> QED
    BY <2>1, <2>2, NoEntry
<1>4. ASSUME NEW v \in Visits, VisitFails(v) PROVE ViewsSaved' /\ ViewsTotalled'
  <2>1. visit[v].pc \in {"write", "count"} /\ UNCHANGED <<views, history>>
    BY <1>4 DEF VisitFails, Pending
  <2>2. PICK q \in Visit : VisitBecomes(v, q) /\ q.kind = visit[v].kind /\ q.post = visit[v].post
                          /\ q.found = visit[v].found /\ q.pc = "failed"
    BY <1>4, LaterOutcome
  <2> QED
    BY <2>1, <2>2, NoEntry, FailTotals
<1>5. CASE MintNext
  BY <1>1, <1>5 DEF MintNext, FindCategories, InsertCategories, CreateToken, UploadFiles, MintFails,
                    ChainMints, SetVisibility, AddCategory
<1>6. CASE UNCHANGED recordVars
  BY <1>1, <1>6 DEF recordVars
<1> QED
  BY <1>2, <1>3, <1>4, <1>5, <1>6, SaveTotals, CountViewTotals DEF RecordNext, VisitNext

\* A step that saves no view and begins none.
LEMMA NoFirstView ==
  ASSUME RecordTypeOK, ViewsSaved, FirstViewsOverlap, NEW v \in Visits, NEW q, VisitBecomes(v, q),
         UNCHANGED history, q.kind # "view" \/ q.pc # "write",
         \/ visit[v].pc \in {"new", "write"}
         \/ q.kind = visit[v].kind /\ q.user = visit[v].user /\ q.post = visit[v].post
            /\ q.rival = visit[v].rival
  PROVE  FirstViewsOverlap'
<1>1. visit'[v] = q /\ \A w \in Visits : w # v => visit'[w] = visit[w]
  BY OtherVisits
<1>2. ASSUME NEW h \in history
      PROVE  /\ h.id \in Visits
             /\ visit'[h.id].kind = visit[h.id].kind /\ visit'[h.id].user = visit[h.id].user
             /\ visit'[h.id].post = visit[h.id].post /\ visit'[h.id].rival = visit[h.id].rival
  BY <1>1 DEF RecordTypeOK, ViewsSaved
<1>3. \A w \in Visits : FirstView(w)' => w # v /\ visit'[w] = visit[w] /\ FirstView(w)
  BY <1>1 DEF FirstView
<1>4. \A w, x \in Visits : SameView(w, x)' /\ w # v /\ x # v => SameView(w, x)
  BY <1>1 DEF SameView
<1>5. \A w \in Visits, h \in history : SameView(w, h.id)' /\ w # v => SameView(w, h.id)
  BY <1>1, <1>2 DEF SameView
<1>6. \A h, k \in history : SameView(h.id, k.id)' => SameView(h.id, k.id)
  BY <1>2 DEF SameView
<1> QED
  BY <1>2, <1>3, <1>4, <1>5, <1>6 DEF FirstViewsOverlap

LEMMA FindOverlaps ==
  ASSUME RecordTypeOK, ViewsSaved, FirstViewsOverlap, NEW v \in Visits, NEW q, VisitBecomes(v, q),
         visit[v].pc = "new", UNCHANGED history, q.kind = "view",
         q.rival <=> Meeting("view", q.user, q.post), q.found <=> Confirmed(q.user, q.post)
  PROVE  FirstViewsOverlap'
<1>1. visit'[v] = q /\ \A w \in Visits : w # v => visit'[w] = visit[w]
  BY OtherVisits
<1>2. \A h \in history : h.id \in Visits /\ h.id # v /\ visit'[h.id] = visit[h.id]
  BY <1>1 DEF RecordTypeOK, ViewsSaved
<1>3. ASSUME NEW w \in Visits, w # v, FirstView(w)', SameView(v, w)' \/ SameView(w, v)' PROVE q.rival
  BY <1>1, <1>3 DEF FirstView, SameView, Meeting, Pending, SameVisit
<1>4. ASSUME NEW h \in history, h.confirmed, SameView(v, h.id)', FirstView(v)' PROVE FALSE
  BY <1>1, <1>2, <1>4 DEF FirstView, SameView, Confirmed
<1>5. ASSUME NEW w \in Visits, NEW x \in Visits, w # x, FirstView(w)', FirstView(x)', SameView(w, x)'
      PROVE  visit'[w].rival \/ visit'[x].rival
  <2>1. CASE w = v
    BY <1>1, <1>3, <1>5, <2>1
  <2>2. CASE x = v
    BY <1>1, <1>3, <1>5, <2>2
  <2>3. CASE w # v /\ x # v
    BY <1>1, <1>5, <2>3 DEF FirstViewsOverlap, FirstView, SameView
  <2> QED
    BY <2>1, <2>2, <2>3
<1>6. ASSUME NEW w \in Visits, NEW h \in history, FirstView(w)', h.confirmed, SameView(w, h.id)'
      PROVE  visit'[w].rival \/ visit'[h.id].rival
  <2>1. CASE w = v
    BY <1>4, <1>6, <2>1
  <2>2. CASE w # v
    BY <1>1, <1>2, <1>6, <2>2 DEF FirstViewsOverlap, FirstView, SameView
  <2> QED
    BY <2>1, <2>2
<1>7. \A h, k \in history : SameView(h.id, k.id)' => SameView(h.id, k.id)
  BY <1>2 DEF SameView
<1> QED
  BY <1>2, <1>5, <1>6, <1>7 DEF FirstViewsOverlap

LEMMA SaveOverlaps ==
  ASSUME RecordTypeOK, ViewsSaved, FirstViewsOverlap, NEW v \in Visits, SaveView(v)
  PROVE  FirstViewsOverlap'
<1> DEFINE n == [id |-> v, confirmed |-> ~visit[v].found]
<1>1. /\ visit[v].pc = "write" /\ visit[v].kind = "view" /\ VisitGoto(v, "count")
      /\ history' = history \union {n}
  BY DEF SaveView
<1>2. PICK q \in Visit :
        /\ VisitBecomes(v, q) /\ q.pc = "count"
        /\ q.kind = visit[v].kind /\ q.user = visit[v].user /\ q.post = visit[v].post
        /\ q.rival = visit[v].rival
  BY <1>1, VisitGoes
<1>3. visit'[v] = q /\ \A w \in Visits : w # v => visit'[w] = visit[w]
  BY <1>2, OtherVisits
<1>4. \A h \in history : h.id \in Visits /\ h.id # v
  BY <1>1 DEF RecordTypeOK, ViewsSaved
<1>5. n.id = v /\ (n.confirmed => FirstView(v))
  BY <1>1 DEF FirstView
<1> HIDE DEF n
<1>6. \A w, x \in Visits : SameView(w, x)' => SameView(w, x)
  BY <1>2, <1>3 DEF SameView
<1>7. \A w \in Visits : visit'[w].rival = visit[w].rival
  BY <1>2, <1>3
<1>8. \A w \in Visits : FirstView(w)' => w # v /\ FirstView(w)
  BY <1>2, <1>3 DEF FirstView
<1>9. \A w, x \in Visits : SameView(w, x) => SameView(x, w)
  BY DEF SameView
<1>10. ASSUME NEW w \in Visits, NEW h \in history', FirstView(w)', h.confirmed, SameView(w, h.id)'
       PROVE  visit'[w].rival \/ visit'[h.id].rival
  <2>1. CASE h = n
    BY <1>5, <1>6, <1>7, <1>8, <1>10, <2>1 DEF FirstViewsOverlap
  <2>2. CASE h \in history
    BY <1>4, <1>6, <1>7, <1>8, <1>10, <2>2 DEF FirstViewsOverlap
  <2> QED
    BY <1>1, <2>1, <2>2
<1>11. ASSUME NEW h \in history, h.confirmed, n.confirmed, SameView(v, h.id)
       PROVE  visit'[v].rival \/ visit'[h.id].rival
  BY <1>4, <1>5, <1>7, <1>11 DEF FirstViewsOverlap
<1>12. ASSUME NEW h \in history', NEW k \in history', h # k, h.confirmed, k.confirmed, SameView(h.id, k.id)'
       PROVE  visit'[h.id].rival \/ visit'[k.id].rival
  <2>0. SameView(h.id, k.id) /\ SameView(k.id, h.id)
    BY <1>1, <1>4, <1>5, <1>6, <1>9, <1>12
  <2>1. CASE h \in history /\ k \in history
    BY <1>4, <1>7, <1>12, <2>0, <2>1 DEF FirstViewsOverlap
  <2>2. CASE h = n /\ k \in history
    BY <1>5, <1>11, <1>12, <2>0, <2>2
  <2>3. CASE h \in history /\ k = n
    BY <1>5, <1>11, <1>12, <2>0, <2>3
  <2> QED
    BY <1>1, <1>12, <2>1, <2>2, <2>3
<1>13. ASSUME NEW w \in Visits, NEW x \in Visits, w # x, FirstView(w)', FirstView(x)', SameView(w, x)'
       PROVE  visit'[w].rival \/ visit'[x].rival
  BY <1>6, <1>7, <1>8, <1>13 DEF FirstViewsOverlap
<1> QED
  BY <1>10, <1>12, <1>13 DEF FirstViewsOverlap

LEMMA ViewOverlapsStep ==
  RecordTypeOK /\ ViewsSaved /\ FirstViewsOverlap /\ [RecordNext]_recordVars => FirstViewsOverlap'
<1> SUFFICES ASSUME RecordTypeOK, ViewsSaved, FirstViewsOverlap, [RecordNext]_recordVars
             PROVE  FirstViewsOverlap'
  OBVIOUS
<1>1. CASE UNCHANGED visitVars
  BY <1>1 DEF visitVars, FirstViewsOverlap, FirstView, SameView
<1>2. ASSUME NEW v \in Visits, NEW u \in Users, NEW m \in ToSet(posts),
             FindView(v, u, m) \/ FindSaved(v, u, m) \/ FindReport(v, u, m)
      PROVE  FirstViewsOverlap'
  <2>1. visit[v].pc = "new" /\ UNCHANGED history
    BY <1>2, FindOutcome
  <2>2. PICK q \in Visit :
          /\ VisitBecomes(v, q) /\ q.user = u /\ q.post = m
          /\ q.rival <=> Meeting(q.kind, u, m)
          /\ (q.kind = "view" /\ (q.found <=> Confirmed(u, m))) \/ q.kind # "view"
    BY <1>2, FindOutcome
  <2> QED
    BY <2>1, <2>2, FindOverlaps, NoFirstView
<1>3. ASSUME NEW v \in Visits, ToggleSaved(v) \/ SaveReport(v) \/ VisitFails(v) \/ CountView(v)
      PROVE  FirstViewsOverlap'
  <2>1. UNCHANGED history
    BY <1>3 DEF ToggleSaved, SaveReport, VisitFails, CountView
  <2>2. PICK pc \in {"done", "failed"} : VisitGoto(v, pc)
    BY <1>3 DEF ToggleSaved, SaveReport, VisitFails, CountView
  <2>3. PICK q \in Visit :
          /\ VisitBecomes(v, q) /\ q.kind = visit[v].kind /\ q.user = visit[v].user
          /\ q.post = visit[v].post /\ q.rival = visit[v].rival /\ q.pc = pc
    BY <2>2, VisitGoes
  <2> QED
    BY <2>1, <2>3, NoFirstView
<1>5. CASE MintNext
  BY <1>1, <1>5 DEF MintNext, FindCategories, InsertCategories, CreateToken, UploadFiles, MintFails,
                    ChainMints, SetVisibility, AddCategory
<1>6. CASE UNCHANGED recordVars
  BY <1>1, <1>6 DEF recordVars
<1> QED
  BY <1>2, <1>3, <1>5, <1>6, SaveOverlaps DEF RecordNext, VisitNext

-----------------------------------------------------------------------------
(***************************************************************************)
(* Saves, reports and the claims of awards.                                *)
(***************************************************************************)

\* The visits of an account to a post, and those that ended with a save or its reverse.
VisitsOf(kind, u, m) == {v \in Visits : SameVisit(v, kind, u, m)}

SavesDone(u, m) == {v \in VisitsOf("save", u, m) : visit[v].pc = "done"}

OneByOne(kind, u, m) == \A v \in VisitsOf(kind, u, m) : ~visit[v].rival

OneAtATime(kind, u, m) ==
  \A v, w \in VisitsOf(kind, u, m) : Pending(v) /\ Pending(w) => v = w

\* What is kept was kept by a save or a report that is done.
Shelf ==
  /\ \A w \in kept : visit[w].pc = "done" /\ visit[w].kind \in {"save", "report"}
  /\ \A v \in Visits : visit[v].pc = "new" => visit[v].kind = "none"

\* A save on its way knows whether there is one to take back, and a report that there is
\* none.
Toggled(u, m) ==
  OneByOne("save", u, m) =>
    /\ OneAtATime("save", u, m)
    /\ \A v \in VisitsOf("save", u, m) : Pending(v) => (visit[v].found <=> KeptOf("save", u, m) # {})
    /\ Cardinality(KeptOf("save", u, m)) = Cardinality(SavesDone(u, m)) % 2

Reported(u, m) ==
  OneByOne("report", u, m) =>
    /\ OneAtATime("report", u, m)
    /\ \A v \in VisitsOf("report", u, m) : Pending(v) => KeptOf("report", u, m) = {}
    /\ Cardinality(KeptOf("report", u, m)) <= 1

AllToggled == \A u \in Users, m \in Mints : Toggled(u, m) /\ Reported(u, m)

LEMMA ShelvesFinite ==
  ASSUME RecordTypeOK, NEW kind, NEW u, NEW m
  PROVE  IsFiniteSet(KeptOf(kind, u, m)) /\ IsFiniteSet(SavesDone(u, m))
<1>1. KeptOf(kind, u, m) \subseteq Visits /\ SavesDone(u, m) \subseteq Visits
  BY DEF RecordTypeOK, KeptOf, SavesDone, VisitsOf
<1> QED
  BY <1>1, VisitsAssumption, FS_Subset

\* A step of a visit that keeps nothing.
LEMMA SameKept ==
  ASSUME RecordTypeOK, NEW v \in Visits, NEW q, VisitBecomes(v, q), v \notin kept, UNCHANGED kept,
         NEW kind, NEW u, NEW m
  PROVE  KeptOf(kind, u, m)' = KeptOf(kind, u, m)
<1>1. visit'[v] = q /\ \A w \in Visits : w # v => visit'[w] = visit[w]
  BY OtherVisits
<1>2. \A w \in kept : w \in Visits /\ visit'[w] = visit[w]
  BY <1>1 DEF RecordTypeOK
<1> QED
  BY <1>2 DEF KeptOf, SameVisit

\* What the visits of another account, or to another post, or of another kind are about.
LEMMA OthersAsked ==
  ASSUME RecordTypeOK, NEW v \in Visits, NEW q, VisitBecomes(v, q), NEW kind, NEW u, NEW m,
         ~SameVisit(v, kind, u, m), ~(q.kind = kind /\ q.user = u /\ q.post = m)
  PROVE  /\ VisitsOf(kind, u, m)' = VisitsOf(kind, u, m)
         /\ \A w \in VisitsOf(kind, u, m) : w # v /\ visit'[w] = visit[w]
<1>1. visit'[v] = q /\ \A w \in Visits : w # v => visit'[w] = visit[w]
  BY OtherVisits
<1> QED
  BY <1>1 DEF VisitsOf, SameVisit

LEMMA OthersToggled ==
  ASSUME RecordTypeOK, NEW v \in Visits, NEW q, VisitBecomes(v, q), NEW u, NEW m,
         ~SameVisit(v, "save", u, m), ~(q.kind = "save" /\ q.user = u /\ q.post = m),
         KeptOf("save", u, m)' = KeptOf("save", u, m), Toggled(u, m)
  PROVE  Toggled(u, m)'
<1>1. /\ VisitsOf("save", u, m)' = VisitsOf("save", u, m)
      /\ \A w \in VisitsOf("save", u, m) : visit'[w] = visit[w]
  BY OthersAsked
<1>2. SavesDone(u, m)' = SavesDone(u, m)
  BY <1>1 DEF SavesDone
<1> QED
  BY <1>1, <1>2 DEF Toggled, OneByOne, OneAtATime, Pending

LEMMA OthersReported ==
  ASSUME RecordTypeOK, NEW v \in Visits, NEW q, VisitBecomes(v, q), NEW u, NEW m,
         ~SameVisit(v, "report", u, m), ~(q.kind = "report" /\ q.user = u /\ q.post = m),
         KeptOf("report", u, m)' = KeptOf("report", u, m), Reported(u, m)
  PROVE  Reported(u, m)'
<1>1. /\ VisitsOf("report", u, m)' = VisitsOf("report", u, m)
      /\ \A w \in VisitsOf("report", u, m) : visit'[w] = visit[w]
  BY OthersAsked
<1> QED
  BY <1>1 DEF Reported, OneByOne, OneAtATime, Pending

\* A visit begins, and no other of its account is on its way unless it knows of it.
LEMMA FindToggled ==
  ASSUME RecordTypeOK, Shelf, AllToggled, NEW v \in Visits, NEW u0 \in Users, NEW m0 \in ToSet(posts),
         FindView(v, u0, m0) \/ FindSaved(v, u0, m0) \/ FindReport(v, u0, m0)
  PROVE  Shelf' /\ AllToggled'
<1>1. visit[v].pc = "new" /\ UNCHANGED kept
  BY FindOutcome
<1>2. PICK q \in Visit :
        /\ VisitBecomes(v, q) /\ q.user = u0 /\ q.post = m0
        /\ q.rival <=> Meeting(q.kind, u0, m0)
        /\ \/ q.kind = "view" /\ q.pc = "write"
           \/ q.kind = "save" /\ q.pc = "write" /\ (q.found <=> KeptOf("save", u0, m0) # {})
           \/ /\ q.kind = "report"
              /\ q.pc = IF KeptOf("report", u0, m0) = {} THEN "write" ELSE "refused"
  BY FindOutcome
<1>3. visit'[v] = q /\ \A w \in Visits : w # v => visit'[w] = visit[w]
  BY <1>2, OtherVisits
<1>4. v \notin kept /\ visit[v].kind = "none"
  BY <1>1 DEF Shelf
<1>5. Shelf'
  BY <1>1, <1>2, <1>3, <1>4 DEF Shelf, RecordTypeOK
<1>6. ASSUME NEW kind, NEW u, NEW m PROVE KeptOf(kind, u, m)' = KeptOf(kind, u, m)
  BY <1>1, <1>2, <1>4, SameKept
<1>7. \A u, m : ~SameVisit(v, "save", u, m) /\ ~SameVisit(v, "report", u, m)
  BY <1>4 DEF SameVisit
<1>8. ASSUME NEW kind, OneByOne(kind, u0, m0)', q.kind = kind
      PROVE  /\ VisitsOf(kind, u0, m0)' = VisitsOf(kind, u0, m0) \union {v}
             /\ OneByOne(kind, u0, m0)
             /\ \A w \in VisitsOf(kind, u0, m0) : w # v /\ visit'[w] = visit[w] /\ ~Pending(w)
  <2>1. v \in VisitsOf(kind, u0, m0)'
    BY <1>2, <1>3, <1>8 DEF VisitsOf, SameVisit
  <2>2. ~Meeting(kind, u0, m0)
    BY <1>2, <1>3, <1>8, <2>1 DEF OneByOne
  <2> QED
    BY <1>2, <1>3, <1>4, <1>8, <2>1, <2>2 DEF VisitsOf, SameVisit, OneByOne, Meeting
<1>9. ASSUME NEW u \in Users, NEW m \in Mints PROVE Toggled(u, m)'
  <2>1. CASE q.kind = "save" /\ u = u0 /\ m = m0
    <3> SUFFICES ASSUME OneByOne("save", u, m)'
                 PROVE  /\ OneAtATime("save", u, m)'
                        /\ \A w \in VisitsOf("save", u, m)' :
                             Pending(w)' => (visit'[w].found <=> KeptOf("save", u, m)' # {})
                        /\ Cardinality(KeptOf("save", u, m)') = Cardinality(SavesDone(u, m)') % 2
      BY DEF Toggled
    <3>1. /\ VisitsOf("save", u, m)' = VisitsOf("save", u, m) \union {v} /\ OneByOne("save", u, m)
          /\ \A w \in VisitsOf("save", u, m) : w # v /\ visit'[w] = visit[w] /\ ~Pending(w)
      BY <1>8, <2>1
    <3>2. SavesDone(u, m)' = SavesDone(u, m)
      BY <1>2, <1>3, <2>1, <3>1 DEF SavesDone
    <3>3. \A w \in VisitsOf("save", u, m)' : Pending(w)' => w = v
      BY <3>1 DEF Pending
    <3> QED
      BY <1>2, <1>3, <1>6, <2>1, <3>1, <3>2, <3>3 DEF AllToggled, Toggled, OneAtATime
  <2>2. CASE ~(q.kind = "save" /\ u = u0 /\ m = m0)
    BY <1>2, <1>4, <1>6, <2>2, OthersToggled DEF AllToggled, SameVisit
  <2> QED
    BY <2>1, <2>2
<1>10. ASSUME NEW u \in Users, NEW m \in Mints PROVE Reported(u, m)'
  <2>1. CASE q.kind = "report" /\ u = u0 /\ m = m0
    <3> SUFFICES ASSUME OneByOne("report", u, m)'
                 PROVE  /\ OneAtATime("report", u, m)'
                        /\ \A w \in VisitsOf("report", u, m)' : Pending(w)' => KeptOf("report", u, m)' = {}
                        /\ Cardinality(KeptOf("report", u, m)') <= 1
      BY DEF Reported
    <3>1. /\ VisitsOf("report", u, m)' = VisitsOf("report", u, m) \union {v} /\ OneByOne("report", u, m)
          /\ \A w \in VisitsOf("report", u, m) : w # v /\ visit'[w] = visit[w] /\ ~Pending(w)
      BY <1>8, <2>1
    <3>2. \A w \in VisitsOf("report", u, m)' : Pending(w)' => w = v /\ q.pc = "write"
      BY <1>2, <1>3, <2>1, <3>1 DEF Pending
    <3> QED
      BY <1>2, <1>3, <1>6, <2>1, <3>1, <3>2 DEF AllToggled, Reported, OneAtATime
  <2>2. CASE ~(q.kind = "report" /\ u = u0 /\ m = m0)
    BY <1>2, <1>4, <1>6, <2>2, OthersReported DEF AllToggled, SameVisit
  <2> QED
    BY <2>1, <2>2
<1> QED
  BY <1>5, <1>9, <1>10 DEF AllToggled

\* A visit that fails, or that is no save and no report, keeps nothing and is done with.
LEMMA QuietToggled ==
  ASSUME RecordTypeOK, Shelf, AllToggled, NEW v \in Visits, NEW q, VisitBecomes(v, q),
         visit[v].pc \in {"write", "count"}, q.pc \in {"count", "done", "failed"}, UNCHANGED kept,
         q.kind = visit[v].kind, q.user = visit[v].user, q.post = visit[v].post,
         q.found = visit[v].found, q.rival = visit[v].rival,
         q.pc = "failed" \/ q.kind = "view"
  PROVE  Shelf' /\ AllToggled'
<1>1. visit'[v] = q /\ \A w \in Visits : w # v => visit'[w] = visit[w]
  BY OtherVisits
<1>2. v \notin kept
  BY DEF Shelf
<1>3. Shelf'
  BY <1>1, <1>2 DEF Shelf, RecordTypeOK
<1>4. ASSUME NEW kind, NEW u, NEW m
      PROVE  /\ KeptOf(kind, u, m)' = KeptOf(kind, u, m) /\ VisitsOf(kind, u, m)' = VisitsOf(kind, u, m)
             /\ OneByOne(kind, u, m)' => OneByOne(kind, u, m)
  <2>1. KeptOf(kind, u, m)' = KeptOf(kind, u, m)
    BY <1>2, SameKept
  <2> QED
    BY <1>1, <2>1 DEF VisitsOf, SameVisit, OneByOne
<1>5. ASSUME NEW w \in Visits, Pending(w)', visit'[w].kind \in {"save", "report"}
      PROVE  Pending(w) /\ visit'[w] = visit[w]
  BY <1>1, <1>5 DEF Pending
<1>6. ASSUME NEW u, NEW m PROVE SavesDone(u, m)' = SavesDone(u, m)
  BY <1>1, <1>4 DEF SavesDone, VisitsOf, SameVisit
<1>7. ASSUME NEW kind \in {"save", "report"}, NEW u, NEW m, NEW w \in VisitsOf(kind, u, m)', Pending(w)'
      PROVE  w \in VisitsOf(kind, u, m) /\ Pending(w) /\ visit'[w] = visit[w]
  BY <1>4, <1>5, <1>7 DEF VisitsOf, SameVisit
<1>8. ASSUME NEW u \in Users, NEW m \in Mints PROVE Toggled(u, m)'
  BY <1>4, <1>6, <1>7 DEF AllToggled, Toggled, OneAtATime
<1>9. ASSUME NEW u \in Users, NEW m \in Mints PROVE Reported(u, m)'
  BY <1>4, <1>7 DEF AllToggled, Reported, OneAtATime
<1> QED
  BY <1>3, <1>8, <1>9 DEF AllToggled

\* A number that is even or odd.
LEMMA Parity ==
  ASSUME NEW n \in Nat
  PROVE  n % 2 \in {0, 1} /\ (n % 2 = 0 => (n + 1) % 2 = 1) /\ (n % 2 = 1 => (n + 1) % 2 = 0)
  OBVIOUS

LEMMA ToggleToggled ==
  ASSUME RecordTypeOK, Shelf, AllToggled, NEW v \in Visits, ToggleSaved(v)
  PROVE  Shelf' /\ AllToggled'
<1> DEFINE its == KeptOf("save", visit[v].user, visit[v].post)
<1>1. /\ visit[v].pc = "write" /\ visit[v].kind = "save" /\ VisitGoto(v, "done")
      /\ \/ visit[v].found /\ its = {} /\ UNCHANGED kept
         \/ visit[v].found /\ \E w \in its : kept' = kept \ {w}
         \/ ~visit[v].found /\ kept' = kept \union {v}
  BY DEF ToggleSaved
<1>2. PICK q \in Visit :
        /\ VisitBecomes(v, q) /\ q.pc = "done"
        /\ q.kind = visit[v].kind /\ q.user = visit[v].user /\ q.post = visit[v].post
        /\ q.found = visit[v].found /\ q.rival = visit[v].rival
  BY <1>1, VisitGoes
<1>3. visit'[v] = q /\ \A w \in Visits : w # v => visit'[w] = visit[w]
  BY <1>2, OtherVisits
<1>4. v \notin kept /\ \A w \in kept : w \in Visits /\ visit'[w] = visit[w]
  BY <1>1, <1>3 DEF Shelf, RecordTypeOK
<1>5. kept' \subseteq kept \union {v}
  BY <1>1
<1>6. Shelf'
  BY <1>1, <1>2, <1>3, <1>4, <1>5 DEF Shelf
<1>7. ASSUME NEW kind \in {"save", "report"}, NEW u, NEW m, ~SameVisit(v, kind, u, m)
      PROVE  KeptOf(kind, u, m)' = KeptOf(kind, u, m)
  BY <1>1, <1>2, <1>3, <1>4, <1>7 DEF KeptOf, SameVisit
<1>8. ASSUME NEW u \in Users, NEW m \in Mints PROVE Reported(u, m)'
  BY <1>1, <1>2, <1>7, OthersReported DEF AllToggled, SameVisit
<1>9. ASSUME NEW u \in Users, NEW m \in Mints PROVE Toggled(u, m)'
  <2>1. CASE ~SameVisit(v, "save", u, m)
    BY <1>2, <1>7, <2>1, OthersToggled DEF AllToggled, SameVisit
  <2>2. CASE SameVisit(v, "save", u, m)
    <3> DEFINE K == KeptOf("save", u, m)
               D == SavesDone(u, m)
    <3> SUFFICES ASSUME OneByOne("save", u, m)'
                 PROVE  /\ OneAtATime("save", u, m)'
                        /\ \A w \in VisitsOf("save", u, m)' :
                             Pending(w)' => (visit'[w].found <=> KeptOf("save", u, m)' # {})
                        /\ Cardinality(KeptOf("save", u, m)') = Cardinality(SavesDone(u, m)') % 2
      BY DEF Toggled
    <3>1. VisitsOf("save", u, m)' = VisitsOf("save", u, m) /\ v \in VisitsOf("save", u, m)
      BY <1>2, <1>3, <2>2 DEF VisitsOf, SameVisit
    <3>2. OneByOne("save", u, m)
      BY <1>2, <1>3, <3>1 DEF OneByOne, VisitsOf
    <3>3. /\ OneAtATime("save", u, m) /\ Pending(v) /\ (visit[v].found <=> K # {})
          /\ Cardinality(K) = Cardinality(D) % 2
      BY <1>1, <3>1, <3>2 DEF AllToggled, Toggled, Pending
    <3>4. \A w \in VisitsOf("save", u, m)' : ~Pending(w)'
      BY <1>2, <1>3, <3>1, <3>3 DEF OneAtATime, VisitsOf, Pending
    <3>5. SavesDone(u, m)' = D \union {v} /\ v \notin D
      BY <1>1, <1>2, <1>3, <3>1 DEF SavesDone, VisitsOf
    <3>6. its = K
      BY <2>2 DEF SameVisit
    <3>7. IsFiniteSet(K) /\ IsFiniteSet(D)
      BY ShelvesFinite
    <3> HIDE DEF K, D, its
    <3>8. Cardinality(D) \in Nat /\ Cardinality(SavesDone(u, m)') = Cardinality(D) + 1
      BY <3>5, <3>7, FS_AddElement, FS_CardinalityType
    <3>9. Cardinality(KeptOf("save", u, m)') = (Cardinality(D) + 1) % 2
      <4>1. CASE visit[v].found
        <5>1. PICK w \in K : kept' = kept \ {w}
          BY <1>1, <3>3, <3>6, <4>1
        <5>2. Cardinality(K) = 1
          <6>1. Cardinality(K) # 0
            BY <5>1, <3>7, FS_EmptySet
          <6> QED
            BY <3>3, <3>8, <6>1, Parity
        <5>3. KeptOf("save", u, m)' = K \ {w}
          <6>1. \A x : x \in KeptOf("save", u, m)' <=>
                  x \in kept' /\ visit'[x].kind = "save" /\ visit'[x].user = u /\ visit'[x].post = m
            BY DEF KeptOf, SameVisit
          <6>2. \A x : x \in K <=>
                  x \in kept /\ visit[x].kind = "save" /\ visit[x].user = u /\ visit[x].post = m
            BY DEF KeptOf, SameVisit, K
          <6>3. \A x : x \in KeptOf("save", u, m)' <=> x \in K \ {w}
            <7>1. \A x \in kept : visit'[x] = visit[x]
              BY <1>4
            <7>2. \A x : x \in kept' <=> x \in kept /\ x # w
              BY <5>1
            <7> QED
              BY <6>1, <6>2, <7>1, <7>2
          <6> QED
            BY <6>3, Zenon
        <5>4. Cardinality(K \ {w}) = 0
          <6>1. w \in K /\ IsFiniteSet(K)
            BY <3>7, <5>1
          <6>2. Cardinality(K \ {w}) = Cardinality(K) - 1
            BY <6>1, FS_RemoveElement, Zenon
          <6> QED
            BY <5>2, <6>2
        <5> QED
          BY <3>3, <3>8, <5>2, <5>3, <5>4, Parity
      <4>2. CASE ~visit[v].found
        <5>1. K = {} /\ kept' = kept \union {v}
          BY <1>1, <3>3, <4>2
        <5>2. KeptOf("save", u, m)' = {v}
          BY <1>2, <1>3, <1>4, <2>2, <5>1 DEF KeptOf, SameVisit, K
        <5>3. Cardinality({v}) = 1 /\ Cardinality(K) = 0
          BY <5>1, FS_Singleton, FS_EmptySet
        <5> QED
          BY <3>3, <3>8, <5>2, <5>3, Parity
      <4> QED
        BY <4>1, <4>2
    <3> QED
      BY <3>4, <3>8, <3>9 DEF OneAtATime
  <2> QED
    BY <2>1, <2>2
<1> QED
  BY <1>6, <1>8, <1>9 DEF AllToggled

LEMMA ReportToggled ==
  ASSUME RecordTypeOK, Shelf, AllToggled, NEW v \in Visits, SaveReport(v)
  PROVE  Shelf' /\ AllToggled'
<1>1. /\ visit[v].pc = "write" /\ visit[v].kind = "report" /\ VisitGoto(v, "done")
      /\ kept' = kept \union {v}
  BY DEF SaveReport
<1>2. PICK q \in Visit :
        /\ VisitBecomes(v, q) /\ q.pc = "done"
        /\ q.kind = visit[v].kind /\ q.user = visit[v].user /\ q.post = visit[v].post
        /\ q.rival = visit[v].rival
  BY <1>1, VisitGoes
<1>3. visit'[v] = q /\ \A w \in Visits : w # v => visit'[w] = visit[w]
  BY <1>2, OtherVisits
<1>4. v \notin kept /\ \A w \in kept : w \in Visits /\ visit'[w] = visit[w]
  BY <1>1, <1>3 DEF Shelf, RecordTypeOK
<1>5. Shelf'
  BY <1>1, <1>2, <1>3, <1>4 DEF Shelf
<1>6. ASSUME NEW kind, NEW u, NEW m, ~SameVisit(v, kind, u, m)
      PROVE  KeptOf(kind, u, m)' = KeptOf(kind, u, m)
  BY <1>1, <1>2, <1>3, <1>4, <1>6 DEF KeptOf, SameVisit
<1>7. ASSUME NEW u \in Users, NEW m \in Mints PROVE Toggled(u, m)'
  BY <1>1, <1>2, <1>6, OthersToggled DEF AllToggled, SameVisit
<1>8. ASSUME NEW u \in Users, NEW m \in Mints PROVE Reported(u, m)'
  <2>1. CASE ~SameVisit(v, "report", u, m)
    BY <1>2, <1>6, <2>1, OthersReported DEF AllToggled, SameVisit
  <2>2. CASE SameVisit(v, "report", u, m)
    <3> SUFFICES ASSUME OneByOne("report", u, m)'
                 PROVE  /\ OneAtATime("report", u, m)'
                        /\ \A w \in VisitsOf("report", u, m)' : Pending(w)' => KeptOf("report", u, m)' = {}
                        /\ Cardinality(KeptOf("report", u, m)') <= 1
      BY DEF Reported
    <3>1. VisitsOf("report", u, m)' = VisitsOf("report", u, m) /\ v \in VisitsOf("report", u, m)
      BY <1>2, <1>3, <2>2 DEF VisitsOf, SameVisit
    <3>2. OneByOne("report", u, m)
      BY <1>2, <1>3, <3>1 DEF OneByOne, VisitsOf
    <3>3. OneAtATime("report", u, m) /\ Pending(v) /\ KeptOf("report", u, m) = {}
      BY <1>1, <3>1, <3>2 DEF AllToggled, Reported, Pending
    <3>4. \A w \in VisitsOf("report", u, m)' : ~Pending(w)'
      BY <1>2, <1>3, <3>1, <3>3 DEF OneAtATime, VisitsOf, Pending
    <3>5. KeptOf("report", u, m)' = {v}
      BY <1>1, <1>2, <1>3, <1>4, <2>2, <3>3 DEF KeptOf, SameVisit
    <3>6. Cardinality({v}) = 1
      BY FS_Singleton
    <3> QED
      BY <3>4, <3>5, <3>6 DEF OneAtATime
  <2> QED
    BY <2>1, <2>2
<1> QED
  BY <1>5, <1>7, <1>8 DEF AllToggled

LEMMA ToggledStep ==
  RecordTypeOK /\ ViewsSaved /\ Shelf /\ AllToggled /\ [RecordNext]_recordVars => Shelf' /\ AllToggled'
<1> SUFFICES ASSUME RecordTypeOK, ViewsSaved, Shelf, AllToggled, [RecordNext]_recordVars
             PROVE  Shelf' /\ AllToggled'
  OBVIOUS
<1>1. CASE UNCHANGED visitVars
  <2>1. visit' = visit /\ kept' = kept
    BY <1>1 DEF visitVars
  <2>2. \A kind, u, m : VisitsOf(kind, u, m)' = VisitsOf(kind, u, m) /\ KeptOf(kind, u, m)' = KeptOf(kind, u, m)
    BY <2>1 DEF VisitsOf, KeptOf, SameVisit
  <2>3. \A u, m : SavesDone(u, m)' = SavesDone(u, m)
    BY <2>1, <2>2 DEF SavesDone
  <2>4. \A v : Pending(v)' = Pending(v)
    BY <2>1 DEF Pending
  <2>5. \A kind, u, m : /\ OneByOne(kind, u, m)' = OneByOne(kind, u, m)
                        /\ OneAtATime(kind, u, m)' = OneAtATime(kind, u, m)
    BY <2>1, <2>2, <2>4 DEF OneByOne, OneAtATime
  <2>6. ASSUME NEW u \in Users, NEW m \in Mints PROVE Toggled(u, m)' /\ Reported(u, m)'
    BY <2>1, <2>2, <2>3, <2>4, <2>5 DEF AllToggled, Toggled, Reported
  <2> QED
    BY <2>1, <2>6 DEF Shelf, AllToggled
<1>2. ASSUME NEW v \in Visits, VisitFails(v) \/ SaveView(v) \/ CountView(v) PROVE Shelf' /\ AllToggled'
  <2>1. visit[v].pc \in {"write", "count"} /\ UNCHANGED kept
    BY <1>2 DEF VisitFails, SaveView, CountView, Pending
  <2>2. PICK pc \in {"count", "done", "failed"} : VisitGoto(v, pc) /\ (VisitFails(v) => pc = "failed")
    BY <1>2 DEF VisitFails, SaveView, CountView
  <2>3. visit[v].kind = "view" \/ pc = "failed"
    BY <1>2, <2>2 DEF SaveView, CountView, ViewsSaved
  <2>4. PICK q \in Visit :
          /\ VisitBecomes(v, q) /\ q.pc = pc
          /\ q.kind = visit[v].kind /\ q.user = visit[v].user /\ q.post = visit[v].post
          /\ q.found = visit[v].found /\ q.rival = visit[v].rival
    BY <2>2, VisitGoes
  <2> QED
    BY <2>1, <2>3, <2>4, QuietToggled
<1>5. CASE MintNext
  BY <1>1, <1>5 DEF MintNext, FindCategories, InsertCategories, CreateToken, UploadFiles, MintFails,
                    ChainMints, SetVisibility, AddCategory
<1>6. CASE UNCHANGED recordVars
  BY <1>1, <1>6 DEF recordVars
<1> QED
  BY <1>2, <1>5, <1>6, FindToggled, ToggleToggled, ReportToggled DEF RecordNext, VisitNext

\* Views, saves and reports of any number of accounts add up: no view is lost or counted
\* twice, an account that saves one after the other has the post saved every second time,
\* and what is there twice takes overlapping requests (recordVideoView, savePost, addReport).
THEOREM VisitsAlwaysAddUp == RecordSpec => []VisitsAddUp
<1>1. RecordInit => ViewsSaved /\ ViewsTotalled /\ FirstViewsOverlap /\ Shelf /\ AllToggled
  <2> SUFFICES ASSUME RecordInit
               PROVE  ViewsSaved /\ ViewsTotalled /\ FirstViewsOverlap /\ Shelf /\ AllToggled
    OBVIOUS
  <2>1. /\ history = {} /\ kept = {} /\ \A m \in Mints : views[m] = 0
        /\ \A v \in Visits : visit[v].pc = "new" /\ visit[v].kind = "none"
    BY DEF RecordInit
  <2>2. ViewsSaved /\ FirstViewsOverlap /\ Shelf
    BY <2>1, FS_EmptySet DEF ViewsSaved, FirstViewsOverlap, FirstView, Shelf
  <2>3. \A m : ViewsDone(m) = {} /\ ViewsPast(m) = {}
    BY <2>1 DEF ViewsDone, ViewsPast
  <2>4. \A u, m : VisitsOf("save", u, m) = {} /\ VisitsOf("report", u, m) = {} /\ SavesDone(u, m) = {}
    BY <2>1 DEF VisitsOf, SameVisit, SavesDone
  <2>5. \A kind, u, m : KeptOf(kind, u, m) = {}
    BY <2>1 DEF KeptOf
  <2>6. Cardinality({}) = 0 /\ 0 % 2 = 0
    BY FS_EmptySet
  <2>7. ViewsTotalled
    BY <2>1, <2>3, <2>6 DEF ViewsTotalled
  <2>8. ASSUME NEW u \in Users, NEW m \in Mints PROVE Toggled(u, m) /\ Reported(u, m)
    BY <2>4, <2>5, <2>6 DEF Toggled, Reported, OneAtATime
  <2> QED
    BY <2>2, <2>7, <2>8 DEF AllToggled
<1>2. ASSUME ViewsTotalled, FirstViewsOverlap, ViewsSaved, AllToggled, RecordTypeOK PROVE VisitsAddUp
  <2>1. ASSUME NEW m \in Mints
        PROVE  /\ {h \in {k \in history : visit[k.id].pc = "done"} : visit[h.id].post = m} = ViewsDone(m)
               /\ {h \in {k \in history : visit[k.id].pc # "count"} : visit[h.id].post = m} = ViewsPast(m)
    BY DEF ViewsDone, ViewsPast
  <2>2. \A h \in history : visit[h.id].kind = "view"
    BY <1>2 DEF ViewsSaved
  <2>3. ViewsFollowHistory
    BY <1>2, <2>1, <2>2 DEF ViewsFollowHistory, ViewsTotalled, FirstViewsOverlap, SameVisit, SameView
  <2>4. SavesToggle
    BY <1>2 DEF SavesToggle, AllToggled, Toggled, Reported, OneByOne, VisitsOf, SavesDone
  <2> QED
    BY <2>3, <2>4 DEF VisitsAddUp
<1> QED
  BY <1>1, <1>2, RecordsTyped, ViewTotalsStep, ViewOverlapsStep, ToggledStep, PTL DEF RecordSpec

-----------------------------------------------------------------------------
(***************************************************************************)
(* The instance that runs the components as alternatives (MCContent).      *)
(***************************************************************************)

LEMMA ContentStep ==
  [MCNext]_allVars =>
    /\ [TipNext]_tipVars
    /\ [ReactNext]_reactVars
    /\ [IndexNext]_chainVars
    /\ [RecordNext]_recordVars
    /\ [JobNext]_jobVars
    /\ [LifeNext]_lifeVars
    /\ [PlanNext]_planVars
    /\ [ImageNext]_imageVars
<1>1. CASE UNCHANGED allVars
  BY <1>1 DEF allVars
<1>2. CASE MCNext
  <2>1. /\ MarkNext \/ ToggleNext \/ CommentNext \/ (\E c \in Calls : CallFails(c)) => ReactNext
        /\ MintNext \/ VisitNext => RecordNext
        /\ DmNext \/ VideoNext \/ ProcessesDie => JobNext
        /\ ShowNext \/ LogNext \/ FanNext => LifeNext
        /\ OfferNext \/ PurchaseNext => PlanNext
    BY DEF ReactNext, RecordNext, JobNext, LifeNext, PlanNext
  <2>2. /\ OnePost => MintNext \/ VisitNext
        /\ OneShow => ShowNext \/ LogNext \/ FanNext
        /\ OnePlan => OfferNext \/ PurchaseNext
        /\ OneViewer => ImageNext
    BY DEF OnePost, OneShow, OnePlan, OneViewer
  <2> QED
    BY <1>2, <2>1, <2>2 DEF MCNext
<1> QED
  BY <1>1, <1>2

\* The instance of the components around posts behaves as each of them: what is proved of a
\* component holds in it.
THEOREM ContentProject ==
  MCSpec => TipSpec /\ ReactSpec /\ IndexSpec /\ RecordSpec /\ JobSpec /\ LifeSpec /\ PlanSpec /\ ImageSpec
<1>1. MCInit => TipInit /\ ReactInit /\ IndexInit /\ RecordInit /\ JobInit /\ LifeInit /\ PlanInit /\ ImageInit
  BY DEF MCInit
<1> QED
  BY <1>1, ContentStep, PTL
     DEF MCSpec, TipSpec, ReactSpec, IndexSpec, RecordSpec, JobSpec, LifeSpec, PlanSpec, ImageSpec

\* Every variable around posts keeps its type, whichever component runs.
THEOREM ContentTyped == MCSpec => []ContentTypesOK
<1>1. LoopTypes => IndexTypeOK
  BY DEF LoopTypes
<1>2. (TipTypeOK /\ ReactTypeOK /\ IndexTypeOK /\ RecordTypeOK /\ JobTypeOK /\ LifeTypeOK /\ PlanTypeOK
         /\ ImageTypeOK) => ContentTypesOK
  BY DEF ContentTypesOK
<1> QED
  BY <1>1, <1>2, ContentProject, TipTypesHold, ReactTypesHold, IndexTypesHold, RecordsTyped, JobTyped,
     LifeTyped, PlansTyped, ImagesTyped, PTL

\* What a run checks of the instance on a few ids holds of it on any number.
THEOREM ContentIsSafe ==
  MCSpec =>
    /\ [](OverdraftNeedsOverlap /\ TipsConserved)
    /\ [](MarksAddUp /\ ReactionCountsAddresses)
    /\ [](NothingLost /\ ReplayNeedsTrouble /\ OwnerIsLatest /\ NothingPassesTransfers)
    /\ [](VisitsAddUp /\ FeedsShowVisible /\ ImageFollowsTitles)
    /\ [](UploadsKept /\ LiveNeedsLivepeer) /\ DoneStays
    /\ [](SecondActiveNeedsPending /\ PurchaseCountsOnce)
  BY ContentProject, OverdraftsOverlap, TipsStayConserved, MarksAlwaysAddUp, ReactionsCount, NoEventIsLost,
     ReplaysNeedTrouble, OwnersAreLatest, TransfersStopTheIndexer, VisitsAlwaysAddUp, FeedsAlwaysShowVisible,
     ImagesFollowTitles, UploadsAreKept, LiveAtLivepeer, VideosStayDone, SecondActives, PurchasesCountOnce,
     PTL
=============================================================================
