------------------------------- MODULE DmPayments -------------------------------
(***************************************************************************)
(* Payments in conversations: the transaction a client registers and then  *)
(* answers, the message it unlocks and the tip it confirms (addTnx,        *)
(* updateTnx of dm.service.ts).                                            *)
(***************************************************************************)
EXTENDS Integers, FiniteSets

CONSTANTS
  Deals,      \* bound: addTnx calls
  Messages,   \* messages that were sent locked
  Replies     \* bound: updateTnx calls

ASSUME DealsAssumption == IsFiniteSet(Deals) /\ IsFiniteSet(Messages) /\ IsFiniteSet(Replies)

VARIABLES
  deals,      \* addTnx calls and the TipAndDmTnx documents they create
  tips,       \* DmTips documents, by the call that created them: their status
  unlocked,   \* messages with isUnLocked
  replies,    \* updateTnx calls
  announced   \* calls that emitted tipSend

payVars == <<deals, tips, unlocked, replies, announced>>

Deal == [pc : {"new", "save", "open", "failed"}, type : {"tip", "paid-dm"},
         message : Messages, status : {"init", "success", "failed"}]
Reply == [pc : {"new", "act", "emit", "done", "failed"}, deal : Deals]

PayTypeOK ==
  /\ deals \in [Deals -> Deal]
  /\ tips \in [Deals -> {"none", "init", "success"}]
  /\ unlocked \in SUBSET Messages
  /\ replies \in [Replies -> Reply]
  /\ announced \in SUBSET Replies
  /\ \A r \in Replies : replies[r].pc # "new" => deals[replies[r].deal].pc = "open"

PayInit ==
  /\ \E k \in [Deals -> [type : {"tip", "paid-dm"}, message : Messages]] :
       deals = [d \in Deals |-> [pc |-> "new", type |-> k[d].type, message |-> k[d].message,
                                 status |-> "init"]]
  /\ tips = [d \in Deals |-> "none"]
  /\ unlocked = {} /\ announced = {}
  /\ \E d \in Deals : replies = [r \in Replies |-> [pc |-> "new", deal |-> d]]

-----------------------------------------------------------------------------

\* addTnx: of a tip the DmTips document first, the transaction last.
AddTip(d) ==
  /\ deals[d].pc = "new" /\ deals[d].type = "tip"
  /\ tips' = [tips EXCEPT ![d] = "init"]
  /\ deals' = [deals EXCEPT ![d].pc = "save"]
  /\ UNCHANGED <<unlocked, replies, announced>>

SaveDeal(d) ==
  /\ deals[d].pc = "save" \/ (deals[d].pc = "new" /\ deals[d].type = "paid-dm")
  /\ deals' = [deals EXCEPT ![d].pc = "open"]
  /\ UNCHANGED <<tips, unlocked, replies, announced>>

DealFails(d) ==
  /\ deals[d].pc \in {"new", "save"}
  /\ deals' = [deals EXCEPT ![d].pc = "failed"]
  /\ UNCHANGED <<tips, unlocked, replies, announced>>

\* updateTnx: the status the client names, whatever it was, ...
Answer(r, d, status) ==
  /\ replies[r].pc = "new" /\ deals[d].pc = "open"
  /\ deals' = [deals EXCEPT ![d].status = status]
  /\ replies' = [replies EXCEPT ![r] = [pc |-> "act", deal |-> d]]
  /\ UNCHANGED <<tips, unlocked, announced>>

\* ... and then, whatever it is, the message or the tip.
Unlock(r) ==
  /\ replies[r].pc = "act" /\ deals[replies[r].deal].type = "paid-dm"
  /\ unlocked' = unlocked \union {deals[replies[r].deal].message}
  /\ replies' = [replies EXCEPT ![r].pc = "done"]
  /\ UNCHANGED <<deals, tips, announced>>

ConfirmTip(r) ==
  /\ replies[r].pc = "act" /\ deals[replies[r].deal].type = "tip"
  /\ tips' = [tips EXCEPT ![replies[r].deal] = "success"]
  /\ replies' = [replies EXCEPT ![r].pc = "emit"]
  /\ UNCHANGED <<deals, unlocked, announced>>

\* Slip: the event goes out before the tip is confirmed.
AnnounceEarly(r) ==
  /\ replies[r].pc \in {"act", "emit"} /\ deals[replies[r].deal].type = "tip"
  /\ announced' = announced \union {r}
  /\ replies' = [replies EXCEPT ![r].pc = "done"]
  /\ UNCHANGED <<deals, tips, unlocked>>

Announce(r) ==
  /\ replies[r].pc = "emit"
  /\ announced' = announced \union {r}
  /\ replies' = [replies EXCEPT ![r].pc = "done"]
  /\ UNCHANGED <<deals, tips, unlocked>>

ReplyFails(r) ==
  /\ replies[r].pc = "act"
  /\ replies' = [replies EXCEPT ![r].pc = "failed"]
  /\ UNCHANGED <<deals, tips, unlocked, announced>>

PayNext ==
  \/ \E d \in Deals :
       \/ AddTip(d)
       \/ SaveDeal(d)
       \/ DealFails(d)
       \/ \E r \in Replies, status \in {"init", "success", "failed"} : Answer(r, d, status)
  \/ \E r \in Replies :
       \/ Unlock(r)
       \/ ConfirmTip(r)
       \/ Announce(r)
       \/ ReplyFails(r)

PaySpec == PayInit /\ [][PayNext]_payVars

-----------------------------------------------------------------------------

(***************************************************************************)
(* What a payment opens it opened through a transaction of its own that    *)
(* was saved and answered: a message is unlocked by a deal for it, a tip   *)
(* counts when its transaction was saved after it, and is announced only   *)
(* once it counts.  A tip whose transaction was never saved stays at init  *)
(* (addTnx writes the two in two calls, updateTnx likewise).               *)
(***************************************************************************)
OpenedByItsDeal ==
  /\ \A m \in unlocked : \E r \in Replies :
       replies[r].pc = "done" /\ deals[replies[r].deal].message = m
  /\ \A d \in Deals : tips[d] = "success" => deals[d].pc = "open"
  /\ \A r \in announced : tips[replies[r].deal] = "success"
=============================================================================
