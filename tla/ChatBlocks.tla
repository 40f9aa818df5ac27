------------------------------- MODULE ChatBlocks -------------------------------
(***************************************************************************)
(* Blocks of conversations and of group members, and the messages they     *)
(* hold back (dm.service.ts, dm.socket.controller.ts,                      *)
(* dm.socket.service.ts).                                                  *)
(*                                                                         *)
(* A block is a UserReport.  blockDm and unBlockDm name the blocker in     *)
(* reportedBy, blockGroupUser names the admin in userReportedBy and the    *)
(* member in reportedUser.  The collection has a unique index on           *)
(* reportedBy, reportedUser and action, over all conversations.            *)
(***************************************************************************)
EXTENDS BackendIds

CONSTANTS
  Chats,      \* conversations, every user a participant
  Blocks,     \* bound: calls that block and unblock
  Sends       \* bound: messages sent or deleted

ASSUME BlocksAssumption == IsFiniteSet(Chats) /\ IsFiniteSet(Blocks) /\ IsFiniteSet(Sends)

VARIABLES
  isGroup,    \* the conversations of type group
  reports,    \* the UserReport documents
  blocks,     \* calls of blockDm, unBlockDm and blockGroupUser
  messages,   \* the sends whose message exists
  sends,      \* messages on their way through sendMessage
  delivered   \* <<send, user>>: the message reached the user's sockets

blockVars == <<isGroup, reports, blocks, messages, sends, delivered>>

Somebody == Users \union {None}

\* by: reportedBy, admin: userReportedBy, target: reportedUser
Report == [chat : Chats, by : Somebody, admin : Somebody, target : Somebody,
           action : {"block", "unblock"}, resolved : BOOLEAN]

\* late: a call that looked while another upsert of the same filter was due.
Block == [pc : {"new", "block", "unblock", "done", "refused", "failed", "kept"}, chat : Chats \union {None},
          by : Somebody, admin : Somebody, target : Somebody, late : BOOLEAN]

\* spared: the users of the block list read first; stale: those who were
\* blocked or blocked the conversation since.
Send == [pc : {"new", "create", "deliver", "done", "refused"}, chat : Chats \union {None},
         user : Somebody, spared : SUBSET Users, stale : SUBSET Users]

\* The unique index: no two documents with one key.
IndexOK(docs) ==
  \A r, q \in docs : <<r.by, r.target, r.action>> = <<q.by, q.target, q.action>> => r = q

BlockTypeOK ==
  /\ isGroup \in SUBSET Chats
  /\ reports \in SUBSET Report /\ IndexOK(reports)
  /\ blocks \in [Blocks -> Block]
  /\ messages \in SUBSET Sends
  /\ sends \in [Sends -> Send]
  /\ delivered \in SUBSET (Sends \X Users)

BlockInit ==
  /\ isGroup \in SUBSET Chats
  /\ reports = {} /\ messages = {} /\ delivered = {}
  /\ blocks = [b \in Blocks |-> [pc |-> "new", chat |-> None, by |-> None, admin |-> None,
                                 target |-> None, late |-> FALSE]]
  /\ sends = [m \in Sends |-> [pc |-> "new", chat |-> None, user |-> None,
                               spared |-> {}, stale |-> {}]]

-----------------------------------------------------------------------------

\* The documents an upsert's filter matches: conversation and blocker, neither
\* the action nor the member blocked.
Matching(c, by, admin) == {r \in reports : r.chat = c /\ r.by = by /\ r.admin = admin}

Due(c, by, admin) ==
  \E b \in Blocks : blocks[b].pc = "block" /\ blocks[b].chat = c
                      /\ blocks[b].by = by /\ blocks[b].admin = admin

AskBlock(b, c, by, admin, target, pc) ==
  /\ blocks[b].pc = "new"
  /\ blocks' = [blocks EXCEPT ![b] = [pc |-> pc, chat |-> c, by |-> by, admin |-> admin,
                                      target |-> target, late |-> Due(c, by, admin)]]
  /\ UNCHANGED <<isGroup, reports, messages, sends, delivered>>

\* blockDm: refused if the user blocks the conversation; of a direct chat
\* without messages it has no last message to note, and fails.
BlockDm(b, c, u) ==
  AskBlock(b, c, u, None, None,
           IF \E r \in Matching(c, u, None) : r.action = "block" THEN "refused"
           ELSE IF c \notin isGroup /\ \A m \in messages : sends[m].chat # c THEN "failed"
           ELSE "block")

\* blockGroupUser: refused if the admin blocks this member; a group only.
BlockGroupUser(b, c, a, v) ==
  AskBlock(b, c, None, a, v,
           IF c \notin isGroup \/ \E r \in Matching(c, None, a) : r.action = "block" /\ r.target = v
             THEN "refused" ELSE "block")

\* unBlockDm: any document the request names, or a block of one's own.
UnBlockDm(b, c, u) ==
  AskBlock(b, c, u, None, None,
           IF reports = {} THEN "refused" ELSE "unblock")

Blocked(b) == [chat |-> blocks[b].chat, by |-> blocks[b].by, admin |-> blocks[b].admin,
               target |-> blocks[b].target, action |-> "block", resolved |-> FALSE]

\* Who a report keeps messages from: reportedBy if there is one.
HeldBack(r) == IF r.by # None THEN r.by ELSE r.target

Outdated(r) ==
  [m \in Sends |-> IF sends[m].pc \in {"create", "deliver"} /\ sends[m].chat = r.chat
                     THEN [sends[m] EXCEPT !.stale = @ \union ({HeldBack(r)} \ {None})]
                     ELSE sends[m]]

\* Slip: the collection has no unique index.
UpsertUnindexed(b) ==
  /\ blocks[b].pc = "block"
  /\ LET old == Matching(blocks[b].chat, blocks[b].by, blocks[b].admin)
     IN \E docs \in IF old = {} THEN {reports \union {Blocked(b)}}
                    ELSE {(reports \ {r}) \union {Blocked(b)} : r \in old} :
          reports' = docs /\ sends' = Outdated(Blocked(b))
  /\ blocks' = [blocks EXCEPT ![b].pc = "done"]
  /\ UNCHANGED <<isGroup, messages, delivered>>

\* findOneAndUpdate, upsert: one matching document becomes the block, else a
\* new one; the index may refuse both.
UpsertBlock(b) ==
  /\ blocks[b].pc = "block"
  /\ LET old == Matching(blocks[b].chat, blocks[b].by, blocks[b].admin)
     IN \E docs \in IF old = {} THEN {reports \union {Blocked(b)}}
                    ELSE {(reports \ {r}) \union {Blocked(b)} : r \in old} :
          IF IndexOK(docs) /\ Cardinality(docs) = Cardinality(reports) + (IF old = {} THEN 1 ELSE 0)
            THEN /\ reports' = docs
                 /\ sends' = Outdated(Blocked(b))
                 /\ blocks' = [blocks EXCEPT ![b].pc = "done"]
            ELSE /\ blocks' = [blocks EXCEPT ![b].pc = "failed"]
                 /\ UNCHANGED <<reports, sends>>
  /\ UNCHANGED <<isGroup, messages, delivered>>

\* unBlockDm writes to one document of the user, in a group also to one that
\* blocks a member; none: it fails.
Unblock(b) ==
  /\ blocks[b].pc = "unblock"
  /\ LET c == blocks[b].chat
         u == blocks[b].by
         mine == Matching(c, u, None) \union (IF c \in isGroup THEN Matching(c, None, u) ELSE {})
     IN IF mine = {}
          THEN blocks' = [blocks EXCEPT ![b].pc = "kept"] /\ UNCHANGED reports
          ELSE \E r \in mine :
                 LET doc == [r EXCEPT !.action = "unblock", !.resolved = TRUE]
                     docs == (reports \ {r}) \union {doc}
                 IN IF IndexOK(docs) /\ Cardinality(docs) = Cardinality(reports)
                      THEN reports' = docs /\ blocks' = [blocks EXCEPT ![b].pc = "done"]
                      ELSE blocks' = [blocks EXCEPT ![b].pc = "kept"] /\ UNCHANGED reports
  /\ UNCHANGED <<isGroup, messages, sends, delivered>>

-----------------------------------------------------------------------------

\* getBlockedUsersForConversation
BlockList(c) == {r \in reports : r.chat = c /\ ~r.resolved}

\* withRestrictedZone: a blocked direct chat takes no message, a blocked
\* member or one who blocked the group sends none.
MaySend(c, u) ==
  IF c \in isGroup THEN \A r \in BlockList(c) : u \notin {r.by, r.target}
  ELSE BlockList(c) = {}

StartSend(m, c, u) ==
  /\ sends[m].pc = "new"
  /\ sends' = [sends EXCEPT ![m] =
       IF MaySend(c, u)
         THEN [pc |-> "create", chat |-> c, user |-> u, stale |-> {},
               spared |-> {HeldBack(r) : r \in BlockList(c)} \ {None}]
         ELSE [@ EXCEPT !.pc = "refused"]]
  /\ UNCHANGED <<isGroup, reports, blocks, messages, delivered>>

\* A participant of a direct chat who disabled all of them is asked for first.
CreateMessage(m) ==
  /\ sends[m].pc = "create"
  /\ \/ /\ messages' = messages \union {m}
        /\ sends' = [sends EXCEPT ![m].pc = "deliver"]
     \/ /\ sends[m].chat \notin isGroup
        /\ sends' = [sends EXCEPT ![m].pc = "refused"]
        /\ UNCHANGED messages
  /\ UNCHANGED <<isGroup, reports, blocks, delivered>>

\* Slip: the sender's own blocks are the ones that count.
DeliverToOthers(m) ==
  /\ sends[m].pc = "deliver"
  /\ delivered' = delivered \union ({m} \X (Users \ {sends[m].user}))
  /\ sends' = [sends EXCEPT ![m].pc = "done"]
  /\ UNCHANGED <<isGroup, reports, blocks, messages>>

\* To the sockets of the other participants, by the block list read at first.
Deliver(m) ==
  /\ sends[m].pc = "deliver"
  /\ delivered' = delivered \union ({m} \X (Users \ ({sends[m].user} \union sends[m].spared)))
  /\ sends' = [sends EXCEPT ![m].pc = "done"]
  /\ UNCHANGED <<isGroup, reports, blocks, messages>>

\* deleteMessage, its sender's, in the same restricted zone.
DeleteMessage(m) ==
  /\ m \in messages /\ sends[m].pc = "done" /\ MaySend(sends[m].chat, sends[m].user)
  /\ messages' = messages \ {m}
  /\ UNCHANGED <<isGroup, reports, blocks, sends, delivered>>

BlockNext ==
  \/ \E b \in Blocks :
       \/ UpsertBlock(b)
       \/ Unblock(b)
       \/ \E c \in Chats, u \in Users : BlockDm(b, c, u) \/ UnBlockDm(b, c, u)
       \/ \E c \in Chats, a, v \in Users : BlockGroupUser(b, c, a, v)
  \/ \E m \in Sends :
       \/ \E c \in Chats, u \in Users : StartSend(m, c, u)
       \/ CreateMessage(m)
       \/ Deliver(m)
       \/ DeleteMessage(m)

BlockSpec == BlockInit /\ [][BlockNext]_blockVars

-----------------------------------------------------------------------------

(***************************************************************************)
(* No message reaches a user whom an open report of the conversation holds *)
(* back, unless the report came while the message was on its way           *)
(* (withRestrictedZone reads the list, sendMessage uses it calls later).   *)
(***************************************************************************)
DeliveriesSpareBlocked ==
  [][\A m \in Sends, u \in Users :
       <<m, u>> \in delivered' \ delivered
         => \/ u \in sends[m].stale
            \/ \A r \in BlockList(sends[m].chat) : HeldBack(r) # u]_blockVars

(***************************************************************************)
(* "Create a new document if one doesn't exist" (dm.service.ts:570): a     *)
(* user who never blocked a group and asks to finds a report of it after.  *)
(***************************************************************************)
BlockIsCreated ==
  \A b \in Blocks :
    blocks[b].pc = "failed" /\ blocks[b].by # None /\ blocks[b].chat \in isGroup
      => \E r \in reports : r.chat = blocks[b].chat /\ r.by = blocks[b].by
=============================================================================
