-------------------------------- MODULE MCPeople --------------------------------
(***************************************************************************)
(* One TLC instance of the components around accounts: notifications,      *)
(* profiles and follows, conversations, blocks, what a conversation shows, *)
(* the sessions of the sockets and payments in messages.  As in MCContent, *)
(* they share no variable that more than one of them writes, and run as    *)
(* alternatives.                                                           *)
(***************************************************************************)
EXTENDS Notifications, Accounts, GroupChats, ChatBlocks, ChatHistory, DmSessions, DmPayments,
        TLC

VARIABLE topic   \* the component that runs

Topics == {"notices", "names", "follows", "opens", "moves", "blocks", "history", "sessions", "payments"}

allVars == <<topic, noticeVars, accountVars, chatVars, blockVars, historyVars, sessionVars, payVars>>

\* The candidates that updateProfile makes from a display name.
Candidates == <<"bob", "bob_1">>

\* What varies at the start of a component varies only when it runs.
OnlyIn(t, usual) == topic = t \/ usual

First(S) == CHOOSE x \in S : TRUE

\* The calls that change the group may be exchanged.
Symmetry == Permutations(Moves)

\* A bound: the reports of the others tell nothing more.
OneBlocked == \A u \in Users \ {First(Users)} : blockedAt'[u] = None

MCInit ==
  /\ topic \in Topics
  /\ NoticeInit /\ AccountInit /\ ChatInit /\ BlockInit /\ HistoryInit /\ SessionInit /\ PayInit
  /\ accounts = {}   \* the others log in
  /\ OnlyIn("moves", subscribed = {} /\ admins = {First(Users)} /\ \A u \in Users : members[u] = 0)
  /\ OnlyIn("blocks", isGroup = {})
  /\ OnlyIn("payments", /\ \A d \in Deals : deals[d].type = "tip"
                         /\ \A r \in Replies : replies[r].deal = First(Deals))

\* A bound: a request for a profile names one thing.
OneThing ==
  \A c \in Asks : ask'[c].pc = "write" => ask'[c].name = None \/ ask'[c].display = "keep"

MCNext ==
  /\ UNCHANGED topic
  /\ \/ /\ topic = "notices" /\ NoticeNext
        /\ UNCHANGED <<accountVars, chatVars, blockVars, historyVars, sessionVars, payVars>>
     \/ /\ topic = "names" /\ (ProfileNext \/ \E c \in Asks : AskFails(c)) /\ OneThing
        /\ UNCHANGED <<noticeVars, chatVars, blockVars, historyVars, sessionVars, payVars>>
     \/ /\ topic = "follows" /\ (FollowNext \/ \E c \in Asks : AskFails(c))
        /\ UNCHANGED <<noticeVars, chatVars, blockVars, historyVars, sessionVars, payVars>>
     \/ /\ topic = "opens" /\ OpenNext
        /\ UNCHANGED <<noticeVars, accountVars, blockVars, historyVars, sessionVars, payVars>>
     \/ /\ topic = "moves" /\ MoveNext
        /\ UNCHANGED <<noticeVars, accountVars, blockVars, historyVars, sessionVars, payVars>>
     \/ /\ topic = "blocks" /\ BlockNext
        /\ UNCHANGED <<noticeVars, accountVars, chatVars, historyVars, sessionVars, payVars>>
     \/ /\ topic = "history" /\ HistoryNext /\ OneBlocked
        /\ UNCHANGED <<noticeVars, accountVars, chatVars, blockVars, sessionVars, payVars>>
     \/ /\ topic = "sessions" /\ SessionNext
        /\ UNCHANGED <<noticeVars, accountVars, chatVars, blockVars, historyVars, payVars>>
     \/ /\ topic = "payments" /\ PayNext
        /\ UNCHANGED <<noticeVars, accountVars, chatVars, blockVars, historyVars, sessionVars>>

MCSpec == MCInit /\ [][MCNext]_allVars

(***************************************************************************)
(* Every variable of the components keeps its type, and what an id refers  *)
(* to exists.                                                              *)
(***************************************************************************)
PeopleTypesOK ==
  /\ NoticeTypeOK
  /\ AccountTypeOK
  /\ ChatTypeOK
  /\ BlockTypeOK
  /\ HistoryTypeOK
  /\ SessionTypeOK
  /\ PayTypeOK
=============================================================================
