------------------------------ MODULE ChatHistory ------------------------------
(***************************************************************************)
(* What a user is shown of a conversation: its messages with their dates,  *)
(* when he deleted them for himself and when he was blocked (dm.service.ts *)
(* and dm.socket.service.ts, with the aggregation of dm/pipline.ts).       *)
(*                                                                         *)
(* A date is read from the application's clock before the call that        *)
(* writes it reaches the database: it lies between the step that started   *)
(* the call and the step that applies it.                                  *)
(***************************************************************************)
EXTENDS BackendIds, Ordered, SequencesExt

CONSTANTS
  Drafts,     \* bound: sendMessage calls
  Clears,     \* bound: deleteAllMessagesOneSide calls
  MaxClock,   \* bound of the clock
  PageSize    \* the messages a conversation is listed with: 20

ASSUME DraftsAssumption == IsFiniteSet(Drafts) /\ IsFiniteSet(Clears)
ASSUME ClockAssumption == MaxClock \in Nat
ASSUME PageSizeAssumption == PageSize \in Nat \ {0}

VARIABLES
  clock,      \* the application's clock
  drafts,     \* sendMessage calls
  written,    \* the conversation's messages, in the order of their insertion
  clears,     \* deleteAllMessagesOneSide calls
  deletedFor, \* deletedForUsers: entries in the order of their insertion
  blockedAt   \* updatedAt of the report that blocks a user, None without one

historyVars == <<clock, drafts, written, clears, deletedFor, blockedAt>>

Dates == 0 .. MaxClock

Draft == [pc : {"new", "create", "done"}, by : Users \union {None}, from : Dates]

\* from: the earliest date of the write that comes next.  begun: when the call
\* began.  late: another call of the user was under way then.
Clear == [pc : {"new", "date", "push", "done"}, user : Users \union {None}, from : Dates,
          begun : Dates, late : BOOLEAN]

Written == [by : Users, at : Dates]
Entry == [user : Users, at : Dates]

HistoryTypeOK ==
  /\ clock \in Dates
  /\ drafts \in [Drafts -> Draft]
  /\ written \in Seq(Written)
  /\ clears \in [Clears -> Clear]
  /\ deletedFor \in Seq(Entry)
  /\ blockedAt \in [Users -> Dates \union {None}]

HistoryInit ==
  /\ clock = 0
  /\ drafts = [s \in Drafts |-> [pc |-> "new", by |-> None, from |-> 0]]
  /\ written = <<>>
  /\ clears = [c \in Clears |-> [pc |-> "new", user |-> None, from |-> 0, begun |-> 0, late |-> FALSE]]
  /\ deletedFor = <<>>
  /\ blockedAt = [u \in Users |-> None]

-----------------------------------------------------------------------------

Tick ==
  /\ clock < MaxClock
  /\ clock' = clock + 1
  /\ UNCHANGED <<drafts, written, clears, deletedFor, blockedAt>>

StartMessage(s, u) ==
  /\ drafts[s].pc = "new"
  /\ drafts' = [drafts EXCEPT ![s] = [pc |-> "create", by |-> u, from |-> clock]]
  /\ UNCHANGED <<clock, written, clears, deletedFor, blockedAt>>

WriteMessage(s) ==
  /\ drafts[s].pc = "create"
  /\ \E d \in drafts[s].from .. clock : written' = Append(written, [by |-> drafts[s].by, at |-> d])
  /\ drafts' = [drafts EXCEPT ![s].pc = "done"]
  /\ UNCHANGED <<clock, clears, deletedFor, blockedAt>>

\* deleteMessage: by its sender.  A second deletion finds nothing.
RemoveMessage(i, u) ==
  /\ written[i].by = u
  /\ written' = RemoveAt(written, i)
  /\ UNCHANGED <<clock, drafts, clears, deletedFor, blockedAt>>

Running(u) == {c \in Clears : clears[c].user = u /\ clears[c].pc \in {"date", "push"}}

AskClear(c, u) ==
  /\ clears[c].pc = "new"
  /\ clears' = [clears EXCEPT ![c] = [pc |-> "date", user |-> u, from |-> clock, begun |-> clock,
                                      late |-> Running(u) # {}]]
  /\ UNCHANGED <<clock, drafts, written, deletedFor, blockedAt>>

EntriesOf(u) == {i \in DOMAIN deletedFor : deletedFor[i].user = u}

\* The filter's $ is the first entry that matches.
FirstOf(u) == CHOOSE i \in EntriesOf(u) : \A j \in EntriesOf(u) : i <= j

\* Slip: an entry that is there keeps its date.
DateNothing(c) ==
  /\ clears[c].pc = "date"
  /\ clears' = [clears EXCEPT ![c].pc = "push", ![c].from = clock]
  /\ UNCHANGED <<clock, drafts, written, deletedFor, blockedAt>>

DateEntry(c) ==
  LET u == clears[c].user IN
  /\ clears[c].pc = "date"
  /\ IF EntriesOf(u) = {}
       THEN UNCHANGED deletedFor
       ELSE \E d \in clears[c].from .. clock : deletedFor' = [deletedFor EXCEPT ![FirstOf(u)].at = d]
  /\ clears' = [clears EXCEPT ![c].pc = "push", ![c].from = clock]
  /\ UNCHANGED <<clock, drafts, written, blockedAt>>

PushEntry(c) ==
  LET u == clears[c].user IN
  /\ clears[c].pc = "push"
  /\ IF EntriesOf(u) # {}
       THEN UNCHANGED deletedFor
       ELSE \E d \in clears[c].from .. clock :
              deletedFor' = Append(deletedFor, [user |-> u, at |-> d])
  /\ clears' = [clears EXCEPT ![c].pc = "done"]
  /\ UNCHANGED <<clock, drafts, written, blockedAt>>

\* blockGroupUser dates the report of a member, and refuses one who is
\* blocked; unBlockDm takes it out of the list's question.
ReportUser(u) ==
  /\ blockedAt[u] = None
  /\ blockedAt' = [blockedAt EXCEPT ![u] = clock]
  /\ UNCHANGED <<clock, drafts, written, clears, deletedFor>>

ResolveReport(u) ==
  /\ blockedAt' = [blockedAt EXCEPT ![u] = None]
  /\ UNCHANGED <<clock, drafts, written, clears, deletedFor>>

HistoryNext ==
  \/ Tick
  \/ \E s \in Drafts : WriteMessage(s) \/ \E u \in Users : StartMessage(s, u)
  \/ \E i \in DOMAIN written, u \in Users : RemoveMessage(i, u)
  \/ \E c \in Clears : DateEntry(c) \/ PushEntry(c) \/ \E u \in Users : AskClear(c, u)
  \/ \E u \in Users : ReportUser(u) \/ ResolveReport(u)

HistorySpec == HistoryInit /\ [][HistoryNext]_historyVars

-----------------------------------------------------------------------------

(***************************************************************************)
(* The list of conversations (conversationPipeline): a blocked user's      *)
(* messages end with his report, those he deleted are left out.            *)
(***************************************************************************)
BeforeReport(u, m) == blockedAt[u] = None \/ m.at <= blockedAt[u]

AfterDeletion(u, m) == EntriesOf(u) # {} => m.at >= deletedFor[FirstOf(u)].at

Looked(u) == {i \in DOMAIN written : BeforeReport(u, written[i]) /\ AfterDeletion(u, written[i])}

\* $sort, newest first.
Newer(i, j) == written[i].at > written[j].at \/ (written[i].at = written[j].at /\ i > j)

\* $slice with a negative count: the end of the list.
Listed(u) ==
  LET its == Looked(u)
      sorted == InOrder(its, {e \in its \X its : Newer(e[1], e[2])})
      first == IF Len(sorted) > PageSize THEN Len(sorted) - PageSize + 1 ELSE 1
  IN SubSeq(sorted, first, Len(sorted))

-----------------------------------------------------------------------------

(***************************************************************************)
(* However its calls overlap, deleteAllMessagesOneSide leaves a user one   *)
(* entry; and unless two calls of his overlapped, when the older date may  *)
(* be the one that stays, what he deleted before it was called is in no    *)
(* later list of his.                                                      *)
(***************************************************************************)
ClearedStaysCleared ==
  \A u \in Users :
    LET its == {c \in Clears : clears[c].user = u}
        done == {c \in its : clears[c].pc = "done"}
    IN /\ Cardinality(EntriesOf(u)) <= 1 /\ (done # {} => EntriesOf(u) # {})
       /\ (\A c \in its : ~clears[c].late) =>
            \A c \in done, i \in ToSet(Listed(u)) : written[i].at >= clears[c].begun
=============================================================================
