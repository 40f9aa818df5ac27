------------------------------- MODULE GroupChats -------------------------------
(***************************************************************************)
(* Conversations: the direct chats that two users open and one group with  *)
(* its members (dm.service.ts, createAndStart of dm.socket.service.ts).    *)
(*                                                                         *)
(* Every handler reads the conversation and writes in a later call.  A     *)
(* save of the whole list of participants checks mongoose's version, a     *)
(* $push and a $pull neither check nor raise it.                           *)
(***************************************************************************)
EXTENDS BackendIds

CONSTANTS
  Opens,      \* bound: createAndStart calls
  Moves,      \* bound: joinGroup, exitGroupUser and updateGroupChat calls
  Repeats     \* bound: how often one request lists a user

ASSUME ChatsAssumption == IsFiniteSet(Opens) /\ IsFiniteSet(Moves)
ASSUME RepeatsAssumption == Repeats \in Nat

VARIABLES
  opens,      \* createAndStart calls and the conversations they create
  subscribed, \* who holds an active subscription to the group's plans
  members,    \* entries with role member in the group's participants, by user
  admins,     \* users with an entry of role admin
  version,    \* the group document's __v
  listed,     \* how many of a user's entries the list stored last has given
  moves       \* the calls that change the group

chatVars == <<opens, subscribed, members, admins, version, listed, moves>>

Pairs == {pair \in SUBSET Users : Cardinality(pair) = 2}

\* The users of a request, by how often they are listed: nothing removes the
\* repeated ones.
Lists == [Users -> 0 .. Repeats]
Nobody == [u \in Users |-> 0]

\* late: a call that read while another that changes the same was under way.
Open == [pc : {"new", "asked", "open", "found"}, pair : Pairs \union {{}}, late : BOOLEAN]
Move == [pc : {"new", "push", "pull", "save", "done", "refused"}, user : Users \union {None},
         list : Lists, by : Users \union {None}, seen : Nat, late : BOOLEAN]

ChatTypeOK ==
  /\ opens \in [Opens -> Open]
  /\ subscribed \in SUBSET Users
  /\ members \in [Users -> Nat] /\ admins \in SUBSET Users
  /\ version \in Nat /\ listed \in [Users -> Nat]
  /\ moves \in [Moves -> Move]

IsMember(u) == members[u] > 0 \/ u \in admins

\* users.length < 2 refuses a list.
AtLeastTwo(list) ==
  \E u \in Users : list[u] > 1 \/ \E v \in Users \ {u} : list[u] > 0 /\ list[v] > 0

\* The entries of role member that a list of by gives: one each time a user is
\* listed, but none to by, who gets the admin's.
EntriesBy(by, list) == [u \in Users |-> IF u = by THEN 0 ELSE list[u]]

\* createGroupChat: the creator is the admin, the listed users the members.
ChatInit ==
  /\ opens = [o \in Opens |-> [pc |-> "new", pair |-> {}, late |-> FALSE]]
  /\ subscribed \in SUBSET Users
  /\ \E a \in Users, list \in Lists :
       /\ AtLeastTwo(list)
       /\ admins = {a} /\ members = EntriesBy(a, list) /\ listed = members
  /\ version = 0
  /\ moves = [m \in Moves |-> [pc |-> "new", user |-> None, list |-> Nobody, by |-> None,
                               seen |-> 0, late |-> FALSE]]

-----------------------------------------------------------------------------

\* createAndStart: the look-up, whichever of the two opened before; a setting
\* against new chats is looked up without waiting for the answer.
AskChat(o, pair) ==
  /\ opens[o].pc = "new"
  /\ opens' = [opens EXCEPT ![o] =
       IF \E q \in Opens : opens[q].pc = "open" /\ opens[q].pair = pair
         THEN [@ EXCEPT !.pc = "found"]
         ELSE [pc |-> "asked", pair |-> pair,
               late |-> \E q \in Opens : opens[q].pc = "asked" /\ opens[q].pair = pair]]
  /\ UNCHANGED <<subscribed, members, admins, version, listed, moves>>

SaveChat(o) ==
  /\ opens[o].pc = "asked"
  /\ opens' = [opens EXCEPT ![o].pc = "open"]
  /\ UNCHANGED <<subscribed, members, admins, version, listed, moves>>

-----------------------------------------------------------------------------

\* To whom a call is about to give an entry.
Given(q) ==
  IF q.pc = "push" THEN {q.user}
  ELSE IF q.pc = "save" THEN {q.by} \union {u \in Users : q.list[u] > 0}
  ELSE {}

\* Another call is about to give one of them an entry.
Coming(S) == \E m \in Moves : Given(moves[m]) \intersect S # {}

\* A call that reads the group: pc is what it goes on with, if it may.
Start(m, may, pc, u, by, list) ==
  LET read == [pc |-> pc, user |-> u, list |-> list, by |-> by, seen |-> version, late |-> FALSE] IN
  /\ moves[m].pc = "new"
  /\ moves' = [moves EXCEPT ![m] =
       IF may THEN [read EXCEPT !.late = Coming(Given(read))] ELSE [@ EXCEPT !.pc = "refused"]]
  /\ UNCHANGED <<opens, subscribed, members, admins, version, listed>>

\* joinGroup: an admin adds u, or u's subscription does; then that u is no
\* member yet.
MayJoin(u, by) == by \in admins \/ u \in subscribed

\* Slip: an admin's addition is not looked up among the members.
JoinGroupAgain(m, u, by) ==
  Start(m, MayJoin(u, by) /\ u \notin admins, "push", u, None, Nobody)

JoinGroup(m, u, by) ==
  Start(m, MayJoin(u, by) /\ ~IsMember(u), "push", u, None, Nobody)

PushMember(m) ==
  /\ moves[m].pc = "push"
  /\ members' = [members EXCEPT ![moves[m].user] = @ + 1]
  /\ moves' = [moves EXCEPT ![m].pc = "done"]
  /\ UNCHANGED <<opens, subscribed, admins, version, listed>>

\* exitGroupUser: by an admin or by oneself, and only a member.
ExitGroup(m, u, by) ==
  Start(m, (by \in admins \/ by = u) /\ IsMember(u), "pull", u, None, Nobody)

\* $pull removes every entry of the user, an admin's as well.
PullUser(m) ==
  /\ moves[m].pc = "pull"
  /\ members' = [members EXCEPT ![moves[m].user] = 0]
  /\ admins' = admins \ {moves[m].user}
  /\ listed' = [listed EXCEPT ![moves[m].user] = 0]
  /\ moves' = [moves EXCEPT ![m].pc = "done"]
  /\ UNCHANGED <<opens, subscribed, version>>

\* updateGroupChat: whoever asks becomes the one admin of the list he sends.
UpdateGroup(m, by, list) == Start(m, AtLeastTwo(list), "save", None, by, list)

SaveGroup(m) ==
  /\ moves[m].pc = "save"
  /\ IF moves[m].seen = version
       THEN /\ members' = EntriesBy(moves[m].by, moves[m].list) /\ listed' = members'
            /\ admins' = {moves[m].by}
            /\ version' = version + 1
            /\ moves' = [moves EXCEPT ![m].pc = "done"]
       ELSE /\ moves' = [moves EXCEPT ![m].pc = "refused"]
            /\ UNCHANGED <<members, admins, version, listed>>
  /\ UNCHANGED <<opens, subscribed>>

-----------------------------------------------------------------------------

OpenNext ==
  \E o \in Opens :
    \/ SaveChat(o)
    \/ \E pair \in Pairs : AskChat(o, pair)

MoveNext ==
  \E m \in Moves :
    \/ PushMember(m)
    \/ PullUser(m)
    \/ SaveGroup(m)
    \/ \E u, by \in Users : JoinGroup(m, u, by) \/ ExitGroup(m, u, by)
    \/ \E by \in Users, list \in Lists : UpdateGroup(m, by, list)

ChatNext == OpenNext \/ MoveNext

ChatSpec == ChatInit /\ [][ChatNext]_chatVars

-----------------------------------------------------------------------------

(***************************************************************************)
(* Two users have two direct chats only when two of them were opened at    *)
(* the same time (createAndStart looks for one and then saves one).        *)
(***************************************************************************)
SecondChatNeedsOverlap ==
  \A o, q \in Opens :
    o # q /\ opens[o].pc = "open" /\ opens[q].pc = "open" /\ opens[o].pair = opens[q].pair
      => opens[o].late \/ opens[q].late

(***************************************************************************)
(* A user has more entries among the participants than one request has     *)
(* listed him, or one besides the admin's, only when two calls that add    *)
(* him overlapped: joinGroup looks at the list it read and pushes,         *)
(* updateGroupChat replaces the list.  What one request repeats is stored  *)
(* as often, by createGroupChat and updateGroupChat.                       *)
(***************************************************************************)
SecondEntryNeedsOverlap ==
  \A u \in Users :
    (members[u] > 1 /\ members[u] # listed[u]) \/ (members[u] > 0 /\ u \in admins)
      => \E m \in Moves : moves[m].late

(***************************************************************************)
(* Both: one direct chat of two users, one entry of a participant beyond   *)
(* what a request repeats.                                                 *)
(***************************************************************************)
ChatsStaySingle == SecondChatNeedsOverlap /\ SecondEntryNeedsOverlap
=============================================================================
