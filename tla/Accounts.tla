------------------------------- MODULE Accounts -------------------------------
(***************************************************************************)
(* Accounts, their usernames and whom they follow (auth.service.ts,        *)
(* user.service.ts, activity.service.ts).                                  *)
(*                                                                         *)
(* Only the address of an account is unique in the database: a username is *)
(* looked up and written in two calls, with uploads to the CDN between     *)
(* them.  A follow is an upsert into a collection without a unique index,  *)
(* and the activity that tells of it is written by a call nobody awaits.   *)
(***************************************************************************)
EXTENDS BackendIds, FiniteSetsExt

CONSTANTS
  Names,       \* the usernames asked for
  Suggested,   \* the candidates made from a display name, in their order
  Asks         \* bound: the requests ever made; also the ids of what they create

ASSUME NamesAssumption == None \notin Names /\ Suggested \in Seq(Names)
ASSUME AsksAssumption == IsFiniteSet(Asks)

VARIABLES
  accounts,   \* the addresses that have an account document
  username,   \* Account.username
  displayed,  \* the accounts with a displayName
  follows,    \* the documents of followers
  told,       \* the activities of type 'follow'
  ask         \* the requests

profileVars == <<accounts, username, displayed>>
followVars == <<follows, told>>
accountVars == <<profileVars, followVars, ask>>

Pairing == [id : Asks, by : Users, of : Users]

\* rival: when this one decided, another request stood between its look-up and
\* its write of the same thing, or had been there already.
Ask ==
  [pc : {"new", "write", "suggest", "assign", "match", "insert", "tell", "delete", "untell",
         "done", "refused", "failed"},
   user : Users \union {None}, name : Names \union {None}, display : {"keep", "set", "clear"},
   next : Nat, of : Users \union {None}, rival : BOOLEAN]

NewAsk == [pc |-> "new", user |-> None, name |-> None, display |-> "keep", next |-> 1,
           of |-> None, rival |-> FALSE]

AccountTypeOK ==
  /\ accounts \in SUBSET Users /\ displayed \in SUBSET accounts
  /\ username \in [Users -> Names \union {None}]
  /\ \A u \in Users : username[u] # None => u \in accounts
  /\ follows \in SUBSET Pairing /\ told \in SUBSET Pairing
  /\ ask \in [Asks -> Ask]
  /\ \A c \in Asks : ask[c].pc \in {"suggest", "assign"} => ask[c].user \in accounts

AccountInit ==
  /\ accounts \in SUBSET Users
  /\ username = [u \in Users |-> None]
  /\ displayed = {} /\ follows = {} /\ told = {}
  /\ ask = [c \in Asks |-> NewAsk]

-----------------------------------------------------------------------------

AskAt(c, pc) == ask[c].pc = pc

AskGoto(c, pc) == ask' = [ask EXCEPT ![c].pc = pc]

\* signWithWallet, login and mobileAuth: an upsert by the unique address.
Login(u) ==
  /\ accounts' = accounts \union {u}
  /\ UNCHANGED <<username, displayed, followVars, ask>>

\* Slip: the look-up asks for the own address.
TakenByMe(n, u) == username[u] = n

\* isValidUsername: no other account has it.
Taken(n, u) == \E v \in Users \ {u} : username[v] = n

Contested(c, u, n) ==
  \E d \in Asks \ {c} : ask[d].pc \in {"write", "assign"} /\ ask[d].name = n /\ ask[d].user # u

\* updateProfile up to its write: a name that is taken ends it, and so does a
\* request with nothing to set.
RequestProfile(c, u, n, d) ==
  LET taken == n # None /\ Taken(n, u) IN
  /\ AskAt(c, "new")
  /\ ask' = [ask EXCEPT ![c] = [NewAsk EXCEPT !.user = u, !.name = n, !.display = d,
               !.pc = IF taken THEN "refused" ELSE IF n = None /\ d = "keep" THEN "done" ELSE "write",
               !.rival = n # None /\ Contested(c, u, n)]]
  /\ UNCHANGED <<profileVars, followVars>>

\* The upsert; an account with a display name and no username is given one.
WriteProfile(c) ==
  LET me == ask[c]
      name == IF me.name = None THEN username[me.user] ELSE me.name
      shown == CASE me.display = "set" -> displayed \union {me.user}
                 [] me.display = "clear" -> displayed \ {me.user}
                 [] OTHER -> displayed
  IN /\ AskAt(c, "write")
     /\ accounts' = accounts \union {me.user}
     /\ username' = [username EXCEPT ![me.user] = name]
     /\ displayed' = shown
     /\ AskGoto(c, IF me.user \in shown /\ name = None THEN "suggest" ELSE "done")
     /\ UNCHANGED followVars

\* One look of the loop over the candidates.
TrySuggestion(c) ==
  LET me == ask[c] IN
  /\ AskAt(c, "suggest")
  /\ IF me.next > Len(Suggested) THEN AskGoto(c, "done")
     ELSE LET n == Suggested[me.next] IN
          ask' = [ask EXCEPT ![c] = IF Taken(n, me.user) THEN [me EXCEPT !.next = @ + 1]
                   ELSE [me EXCEPT !.pc = "assign", !.name = n, !.rival = Contested(c, me.user, n)]]
  /\ UNCHANGED <<profileVars, followVars>>

AssignSuggestion(c) ==
  LET me == ask[c] IN
  /\ AskAt(c, "assign")
  /\ username' = [username EXCEPT ![me.user] = me.name]
  /\ AskGoto(c, "done")
  /\ UNCHANGED <<accounts, displayed, followVars>>

-----------------------------------------------------------------------------

Of(S, u, v) == {f \in S : f.by = u /\ f.of = v}

OnPair(c, u, v) == ask[c].user = u /\ ask[c].of = v

FollowPcs == {"match", "insert", "tell", "delete", "untell"}

BeginPair(c, pc, u, v) ==
  /\ AskAt(c, "new") /\ u # v
  /\ ask' = [ask EXCEPT ![c] = [NewAsk EXCEPT !.pc = pc, !.user = u, !.of = v,
               !.rival = \E d \in Asks : ask[d].pc \in FollowPcs /\ OnPair(d, u, v)]]
  /\ UNCHANGED <<profileVars, followVars>>

\* requestFollow: who follows already is not told so, and tells of it again.
FollowMatch(c) ==
  LET there == Of(follows, ask[c].user, ask[c].of) # {} IN
  /\ AskAt(c, "match")
  /\ ask' = [ask EXCEPT ![c].pc = IF there THEN "tell" ELSE "insert", ![c].rival = @ \/ there]
  /\ UNCHANGED <<profileVars, followVars>>

FollowInsert(c) ==
  /\ AskAt(c, "insert")
  /\ follows' = follows \union {[id |-> c, by |-> ask[c].user, of |-> ask[c].of]}
  /\ AskGoto(c, "tell")
  /\ UNCHANGED <<profileVars, told>>

\* onFollowAndUnFollow: nothing is told of an address without an account.
Known(c) == {ask[c].user, ask[c].of} \subseteq accounts

TellFollow(c) ==
  /\ AskAt(c, "tell")
  /\ told' = IF Known(c) THEN told \union {[id |-> c, by |-> ask[c].user, of |-> ask[c].of]}
             ELSE told
  /\ AskGoto(c, "done")
  /\ UNCHANGED <<profileVars, follows>>

Unfollow(c) ==
  LET its == Of(follows, ask[c].user, ask[c].of) IN
  /\ AskAt(c, "delete")
  /\ \/ its = {} /\ AskGoto(c, "refused") /\ UNCHANGED follows
     \/ \E f \in its : follows' = follows \ {f} /\ AskGoto(c, "untell")
  /\ UNCHANGED <<profileVars, told>>

\* One activity of the pair goes, whichever.
UntellFollow(c) ==
  LET its == Of(told, ask[c].user, ask[c].of) IN
  /\ AskAt(c, "untell")
  /\ \/ (its = {} \/ ~Known(c)) /\ UNCHANGED told
     \/ Known(c) /\ \E f \in its : told' = told \ {f}
  /\ AskGoto(c, "done")
  /\ UNCHANGED <<profileVars, follows>>

AskFails(c) ==
  /\ ask[c].pc \notin {"new", "done", "refused", "failed"}
  /\ AskGoto(c, "failed")
  /\ UNCHANGED <<profileVars, followVars>>

ProfileNext ==
  \/ \E u \in Users : Login(u)
  \/ \E c \in Asks :
       \/ \E u \in Users, n \in Names \union {None}, d \in {"keep", "set", "clear"} :
            RequestProfile(c, u, n, d)
       \/ WriteProfile(c)
       \/ TrySuggestion(c)
       \/ AssignSuggestion(c)

FollowNext ==
  \E c \in Asks :
    \/ \E u, v \in Users : BeginPair(c, "match", u, v) \/ BeginPair(c, "delete", u, v)
    \/ FollowMatch(c)
    \/ FollowInsert(c)
    \/ TellFollow(c)
    \/ Unfollow(c)
    \/ UntellFollow(c)

AccountNext == ProfileNext \/ FollowNext \/ \E c \in Asks : AskFails(c)

AccountSpec == AccountInit /\ [][AccountNext]_accountVars

-----------------------------------------------------------------------------

(***************************************************************************)
(* Two accounts have one username only after a request that found it free  *)
(* while another had found it free and not written it yet, whether asked   *)
(* for or made from a display name (updateProfile, isValidUsername).       *)
(***************************************************************************)
SharedNameNeedsOverlap ==
  \A u, v \in Users :
    u # v /\ username[u] # None /\ username[u] = username[v]
      => \E c \in Asks : ask[c].rival /\ ask[c].name = username[u]
=============================================================================
