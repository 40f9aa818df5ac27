----------------------------- MODULE PostReactions -----------------------------
(***************************************************************************)
(* Votes, likes, reactions and comments on a post (reaction.service.ts).   *)
(*                                                                         *)
(* Each request reads, decides on what it read and writes.  None of the    *)
(* collections has a unique index, so what a check found missing may be    *)
(* there when the document is created, and an upsert that matched nothing  *)
(* inserts a document of its own.  A call that throws ends its request     *)
(* where it stands.                                                        *)
(***************************************************************************)
EXTENDS BackendIds, Ordered, SequencesExt

CONSTANT Calls   \* bound: the requests ever made; also the ids of what they create

ASSUME CallsAssumption == IsFiniteSet(Calls) /\ None \notin Calls

Marks == {"for", "against", "like"}
Ops == {"set", "delete", "pull", "push"}

\* An account marks a post once in each list: it votes for or against, and
\* it likes.
ListOf(k) == IF k = "like" THEN {"like"} ELSE {"for", "against"}

VARIABLES
  marks,     \* the documents of votes and features (likes)
  count,     \* Token.totalVotes.for, Token.totalVotes.against, Token.likes
  upvotes,   \* the documents of LikedVideos, by the call that saved them
  reaction,  \* the documents of one reaction subject and type, oldest first
  comments,  \* the comments, by the call that created them
  replyIds,  \* Comment.replyIds
  call       \* the requests

markVars == <<marks, count, upvotes>>
commentVars == <<comments, replyIds>>
reactVars == <<markVars, reaction, commentVars, call>>

Mark == [id : Calls, user : Users, post : Posts, kind : Marks]
Comment == [id : Calls, post : Posts, parent : Calls \union {None}]

\* rival: another request on the same thing stood between its read and its
\* write when this one read.
Call ==
  [pc : {"new", "create", "count", "upvote", "apply", "insert", "comment", "link",
         "done", "refused", "failed"},
   user : Users \union {None}, post : Posts \union {None},
   kind : Marks \union {"none", "reaction", "comment"},
   op : Ops \union {"none"}, parent : Calls \union {None}, rival : BOOLEAN]

NewCall == [pc |-> "new", user |-> None, post |-> None, kind |-> "none",
            op |-> "none", parent |-> None, rival |-> FALSE]

ReactTypeOK ==
  /\ marks \in SUBSET Mark
  /\ count \in [Posts -> [Marks -> Nat]]
  /\ upvotes \in SUBSET Calls
  /\ reaction \in Seq([addresses : Seq(Users), value : Int])
  /\ comments \in SUBSET Comment
  /\ replyIds \in [Calls -> SUBSET Calls]
  /\ call \in [Calls -> Call]

ReactInit ==
  /\ marks = {}
  /\ count = [p \in Posts |-> [k \in Marks |-> 0]]
  /\ upvotes = {}
  /\ reaction = <<>>
  /\ comments = {}
  /\ replyIds = [c \in Calls |-> {}]
  /\ call = [c \in Calls |-> NewCall]

-----------------------------------------------------------------------------

CallAt(c, pc) == call[c].pc = pc

CallGoto(c, pc) == call' = [call EXCEPT ![c].pc = pc]

Begin(c, pc, kind, u, p, rival) ==
  /\ CallAt(c, "new")
  /\ call' = [call EXCEPT ![c] = [NewCall EXCEPT !.pc = pc, !.kind = kind, !.user = u,
                                                 !.post = p, !.rival = rival]]

SameMark(c, k, u, p) == call[c].user = u /\ call[c].post = p /\ call[c].kind \in ListOf(k)

Marked(u, p, k) == \E m \in marks : m.user = u /\ m.post = p /\ m.kind \in ListOf(k)

\* requestVoteFunc and requestLikeFunc: nothing is created for an account
\* whose mark was found.
CheckMark(c, k, u, p) ==
  /\ Begin(c, IF Marked(u, p, k) THEN "refused" ELSE "create", k, u, p,
           \E d \in Calls : CallAt(d, "create") /\ SameMark(d, k, u, p))
  /\ UNCHANGED <<markVars, reaction, commentVars>>

CreateMark(c) ==
  LET me == call[c] IN
  /\ CallAt(c, "create")
  /\ marks' = marks \union {[id |-> c, user |-> me.user, post |-> me.post, kind |-> me.kind]}
  /\ CallGoto(c, "count")
  /\ UNCHANGED <<count, upvotes, reaction, commentVars>>

\* Slip: a request that timed out on its answer counts again.
CountMarkAgain(c) ==
  LET me == call[c] IN
  /\ CallAt(c, "count")
  /\ count' = [count EXCEPT ![me.post][me.kind] = @ + 1]
  /\ \E pc \in {"count", IF me.kind = "for" THEN "upvote" ELSE "done"} : CallGoto(c, pc)
  /\ UNCHANGED <<marks, upvotes, reaction, commentVars>>

\* A vote for the post goes on to LikedVideos, after the owner's notification.
CountMark(c) ==
  LET me == call[c] IN
  /\ CallAt(c, "count")
  /\ count' = [count EXCEPT ![me.post][me.kind] = @ + 1]
  /\ CallGoto(c, IF me.kind = "for" THEN "upvote" ELSE "done")
  /\ UNCHANGED <<marks, upvotes, reaction, commentVars>>

SaveUpvote(c) ==
  /\ CallAt(c, "upvote")
  /\ upvotes' = upvotes \union {c}
  /\ CallGoto(c, "done")
  /\ UNCHANGED <<marks, count, reaction, commentVars>>

-----------------------------------------------------------------------------

Toggling(c) == call[c].kind = "reaction" /\ call[c].pc \in {"apply", "insert"}

\* requestReactionFunc decides on the first document it finds.
OpFor(u) ==
  IF reaction = <<>> \/ (reaction # <<>> /\ Head(reaction).value = 0) THEN "set"
  ELSE IF ~Contains(Head(reaction).addresses, u) THEN "push"
  ELSE IF Head(reaction).value <= 1 THEN "delete" ELSE "pull"

ReadReaction(c, u) ==
  /\ CallAt(c, "new")
  /\ call' = [call EXCEPT ![c] = [NewCall EXCEPT !.pc = "apply", !.kind = "reaction",
                !.user = u, !.op = OpFor(u), !.rival = \E d \in Calls : Toggling(d)]]
  /\ UNCHANGED <<markVars, reaction, commentVars>>

\* Slip: $pull without the $inc.
PulledOnly(r, op, u) ==
  CASE op = "set" -> [addresses |-> <<u>>, value |-> 1]
    [] op = "pull" -> [addresses |-> Those(r.addresses, Users \ {u}), value |-> r.value]
    [] op = "push" -> [addresses |-> Append(r.addresses, u), value |-> r.value + 1]

\* The update operators of findOneAndUpdate on a document.
Updated(r, op, u) ==
  CASE op = "set" -> [addresses |-> <<u>>, value |-> 1]
    [] op = "pull" -> [addresses |-> Those(r.addresses, Users \ {u}), value |-> r.value - 1]
    [] op = "push" -> [addresses |-> Append(r.addresses, u), value |-> r.value + 1]

ApplyReaction(c) ==
  LET me == call[c] IN
  /\ CallAt(c, "apply")
  /\ IF reaction = <<>> \/ me.op = "delete"
       THEN /\ reaction' = IF reaction = <<>> THEN reaction ELSE Tail(reaction)
            /\ CallGoto(c, IF me.op = "delete" THEN "done" ELSE "insert")
       ELSE /\ reaction' = <<Updated(Head(reaction), me.op, me.user)>> \o Tail(reaction)
            /\ CallGoto(c, "done")
  /\ UNCHANGED <<markVars, commentVars>>

\* The upsert matched nothing: it inserts, whatever others have inserted since.
InsertReaction(c) ==
  LET me == call[c] IN
  /\ CallAt(c, "insert")
  /\ reaction' = Append(reaction, Updated([addresses |-> <<>>, value |-> 0], me.op, me.user))
  /\ CallGoto(c, "done")
  /\ UNCHANGED <<markVars, commentVars>>

-----------------------------------------------------------------------------

\* requestCommentFunc: the parent of a reply is a comment on the same post.
RequestComment(c, p, parent) ==
  LET known == parent = None \/ \E d \in comments : d.id = parent /\ d.post = p
  IN /\ CallAt(c, "new")
     /\ call' = [call EXCEPT ![c] = [NewCall EXCEPT !.kind = "comment", !.post = p,
                   !.parent = parent, !.pc = IF known THEN "comment" ELSE "refused"]]
     /\ UNCHANGED <<markVars, reaction, commentVars>>

CreateComment(c) ==
  LET me == call[c] IN
  /\ CallAt(c, "comment")
  /\ comments' = comments \union {[id |-> c, post |-> me.post, parent |-> me.parent]}
  /\ CallGoto(c, IF me.parent = None THEN "done" ELSE "link")
  /\ UNCHANGED <<markVars, reaction, replyIds>>

LinkReply(c) ==
  /\ CallAt(c, "link")
  /\ replyIds' = [replyIds EXCEPT ![call[c].parent] = @ \union {c}]
  /\ CallGoto(c, "done")
  /\ UNCHANGED <<markVars, reaction, comments>>

CallFails(c) ==
  /\ call[c].pc \notin {"new", "done", "refused", "failed"}
  /\ CallGoto(c, "failed")
  /\ UNCHANGED <<markVars, reaction, commentVars>>

MarkNext ==
  \E c \in Calls :
    \/ \E k \in Marks, u \in Users, p \in Posts : CheckMark(c, k, u, p)
    \/ CreateMark(c)
    \/ CountMark(c)
    \/ SaveUpvote(c)

ToggleNext ==
  \E c \in Calls :
    \/ \E u \in Users : ReadReaction(c, u)
    \/ ApplyReaction(c)
    \/ InsertReaction(c)

CommentNext ==
  \E c \in Calls :
    \/ \E p \in Posts, q \in Calls \union {None} : RequestComment(c, p, q)
    \/ CreateComment(c)
    \/ LinkReply(c)

ReactNext == MarkNext \/ ToggleNext \/ CommentNext \/ \E c \in Calls : CallFails(c)

ReactSpec == ReactInit /\ [][ReactNext]_reactVars

-----------------------------------------------------------------------------

(***************************************************************************)
(* Two votes, or two likes, of one account on one post take two requests   *)
(* of which one read while the other was about to create (requestVoteFunc  *)
(* and requestLikeFunc look for the document and create it in two calls,   *)
(* without a unique index).                                                *)
(***************************************************************************)
SecondMarkNeedsOverlap ==
  \A m, n \in marks :
    m # n /\ m.user = n.user /\ m.post = n.post /\ m.kind \in ListOf(n.kind)
      => call[m.id].rival \/ call[n.id].rival

(***************************************************************************)
(* Requests of several accounts on one post lose no increment and make     *)
(* none twice: a total lies between the marks whose request has got past   *)
(* counting and those whose request is not about to count (the rest failed *)
(* before or after).                                                       *)
(***************************************************************************)
TotalsMatchMarks ==
  \A p \in Posts, k \in Marks :
    LET its == {m \in marks : m.post = p /\ m.kind = k} IN
    /\ Cardinality({m \in its : call[m.id].pc \in {"upvote", "done"}}) <= count[p][k]
    /\ count[p][k] <= Cardinality({m \in its : call[m.id].pc # "count"})

(***************************************************************************)
(* Both: votes and likes add up, and are doubled by overlaps only.         *)
(***************************************************************************)
MarksAddUp == SecondMarkNeedsOverlap /\ TotalsMatchMarks

(***************************************************************************)
(* Unless two requests for a reaction overlapped, there is one document of *)
(* it at most, its value is the number of its addresses, and no address is *)
(* there twice (requestReactionFunc writes on the strength of a document   *)
(* it read before).                                                        *)
(***************************************************************************)
ReactionCountsAddresses ==
  (\A c \in Calls : call[c].kind = "reaction" => ~call[c].rival)
    => /\ Len(reaction) <= 1
       /\ \A i \in DOMAIN reaction :
            /\ reaction[i].value = Len(reaction[i].addresses)
            /\ IsInjective(reaction[i].addresses)
            /\ reaction[i].value > 0

(***************************************************************************)
(* What a comment lists as its replies are comments on the same post that  *)
(* name it as their parent: a reply is linked after it is created, and a   *)
(* failure between the two leaves a reply nobody lists, never a link to    *)
(* nothing.                                                                *)
(***************************************************************************)
RepliesAreComments ==
  \A q \in Calls : \A c \in replyIds[q] :
    \E d, e \in comments : d.id = c /\ e.id = q /\ d.parent = q /\ d.post = e.post
=============================================================================
