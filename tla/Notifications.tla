----------------------------- MODULE Notifications -----------------------------
(***************************************************************************)
(* The notifications of an account (notification.service.ts).  Likes,      *)
(* dislikes, comments and follows share one unread notification per post   *)
(* and type, which an upsert creates or rewrites; tips and removals add    *)
(* one each.                                                               *)
(*                                                                         *)
(* The collection has no unique index, so that an upsert is two steps: it  *)
(* looks for a document, and when there is none it inserts, whatever       *)
(* others have inserted since.                                             *)
(***************************************************************************)
EXTENDS BackendIds

CONSTANTS
  Notices,      \* bound: the calls ever made; also the ids of what they create
  NoticeTypes   \* the types of the calls

Aggregated == {"like", "dislike", "comment", "following"}
Single == {"tip", "videoRemoval"}

ASSUME NoticesAssumption == IsFiniteSet(Notices) /\ None \notin Notices
ASSUME NoticeTypesAssumption == NoticeTypes \subseteq Aggregated \union Single

VARIABLES
  notes,    \* the documents
  notice    \* the calls

noticeVars == <<notes, notice>>

\* by and others are what the content says: "X and 2 others liked your video".
Note == [id : Notices, to : Users, type : Aggregated \union Single, post : Posts \union {None},
         by : Users \union {None}, others : Nat, read : BOOLEAN]

\* rival: another upsert of the same group had matched nothing and not
\* inserted yet when this one matched nothing.
Notice ==
  [pc : {"new", "count", "match", "insert", "save", "done", "refused", "failed"},
   to : Users \union {None}, type : Aggregated \union Single \union {"none"},
   post : Posts \union {None}, by : Users \union {None}, others : Nat,
   note : Notices \union {None}, rival : BOOLEAN]

NewNotice == [pc |-> "new", to |-> None, type |-> "none", post |-> None, by |-> None,
              others |-> 0, note |-> None, rival |-> FALSE]

NoticeTypeOK == notes \in SUBSET Note /\ notice \in [Notices -> Notice]

NoticeInit == notes = {} /\ notice = [c \in Notices |-> NewNotice]

-----------------------------------------------------------------------------

NoticeAt(c, pc) == notice[c].pc = pc

NoticeGoto(c, pc) == notice' = [notice EXCEPT ![c].pc = pc]

\* validatePayload: who did it, to which post.
Complete(type, post, by) ==
  /\ by # None \/ type = "videoRemoval"
  /\ post # None \/ type \notin {"like", "dislike", "comment"}

RequestNotice(c, u, type, post, by) ==
  /\ NoticeAt(c, "new")
  /\ notice' = [notice EXCEPT ![c] = [NewNotice EXCEPT !.to = u, !.type = type, !.post = post, !.by = by,
                  !.pc = IF Complete(type, post, by) THEN "count" ELSE "refused"]]
  /\ UNCHANGED notes

\* buildMatchFilter: what an upsert looks for.  The post counts where the
\* payload must have one.
MatchFilter(x) == <<x.to, x.type, IF x.type = "following" THEN None ELSE x.post>>

\* Slip: the filter names the sender too.
SenderFilter(x) == <<x.to, x.type, IF x.type = "following" THEN x.by ELSE x.post, x.by>>

\* A document stores the token id of the filter.
Filter(x) == MatchFilter(x)

Unread(x) == {n \in notes : ~n.read /\ Filter(n) = Filter(x)}

\* buildContent: the others are the unread documents of the group.
CountUnread(c) ==
  /\ NoticeAt(c, "count")
  /\ notice' = IF notice[c].type \in Aggregated
               THEN [notice EXCEPT ![c].pc = "match", ![c].others = Cardinality(Unread(notice[c]))]
               ELSE [notice EXCEPT ![c].pc = "insert"]
  /\ UNCHANGED notes

SameGroup(c, d) == Filter(notice[c]) = Filter(notice[d])

Rewrite(n, c) ==
  notes' = (notes \ {n}) \union {[n EXCEPT !.by = notice[c].by, !.others = notice[c].others]}

MatchNotice(c) ==
  /\ NoticeAt(c, "match")
  /\ \/ /\ Unread(notice[c]) = {}
        /\ notice' = [notice EXCEPT ![c].pc = "insert",
             ![c].rival = \E d \in Notices : NoticeAt(d, "insert") /\ SameGroup(c, d)]
        /\ UNCHANGED notes
     \/ /\ \E n \in Unread(notice[c]) : Rewrite(n, c)
        /\ NoticeGoto(c, "done")

InsertNotice(c) ==
  LET me == notice[c] IN
  /\ NoticeAt(c, "insert")
  /\ notes' = notes \union {[id |-> c, to |-> me.to, type |-> me.type, post |-> me.post,
                             by |-> me.by, others |-> me.others, read |-> FALSE]}
  /\ NoticeGoto(c, "done")

-----------------------------------------------------------------------------

\* markNotificationAsReadFunc loads the document and saves its flag.
FindNote(c, n) ==
  /\ NoticeAt(c, "new")
  /\ notice' = [notice EXCEPT ![c] = [NewNotice EXCEPT !.pc = "save", !.note = n.id]]
  /\ UNCHANGED notes

SaveRead(c) ==
  /\ NoticeAt(c, "save")
  /\ notes' = {[n EXCEPT !.read = @ \/ n.id = notice[c].note] : n \in notes}
  /\ NoticeGoto(c, "done")

NoticeFails(c) ==
  /\ notice[c].pc \notin {"new", "done", "refused", "failed"}
  /\ NoticeGoto(c, "failed")
  /\ UNCHANGED notes

NoticeNext ==
  \E c \in Notices :
    \/ \E u \in Users, y \in NoticeTypes, p \in Posts \union {None}, by \in Users \union {None} :
         RequestNotice(c, u, y, p, by)
    \/ CountUnread(c)
    \/ MatchNotice(c)
    \/ InsertNotice(c)
    \/ \E n \in notes : FindNote(c, n)
    \/ SaveRead(c)
    \/ NoticeFails(c)

NoticeSpec == NoticeInit /\ [][NoticeNext]_noticeVars

-----------------------------------------------------------------------------

(***************************************************************************)
(* Two unread notifications of one aggregated group take two upserts that  *)
(* overlapped: rewriting, reading and failures in any order leave one at   *)
(* most (createNotificationfunc).                                          *)
(***************************************************************************)
SecondUnreadNeedsOverlap ==
  \A m, n \in notes :
    m # n /\ m.type \in Aggregated /\ ~m.read /\ ~n.read /\ MatchFilter(m) = MatchFilter(n)
      => notice[m.id].rival \/ notice[n.id].rival
=============================================================================
