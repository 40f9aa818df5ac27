------------------------------ MODULE PostRecords ------------------------------
(***************************************************************************)
(* Posts from their mint request to the lists they are shown in, and what  *)
(* visitors leave behind: views, saves and reports (nft.service.ts,        *)
(* category.service.ts, feed-report.service.ts, search-query.service.ts).  *)
(*                                                                         *)
(* A post is named by its mint request: token ids come from an atomic      *)
(* counter.  Of a post's data the lists ask for the category, the author   *)
(* and the type, and the model keeps the first two.                        *)
(***************************************************************************)
EXTENDS BackendIds, Ordered, SequencesExt

CONSTANTS
  Mints,       \* bound: the mint requests
  Categories,  \* names of categories
  Visits,      \* bound: the views, saves and reports; also the ids of what they create
  Unit         \* the items of a page

ASSUME MintsAssumption == IsFiniteSet(Mints) /\ None \notin Mints
ASSUME VisitsAssumption == IsFiniteSet(Visits) /\ None \notin Visits
ASSUME UnitAssumption == Unit \in Nat \ {0}

VARIABLES
  categories,  \* the documents of categories, by their unique name
  mint,        \* the mint requests
  posts,       \* the tokens that exist, oldest first
  minted,      \* those the chain indexer has marked 'minted'
  hidden,      \* Token.isHidden
  views,       \* Token.views
  history,     \* watch_histories
  kept,        \* savedposts and feed_reports
  visit        \* the visits

mintVars == <<categories, mint, posts, minted, hidden>>
visitVars == <<views, history, kept, visit>>
recordVars == <<mintVars, visitVars>>

\* short: the names the request found missing.
Mint == [pc : {"new", "insert", "create", "upload", "done", "failed"}, by : Users \union {None},
         names : SUBSET Categories, short : SUBSET Categories]

\* rival: another visit of the user on the same thing was under way.  found: a
\* save found a document.
Visit == [pc : {"new", "write", "count", "done", "refused", "failed"},
          kind : {"view", "save", "report", "none"}, user : Users \union {None},
          post : Mints \union {None}, found : BOOLEAN, rival : BOOLEAN]

RecordTypeOK ==
  /\ categories \in SUBSET Categories
  /\ mint \in [Mints -> Mint]
  /\ posts \in Seq(Mints) /\ IsInjective(posts)
  /\ minted \in SUBSET ToSet(posts) /\ hidden \in SUBSET ToSet(posts)
  /\ views \in [Mints -> Nat]
  /\ history \in SUBSET [id : Visits, confirmed : BOOLEAN]
  /\ kept \in SUBSET Visits
  /\ visit \in [Visits -> Visit]
  /\ \A v \in Visits : visit[v].pc # "new" => visit[v].post \in ToSet(posts)

RecordInit ==
  /\ categories = {}
  /\ mint = [m \in Mints |-> [pc |-> "new", by |-> None, names |-> {}, short |-> {}]]
  /\ posts = <<>> /\ minted = {} /\ hidden = {}
  /\ views = [m \in Mints |-> 0]
  /\ history = {} /\ kept = {}
  /\ visit = [v \in Visits |-> [pc |-> "new", kind |-> "none", user |-> None, post |-> None,
                                found |-> FALSE, rival |-> FALSE]]

-----------------------------------------------------------------------------

MintGoto(m, pc) == mint' = [mint EXCEPT ![m].pc = pc]

\* signatureForMintingNFT: the names that have no document yet.
FindCategories(m, u, names) ==
  /\ mint[m].pc = "new"
  /\ mint' = [mint EXCEPT ![m] = [pc |-> IF names \subseteq categories THEN "create" ELSE "insert",
                                  by |-> u, names |-> names, short |-> names \ categories]]
  /\ UNCHANGED <<categories, posts, minted, hidden, visitVars>>

\* insertMany: in order, up to the first name another request has inserted
\* meanwhile; then the mint ends with its error.
InsertCategories(m) ==
  LET taken == mint[m].short \intersect categories IN
  /\ mint[m].pc = "insert"
  /\ \/ /\ taken = {}
        /\ categories' = categories \union mint[m].short
        /\ MintGoto(m, "create")
     \/ /\ taken # {}
        /\ \E S \in SUBSET (mint[m].short \ taken) : categories' = categories \union S
        /\ MintGoto(m, "failed")
  /\ UNCHANGED <<posts, minted, hidden, visitVars>>

CreateToken(m) ==
  /\ mint[m].pc = "create"
  /\ posts' = Append(posts, m)
  /\ MintGoto(m, "upload")
  /\ UNCHANGED <<categories, minted, hidden, visitVars>>

\* The files go to the CDN, a video's job to its queue.
UploadFiles(m) ==
  /\ mint[m].pc = "upload"
  /\ MintGoto(m, "done")
  /\ UNCHANGED <<categories, posts, minted, hidden, visitVars>>

\* Slip: a mint that fails on its files takes its token back.
MintFailsRemoving(m) ==
  /\ mint[m].pc \in {"insert", "create", "upload"}
  /\ posts' = Those(posts, Mints \ {m})
  /\ MintGoto(m, "failed")
  /\ UNCHANGED <<categories, minted, hidden, visitVars>>

\* The token of a mint that failed on its files stays.
MintFails(m) ==
  /\ mint[m].pc \in {"insert", "create", "upload"}
  /\ MintGoto(m, "failed")
  /\ UNCHANGED <<categories, posts, minted, hidden, visitVars>>

\* The chain indexer, which asks only for the token id.
ChainMints(m) ==
  /\ minted' = minted \union {m}
  /\ UNCHANGED <<categories, mint, posts, hidden, visitVars>>

\* updateTokenVisibility
SetVisibility(m) ==
  /\ \E flag \in BOOLEAN : hidden' = IF flag THEN hidden \union {m} ELSE hidden \ {m}
  /\ UNCHANGED <<categories, mint, posts, minted, visitVars>>

\* category.service create: an upsert by the unique name.
AddCategory(c) ==
  /\ categories' = categories \union {c}
  /\ UNCHANGED <<mint, posts, minted, hidden, visitVars>>

-----------------------------------------------------------------------------

SameVisit(v, kind, u, m) == visit[v].kind = kind /\ visit[v].user = u /\ visit[v].post = m

Pending(v) == visit[v].pc \in {"write", "count"}

BeginVisit(v, pc, kind, u, m, found) ==
  /\ visit[v].pc = "new"
  /\ visit' = [visit EXCEPT ![v] = [pc |-> pc, kind |-> kind, user |-> u, post |-> m, found |-> found,
                 rival |-> \E w \in Visits : Pending(w) /\ SameVisit(w, kind, u, m)]]
  /\ UNCHANGED <<mintVars, views, history, kept>>

VisitGoto(v, pc) == visit' = [visit EXCEPT ![v].pc = pc]

Confirmed(u, m) == \E h \in history : h.confirmed /\ visit[h.id].user = u /\ visit[h.id].post = m

\* recordVideoView: the first view of an account is the confirmed one.
FindView(v, u, m) == BeginVisit(v, "write", "view", u, m, Confirmed(u, m))

SaveView(v) ==
  /\ visit[v].pc = "write" /\ visit[v].kind = "view"
  /\ history' = history \union {[id |-> v, confirmed |-> ~visit[v].found]}
  /\ VisitGoto(v, "count")
  /\ UNCHANGED <<mintVars, views, kept>>

\* Slip: only the first view of an account counts up.
CountFirstView(v) ==
  /\ visit[v].pc = "count"
  /\ views' = IF visit[v].found THEN views ELSE [views EXCEPT ![visit[v].post] = @ + 1]
  /\ VisitGoto(v, "done")
  /\ UNCHANGED <<mintVars, history, kept>>

CountView(v) ==
  /\ visit[v].pc = "count"
  /\ views' = [views EXCEPT ![visit[v].post] = @ + 1]
  /\ VisitGoto(v, "done")
  /\ UNCHANGED <<mintVars, history, kept>>

KeptOf(kind, u, m) == {w \in kept : SameVisit(w, kind, u, m)}

\* savePost, by an account that exists.
FindSaved(v, u, m) == BeginVisit(v, "write", "save", u, m, KeptOf("save", u, m) # {})

\* deleteOne of those there are, or a new one.
ToggleSaved(v) ==
  LET its == KeptOf("save", visit[v].user, visit[v].post) IN
  /\ visit[v].pc = "write" /\ visit[v].kind = "save"
  /\ \/ visit[v].found /\ its = {} /\ UNCHANGED kept
     \/ visit[v].found /\ \E w \in its : kept' = kept \ {w}
     \/ ~visit[v].found /\ kept' = kept \union {v}
  /\ VisitGoto(v, "done")
  /\ UNCHANGED <<mintVars, views, history>>

\* addReport
FindReport(v, u, m) ==
  BeginVisit(v, IF KeptOf("report", u, m) = {} THEN "write" ELSE "refused", "report", u, m, FALSE)

SaveReport(v) ==
  /\ visit[v].pc = "write" /\ visit[v].kind = "report"
  /\ kept' = kept \union {v}
  /\ VisitGoto(v, "done")
  /\ UNCHANGED <<mintVars, views, history>>

VisitFails(v) ==
  /\ Pending(v)
  /\ VisitGoto(v, "failed")
  /\ UNCHANGED <<mintVars, views, history, kept>>

MintNext ==
  \/ \E m \in Mints :
       \/ \E u \in Users, names \in SUBSET Categories : FindCategories(m, u, names)
       \/ InsertCategories(m)
       \/ CreateToken(m)
       \/ UploadFiles(m)
       \/ MintFails(m)
  \/ \E m \in ToSet(posts) : ChainMints(m) \/ SetVisibility(m)
  \/ \E c \in Categories : AddCategory(c)

VisitNext ==
  \E v \in Visits :
    \/ \E u \in Users, m \in ToSet(posts) : FindView(v, u, m) \/ FindSaved(v, u, m) \/ FindReport(v, u, m)
    \/ SaveView(v)
    \/ CountView(v)
    \/ ToggleSaved(v)
    \/ SaveReport(v)
    \/ VisitFails(v)

RecordNext == MintNext \/ VisitNext

RecordSpec == RecordInit /\ [][RecordNext]_recordVars

-----------------------------------------------------------------------------

(***************************************************************************)
(* The lists.  A query's $match is a set of clauses, which getFilteredNfts *)
(* puts together: a list of ids replaces what was there before, a search   *)
(* and "verified" are added to it.                                         *)
(***************************************************************************)
Query == [minter : Users \union {None}, category : Categories \union {None}, ids : {{}} \union {Mints},
          search : BOOLEAN]

BaseClauses == {"minted", "visible"}

\* Slip: the clauses of a search replace the others.
ClausesOfSearch(q) ==
  LET named == BaseClauses \union (IF q.minter # None THEN {"minter"} ELSE {})
                 \union (IF q.category # None THEN {"category"} ELSE {})
  IN IF q.search THEN {"search"} ELSE IF q.ids # {} THEN {"ids"} ELSE named

Clauses(q) ==
  LET named == BaseClauses \union (IF q.minter # None THEN {"minter"} ELSE {})
                 \union (IF q.category # None THEN {"category"} ELSE {})
  IN (IF q.ids # {} THEN {"ids"} ELSE named) \union (IF q.search THEN {"search"} ELSE {})

Meets(m, q, clause) ==
  CASE clause = "minted" -> m \in minted
    [] clause = "visible" -> m \notin hidden
    [] clause = "minter" -> mint[m].by = q.minter
    [] clause = "category" -> q.category \in mint[m].names
    [] clause = "ids" -> m \in q.ids
    [] OTHER -> TRUE

\* getStreamNfts: newest first.
StreamNfts(S) == Those(Reverse(posts), S)

Filtered(q) == StreamNfts({m \in Mints : \A clause \in Clauses(q) : Meets(m, q, clause)})

\* A page skips what the pages before it show and is as long as all of them.
Page(list, n) == SubSeq(list, Unit * n + 1, IF Unit * (2 * n + 1) > Len(list) THEN Len(list)
                                            ELSE Unit * (2 * n + 1))

AllNfts == StreamNfts(minted)

MyNfts(u) == StreamNfts({m \in minted : mint[m].by = u})

SavedPosts(u) == StreamNfts({m \in Mints : KeptOf("save", u, m) # {}})

\* Without a category the filter asks for a post whose category is null: none.
MyWatchedNfts(u, c) ==
  StreamNfts({m \in Mints : c \in mint[m].names
                              /\ \E h \in history : visit[h.id].user = u /\ visit[h.id].post = m})

\* searchAll: the text's clause after the base clauses.
SearchedVideos ==
  StreamNfts({m \in Mints : \A clause \in BaseClauses : Meets(m, [ids |-> {}], clause)})

-----------------------------------------------------------------------------

(***************************************************************************)
(* views counts every view that was answered and none without an entry in  *)
(* the history, and an account's second confirmed entry takes two views    *)
(* that overlapped (recordVideoView looks, saves and counts in three       *)
(* calls).                                                                 *)
(***************************************************************************)
ViewsFollowHistory ==
  /\ \A m \in Mints :
       LET of(S) == Cardinality({h \in S : visit[h.id].post = m}) IN
       /\ of({h \in history : visit[h.id].pc = "done"}) <= views[m]
       /\ views[m] <= of({h \in history : visit[h.id].pc # "count"})
  /\ \A h, k \in history :
       h # k /\ h.confirmed /\ k.confirmed /\ SameVisit(h.id, "view", visit[k.id].user, visit[k.id].post)
         => visit[h.id].rival \/ visit[k.id].rival

(***************************************************************************)
(* An account that asked one after the other has a post saved when it      *)
(* asked an odd number of times, and has reported it once at most; two     *)
(* documents take requests that overlapped (savePost, addReport).          *)
(***************************************************************************)
SavesToggle ==
  \A u \in Users, m \in Mints :
    LET its(kind) == {v \in Visits : SameVisit(v, kind, u, m)}
        done == {v \in its("save") : visit[v].pc = "done"}
        single(kind) == \A v \in its(kind) : ~visit[v].rival
    IN /\ single("save") => Cardinality(KeptOf("save", u, m)) = Cardinality(done) % 2
       /\ single("report") => Cardinality(KeptOf("report", u, m)) <= 1

(***************************************************************************)
(* Both: views, saves and reports add up.                                  *)
(***************************************************************************)
VisitsAddUp == ViewsFollowHistory /\ SavesToggle

(***************************************************************************)
(* Whatever a query asks for, getFilteredNfts and searchAll show no post   *)
(* that is hidden or not minted, except one asked for by its id, and their *)
(* pages leave none out (getStreamNfts gets skip and limit of the page).   *)
(***************************************************************************)
FeedsShowVisible ==
  LET shown == minted \ hidden IN
  posts # <<>> =>
  /\ ToSet(SearchedVideos) = shown
  /\ \A q \in Query :
       LET list == Filtered(q) IN
       /\ ToSet(list) \subseteq shown \union q.ids
       /\ ToSet(list) = UNION {ToSet(Page(list, n)) : n \in 0 .. Len(list)}
       /\ q.minter # None /\ q.category = None /\ q.ids = {}
            => ToSet(MyNfts(q.minter)) \ hidden = ToSet(list)
=============================================================================
