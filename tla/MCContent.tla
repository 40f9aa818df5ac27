------------------------------- MODULE MCContent -------------------------------
(***************************************************************************)
(* One TLC instance of the components around posts.  They share ids and no *)
(* variable that more than one of them writes, so that every behaviour of  *)
(* the backend projects to a behaviour of each: the instance runs them as  *)
(* alternatives, chosen at the start, instead of multiplying their states. *)
(***************************************************************************)
EXTENDS TipLedger, PostReactions, ChainIndexer, PostRecords, UploadJobs, StreamLifecycle, Plans,
        PostImages, TLC

VARIABLE topic   \* the component that runs

Topics == {"tips", "votes", "toggles", "comments", "chain", "mints", "visits", "uploads", "transcode",
           "show", "fans", "offers", "purchases", "images"}

allVars == <<topic, tipVars, reactVars, chainVars, recordVars, jobVars, lifeVars, planVars, imageVars>>

\* The instance of the chain: a tip and a mint in the first block, two sales of
\* the token in the second, a transfer and another tip in the third.
EventBlock ==
  [e \in Events |->
     CASE e \in {"tip1", "mint"} -> 1
       [] e \in {"sale1", "sale2"} -> 2
       [] OTHER -> 3]

EventType ==
  [e \in Events |->
     CASE e = "sent" -> "TRANSFER"
       [] e \in {"tip1", "tip2"} -> "TIP"
       [] e = "mint" -> "MINT"
       [] OTHER -> "NFT"]

First(S) == CHOOSE x \in S : TRUE

\* What varies at the start of a component varies only when it runs.
OnlyIn(t, usual) == topic = t \/ usual

MCInit ==
  /\ topic \in Topics
  /\ TipInit /\ ReactInit /\ IndexInit /\ RecordInit /\ JobInit /\ LifeInit /\ PlanInit /\ ImageInit
  /\ OnlyIn("tips", owner = [p \in Posts |-> None] /\ holders = {})
  /\ OnlyIn("show", ~isTest)
  /\ OnlyIn("images", gates = {} /\ titles = [u \in Users |-> {}])
  /\ \A u \in Users \ {First(Users)} : titles[u] = {}
  /\ gates \in {{}, {"lock"}, {"plans"}} /\ (isVideo => gates = {"plans"})

\* Visits need a post, purchases a plan, likes and gifts a stream that is live.
OnePost ==
  IF posts # <<>> THEN VisitNext
  ELSE MintNext /\ \A m \in Mints : mint'[m] = mint[m] \/ (m = First(Mints) /\ mint'[m].names = {}
                                                                 /\ mint'[m].by = First(Users))
OnePlan == IF Live = {} THEN OfferNext ELSE PurchaseNext
OneShow == IF stream.status = "LIVE" THEN FanNext \/ LogNext ELSE ShowNext

\* One user looks, while titles come and go.
OneViewer ==
  /\ ImageNext
  /\ \A u \in Users \ {First(Users)} : titles'[u] = {} /\ \A l \in Looks : looks'[l].user # u

MCNext ==
  /\ UNCHANGED topic
  /\ \/ /\ topic = "tips" /\ TipNext
        /\ UNCHANGED <<reactVars, chainVars, recordVars, jobVars, lifeVars, planVars, imageVars>>
     \/ /\ topic = "votes" /\ (MarkNext \/ \E c \in Calls : CallFails(c))
        /\ UNCHANGED <<tipVars, chainVars, recordVars, jobVars, lifeVars, planVars, imageVars>>
     \/ /\ topic = "toggles" /\ (ToggleNext \/ \E c \in Calls : CallFails(c))
        /\ UNCHANGED <<tipVars, chainVars, recordVars, jobVars, lifeVars, planVars, imageVars>>
     \/ /\ topic = "comments" /\ (CommentNext \/ \E c \in Calls : CallFails(c))
        /\ UNCHANGED <<tipVars, chainVars, recordVars, jobVars, lifeVars, planVars, imageVars>>
     \/ /\ topic = "chain" /\ IndexNext
        /\ UNCHANGED <<tipVars, reactVars, recordVars, jobVars, lifeVars, planVars, imageVars>>
     \/ /\ topic = "mints" /\ MintNext
        /\ UNCHANGED <<tipVars, reactVars, chainVars, jobVars, lifeVars, planVars, imageVars>>
     \/ /\ topic = "visits" /\ OnePost
        /\ UNCHANGED <<tipVars, reactVars, chainVars, jobVars, lifeVars, planVars, imageVars>>
     \/ /\ topic = "uploads" /\ (DmNext \/ ProcessesDie)
        /\ UNCHANGED <<tipVars, reactVars, chainVars, recordVars, lifeVars, planVars, imageVars>>
     \/ /\ topic = "transcode" /\ (VideoNext \/ ProcessesDie)
        /\ UNCHANGED <<tipVars, reactVars, chainVars, recordVars, lifeVars, planVars, imageVars>>
     \/ /\ topic = "show" /\ (ShowNext \/ LogNext)
        /\ UNCHANGED <<tipVars, reactVars, chainVars, recordVars, jobVars, planVars, imageVars>>
     \/ /\ topic = "fans" /\ OneShow
        /\ UNCHANGED <<tipVars, reactVars, chainVars, recordVars, jobVars, planVars, imageVars>>
     \/ /\ topic = "offers" /\ OfferNext
        /\ UNCHANGED <<tipVars, reactVars, chainVars, recordVars, jobVars, lifeVars, imageVars>>
     \/ /\ topic = "purchases" /\ OnePlan
        /\ UNCHANGED <<tipVars, reactVars, chainVars, recordVars, jobVars, lifeVars, imageVars>>
     \/ /\ topic = "images" /\ OneViewer
        /\ UNCHANGED <<tipVars, reactVars, chainVars, recordVars, jobVars, lifeVars, planVars>>

MCSpec == MCInit /\ [][MCNext]_allVars

(***************************************************************************)
(* Every variable of the components keeps its type, and what an id refers  *)
(* to exists.                                                              *)
(***************************************************************************)
ContentTypesOK ==
  /\ TipTypeOK
  /\ ReactTypeOK
  /\ IndexTypeOK
  /\ RecordTypeOK
  /\ JobTypeOK
  /\ LifeTypeOK
  /\ PlanTypeOK
  /\ ImageTypeOK
=============================================================================
