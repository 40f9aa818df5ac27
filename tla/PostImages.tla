------------------------------ MODULE PostImages ------------------------------
(***************************************************************************)
(* The picture of a post, blurred or not (getNftImage of nft.service.ts    *)
(* with the title checks of common/util/validation.ts).                    *)
(*                                                                         *)
(* A request reads the viewer's titles to the post one after the other,    *)
(* while they come and go, and answers from two entries of the cache.      *)
(***************************************************************************)
EXTENDS BackendIds

CONSTANTS
  Looks,   \* bound: the requests for the picture
  Held     \* bound: the titles that come and go

ASSUME LooksAssumption == IsFiniteSet(Looks)

VARIABLES
  gates,    \* what the post asks for; constant
  isVideo,  \* Token.postType; constant
  titles,   \* what each user holds for the post
  looks,    \* the requests
  cached    \* the picture under each key of the cache

imageVars == <<gates, isVideo, titles, looks, cached>>

Gates == {"lock", "ppv", "plans"}

\* The order in which the titles are read.  funds: a wallet that holds what
\* the lock asks for, without a lock nothing.
Order == <<"owner", "subscription", "ppv", "funds">>
Titles == {"owner", "subscription", "ppv", "funds"}

ASSUME HeldAssumption == Held \subseteq Titles

Pictures == {"blurred", "original"}

ASSUME PicturesAssumption == None \notin Pictures

\* step: the title to read next, then the answer.  ever, always: what the user
\* held at some moment, or at every moment, of the request.
Look == [pc : {"new", "read", "answer", "fetch", "done", "failed"}, step : 1 .. 5,
         user : Users \union {None}, signed : BOOLEAN, seen : SUBSET Titles,
         ever : SUBSET Titles, always : SUBSET Titles, key : Pictures \union {None},
         served : Pictures \union {None}]

ImageTypeOK ==
  /\ gates \in SUBSET Gates /\ isVideo \in BOOLEAN
  /\ titles \in [Users -> SUBSET Titles]
  /\ looks \in [Looks -> Look]
  /\ cached \in [Pictures -> Pictures \union {None}]

ImageInit ==
  /\ gates \in SUBSET Gates /\ isVideo \in BOOLEAN
  /\ titles \in [Users -> SUBSET Held]
  /\ looks = [l \in Looks |-> [pc |-> "new", step |-> 1, user |-> None, signed |-> FALSE, seen |-> {},
                               ever |-> {}, always |-> {}, key |-> None, served |-> None]]
  /\ cached = [k \in Pictures |-> None]

-----------------------------------------------------------------------------

\* A sale, a subscription's dates, a payment and its 24 hours, a balance.
ChangeTitles(u, held) ==
  /\ titles' = [titles EXCEPT ![u] = held]
  /\ looks' = [l \in Looks |->
       IF looks[l].pc = "read" /\ looks[l].user = u
         THEN [looks[l] EXCEPT !.ever = @ \union held, !.always = @ \intersect held]
         ELSE looks[l]]
  /\ UNCHANGED <<gates, isVideo, cached>>

\* isValidAccount: a signature of the address that is not older than a day.
AskImage(l, u, signed) ==
  /\ looks[l].pc = "new"
  /\ looks' = [looks EXCEPT ![l] = [@ EXCEPT !.pc = "read", !.user = u, !.signed = signed,
                                             !.ever = titles[u], !.always = titles[u]]]
  /\ UNCHANGED <<gates, isVideo, titles, cached>>

\* A subscription counts for a post that has plans.
Counts(t) == t # "subscription" \/ "plans" \in gates

ReadTitle(l) ==
  LET t == Order[looks[l].step] IN
  /\ looks[l].pc = "read"
  /\ looks' = [looks EXCEPT ![l] =
       [looks[l] EXCEPT !.seen = @ \union (IF Counts(t) THEN {t} \intersect titles[looks[l].user] ELSE {}),
                        !.step = @ + 1,
                        !.pc = IF t = "funds" THEN "answer" ELSE "read"]]
  /\ UNCHANGED <<gates, isVideo, titles, cached>>

\* shouldApplyBlur
Open(signed, seen) == gates = {} \/ (signed /\ seen # {})

CacheKey(l) == IF ~isVideo /\ ~Open(looks[l].signed, looks[l].seen) THEN "blurred" ELSE "original"

Answer(l) ==
  /\ looks[l].pc = "answer"
  /\ looks' = [looks EXCEPT ![l] =
       IF cached[CacheKey(l)] # None
         THEN [@ EXCEPT !.pc = "done", !.key = CacheKey(l), !.served = cached[CacheKey(l)]]
         ELSE [@ EXCEPT !.pc = "fetch", !.key = CacheKey(l)]]
  /\ UNCHANGED <<gates, isVideo, titles, cached>>

\* Slip: both pictures of a post share one entry.
FetchOverOther(l) ==
  /\ looks[l].pc = "fetch"
  /\ cached' = [k \in Pictures |-> looks[l].key]
  /\ looks' = [looks EXCEPT ![l].pc = "done", ![l].served = looks[l].key]
  /\ UNCHANGED <<gates, isVideo, titles>>

\* The picture from the CDN, blurred where the key says so, cached and sent.
FetchPicture(l) ==
  /\ looks[l].pc = "fetch"
  /\ cached' = [cached EXCEPT ![looks[l].key] = looks[l].key]
  /\ looks' = [looks EXCEPT ![l].pc = "done", ![l].served = looks[l].key]
  /\ UNCHANGED <<gates, isVideo, titles>>

\* After an hour.
Expire(k) ==
  /\ cached' = [cached EXCEPT ![k] = None]
  /\ UNCHANGED <<gates, isVideo, titles, looks>>

ImageFails(l) ==
  /\ looks[l].pc \in {"read", "answer", "fetch"}
  /\ looks' = [looks EXCEPT ![l].pc = "failed"]
  /\ UNCHANGED <<gates, isVideo, titles, cached>>

ImageNext ==
  \/ \E u \in Users, held \in SUBSET Held : ChangeTitles(u, held)
  \/ \E l \in Looks :
       \/ \E u \in Users, signed \in BOOLEAN : AskImage(l, u, signed)
       \/ ReadTitle(l)
       \/ Answer(l)
       \/ FetchPicture(l)
       \/ ImageFails(l)
  \/ \E k \in Pictures : Expire(k)

ImageSpec == ImageInit /\ [][ImageNext]_imageVars

-----------------------------------------------------------------------------

(***************************************************************************)
(* However titles come and go while a request reads them, and whatever the *)
(* cache holds, a gated picture is served unblurred only to a signed       *)
(* viewer who held a title at some moment of the request, and blurred      *)
(* never to one who held a title all along (getNftImage).                  *)
(***************************************************************************)
ImageFollowsTitles ==
  \A l \in Looks :
    LET look == looks[l]
        some(held) == \E t \in held : Counts(t)
    IN /\ look.served = "original" /\ gates # {} /\ ~isVideo => look.signed /\ some(look.ever)
       /\ look.served = "blurred" => gates # {} /\ ~isVideo /\ ~(look.signed /\ some(look.always))
=============================================================================
