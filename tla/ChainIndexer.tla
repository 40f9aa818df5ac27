----------------------------- MODULE ChainIndexer -----------------------------
(***************************************************************************)
(* The cron loop that copies chain events from the graph into MongoDB      *)
(* (stream-cron.service.ts): it reads the cursor, fetches a range of       *)
(* blocks, writes what every event means, one update after the other, and  *)
(* stores the cursor.  Cron starts a loop every minute, whether or not the *)
(* last one has ended, and a call that throws ends its loop where it       *)
(* stands; a restart of the process ends them all.                         *)
(*                                                                         *)
(* The chain is a constant: what varies is how far the graph has got.  Of  *)
(* an event the model keeps its block, the list it is fetched in, and the  *)
(* updates it stands for; of a token its owner.  The two networks have     *)
(* cursors and loops of their own and are one instance each.               *)
(***************************************************************************)
EXTENDS Integers, Sequences, FiniteSets, SequencesExt

CONSTANTS
  Events,      \* the events of the chain
  Block,       \* the block of each event
  Type,        \* its kind
  Loops,       \* bound: the loops running at once
  BlockLimit,  \* config.blockLimitsForFetching
  ItemLimit,   \* config.itemLimitsForFetching
  MaxBlock,    \* bound: the last block
  MaxTicks,    \* bound: the loops that fetch something
  NoEvent      \* no event

Types == {"TRANSFER", "STAKE", "TIP", "PPV", "BOUNTY", "MINT", "NFT"}

ASSUME BlockAssumption == Block \in [Events -> Nat \ {0}]
ASSUME TypeAssumption == Type \in [Events -> Types]
ASSUME LimitAssumption == BlockLimit \in Nat \ {0} /\ ItemLimit \in Nat \ {0}
ASSUME NoEventAssumption == NoEvent \notin Events

VARIABLES
  head,      \* the last block the graph has synced
  cursor,    \* Setting.lastBlockFetchedForTransfer
  loop,      \* the running loops
  applied,   \* how often each update of an event was made
  skipped,   \* what a cut page or a swallowed error has left out
  ownerBy,   \* the event that wrote Token.owner last
  troubled,  \* a loop has failed part way
  overlapped,\* a loop has started while another ran
  ticks      \* bound counter

dataVars == <<applied, ownerBy>>
noteVars == <<skipped, troubled, overlapped, ticks>>
chainVars == <<head, cursor, loop, dataVars, noteVars>>

ListOfType(y) == IF y = "TRANSFER" THEN 1 ELSE IF y \in {"MINT", "NFT"} THEN 3 ELSE 2

\* The query asks for the tokenAddress of a transfer as an object with an id,
\* and updateWalletBalanceFromTransfer hands the object to a field of type
\* String: the cast of its first call throws, and nothing of a transfer is
\* ever stored, the balances of the two wallets after it included.
Throws(e) == Type[e] = "TRANSFER"

\* The updates of an event, in their order; of a transfer the one that throws.
\* A bounty's $inc asks isInserted, which looks for a field "upserted" that the
\* results of the mongoose in package.json do not have: it is never made.
Updates(y) ==
  CASE y = "TRANSFER" -> <<"transaction">>
    [] y = "STAKE" -> <<"transaction", "staked">>
    [] y = "TIP" -> <<"transaction", "totalTips", "sentTips", "receivedTips", "reward">>
    [] y = "PPV" -> <<"transaction", "ppv", "totalFunds">>
    [] y = "BOUNTY" -> <<"transaction">>
    [] y = "MINT" -> <<"uploads", "token">>
    [] y = "NFT" -> <<"token">>

UpdateNames == {"transaction", "staked", "totalTips", "sentTips", "receivedTips", "reward", "ppv",
                "totalFunds", "uploads", "token"}

UpdatesOf(e) == ToSet(Updates(Type[e]))

IdleLoop == [pc |-> "idle", start |-> 0, end |-> 0, todo |-> {}, at |-> NoEvent, step |-> 1]

Loop == [pc : {"idle", "fetch", "work"}, start : Nat, end : Nat, todo : SUBSET Events,
         at : Events \union {NoEvent}, step : 1 .. 5]

IndexTypeOK ==
  /\ head \in Nat /\ cursor \in Nat
  /\ loop \in [Loops -> Loop]
  /\ \A l \in Loops : loop[l].at # NoEvent => loop[l].at \in loop[l].todo
  /\ applied \in [Events -> [UpdateNames -> Nat]]
  /\ skipped \in SUBSET Events
  /\ ownerBy \in Events \union {NoEvent}
  /\ troubled \in BOOLEAN /\ overlapped \in BOOLEAN
  /\ ticks \in Nat

IndexInit ==
  /\ head = 0 /\ cursor = 0
  /\ loop = [l \in Loops |-> IdleLoop]
  /\ applied = [e \in Events |-> [n \in UpdateNames |-> 0]]
  /\ skipped = {}
  /\ ownerBy = NoEvent
  /\ troubled = FALSE /\ overlapped = FALSE
  /\ ticks = 0

-----------------------------------------------------------------------------

Running(l) == loop[l].pc # "idle"

GraphSyncs ==
  /\ head < MaxBlock
  /\ head' = head + 1
  /\ UNCHANGED <<cursor, loop, dataVars, noteVars>>

\* Slip: the range starts with the last block that was fetched.
ReadCursorInclusive(l) ==
  /\ ~Running(l) /\ ticks < MaxTicks
  /\ loop' = [loop EXCEPT ![l] = [IdleLoop EXCEPT !.pc = "fetch", !.start = cursor,
                                                  !.end = cursor + BlockLimit]]
  /\ overlapped' = (overlapped \/ \E k \in Loops : Running(k))
  /\ ticks' = ticks + 1
  /\ UNCHANGED <<head, cursor, dataVars, skipped, troubled>>

ReadCursor(l) ==
  /\ ~Running(l) /\ ticks < MaxTicks
  /\ loop' = [loop EXCEPT ![l] = [IdleLoop EXCEPT !.pc = "fetch", !.start = cursor + 1,
                                                  !.end = cursor + BlockLimit]]
  /\ overlapped' = (overlapped \/ \E k \in Loops : Running(k))
  /\ ticks' = ticks + 1
  /\ UNCHANGED <<head, cursor, dataVars, skipped, troubled>>

InRange(l) ==
  {e \in Events : loop[l].start <= Block[e] /\ Block[e] <= loop[l].end /\ Block[e] <= head}

\* A page is the first ItemLimit events of each list, by block.
IsPage(S, R) ==
  /\ S \subseteq R
  /\ \A e \in R \ S :
       LET its == {f \in S : ListOfType(Type[f]) = ListOfType(Type[e])}
       IN Cardinality(its) = ItemLimit /\ \A f \in its : Block[f] <= Block[e]
  /\ \A i \in 1 .. 3 : Cardinality({f \in S : ListOfType(Type[f]) = i}) <= ItemLimit

\* Nothing synced beyond the cursor ends the loop, as a failed fetch does
\* (getHistoryFromGraphGL returns nothing then).
Fetch(l) ==
  /\ loop[l].pc = "fetch"
  /\ IF head < loop[l].start
       THEN /\ loop' = [loop EXCEPT ![l] = IdleLoop]
            /\ UNCHANGED skipped
       ELSE \E S \in SUBSET InRange(l) :
              /\ IsPage(S, InRange(l))
              /\ loop' = [loop EXCEPT ![l].pc = "work", ![l].todo = S, ![l].end = IF head < @ THEN head ELSE @]
              /\ skipped' = skipped \union (InRange(l) \ S)
  /\ UNCHANGED <<head, cursor, dataVars, troubled, overlapped, ticks>>

FetchFails(l) ==
  /\ loop[l].pc = "fetch"
  /\ loop' = [loop EXCEPT ![l] = IdleLoop]
  /\ UNCHANGED <<head, cursor, dataVars, noteVars>>

\* Slip: the pages are read from the newest event down.
BeforeDescending(e, f) ==
  LET i == ListOfType(Type[e])
      j == ListOfType(Type[f])
  IN i < j \/ (i = j /\ Block[e] > Block[f])

\* Slip: transfers come last.
BeforeTransfersLast(e, f) ==
  LET i == ListOfType(Type[e])
      j == ListOfType(Type[f])
  IN (i > 1 /\ j = 1) \/ (1 < i /\ i < j) \/ (i = j /\ Block[e] < Block[f])

\* Transfers first, then protocol transactions, then NFT transfers, each by
\* block.
Before(e, f) ==
  LET i == ListOfType(Type[e])
      j == ListOfType(Type[f])
  IN i < j \/ (i = j /\ Block[e] < Block[f])

NextEvent(l, e) ==
  IF loop[l].at # NoEvent THEN e = loop[l].at
  ELSE e \in loop[l].todo /\ \A f \in loop[l].todo \ {e} : ~Before(f, e)

\* What is left of a loop after the update at its step.
AfterUpdate(l, e) ==
  IF loop[l].step = Len(Updates(Type[e]))
  THEN [loop[l] EXCEPT !.todo = @ \ {e}, !.at = NoEvent, !.step = 1]
  ELSE [loop[l] EXCEPT !.at = e, !.step = @ + 1]

\* A loop whose next event throws can only fail.
Update(l, e) ==
  LET name == Updates(Type[e])[loop[l].step] IN
  /\ loop[l].pc = "work" /\ e \in loop[l].todo /\ NextEvent(l, e) /\ ~Throws(e)
  /\ applied' = [applied EXCEPT ![e][name] = @ + 1]
  /\ ownerBy' = IF name = "token" THEN e ELSE ownerBy
  /\ loop' = [loop EXCEPT ![l] = AfterUpdate(l, e)]
  /\ UNCHANGED <<head, cursor, noteVars>>

\* updateStreamCollection catches the error of its token update and goes on.
TokenUpdateFails(l, e) ==
  /\ loop[l].pc = "work" /\ e \in loop[l].todo /\ NextEvent(l, e)
  /\ Updates(Type[e])[loop[l].step] = "token"
  /\ skipped' = skipped \union {e}
  /\ loop' = [loop EXCEPT ![l] = AfterUpdate(l, e)]
  /\ UNCHANGED <<head, cursor, dataVars, troubled, overlapped, ticks>>

\* Slip: the cursor is stored as soon as the range is fetched.
StoreCursorEarly(l) ==
  /\ loop[l].pc = "work" /\ cursor # loop[l].end
  /\ cursor' = loop[l].end
  /\ loop' = IF loop[l].todo = {} THEN [loop EXCEPT ![l] = IdleLoop] ELSE loop
  /\ UNCHANGED <<head, dataVars, noteVars>>

\* A page holds at most ItemLimit items, so that it always counts as the whole
\* range (lines 89 and 102).
StoreCursor(l) ==
  /\ loop[l].pc = "work" /\ loop[l].todo = {}
  /\ cursor' = loop[l].end
  /\ loop' = [loop EXCEPT ![l] = IdleLoop]
  /\ UNCHANGED <<head, dataVars, noteVars>>

\* A call that throws, a restart of the process.
LoopFails(l) ==
  /\ loop[l].pc = "work"
  /\ loop' = [loop EXCEPT ![l] = IdleLoop]
  /\ troubled' = TRUE
  /\ UNCHANGED <<head, cursor, dataVars, skipped, overlapped, ticks>>

IndexNext ==
  \/ GraphSyncs
  \/ \E l \in Loops :
       \/ ReadCursor(l)
       \/ Fetch(l)
       \/ FetchFails(l)
       \/ \E e \in Events : Update(l, e) \/ TokenUpdateFails(l, e)
       \/ StoreCursor(l)
       \/ LoopFails(l)

IndexSpec == IndexInit /\ [][IndexNext]_chainVars

-----------------------------------------------------------------------------

(***************************************************************************)
(* The cursor passes an event only after all its updates were made, unless *)
(* a page was cut at its limit or the error of a token update swallowed:   *)
(* no failure, restart or overlap of loops loses an event (mainLoop stores *)
(* the cursor after the batch).                                            *)
(***************************************************************************)
NothingLost ==
  \A e \in Events : Block[e] <= cursor =>
    e \in skipped \/ \A n \in UpdatesOf(e) : applied[e][n] > 0

(***************************************************************************)
(* No update is made twice, unless a loop has failed part way or two loops *)
(* have overlapped: then the increments of tips, PPV and uploads, which    *)
(* nothing guards, are replayed.                                           *)
(***************************************************************************)
ReplayNeedsTrouble ==
  ~troubled /\ ~overlapped => \A e \in Events, n \in UpdateNames : applied[e][n] <= 1

(***************************************************************************)
(* Whenever no loop runs and none has overlapped another, a token belongs  *)
(* to whom the latest of its transfers up to the cursor has sent it, or to *)
(* a later one: replays run in the order of the blocks.                    *)
(***************************************************************************)
OwnerIsLatest ==
  (~overlapped /\ \A l \in Loops : ~Running(l)) =>
    \A e \in Events \ skipped :
      "token" \in UpdatesOf(e) /\ Block[e] <= cursor
        => ownerBy # NoEvent /\ Block[ownerBy] >= Block[e]

(***************************************************************************)
(* A transfer stops the indexer for good: whatever loops fail, overlap or  *)
(* fetch, the cursor never reaches its block, and nothing of that block or *)
(* a later one is applied, although tips and sales are lists of their own  *)
(* (mainLoop takes the transfers first, and they throw).                   *)
(***************************************************************************)
NothingPassesTransfers ==
  \A t \in Events : Throws(t) =>
    /\ cursor < Block[t]
    /\ \A e \in Events, n \in UpdateNames : Block[e] >= Block[t] => applied[e][n] = 0
=============================================================================
