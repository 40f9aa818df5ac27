# A formal model of the DeHub stream backend

This directory holds TLA+ modules that model the backend, the TLC configurations that check them
and proofs for TLAPS. It is written for a reader who has the repository at hand: paths below are
relative to the repository, and `PROJECT.json` maps every definition to the lines it stands for.

## 1. The system

The backend is a NestJS process over MongoDB (mongoose), Redis (Bull queues and plain keys), Stripe,
Livepeer, TheGraph and several EVM chains. Nothing in it takes a lock or opens a MongoDB
transaction: concurrency is what Node's event loop, Bull's workers, `@Cron` methods that may overlap
themselves, webhooks and sockets make of it. The unit of atomicity is one database call.

| Component | Where | State | Operations | What makes it correct |
|---|---|---|---|---|
| DPay documents | `models/dpay`, `src/dehub-pay/dehub-pay-service.ts` | `status_stripe`, `tokenSendStatus`, `ethSendStatus`, `tokenSendRetryCount`, `attemptCount` | one-field `updateOne`s, last writer wins | statuses agree with Stripe and the chain |
| DPay checkout | `dehub-pay-service.ts`, `dehub-pay-monitor.ts`, `dpay-transaction.processor.ts` | the documents, Stripe sessions, verify jobs | checkout, three webhooks, expiry cron, pending monitor, verify job | a buyer who did not pay gets nothing; a failed purchase stays cancelled |
| DPay payout | `dehub-pay-monitor.ts`, `dpay-transaction.processor.ts`, `token-transfer.service.ts` | the documents, `transferToken` jobs, the treasury on chain | success monitor, retry cron, transfer job, restart | `sent` is true of the chain, transfers are accounted for, no purchase is stranded |
| DPay request validation | `dehub-pay-middleware.ts`, `dehub-pay-controller.ts` | cached prices and balances | limits and supply checks | a purchase the treasury cannot serve is refused |
| Livestream viewers | `livestream/chat.gateway.ts`, `connection.service.ts`, `livestream.service.ts` | Redis viewer keys with TTL, viewer entries, activities, the viewer counter, `totalViews` | join, leave, count | duplicates stay bounded, views are entries, the counter counts open entries |
| Livestream connections | `livestream/chat.gateway.ts`, `connection.service.ts` | sockets, timers per address, connection keys with TTL, sessions | connect, authenticate, heartbeat, disconnect, clean-up, reconnect | a reconnected account is not cleaned up; the map of timers is true; a beating client is tracked |
| Livestream lifecycle | `livestream.service.ts`, `livepeer.service.ts` | status, likes, gifts, activities of a stream | create, Livepeer's webhooks, `endStream`, like, gift, message | a stream Livepeer deleted is not shown live |
| Local media servers | `hls.service.ts`, `nms.service.ts`, `mux.service.ts` | processes and files | start, stop | - |
| Chain indexer | `job/stream-cron.service.ts` | a block cursor in `Setting`, tokens, balances, rewards | `mainLoop` every minute over three lists of events | no event is lost, none applied twice without trouble, owners follow the chain |
| Legacy indexers | `services/*.js` | the same collections | scripts the application does not start | - |
| Reactions, tips, votes, comments | `reaction/reaction.service.ts` | `Reaction`, `Balance`, `Vote`, `Feature`, `Comment` | tip, vote, like, react, comment, reply | balances and totals add up; nothing is overdrawn or counted double without an overlap |
| Plans and subscriptions | `plans/plans.service.ts`, `job/plans.listener.ts` | `Plans`, `Subscription`, purchase activities | create, update, publish, buy, purchase webhook | one active subscription per plan and user, recorded once |
| Upload jobs | `job/job.processor.ts`, `job.service.ts` | `dm-uploads` and `transcode` queues, messages, videos, temp files | add, process, save, retry, notify | a file whose job ended is in its message; a video that is done stays so |
| Direct messages | `dm/*.ts` | conversations, participants, blocks, messages, sessions, payments | open, join, exit, edit, block, unblock, send, delete, list, pay | one conversation per pair; a blocked user receives nothing; what was deleted stays away |
| NFT minting and feeds | `nft/nft.service.ts`, `nft/mint.indexer.ts` | `Token`, `Category`, views, saves, reports, cached pictures | sign, mint, hide, view, save, report, list, picture | lists show minted and visible posts; a gated picture is for those who hold a title |
| Watch history and claims | `nft.service.ts`, `job/watch-cron.service.ts` | `WatchHistory`, `ClaimTransaction` | record; the claims' cron is not registered | a view is counted once |
| Accounts, follows, authentication | `user/`, `auth/`, `common/guards/` | `Account`, `Follow` | sign in, edit, suggest a username, follow | a username is one account's |
| Notifications and activity | `notification/`, `activity/` | notifications, activities | create or aggregate, mark read | one unread notification per group |
| Crypto payment, CDN, assets, search, reports, leaderboard, categories, logs | the directories of these names | - | queries, single inserts, pass-through calls | - |

### How the parts interact

* **Checkout and payout** share the `dpay-tnx` documents and the process they run in, nothing else.
  A webhook or a verify job stores `succeeded` or `complete`; the success monitor's query finds the
  document; the monitor queues a `transferToken` job; the worker reads the document again, sends
  tokens and gas from the treasury wallet, and stores what became of it; the retry cron returns
  `processing` and `failed` legs to `not_sent`.
* **The viewers** are known to four places: the gateway's maps (process memory), Redis keys
  (60 s TTL), Redis' viewer counter, and MongoDB's viewer entries. Socket events, a 30 s interval
  and per-address timers update them one after the other.
* **The lifecycle** is driven by Livepeer's webhooks and by the streamer's requests, which read a
  document, await Livepeer, and save what they read.
* **The indexer** marks posts minted, moves their owners, and counts `$inc`s into the balances that
  tips spend from and the totals that tips count into. Increments commute, and no check of a tip can
  tell an increment of the indexer from a deposit.
* **Posts and people** meet through ids: a tip reads a post's owner, a picture a viewer's
  subscription, a notification an address. Nobody writes another's documents, except the indexer.

### Behaviours that are hard

Crons that overlap themselves; statuses read before minutes of awaits and acted on after them;
unconditional last-writer-wins updates; webhooks that are repeated, reordered and acknowledged
before they are handled; Bull jobs that survive a restart or do not; a transfer that was mined
although the call that sent it failed; read-then-write counters; a cursor stored after the batch it
covers; TTLs in one store and none in the next. `PROJECT.json` lists each hazard at its line, with
the properties that would catch it.

## 2. What is modelled

### DPay

| Module | Models | State | Notes |
|---|---|---|---|
| `DpayTnx` | the documents | one function per field, from purchase to value | every update used by both halves |
| `DpayPayout` | success monitor, retry cron, queue, workers, chain | queue counters, a program counter, purchase and snapshot per worker and per tick, transfers mined | a step ends at each await whose effect another actor can observe |
| `DpayCheckout` | checkout request, webhooks, expiry cron, pending monitor, verify jobs; Stripe and the buyer as environment | the request's progress, the session at Stripe, the events emitted, verify jobs, age | open module: composed below |
| `DpayPipeline` | both halves in one process that restarts as one | the union | refines `DpaySale` |
| `DpaySale` | the abstract promise | charged, delivered, gifted | charges once, deliveries only to the charged, gas only behind tokens |
| `MCDpayPayout` | TLC instance of `DpayPayout` | - | symmetry of workers and ticks |
| `DpayPipeline_proofs` | theorems about `DpayPayout`, `DpayPipeline` and `DpaySale` | - | section 5 |

How the model reads the code:

* **A job's snapshot.** `processTokenTransfer` decides both legs by the document its `findOne`
  returned (`sawToken`, `sawEth`), not by what it says when the leg runs. The model drops a snapshot
  once nothing reads it any more.
* **The monitor's marks.** `monitorStripeSuccessTransactions` adds its job without awaiting it and
  only then stores `processing` for each leg; these are three actions (`MonitorAddJob`,
  `MonitorMarkToken`, `MonitorMarkEth`), and workers run in between. Its aggregate does not project
  `ethSendStatus`, so the gas leg is marked whatever it was.
* **A transfer** is mined in `TransferToken`; what the program learns of it is a later step, which
  may be that it failed (`tx.wait`, the receipt or the write threw).
* **The inner catch** of a job reads the retry count, increments it and requeues with a delay in
  three awaits; the model has `ReadRetryCount`, `CountRetry`, `Requeue` and `GiveUp`.
* **The retry cron** is two `updateMany` calls, two actions.
* **The queue** is a count of waiting and of delayed jobs per purchase. Jobs of a queue are taken in
  any order: that covers several named processors with Bull's concurrency of one each.
* **A restart** loses requests, ticks, workers and delayed jobs. `clearAllJobs` (at start) removes
  delayed jobs and active ones; Bull removes no active job whose lock still holds, and gives it back
  as stalled. So any subset of the active jobs is queued again.
* **An outage** is a call to MongoDB or Redis that throws where a `catch` stands behind it, or where
  none does (`MonitorMarkFails`, `MonitorDies`, `FailureUnwritten`, `OuterCatch`, `JobFails`).
* **Stripe.** A session is open, paid or closed. Its URL is the buyer's once the request returned.
  An event, once emitted, may be delivered any number of times, at any time, in any order.
* **Time** is an age per document: under 20 minutes, under 30, over 30. Nothing else has a clock;
  crons and delays fire at any time.

Abstracted: amounts, prices, fees, gas estimation, nonces, the charge details `syncCharges...`
stores, reports, caches and logging. An error in any of these is one of the failing steps.

### Livestream viewers

| Module | Models | State | Notes |
|---|---|---|---|
| `LiveViewers` | `handleJoinStream`, `handleLeaveStream`, `addViewer`, `removeViewer`, `getViewerCount`, `recordActivity` of one stream | viewer keys, entries and the open ones per address, the balance of JOINED and LEFT activities, the counter, `totalViews`, whether the stream is live, handlers in flight | one task per handler, one step per awaited call |
| `LiveConnections` | `handleConnection`, `handleDisconnect`, its timer, heartbeats, `cleanupStaleConnections`, `handleFinalDisconnect` | sockets, which of them have an address, pending timers, `disconnectTimers`, connection keys, session sets, handlers in flight | one task per handler |
| `MCLiveViewers`, `MCLiveConnections` | TLC instances | - | symmetry of accounts and handlers; one account for all sockets |
| `LiveViewers_proofs`, `LiveConnections_proofs` | theorems | - | section 5 |

How the two fit together. `LiveConnections` issues joins (`restoreUserSession`) and leaves
(`handleFinalDisconnect`) and deletes viewer keys (`cleanupUserSessions`); `LiveViewers` accepts
joins and leaves of every account at any time (`JoinStream`, `LeaveStream`) and lets any viewer key go
at any time (`ViewerKeyGoes`, which also stands for the TTL). What connections do to viewers is
thus a subset of what `LiveViewers` allows, and viewers do nothing to connections: no handler of a
join or leave touches a timer, a connection key or a session. So each module is checked alone, and its
properties hold of both together.

How the models read the code:

* **Redis commands** that a handler issues before its first await take effect in the step that starts
  it (`trackConnection` of a connection, `removeConnection` of a disconnect): one Redis connection
  carries all commands of the process in their order. Later ones are steps of their own.
* **`recordActivity`** records nothing unless the stream is live, and a stream goes live and off at
  any time (`StatusChanges`): the webhooks and `endStream` that set the status are the
  lifecycle's.
* **`getViewerCount`** reads the counter, or counts activities and caches the number: three
  steps, between which others increment and decrement. Where the counter was touched just
  before, the key exists and the call only reads.
* **`removeViewer`** picks any entry of the address, closed ones included (`findOne` without `leftAt`
  and without an order).
* **The map of timers** has one entry per address. An overwritten timer stays pending; a
  callback, when its clean-up is over, drops whatever entry its address has.
* **A socket** belongs to one account, which it knows from the handshake or, later, from the first
  guarded message (`Authenticate`).
* **A failure** of a handler is an exception after which its catch only logs. **A restart** ends all
  handlers, sockets and timers and leaves Redis and MongoDB as they are.

Abstracted: `peakViewers`, durations, the `viewers` and `activities` arrays, rooms, emitted events, chat
messages, and user details other than the address. Several streams do not meet, except in the
number of leaves a final disconnect makes.

### Posts and what happens to them

| Module | Models | State | Notes |
|---|---|---|---|
| `BackendIds` | the ids collections share: accounts and posts | - | extended by all below |
| `Ordered` | what MongoDB's `$sort`, `$match` and `$pull` make of a list | - | written with `CHOOSE` and cardinalities in place of `SelectSeq` and `SortSeq`, which TLAPS cannot expand |
| `TipLedger` | `requestTip`, `requestTipFunc` | balances, sent and paid tips, rewards, totals, requests | seven awaited calls, seven steps; what a failure or a missing balance document strands is `moved` |
| `PostReactions` | `requestVote`, `requestLike`, `requestReaction`, `requestComment` and their functions | votes and likes as documents, totals, one reaction's documents, comments and their `replyIds` | check, create, count and link are steps of their own |
| `ChainIndexer` | `mainLoop` and every update of `updateWalletBalanceFromTransfer`, `registerProtocolTx`, `updateStreamCollection` | the cursor, running loops, how often each update was made, owners | the chain is a constant with a block, a list and a number of updates per event; the graph's head advances; the one update of a transfer can only throw (`Throws`) |
| `PostRecords` | mint requests, `isHidden`, views, saves, reports, and the lists (`getStreamNfts`, `getAllNfts`, `getMyNfts`, saved, watched, search) | categories, posts in their order, which are minted or hidden, views, history, saves and reports | a list is an operator over the posts: clauses, order, page |
| `PostImages` | `getNftImage` with the title checks it calls | titles, requests with what they have read, two cache entries | titles change between reads; `ever` and `always` record what was held during the request |
| `UploadJobs` | queues `dm-uploads` and `transcode` | message with version and urls, jobs with the document they loaded, the video, its temp file | a save names the paths it writes and the version it asks for, as mongoose does |
| `StreamLifecycle` | `createStream`, `handleStreamStart`, `handleStreamIdle`, `endStream`, likes, gifts, messages, `recordActivity` | the stream's fields, Livepeer's stream, the activity log, handlers | a save writes back the paths its document changed |
| `Plans` | `createPlan`, `updatePlan`, publication, `createSubscription`, `webhookPlanPurchased` | plans, subscriptions, confirmations, purchase activities | a webhook may come any number of times |
| `MCContent` | the TLC instance of all these | a topic | see below |
| `Posts_proofs`, `Background_proofs`, `Media_proofs` | theorems about posts, the indexer, and livestreams with uploads; `Posts_proofs` also about `MCContent` as a whole | - | section 5 |
| `Data_proofs` | lemmas about sums, induction and ordered lists | - | section 5 |

### Accounts and conversations

| Module | Models | State | Notes |
|---|---|---|---|
| `Accounts` | logins, `updateProfile` with `isValidUsername` and the suggested names, `requestFollow`, `unfollow`, their activities | accounts, usernames, follow documents, activities, requests | an upsert without a unique index looks first and inserts later |
| `Notifications` | every kind of `createNotificationfunc`, `markAsRead` | documents with sender, others and read | one `MatchFilter` per aggregated group |
| `GroupChats` | `createAndStart`, `joinGroup`, `exitGroupUser`, `updateGroupChat` | direct chats, entries per participant, how many of them the list stored last has given (`listed`), the group's version, calls | `$push` and `$pull` neither check nor raise the version, `save` does both; a list of users is a function to how often it names each, since nothing removes repeated ones |
| `ChatBlocks` | `blockDm`, `blockGroupUser`, `unBlockDm`, `withRestrictedZone`, `sendMessage`, `deleteMessage` | report documents under their unique index, calls, messages and deliveries | the block list is read first and used at delivery |
| `ChatHistory` | `sendMessage`'s date, `deleteAllMessagesOneSide`, `conversationPipeline` | a clock, messages, deletion entries, block dates | a date is read before the call that stores it |
| `DmSessions` | connect, `sessionSet`, disconnect and `unset` of the `/dm` namespace | the socket list in Redis, sockets with the list they read | one user; the key is not shared between users |
| `DmPayments` | `addTnx`, `updateTnx` | transactions, tips, unlocked messages, answers | two writes each, in their order |
| `MCPeople` | the TLC instance of all these | a topic | see below |
| `People_proofs` | theorems about these modules and about `MCPeople` as a whole | - | section 5 |

How these models read the code:

* **A request is a program counter.** Each awaited call to MongoDB, Redis, Livepeer or the graph is a
  step; what a handler read stays in its record until nothing reads it any more. A request may fail at
  each of its calls (`TipFails`, `CallFails`, `AskFails`, ...), which ends it where it stands, since
  nothing is undone anywhere.
* **An upsert on a unique index** is one step; on a collection without one it is a look and an insert
  (`FollowMatch` and `FollowInsert`, `MatchNotice` and `InsertNotice`).
* **Ghost fields** `rival`, `late`, `stale`, `ever`, `always`, `moved`, `troubled` and
  `overlapped` record how calls overlapped, `listed` what a request asked for. No guard reads them:
  they let a property say under which overlap alone something goes wrong, which is sharper than to
  say that it may.
* **A group's users** are counted, not collected: `createGroupChat` and `updateGroupChat` turn the
  request's array into participants as it is (`dm.service.ts:183`, `:268`), so a request that lists a
  user twice enters him twice, with nobody else at work. `ChatsStaySingle` therefore asks that a
  user has no more entries than the list stored last has given him, and none besides the admin's,
  unless calls overlapped.
* **A transfer stops the indexer.** The query asks for `tokenAddress { id }` (`graphql.ts:23`), and
  the first call for a transfer stores that object in a field of type String
  (`stream-cron.service.ts:127`), which mongoose refuses to cast: the call throws, its loop ends, and the
  next one reads the same cursor. Transfers are taken first, so nothing of that block or a later
  one is applied again (`NothingPassesTransfers`), and the balances of wallets (`:135`) are never
  stored. The other properties of the indexer speak of the blocks before.
* **A process death** loses sockets (`DmSessions`) or gives jobs back to Bull (`UploadJobs`); a loop of
  the indexer that fails and one whose process dies end alike.

**One component at a time.** These modules share ids and no variable that more than one of them
writes, so a behaviour of the backend projects to a behaviour of each, and a product of their states
would show nothing that the parts do not. `MCContent` and `MCPeople` hold all of their variables and
choose at the start which component (or which group of its operations: votes, toggles, comments) runs.
Where one does read what another writes, the reader's module changes it freely (`OwnerChanges` of a
post under a tip, `ChangeTitles` under a picture) or begins with any
value of it (who holds a subscription to a group's plans).

### Slips

Definitions marked *Slip* are not reached from any specification. Each states a plausible bug of the
definition after it; substituting it makes a property of a run fail, which shows that the property
can fail at all.

## 3. Runs

`tlc -config X.cfg M`, with the modules and configurations of the table.

| Run | Module, configuration | Shows | Size |
|---|---|---|---|
| `payout_races` | `MCDpayPayout` | types; `SentMeansPaid`, `AttemptsCoverPayouts`, `SendingIsOwned`, under all races of two workers, a tick, the cron and the checkout half, with one restart or outage anywhere | 1.3 M states |
| `payout_progress` | `DpayPayout`, `DpayPayoutProgress.cfg` | `PayoutCompletes`, with the code's `MAX_RETRIES` | 0.3 M states |
| `dpay_pipeline` | `DpayPipeline` | types; `UnpaidIsUntouched`, `FailedIsCancelled`; the refinement of `DpaySale` | 2.0 M states |
| `paid_at_most_once` | `DpayPayout`, `PaidAtMostOnce.cfg` | **violated**: finding 1 | - |
| `retries_are_limited` | `DpayPayout`, `RetriesAreLimited.cfg` | **violated**: finding 2 | - |
| `live_viewers` | `MCLiveViewers` | types; `DuplicatesAreBounded`, `ViewsAreEntries`, under all races of two handlers, expiring keys and a changing status, with one failure or restart | 0.7 M states |
| `live_connections` | `MCLiveConnections` | types; `TimerEntriesAreLive`; `HeartbeatsRetrack` under fairness; failures and restarts without a bound | 35 k states |
| `content` | `MCContent` | types, fifteen other invariants and one step property of the modules around posts, each under its component's overlaps and failures | 0.6 M states |
| `people` | `MCPeople` | types, six invariants and one step property of the modules around accounts | 1.2 M states |
| `block_is_created` | `ChatBlocks`, `BlockIsCreated.cfg` | **violated**: finding 5 | - |
| `counted_once` | `LiveViewers`, `CountedOnce.cfg` | **violated**: finding 3 | - |
| `reconnect_clears_timers` | `MCLiveConnections`, `ReconnectClearsTimers.cfg` | **violated**: finding 4 | - |

**Bounds.** No action relates two purchases except the monitor's choice of the newest, so one
purchase exercises every race on a document; the proofs cover any number. Two workers are the
smallest number with which two jobs of a purchase run side by side. `MaxJobs` and `MaxAttempts` end
the loop in which the cron resets a purchase whose jobs still run: they stop the *cron* at a
purchase, not the workers, so counters go beyond them. `MaxRetries` is 1 where two
workers run (one retry and one give-up) and the code's 3 elsewhere. `MaxFaults` is 1: a restart or an
outage at any point of any behaviour. `MaxVerifyJobs` bounds the pending monitor's queue. A second purchase, tick or fault
multiplies the states beyond what a run is worth; those are what the proofs are for.

`live_viewers` has two accounts, because the counter and `totalViews` are shared and entries are not,
two handlers, and four joins and leaves: enough for two visits of one account, the second of which
overlaps the leave of the first, and for a join of the other in between. `live_connections` has
two sockets: one that drops and one that stays or comes back; `reconnect_clears_timers` needs a third.
Sockets are not used twice, so their number bounds the connections; nothing else is bounded there.

`content` and `people` have two accounts and one post or plan, because what goes wrong goes wrong between
requests on one document. Two tips of at most the deposit suffice for an overdraft; three calls for a
vote, its double and a vote of the other account, or a comment and two replies; two loops, two ticks and
three blocks for an overlap, with item pages that fill up (`ItemLimit`) and a block range
that does not reach the head (`BlockLimit`), and six events: a tip and a mint in the first
block, two sales of the token in the second, a transfer, which stops the loops, and a tip in the third; two mints for the order and the pages of a list; two files of one
message, an attempt that fails and one that does not, and one process death; three handlers of a
stream for a start, an idle and an end; three sockets of which one dies; two conversations for the index that spans them; three changes of a
group, whose lists name a user up to twice (`Repeats`), and which are symmetric (`MCPeople` permutes them and nothing else). Bounds in the instance's next-state
relation: visits, purchases, likes and gifts run on one post, plan and live stream that the
same behaviour made first (`OnePost`, `OnePlan`, `OneShow`); one user looks at
pictures (`OneViewer`) and one is blocked in a history (`OneBlocked`), since the other's part is no
different; a request for a profile names a username or changes the display name, not both
(`OneThing`); and what is arbitrary at the start is so only where its component runs (`OnlyIn`). The proofs need none of
these bounds. Both runs turn the deadlock check off: bounded sets of requests are used up.

**Fairness** (`payout_progress`). The process keeps running: weak fairness of each tick, of
the cron's two updates, of the promotion of delayed jobs, of the steps of a taken job and of an idle
worker's taking one. These are timers and an event loop, which run whatever else happens. Strong
fairness of `MonitorAddJob`: Stripe's charge API does not fail every time the monitor asks it
(when it always does, the purchase is rightly never paid out). Transfers may fail each time.

**Fairness** (`live_connections`). Weak fairness of each handler's next step: promises settle. Strong
fairness of each socket's heartbeat: a client that stays connected beats every few seconds, but in the
model it needs one of the two slots for handlers, which others may hold at any given moment. No
fairness for timers, clean-ups, expiry or restarts: the property must hold whatever they do.

## 4. Findings

1. **A purchase can be paid out twice** (`paid_at_most_once`). The processor's skip message
   (`dpay-transaction.processor.ts:153`) says that tokens already sent are not sent again. One worker and one
   tick suffice, in two ways. TLC's trace, the shortest, is the first: a transfer is mined, but
   `tx.wait`, the receipt or the write of `sent` throws, so the catch stores `failed` (`:145`); the job
   counts a retry and is queued again; the retry finds `failed` and sends once more. The second needs no
   error: the tick queues a job; the job runs to its end before the mark is stored; the mark
   `processing` replaces `sent` (`dehub-pay-monitor.ts:114`); the cron resets it; the next tick queues
   a second job, which sends again.
2. **The retry limit does not limit attempts** (`retries_are_limited`). The schema's comment and
   `MAX_RETRIES` promise a first attempt and three retries. The cron resets `processing` while the
   purchase's job is still queued, which costs no retry, and each new job is an attempt.

3. **The first viewer of a live stream is counted twice** (`counted_once`). `addViewer` records the
   JOINED activity, asks `getViewerCount` for the peak, which finds no counter, counts the
   activities, the new one included, and caches the 1; then the increment makes it 2. The comment
   (`livestream.service.ts:350`) says that the counter is updated once per active join.
4. **A reconnect leaves timers behind** (`reconnect_clears_timers`). The comment
   (`chat.gateway.ts:90`) says that a connection clears any pending disconnect timer. Two sockets of
   an account that drop within the timeout overwrite each other's entry; the connection clears the
   last one only, the other fires and makes the account leave its streams and lose its sessions
   while it is connected. `isUserStillConnected` (`:330`) would tell, but nothing calls it.

5. **A second group cannot be blocked** (`block_is_created`). A user who blocks a group inserts a report with
   `reportedBy` and without `reportedUser`. The unique index (`models/user-report.ts:86`) is on reporter,
   reported user and action, not on the conversation: the second conversation he blocks meets the
   first's key, and the upsert throws where the comment (`dm.service.ts:570`) says that a document
   is created.

Seen while reading, without a run:

*DPay and viewers.* `sending` is not in the schema's enum (an `updateOne` does not
validate it) and in no query, so a purchase whose job dies in it stays there; a verify job fails a
purchase after 20 minutes although the session is payable for 30, and a payment in between leaves a
paid purchase with `cancelled` tokens; a late `payment_failed` event overwrites `succeeded`; the refund handler
builds a query it never executes; the aggregate of the monitor reads `ethSendStatus` without having
projected it; `removeViewer` may close an entry that was closed before, so that the open one stays and the
counter falls below the entries; a leave more than 60 seconds after the last heartbeat finds no viewer
key and is skipped; `getStreamsByViewer` finds only live streams, so entries of an ended
stream stay open.

*Chain and tips.* The query asks for the first 500 items of each list (`graphql.ts:18`, `:52`), so
`length <= itemLimitsForFetching` always holds (`stream-cron.service.ts:89`, `:102`) and a cut page, too,
moves the cursor to the end of the range: what lies beyond the page is never fetched, and the
branch "limited with 500 options" never taken. `NothingLost` has these events as its exception. The
cursor of the protocol transactions is stored and never read. mongoose 8 answers an `updateOne` with `upsertedCount`, so the test of `upserted`
(`isInserted`, `stream-cron.service.ts:168`) never lets a bounty event decrement `lockedBounty`; an upsert of a TIP
for a token of another minter meets the unique `tokenId` index and throws in every later loop;
a transfer stores an object `tokenAddress` as a string (`:127`), which throws and stops the indexer
(`NothingPassesTransfers`), and would compare it to one (`:133`). A tip that was refused tells
the owner "just tipped you" all the same; an owner without a balance document is not credited.

*Livestreams.* `endStream` never records END, leaves `isActive` true and Livepeer's stream in place; an
idle webhook of a stream that Livepeer no longer has throws; `recordActivity` throws for an
address without an account, which leaves a stream LIVE after Livepeer's was deleted.

*Plans.* Nothing resets `active` after the end date, so an expired subscriber is refused a renewal
while the gates compare dates; `isSuccess === false` does not meet the string 'false'; `updatePlan`
replaces the published chains.

*Uploads.* The comment "maintain Bull retry behavior" (`job.processor.ts:185`) stands in a catch
that removes the temp file which a retry needs; a job that runs again after 'done' turns the video to
'failed'; a message whose files all have a wrong type stays 'pending'.

*Accounts.* `requestFollow` reads `upserted`, which mongoose 8 does not answer: a repeated follow is not
refused and tells again; `updateProfile` names `customs` in `$set` and in `$setOnInsert`, which MongoDB
refuses; the notifications' "and n others" counts documents, not senders; the comment "ensures no race
duplicates" (`notification.service.ts:108`) would need a unique index.

*Messages.* A list takes the oldest twenty messages (`pipline.ts:172`, a negative slice after a
newest-first sort) where the comment (`:158`) says the last ones; any caller of `updateGroupChat` becomes
the group's only admin; a user listed twice by `createGroupChat` or `updateGroupChat` is entered twice; `exitGroupUser` may remove the last admin; `blockDm` of a direct chat without
messages fails on the last message's id; `updateTnx` unlocks whatever the status it is given;
`isAllowChat` is neither awaited nor given an id; `deleteAllMessage` has no route.

*Feeds.* Watched posts without a category filter ask for category null and find none; pages overlap,
since the limit grows with the page; a list of ids replaces every other clause, "minted" and "visible"
among them; pictures of videos are never blurred; the guard stores `rawSig` where the picture reads
`sig`; `distinct` drops the order of eligible bounties.

## 5. Proofs

`tlapm X_proofs.tla` checks a module. The theorems about DPay hold for any
number of purchases, workers, ticks and verifiers, any `MaxRetries`, any bounds and any
number of faults. Assumptions: purchases are numbered, the sets of workers and ticks are
finite, the idle markers are not purchases, and the payment states offered to the payout half
include all that the checkout half stores. Those about livestreams hold for any number of
accounts, sockets, handlers, requests and faults; accounts and slots for handlers are finite sets in
`LiveViewers`, and every socket has one owner in `LiveConnections`. Those about posts and people hold
for any number of accounts, posts, requests, loops, events and sockets, with the assumptions that the
modules state: sets of requests are finite, `None` is nobody's id, blocks are natural numbers.

Every invariant and every step property of the passing runs is proved. Where a run checks an instance that
holds several components (`MCContent`, `MCPeople`), the theorems come in three layers: a component's
own specification implies its properties; the instance's specification implies that of each
component (`ContentProject`, `PeopleProject`: the variables of a component change only by its own
actions, and the instance's restrictions only take steps away); so the instance has all of them
(`ContentTyped`, `ContentIsSafe`, `PeopleTyped`, `PeopleAreSafe`).

| Theorem | Says | Argument |
|---|---|---|
| `TypesHold` | `TypeOK` | inductive; a worker or tick is idle exactly when it has no purchase, which later steps need |
| `SentMeansPaidHolds` | a document says `sent` only with a mined transfer | `SentMeansPaid` is not inductive: a worker may hold the knowledge while the document says otherwise. `PaidKnowledge` adds every place where it lives: snapshots, ticks, and workers past their transfer |
| `GasFollowsTokensHolds` | gas only behind tokens | same invariant: a worker in its gas leg knows the tokens left |
| `SendingIsOwnedHolds` | without faults, `sending` has a worker behind it | inductive with the types; each write of `sending` is a worker's own, each exit from the transfer overwrites it |
| `AttemptsCoverPayoutsHolds` | transfers, mined or still possible, never exceed `attemptCount` | cardinality of the set of workers about to send: starting adds one worker and one attempt, mining moves one from the set to the chain |
| `PipelineTypesHold` | both halves keep their types | the halves' lemmas, lifted |
| `PipelineImplementsPayout` | `DpayPipeline` implements `DpayPayout` | each checkout step is one of `CheckoutSide` or a stutter; so the theorems above hold of the whole |
| `UnpaidIsUntouchedHolds` | the payout half leaves alone whom Stripe did not charge | `PaidDescent` traces a payout back: worker, job, tick, `succeeded`, event, paid session |
| `FailedIsCancelledHolds` | `failed` never meets `not_sent` | inductive: the only write of `not_sent` is guarded by a settled payment |
| `PipelineKeepsSale` | the pipeline implements `DpaySale` | step by step, from `PaidDescent` and `PaidKnowledge` |
| `LiveViewers`: `TypesHold` | `TypeOK` | inductive; a handler that runs has an account |
| `DuplicatesAreBoundedHolds` | open entries of an account never outnumber the handlers in flight | the open entries and the joins between look-up and creation are counted together: a join gets past the look-up only when there are no open entries, and creating moves it from the one set to the other |
| `ViewsAreEntriesHolds` | `totalViews` never exceeds the entries | `ViewsFit` bounds also the totals that joins have read and not saved yet, by one less once they created their entry; entries never go away |
| `LiveConnections`: `TypesHold` | `TypeOK` | inductive; a handler that runs has a socket |
| `TimerEntriesAreLiveHolds` | an entry of `disconnectTimers` refers to a pending or running timer | needs that entries are filed under their socket's owner, so that dropping one by address drops no other's, and that a callback runs nothing but the final disconnect, so that it cannot end without dropping (`TimerInv`) |
| **`Posts_proofs`** | | |
| `TipTypesHold` | `TipTypeOK` | inductive; a tip on its way has sender, post and payee |
| `OverdraftsOverlap` | an overdraft takes overlapping tips | `Covered`: as long as a sender has no rival on record, at most one of his tips stands between check and debit, and his balance covers it |
| `TipsStayConserved` | balances and what is on its way add up to the deposits; totals, rewards and payments stay within what was sent | `Booked` adds to each account of the books what the tips between two of its calls are still going to enter, so that every call moves an amount from one sum to another; `OnItsWay` says what a tip has on the way at each call |
| `PlansTyped` | `PlanTypeOK`: a subscription refers to a plan that exists | `PlansAreThere`: a plan that was saved stays saved |
| `SecondActives` | two active subscriptions: the second was asked for early | `TwinsAreLate` takes in pending subscriptions too, because an activation looks at no other |
| `PurchasesCountOnce` | a purchase is recorded once unless its webhooks overlapped | `Recorded` adds the confirmations that have found it inactive and not recorded it |
| `RepliesExist` | replies that are listed exist and name their parent | inductive over creation before linking |
| `MarksAlwaysAddUp` | totals lie between the marks counted and the marks not waiting to be | cardinalities: creating moves a call into the set of those about to count, counting takes it out; and `Overlaps` for double marks |
| `ReactTypesHold` | `ReactTypeOK` | inductive; what `$push` and `$pull` leave is a list of accounts (`ThoseList`) |
| `ReactionsCount` | one reaction document, whose value is the number of its addresses | `Kept`: while no requests overlap one at most is under way, and what it is going to do fits the document (it pulls an address that is there, pushes one that is not); an append adds one item, a pull of an item that occurs once takes one away (`AppendOne`, `ThoseButOne`) |
| `ImagesTyped`, `RecordsTyped` | types; posts are listed once | inductive |
| `FeedsAlwaysShowVisible` | lists show minted and visible posts, and pages leave none out | a list is in the order of its sort (`InOrderLists`), has the items its clauses let pass (`ThoseList`), and the slices of a list cover it (`PagesCover`) |
| `VisitsAlwaysAddUp` | views follow the history; saves and reports toggle | `ViewsSaved` ties every entry of the history to its request, `ViewsTotalled` counts entries on both sides of the total, `FirstViewsOverlap` takes in first views that have not written yet; `Toggled` and `Reported` say what a request under way has found, and that the number of saves kept is the parity of those done |
| `ImagesFollowTitles` | pictures follow the titles held | `LooksOK`: what was read was held at some moment since the start, what is still held all along has not been read as missing, and the cache keeps originals and blurred ones apart |
| **`Background_proofs`** | | |
| `IndexTypesHold` | types | inductive |
| `NoEventIsLost` | the cursor passes only what was applied or is recorded as left out | `LosesNothing`: an event of a running loop's range is applied, recorded, to be applied or beyond the fetched part |
| `ReplaysNeedTrouble` | no update twice without trouble | `RangesAlone` (one loop, whose range starts after the cursor) and `Once`: nothing beyond the cursor was applied but by the loop that runs |
| `OwnersAreLatest` | owners follow the latest transfers | `OwnersFollow` splits a token's events by the cursor and by what the loop has done |
| `TransfersStopTheIndexer` | the cursor never reaches the block of a transfer, and nothing from that block on is applied | `TransfersHold`: a loop whose range reaches the block of a transfer has a transfer among what it is to do, because a cut page of transfers is a full one, and has begun nothing, because transfers come first and cannot end |
| **`Media_proofs`** | | |
| `LiveAtLivepeer` | a stream that Livepeer has deleted is not shown live when all is over | `InStep`: as long as nothing was late, overlapping or failed, one webhook or end is at work, a start not stored yet has its stream at Livepeer, and who deleted a stream there is on the way to end it here |
| `UploadsAreKept` | files that were uploaded are listed, and more than once only for a failure or a death | `Listed` counts a file's places against tries, deaths and the job's own save; `SeesRight`: a version that is still the message's has the message's list, so a save drops no other's file |
| `LifeTyped`, `JobTyped` | types; listed entries exist; no job has seen a later version than the message has | `LifeRest`; `JobShape`: a job that is not dead has an attempt left, which bounds its tries |
| `VideosStayDone` | a video that is done stays so while no process dies | `Finished`: then its job is past everything that fails |
| **`People_proofs`** | | |
| `SessionsKnowSockets` | the session lists the connected sockets | `OneWriter`: without overlaps, who is between GET and SET is alone and has read the present list |
| `OpenedThroughDeals` | nothing opens before its transaction | `Answered` says what each step of an answer has already written |
| `ChatsAreSingle` | one chat per pair; no more entries of a participant than one list has given him, for any lists | `OneOpens` and `EntriesStaySingle` also bind calls that have read and not written |
| `UnreadStaysSingle` | one unread notification per group | `Notified` relates each upsert that matched nothing to the documents of its group |
| `NamesAreShared` | a username is shared after overlapping requests only | `HeldIsFree` and `HeldOnce`: the name that a request is about to write is nobody's and no other request's, unless a rival is on record |
| `ClearedAlwaysStaysCleared` | one deletion entry per user; what was deleted before a call is in no later list | `Cleared`: while no two calls of a user overlap, his entry is dated no earlier than the start of any call that ended, and a call under way will write no earlier date; the list starts after that date, and its slice lists nothing else |
| `HistoryTyped`, `SessionTyped`, `PayTyped`, `ChatTyped`, `NoticeTyped`, `BlockTyped`, `AccountTyped` | types, and that what an id refers to exists | inductive, with what a call under way holds (`NoListHeld`, `BlockRest`, `AccountRest`) |
| `DeliveriesAreSpared` | no delivery passes a block that was there | `Accounted`: whoever an open report holds back is spared by a message on its way or became stale since |

| **The instances** | | |
| `ContentProject`, `PeopleProject` | the instance behaves as each of its components | by cases of its next-state relation; each alternative is a step of one component and leaves the others' variables alone |
| `ContentTyped`, `PeopleTyped` | `ContentTypesOK`, `PeopleTypesOK` | the components' type theorems |
| `ContentIsSafe`, `PeopleAreSafe` | every other property of the two runs | the components' theorems |

**Data.** Sums, parities and lists need induction, and the library states induction with an operator
as a parameter. `Data_proofs` states it as a fact about sets instead: a set of naturals that has 0 and
the successor of each of its members is all of them (`NatsByInduction`), and likewise for the
subsets of a finite set (`SubsetsByInduction`); each follows from a least counterexample. With it the sum
of a function exists, is a number, and changes by what one argument changes (`SumsExist`,
`SumChange`), and a set that a total order orders is a list of its members in that order, each once
(`InOrderLists`). `Ordered` defines lists so that these lemmas apply: by the number of members before an
item, not by a recursive definition.

**Only model-checked:** `PayoutCompletes` and `HeartbeatsRetrack` (liveness, which is out of the
prover's reach), and the five violations, which are counterexamples and need no proof.

## 6. What is not modelled

* **I/O and pass-through**: local media servers, CDN, assets, logs, the crypto payment service,
  the media transcoding itself. They keep no state that another part reads.
* **Single queries and single inserts**: the leaderboard, searches other than of videos, statistics,
  exports. A query over one snapshot has no interleaving, and what it computes is MongoDB's.
* **Code that does not run**: `NftIndexer`, `WatchCronService` and `PlanEventListenerService` are not
  registered in any module; `services/*.js` require modules that are not in the repository;
  `deletePlan` and `deleteAllMessage` have no route.
* **Amounts, prices, dates**: amounts appear where a property compares them (tips), dates where a
  list is cut by them (history). Subscription periods, exchange rates, gas and decimals are left out;
  nothing but their comparison reaches the states that the properties are about.
* **Request validation and authentication**: limits, signatures and tokens are pure functions of a
  request. A model starts where a request has passed them; a refused request changes nothing.
* **Partly modelled components**: their notes in `PROJECT.json` name the operations left out, which
  edit one field of one document (titles, icons, settings) or read only.
* **Liveness of requests**: a request that fails stays failed and nothing retries it, so there is nothing that must eventually happen, except where Bull retries (DPay's payout has that property; an upload gives up after its attempts) and where cron does (the indexer's loop meets the
  transfer that threw for ever: `NothingPassesTransfers` says that the cursor does not advance).
