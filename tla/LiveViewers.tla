------------------------------ MODULE LiveViewers ------------------------------
(***************************************************************************)
(* Who watches a livestream: handleJoinStream and handleLeaveStream of     *)
(* chat.gateway.ts with the viewer keys of connection.service.ts and the   *)
(* viewer entries, activities and counters of livestream.service.ts, for   *)
(* one stream.                                                             *)
(*                                                                         *)
(* Handlers run side by side; each is a task that goes from one awaited    *)
(* call to the next.  Joins and leaves come from clients, from             *)
(* restoreUserSession and from handleFinalDisconnect, in any order: who    *)
(* asks is the business of LiveConnections.                                *)
(* The definitions marked Slip are not part of the specification: each is  *)
(* a plausible bug that some property below excludes.                      *)
(***************************************************************************)
EXTENDS Integers, FiniteSets

CONSTANTS
  Addresses,    \* the accounts
  Tasks,        \* bound: handlers in flight
  NoAddress,    \* what an idle task works for
  MaxRequests,  \* bound: joins and leaves
  MaxFaults     \* bound: failing handlers and restarts

ASSUME FiniteAssumption == IsFiniteSet(Addresses) /\ IsFiniteSet(Tasks)
ASSUME NoAddressAssumption == NoAddress \notin Addresses
ASSUME BoundsAssumption == MaxRequests \in Nat /\ MaxFaults \in Nat

VARIABLES
  viewerKeys,  \* the addresses with a key stream:viewer:<stream>:<address>
  entries,     \* how many viewer entries were created for each address
  open,        \* those of them without leftAt
  balance,     \* JOINED activities minus LEFT activities
  counted,     \* whether the key stream:<stream>:viewers exists
  counter,     \* its value, 0 while it does not exist
  totalViews,  \* totalViews of the stream
  live,        \* the stream's status is LIVE
  task,        \* the handlers in flight
  requests,    \* history: joins and leaves so far
  faults       \* history: failing handlers and restarts so far

entryVars == <<entries, open>>
counterVars == <<counted, counter>>
vars == <<viewerKeys, entryVars, balance, counterVars, totalViews, live, task, requests, faults>>

TaskPc ==
  {"idle", "joinCheck", "trackViewer", "findStream", "findEntry", "create", "recordJoined",
   "peak", "peakDb", "peakCache", "save", "incr", "leaveCheck", "untrackViewer", "findAny",
   "close", "decr", "recordLeft", "emit", "emitDb", "emitCache"}

\* views: totalViews as the join read it; count: what a count will be cached as; entry: the
\* entry a leave found.
Handler(pc, a) == [pc |-> pc, addr |-> a, views |-> 0, count |-> 0, entry |-> 0]

Idle == Handler("idle", NoAddress)

Task ==
  [pc : TaskPc, addr : Addresses \union {NoAddress}, views : Nat, count : Int, entry : Nat]

TypeOK ==
  /\ viewerKeys \in SUBSET Addresses
  /\ entries \in [Addresses -> Nat]
  /\ open \in [Addresses -> SUBSET Nat]
  /\ \A a \in Addresses : open[a] \subseteq 1..entries[a]
  /\ balance \in Int
  /\ counted \in BOOLEAN
  /\ counter \in Int
  /\ totalViews \in Nat
  /\ live \in BOOLEAN
  /\ task \in [Tasks -> Task]
  /\ \A t \in Tasks : task[t].pc # "idle" => task[t].addr \in Addresses
  /\ requests \in Nat
  /\ faults \in Nat

Init ==
  /\ viewerKeys = {}
  /\ entries = [a \in Addresses |-> 0]
  /\ open = [a \in Addresses |-> {}]
  /\ balance = 0
  /\ counted = FALSE
  /\ counter = 0
  /\ totalViews = 0
  /\ live = FALSE
  /\ task = [t \in Tasks |-> Idle]
  /\ requests = 0
  /\ faults = 0

At(t, pc) == task[t].pc = pc

Of(t) == task[t].addr

Become(t, r) == task' = [task EXCEPT ![t] = r]

Goto(t, pc) == Become(t, [task[t] EXCEPT !.pc = pc])

End(t) == Become(t, Idle)

\* Slip: the handler does not return when the socket has no address.
RequestAnonymous(a, t, pc) ==
  /\ At(t, "idle")
  /\ requests < MaxRequests
  /\ requests' = requests + 1
  /\ Become(t, Handler(pc, NoAddress))
  /\ UNCHANGED <<viewerKeys, entryVars, balance, counterVars, totalViews, live, faults>>

\* A handler starts.
Request(a, t, pc) ==
  /\ At(t, "idle")
  /\ requests < MaxRequests
  /\ requests' = requests + 1
  /\ Become(t, Handler(pc, a))
  /\ UNCHANGED <<viewerKeys, entryVars, balance, counterVars, totalViews, live, faults>>

\* What a step that only reads leaves alone.
ReadOnly ==
  UNCHANGED <<viewerKeys, entryVars, balance, counterVars, totalViews, live, requests, faults>>

-----------------------------------------------------------------------------
(***************************************************************************)
(* handleJoinStream and addViewer.                                         *)
(***************************************************************************)

JoinStream(a, t) == Request(a, t, "joinCheck")

\* isViewerActive: who is active only joins the socket room.
JoinCheck(t) ==
  /\ At(t, "joinCheck")
  /\ IF Of(t) \in viewerKeys THEN End(t) ELSE Goto(t, "trackViewer")
  /\ ReadOnly

TrackViewer(t) ==
  /\ At(t, "trackViewer")
  /\ viewerKeys' = viewerKeys \union {Of(t)}
  /\ Goto(t, "findStream")
  /\ UNCHANGED <<entryVars, balance, counterVars, totalViews, live, requests, faults>>

\* The document whose totalViews the join will count up and save.
FindStream(t) ==
  /\ At(t, "findStream")
  /\ Become(t, [task[t] EXCEPT !.pc = "findEntry", !.views = totalViews])
  /\ ReadOnly

\* Slip: the entry that exists is not looked for.
FindNoEntry(t) ==
  /\ At(t, "findEntry")
  /\ Goto(t, "create")
  /\ ReadOnly

\* Slip: a join that finds its entry counts as a view all the same.
FindEntryCounted(t) ==
  /\ At(t, "findEntry")
  /\ IF open[Of(t)] # {} THEN Goto(t, "peak") ELSE Goto(t, "create")
  /\ ReadOnly

FindEntry(t) ==
  /\ At(t, "findEntry")
  /\ IF open[Of(t)] # {} THEN Goto(t, "emit") ELSE Goto(t, "create")
  /\ ReadOnly

CreateEntry(t) ==
  /\ At(t, "create")
  /\ entries' = [entries EXCEPT ![Of(t)] = @ + 1]
  /\ open' = [open EXCEPT ![Of(t)] = @ \union {entries[Of(t)] + 1}]
  /\ Goto(t, "recordJoined")
  /\ UNCHANGED <<viewerKeys, balance, counterVars, totalViews, live, requests, faults>>

\* recordActivity records nothing unless the stream is live.
RecordJoined(t) ==
  /\ At(t, "recordJoined")
  /\ balance' = IF live THEN balance + 1 ELSE balance
  /\ Goto(t, "peak")
  /\ UNCHANGED <<viewerKeys, entryVars, counterVars, totalViews, live, requests, faults>>

\* stream.save stores what the join modified of the document it read: totalViews, and
\* peakViewers, which is left out.
SaveStream(t) ==
  /\ At(t, "save")
  /\ totalViews' = task[t].views + 1
  /\ Become(t, [task[t] EXCEPT !.pc = "incr", !.views = 0])
  /\ UNCHANGED <<viewerKeys, entryVars, balance, counterVars, live, requests, faults>>

\* The count emitted after it only reads: from here on the key exists.
IncrCounter(t) ==
  /\ At(t, "incr")
  /\ counted' = TRUE
  /\ counter' = counter + 1
  /\ End(t)
  /\ UNCHANGED <<viewerKeys, entryVars, balance, totalViews, live, requests, faults>>

-----------------------------------------------------------------------------
(***************************************************************************)
(* getViewerCount, for the peak of a join ("peak") and for the update at   *)
(* the end of a join or a leave that touched no counter ("emit").          *)
(***************************************************************************)

GetCount(t, pc, db) ==
  /\ At(t, pc) /\ ~counted
  /\ Goto(t, db)
  /\ ReadOnly

\* The two countDocuments are one step.
CountActivities(t, db, cache) ==
  /\ At(t, db)
  /\ Become(t, [task[t] EXCEPT !.pc = cache, !.count = balance])
  /\ ReadOnly

CacheCount(t) ==
  /\ counted' = TRUE
  /\ counter' = task[t].count
  /\ UNCHANGED <<viewerKeys, entryVars, balance, totalViews, live, requests, faults>>

PeakKnown(t) ==
  /\ At(t, "peak") /\ counted
  /\ Goto(t, "save")
  /\ ReadOnly

PeakCached(t) ==
  /\ At(t, "peakCache")
  /\ Become(t, [task[t] EXCEPT !.pc = "save", !.count = 0])
  /\ CacheCount(t)

EmitKnown(t) ==
  /\ At(t, "emit") /\ counted
  /\ End(t)
  /\ ReadOnly

EmitCached(t) ==
  /\ At(t, "emitCache")
  /\ End(t)
  /\ CacheCount(t)

-----------------------------------------------------------------------------
(***************************************************************************)
(* handleLeaveStream and removeViewer.                                     *)
(***************************************************************************)

LeaveStream(a, t) == Request(a, t, "leaveCheck")

LeaveCheck(t) ==
  /\ At(t, "leaveCheck")
  /\ IF Of(t) \in viewerKeys THEN Goto(t, "untrackViewer") ELSE End(t)
  /\ ReadOnly

UntrackViewer(t) ==
  /\ At(t, "untrackViewer")
  /\ viewerKeys' = viewerKeys \ {Of(t)}
  /\ Goto(t, "findAny")
  /\ UNCHANGED <<entryVars, balance, counterVars, totalViews, live, requests, faults>>

\* findOne with no regard to leftAt and no order: any entry of the address.
FindAnyEntry(t) ==
  /\ At(t, "findAny")
  /\ \E i \in 1..entries[Of(t)] : Become(t, [task[t] EXCEPT !.pc = "close", !.entry = i])
  /\ ReadOnly

FindsNoEntry(t) ==
  /\ At(t, "findAny")
  /\ entries[Of(t)] = 0
  /\ Goto(t, "emit")
  /\ ReadOnly

CloseEntry(t) ==
  /\ At(t, "close")
  /\ open' = [open EXCEPT ![Of(t)] = @ \ {task[t].entry}]
  /\ Become(t, [task[t] EXCEPT !.pc = "decr", !.entry = 0])
  /\ UNCHANGED <<viewerKeys, entries, balance, counterVars, totalViews, live, requests, faults>>

DecrCounter(t) ==
  /\ At(t, "decr")
  /\ counted' = TRUE
  /\ counter' = counter - 1
  /\ Goto(t, "recordLeft")
  /\ UNCHANGED <<viewerKeys, entryVars, balance, totalViews, live, requests, faults>>

\* The count emitted after it only reads.
RecordLeft(t) ==
  /\ At(t, "recordLeft")
  /\ balance' = IF live THEN balance - 1 ELSE balance
  /\ End(t)
  /\ UNCHANGED <<viewerKeys, entryVars, counterVars, totalViews, live, requests, faults>>

-----------------------------------------------------------------------------
(***************************************************************************)
(* The environment.                                                        *)
(***************************************************************************)

\* The key's 60 seconds are over, or cleanupUserSessions removed it.
ViewerKeyGoes(a) ==
  /\ a \in viewerKeys
  /\ viewerKeys' = viewerKeys \ {a}
  /\ UNCHANGED <<entryVars, balance, counterVars, totalViews, live, task, requests, faults>>

\* handleStreamStart, handleStreamIdle and endStream, as far as viewers can tell.
StatusChanges ==
  /\ live' = ~live
  /\ UNCHANGED <<viewerKeys, entryVars, balance, counterVars, totalViews, task, requests, faults>>

Fault ==
  /\ faults < MaxFaults
  /\ faults' = faults + 1
  /\ UNCHANGED <<viewerKeys, entryVars, balance, counterVars, totalViews, live, requests>>

\* A call throws (the stream is deleted, the account is unknown, a database is away): the
\* handler's catch undoes nothing.
HandlerFails(t) ==
  /\ ~At(t, "idle")
  /\ End(t)
  /\ Fault

\* Redis and MongoDB stay.
Restart ==
  /\ task' = [t \in Tasks |-> Idle]
  /\ Fault

JoinStep(t) ==
  \/ JoinCheck(t)
  \/ TrackViewer(t)
  \/ FindStream(t)
  \/ FindEntry(t)
  \/ CreateEntry(t)
  \/ RecordJoined(t)
  \/ SaveStream(t)
  \/ IncrCounter(t)

LeaveStep(t) ==
  \/ LeaveCheck(t)
  \/ UntrackViewer(t)
  \/ FindAnyEntry(t)
  \/ FindsNoEntry(t)
  \/ CloseEntry(t)
  \/ DecrCounter(t)
  \/ RecordLeft(t)

CountStep(t) ==
  \/ GetCount(t, "peak", "peakDb")
  \/ GetCount(t, "emit", "emitDb")
  \/ CountActivities(t, "peakDb", "peakCache")
  \/ CountActivities(t, "emitDb", "emitCache")
  \/ PeakKnown(t)
  \/ PeakCached(t)
  \/ EmitKnown(t)
  \/ EmitCached(t)

Next ==
  \/ \E a \in Addresses, t \in Tasks : JoinStream(a, t) \/ LeaveStream(a, t)
  \/ \E t \in Tasks : JoinStep(t) \/ LeaveStep(t) \/ CountStep(t) \/ HandlerFails(t)
  \/ \E a \in Addresses : ViewerKeyGoes(a)
  \/ StatusChanges
  \/ Restart

Spec == Init /\ [][Next]_vars

-----------------------------------------------------------------------------
(***************************************************************************)
(* Properties.                                                             *)
(***************************************************************************)

\* The joins that found no open entry of a and have not created theirs yet.
Creating(a) == {t \in Tasks : At(t, "create") /\ Of(t) = a}

\* "avoid duplicate active viewer entries" (livestream.service.ts:313): the look-up and the
\* creation are two calls, so joins in flight may each create one, but duplicates never
\* pile up: an address has at most as many open entries as handlers were in flight,
\* however many joins, expiries, clean-ups and restarts there were.
DuplicatesAreBounded ==
  \A a \in Addresses : Cardinality(open[a]) + Cardinality(Creating(a)) <= Cardinality(Tasks)

\* The viewer entries of all addresses, and those without leftAt.
AllEntries == UNION {{a} \X (1..entries[a]) : a \in Addresses}
OpenEntries == UNION {{a} \X open[a] : a \in Addresses}

\* totalViews never exceeds the viewer entries: joins save a document they read several
\* calls earlier, so concurrent joins may lose views, but no join ever invents one.
ViewsAreEntries == totalViews <= Cardinality(AllEntries)

\* "Update Redis viewer count only on first active join" (livestream.service.ts:350): when
\* no handler is in flight, the counter is the number of open entries.
CountedOnce ==
  counted /\ (\A t \in Tasks : At(t, "idle")) => counter = Cardinality(OpenEntries)
=============================================================================
