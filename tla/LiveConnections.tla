---------------------------- MODULE LiveConnections ----------------------------
(***************************************************************************)
(* The life of a livestream socket: handleConnection, handleDisconnect,    *)
(* its timer, heartbeats and cleanupStaleConnections of chat.gateway.ts,   *)
(* over the Redis keys of connection.service.ts.                           *)
(*                                                                         *)
(* Handlers are tasks, as in LiveViewers.  A call to Redis that a handler  *)
(* issues before its first await takes effect in the step that starts it,  *)
(* as one connection carries all commands in order.  The joins and leaves  *)
(* that restoreUserSession and handleFinalDisconnect ask for touch nothing *)
(* here: they are requests of LiveViewers.                                 *)
(* The definitions marked Slip are not part of the specification: each is  *)
(* a plausible bug that some property below excludes.                      *)
(***************************************************************************)
EXTENDS FiniteSets

CONSTANTS
  Addresses,  \* the accounts
  Sockets,    \* every socket that will ever connect; ids are not reused
  Owner,      \* the account of each socket
  Tasks,      \* bound: handlers in flight
  NoSock      \* no socket

ASSUME OwnerAssumption == Owner \in [Sockets -> Addresses]
ASSUME NoSockAssumption == NoSock \notin Sockets

VARIABLES
  sock,      \* where each socket is in its life
  known,     \* the sockets whose client.data.user has an address
  timers,    \* the sockets whose disconnect timer is pending
  timerOf,   \* disconnectTimers: the timer each address's entry refers to
  connKeys,  \* the sockets with a key ws:connection:<socket>
  sessions,  \* the set ws:user:<address> of each address
  task       \* the handlers in flight

socketVars == <<sock, known>>
timerVars == <<timers, timerOf>>
connVars == <<connKeys, sessions>>
vars == <<socketVars, timerVars, connVars, task>>

\* sess: the sessions a clean-up listed.
Idle == [pc |-> "idle", job |-> "none", sock |-> NoSock, sess |-> {}]

Task ==
  [pc : {"idle", "clearTimer", "restore", "beat", "retrack", "leave", "list", "wipe"},
   job : {"none", "connect", "heartbeat", "timer", "stale"},
   sock : Sockets \union {NoSock},
   sess : SUBSET Sockets]

TypeOK ==
  /\ sock \in [Sockets -> {"new", "connected", "gone"}]
  /\ known \in SUBSET Sockets
  /\ timers \in SUBSET Sockets
  /\ timerOf \in [Addresses -> Sockets \union {NoSock}]
  /\ connKeys \in SUBSET Sockets
  /\ sessions \in [Addresses -> SUBSET Sockets]
  /\ task \in [Tasks -> Task]
  /\ \A t \in Tasks : task[t].pc # "idle" => task[t].sock \in Sockets

Init ==
  /\ sock = [c \in Sockets |-> "new"]
  /\ known = {}
  /\ timers = {}
  /\ timerOf = [a \in Addresses |-> NoSock]
  /\ connKeys = {}
  /\ sessions = [a \in Addresses |-> {}]
  /\ task = [t \in Tasks |-> Idle]

-----------------------------------------------------------------------------

At(t, pc) == task[t].pc = pc

Of(t) == Owner[task[t].sock]

Goto(t, pc) == task' = [task EXCEPT ![t].pc = pc]

End(t) == task' = [task EXCEPT ![t] = Idle]

\* Slip: the handler runs on when its socket is gone.
StartDetached(t, c, job, pc) ==
  /\ At(t, "idle")
  /\ task' = [task EXCEPT ![t] = [Idle EXCEPT !.pc = pc, !.job = job]]

Start(t, c, job, pc) ==
  /\ At(t, "idle")
  /\ task' = [task EXCEPT ![t] = [Idle EXCEPT !.pc = pc, !.job = job, !.sock = c]]

\* The client is on the server, under its address.
Present(c) == sock[c] = "connected" /\ c \in known

\* trackConnection: one MULTI.
Track(c) ==
  /\ connKeys' = connKeys \union {c}
  /\ sessions' = [sessions EXCEPT ![Owner[c]] = @ \union {c}]

-----------------------------------------------------------------------------
(***************************************************************************)
(* Connections.                                                            *)
(***************************************************************************)

ConnectAnonymous(c) ==
  /\ sock[c] = "new"
  /\ sock' = [sock EXCEPT ![c] = "connected"]
  /\ UNCHANGED <<known, timerVars, connVars, task>>

Connect(c, t) ==
  /\ sock[c] = "new"
  /\ sock' = [sock EXCEPT ![c] = "connected"]
  /\ known' = known \union {c}
  /\ Track(c)
  /\ Start(t, c, "connect", "clearTimer")
  /\ UNCHANGED timerVars

\* WsAuthGuard, before the first guarded message of an anonymous socket.
Authenticate(c) ==
  /\ sock[c] = "connected"
  /\ known' = known \union {c}
  /\ UNCHANGED <<sock, timerVars, connVars, task>>

\* Clears the one timer that the address's entry refers to.
ClearTimer(t) ==
  /\ At(t, "clearTimer")
  /\ timers' = timers \ {timerOf[Of(t)]}
  /\ timerOf' = [timerOf EXCEPT ![Of(t)] = NoSock]
  /\ Goto(t, "restore")
  /\ UNCHANGED <<socketVars, connVars>>

\* restoreUserSession: reads, socket rooms and joins.
RestoreUserSession(t) ==
  /\ At(t, "restore")
  /\ End(t)
  /\ UNCHANGED <<socketVars, timerVars, connVars>>

-----------------------------------------------------------------------------
(***************************************************************************)
(* Heartbeats.  Renewing a TTL changes nothing here: expiry has no clock.  *)
(***************************************************************************)

Heartbeat(c, t) ==
  /\ Present(c)
  /\ Start(t, c, "heartbeat", "beat")
  /\ UNCHANGED <<socketVars, timerVars, connVars>>

\* Slip: a heartbeat only renews the keys that are there.
BeatRenews(t) ==
  /\ At(t, "beat")
  /\ End(t)
  /\ UNCHANGED <<socketVars, timerVars, connVars>>

Beat(t) ==
  /\ At(t, "beat")
  /\ IF task[t].sock \in connKeys THEN End(t) ELSE Goto(t, "retrack")
  /\ UNCHANGED <<socketVars, timerVars, connVars>>

Retrack(t) ==
  /\ At(t, "retrack")
  /\ Track(task[t].sock)
  /\ End(t)
  /\ UNCHANGED <<socketVars, timerVars>>

-----------------------------------------------------------------------------
(***************************************************************************)
(* Disconnects.  removeConnection is the only call of the handler.         *)
(***************************************************************************)

Untrack(c) ==
  /\ connKeys' = connKeys \ {c}
  /\ sessions' = [sessions EXCEPT ![Owner[c]] = @ \ {c}]

Disconnect(c) ==
  /\ Present(c)
  /\ sock' = [sock EXCEPT ![c] = "gone"]
  /\ timers' = timers \union {c}
  /\ timerOf' = [timerOf EXCEPT ![Owner[c]] = c]
  /\ Untrack(c)
  /\ UNCHANGED <<known, task>>

DisconnectAnonymous(c) ==
  /\ sock[c] = "connected" /\ c \notin known
  /\ sock' = [sock EXCEPT ![c] = "gone"]
  /\ UNCHANGED <<known, timerVars, connVars, task>>

\* The timer's callback and the clean-up of sockets whose key is gone both run
\* handleFinalDisconnect.
TimerFires(c, t) ==
  /\ c \in timers
  /\ timers' = timers \ {c}
  /\ Start(t, c, "timer", "leave")
  /\ UNCHANGED <<socketVars, timerOf, connVars>>

CleanupStale(c, t) ==
  /\ Present(c)
  /\ c \notin connKeys
  /\ Start(t, c, "stale", "leave")
  /\ UNCHANGED <<socketVars, timerVars, connVars>>

\* The leaves are over.
LeaveStreams(t) ==
  /\ At(t, "leave")
  /\ Goto(t, "list")
  /\ UNCHANGED <<socketVars, timerVars, connVars>>

\* Slip: the callback leaves the entry of its timer in the map.
EndFinalKeeping(t) ==
  /\ End(t)
  /\ UNCHANGED timerOf

\* The timer's callback then drops the address's entry, whichever timer that refers to.
EndFinal(t) ==
  /\ End(t)
  /\ timerOf' = IF task[t].job = "timer" THEN [timerOf EXCEPT ![Of(t)] = NoSock] ELSE timerOf

\* cleanupUserSessions: getUserActiveSessions, then one MULTI that deletes the keys of the
\* sessions listed and the whole set.
NoSessions(t) ==
  /\ At(t, "list")
  /\ sessions[Of(t)] = {}
  /\ EndFinal(t)
  /\ UNCHANGED <<socketVars, timers, connVars>>

ListSessions(t) ==
  /\ At(t, "list")
  /\ sessions[Of(t)] # {}
  /\ task' = [task EXCEPT ![t].pc = "wipe", ![t].sess = sessions[Of(t)]]
  /\ UNCHANGED <<socketVars, timerVars, connVars>>

WipeSessions(t) ==
  /\ At(t, "wipe")
  /\ connKeys' = connKeys \ task[t].sess
  /\ sessions' = [sessions EXCEPT ![Of(t)] = {}]
  /\ EndFinal(t)
  /\ UNCHANGED <<socketVars, timers>>

-----------------------------------------------------------------------------
(***************************************************************************)
(* The environment.                                                        *)
(***************************************************************************)

\* The key's 60 seconds are over.
ConnectionKeyExpires(c) ==
  /\ c \in connKeys
  /\ connKeys' = connKeys \ {c}
  /\ UNCHANGED <<socketVars, timerVars, sessions, task>>

\* A call of a connection or of a final disconnect throws, and its catch logs it.  (A
\* heartbeat that fails is one that was not sent.)
HandlerFails(t) ==
  /\ task[t].pc \in {"clearTimer", "restore", "leave", "list", "wipe"}
  /\ EndFinal(t)
  /\ UNCHANGED <<socketVars, timers, connVars>>

\* The process and its timers die; Redis stays.
Restart ==
  /\ sock' = [c \in Sockets |-> IF sock[c] = "connected" THEN "gone" ELSE sock[c]]
  /\ timers' = {}
  /\ timerOf' = [a \in Addresses |-> NoSock]
  /\ task' = [t \in Tasks |-> Idle]
  /\ UNCHANGED <<known, connVars>>

SocketStep(c) ==
  \/ ConnectAnonymous(c)
  \/ Authenticate(c)
  \/ Disconnect(c)
  \/ DisconnectAnonymous(c)
  \/ ConnectionKeyExpires(c)
  \/ \E t \in Tasks :
       \/ Connect(c, t)
       \/ Heartbeat(c, t)
       \/ TimerFires(c, t)
       \/ CleanupStale(c, t)

TaskStep(t) ==
  \/ ClearTimer(t)
  \/ RestoreUserSession(t)
  \/ Beat(t)
  \/ Retrack(t)
  \/ LeaveStreams(t)
  \/ NoSessions(t)
  \/ ListSessions(t)
  \/ WipeSessions(t)

Next ==
  \/ \E c \in Sockets : SocketStep(c)
  \/ \E t \in Tasks : TaskStep(t) \/ HandlerFails(t)
  \/ Restart

Spec == Init /\ [][Next]_vars

-----------------------------------------------------------------------------
(***************************************************************************)
(* Properties.                                                             *)
(***************************************************************************)

\* "Clear any pending disconnect timer" (chat.gateway.ts:90): when the connection handler
\* of a socket that is still there went past that line, no timer of its account is left,
\* which would clean up after an account that is back.
ReconnectClearsTimers ==
  [][\A t \in Tasks :
       At(t, "clearTimer") /\ task'[t].pc = "restore" /\ Present(task[t].sock) =>
         \A c \in timers' : Owner[c] # Of(t)]_vars

\* disconnectTimers holds no leftovers: an entry refers to a pending timer or to the one
\* whose callback is running, although disconnects overwrite entries and callbacks drop
\* whichever entry there is.  A connection would otherwise clear a timer that is over and
\* leave the pending one alone.
TimerEntriesAreLive ==
  \A a \in Addresses :
    timerOf[a] # NoSock =>
      \/ timerOf[a] \in timers
      \/ \E t \in Tasks : task[t].job = "timer" /\ task[t].sock = timerOf[a]

\* A connected client that sends heartbeats is tracked again, whatever the clean-ups and
\* timers of its account removed: heartbeats are the only remedy once a timer that nothing
\* cleared has wiped the sessions of an account that is back.
HeartbeatsRetrack ==
  \A c \in Sockets : Present(c) /\ c \notin connKeys ~> c \in connKeys \/ ~Present(c)

\* Handlers go on, and clients get their heartbeats through: slots for handlers are a bound
\* of the model, so a slot that is free again and again is enough.
Fairness ==
  /\ \A t \in Tasks : WF_vars(TaskStep(t))
  /\ \A c \in Sockets : SF_vars(\E t \in Tasks : Heartbeat(c, t))

FairSpec == Spec /\ Fairness
=============================================================================
