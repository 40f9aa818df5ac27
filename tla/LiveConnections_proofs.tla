------------------------- MODULE LiveConnections_proofs -------------------------
(***************************************************************************)
(* Theorems about LiveConnections, for any number of accounts, sockets and *)
(* handlers.                                                               *)
(***************************************************************************)
EXTENDS LiveConnections, TLAPS

-----------------------------------------------------------------------------
(***************************************************************************)
(* Types.                                                                  *)
(***************************************************************************)

\* A handler that ends, goes on, or starts for a socket.
LEMMA EndTypes ==
  ASSUME TypeOK, NEW t \in Tasks, End(t)
  PROVE  /\ task' \in [Tasks -> Task]
         /\ \A u \in Tasks : task'[u].pc # "idle" => task'[u].sock \in Sockets
BY DEF TypeOK, End, Idle, Task

LEMMA GotoTypes ==
  ASSUME TypeOK, NEW t \in Tasks, ~At(t, "idle"),
         NEW pc \in {"clearTimer", "restore", "beat", "retrack", "leave", "list", "wipe"},
         Goto(t, pc)
  PROVE  /\ task' \in [Tasks -> Task]
         /\ \A u \in Tasks : task'[u].pc # "idle" => task'[u].sock \in Sockets
BY DEF TypeOK, Goto, At, Task

LEMMA StartTypes ==
  ASSUME TypeOK, NEW t \in Tasks, NEW c \in Sockets,
         NEW job \in {"connect", "heartbeat", "timer", "stale"},
         NEW pc \in {"clearTimer", "beat", "leave"},
         Start(t, c, job, pc)
  PROVE  /\ task' \in [Tasks -> Task]
         /\ \A u \in Tasks : task'[u].pc # "idle" => task'[u].sock \in Sockets
<1>1. [Idle EXCEPT !.pc = pc, !.job = job, !.sock = c] \in Task BY DEF Idle, Task
<1> QED BY <1>1 DEF TypeOK, Start, Task

\* What sockets, clients and the TTL do keeps the types.
LEMMA SocketStepTypes ==
  ASSUME TypeOK, NEW c \in Sockets, SocketStep(c)
  PROVE  TypeOK'
<1> USE DEF socketVars, timerVars, connVars
<1>0. Owner[c] \in Addresses BY OwnerAssumption
<1>1. CASE ConnectAnonymous(c) BY <1>1 DEF ConnectAnonymous, TypeOK
<1>2. CASE Authenticate(c) BY <1>2 DEF Authenticate, TypeOK
<1>3. CASE Disconnect(c) BY <1>0, <1>3 DEF Disconnect, Untrack, TypeOK
<1>4. CASE DisconnectAnonymous(c) BY <1>4 DEF DisconnectAnonymous, TypeOK
<1>5. CASE ConnectionKeyExpires(c) BY <1>5 DEF ConnectionKeyExpires, TypeOK
<1>6. ASSUME NEW t \in Tasks, Connect(c, t) PROVE TypeOK'
  <2>1. Start(t, c, "connect", "clearTimer") BY <1>6 DEF Connect
  <2>2. /\ task' \in [Tasks -> Task]
        /\ \A u \in Tasks : task'[u].pc # "idle" => task'[u].sock \in Sockets
    BY <2>1, StartTypes
  <2> QED BY <1>0, <1>6, <2>2 DEF Connect, Track, TypeOK
<1>7. ASSUME NEW t \in Tasks, Heartbeat(c, t) PROVE TypeOK'
  BY <1>7, StartTypes DEF Heartbeat, TypeOK
<1>8. ASSUME NEW t \in Tasks, TimerFires(c, t) PROVE TypeOK'
  BY <1>8, StartTypes DEF TimerFires, TypeOK
<1>9. ASSUME NEW t \in Tasks, CleanupStale(c, t) PROVE TypeOK'
  BY <1>9, StartTypes DEF CleanupStale, TypeOK
<1> QED BY <1>1, <1>2, <1>3, <1>4, <1>5, <1>6, <1>7, <1>8, <1>9 DEF SocketStep

\* The end of a final disconnect keeps the map's type.
LEMMA EndFinalTypes ==
  ASSUME TypeOK, NEW t \in Tasks, ~At(t, "idle"), EndFinal(t)
  PROVE  /\ task' \in [Tasks -> Task]
         /\ \A u \in Tasks : task'[u].pc # "idle" => task'[u].sock \in Sockets
         /\ timerOf' \in [Addresses -> Sockets \union {NoSock}]
<1>1. task[t].sock \in Sockets BY DEF TypeOK, At
<1>2. Of(t) \in Addresses BY <1>1, OwnerAssumption DEF Of
<1>3. timerOf' \in [Addresses -> Sockets \union {NoSock}] BY <1>2 DEF EndFinal, TypeOK
<1> QED BY <1>3, EndTypes DEF EndFinal

\* The steps of handlers keep the types.
LEMMA TaskStepTypes ==
  ASSUME TypeOK, NEW t \in Tasks, TaskStep(t) \/ HandlerFails(t)
  PROVE  TypeOK'
<1> USE DEF socketVars, timerVars, connVars
<1>0. ~At(t, "idle") => task[t].sock \in Sockets /\ Of(t) \in Addresses
  BY OwnerAssumption DEF TypeOK, At, Of
<1>1. CASE ClearTimer(t)
  <2>1. ~At(t, "idle") BY <1>1 DEF ClearTimer, At
  <2> QED BY <1>0, <1>1, <2>1, GotoTypes DEF ClearTimer, TypeOK
<1>2. CASE RestoreUserSession(t) BY <1>2, EndTypes DEF RestoreUserSession, TypeOK
<1>3. CASE Beat(t) BY <1>3, EndTypes, GotoTypes DEF Beat, TypeOK, At
<1>4. CASE Retrack(t)
  <2>1. ~At(t, "idle") BY <1>4 DEF Retrack, At
  <2>2. task[t].sock \in Sockets /\ Owner[task[t].sock] \in Addresses
    BY <1>0, <2>1 DEF Of
  <2> QED BY <1>4, <2>2, EndTypes DEF Retrack, Track, TypeOK
<1>5. CASE LeaveStreams(t) BY <1>5, GotoTypes DEF LeaveStreams, TypeOK, At
<1>6. CASE NoSessions(t) BY <1>6, EndFinalTypes DEF NoSessions, TypeOK, At
<1>7. CASE ListSessions(t)
  <2>1. ~At(t, "idle") BY <1>7 DEF ListSessions, At
  <2>2. sessions[Of(t)] \in SUBSET Sockets BY <1>0, <2>1 DEF TypeOK
  <2>3. [task[t] EXCEPT !.pc = "wipe", !.sess = sessions[Of(t)]] \in Task
    BY <2>2 DEF TypeOK, Task
  <2>4. [task[t] EXCEPT !.pc = "wipe", !.sess = sessions[Of(t)]].sock \in Sockets
    BY <1>0, <2>1 DEF TypeOK, Task
  <2> QED BY <1>7, <2>3, <2>4 DEF ListSessions, TypeOK
<1>8. CASE WipeSessions(t)
  <2>1. ~At(t, "idle") BY <1>8 DEF WipeSessions, At
  <2> QED BY <1>0, <1>8, <2>1, EndFinalTypes DEF WipeSessions, TypeOK
<1>9. CASE HandlerFails(t) BY <1>9, EndFinalTypes DEF HandlerFails, TypeOK, At
<1> QED BY <1>1, <1>2, <1>3, <1>4, <1>5, <1>6, <1>7, <1>8, <1>9 DEF TaskStep

\* Sockets, timers, keys and handlers keep their types; in particular a handler always
\* works for a socket of a known account (the early returns of chat.gateway.ts).
THEOREM TypesHold == Spec => []TypeOK
<1>1. Init => TypeOK BY DEF Init, TypeOK, Idle, Task
<1>2. TypeOK /\ [Next]_vars => TypeOK'
  <2> SUFFICES ASSUME TypeOK, [Next]_vars PROVE TypeOK' OBVIOUS
  <2>1. CASE \E c \in Sockets : SocketStep(c) BY <2>1, SocketStepTypes
  <2>2. CASE \E t \in Tasks : TaskStep(t) \/ HandlerFails(t) BY <2>2, TaskStepTypes
  <2>3. CASE Restart BY <2>3 DEF Restart, TypeOK, Idle, Task, connVars
  <2>4. CASE UNCHANGED vars BY <2>4 DEF vars, socketVars, timerVars, connVars, TypeOK
  <2> QED BY <2>1, <2>2, <2>3, <2>4 DEF Next
<1> QED BY <1>1, <1>2, PTL DEF Spec

-----------------------------------------------------------------------------
(***************************************************************************)
(* The map of timers.  A callback and a connection drop an entry by its    *)
(* address, not by its timer: that they drop no entry of another account   *)
(* takes that every entry is filed under its socket's owner, and that a    *)
(* callback never ends without dropping takes that it only runs the final  *)
(* disconnect.                                                             *)
(***************************************************************************)

EntriesAreOwned == \A a \in Addresses : timerOf[a] # NoSock => Owner[timerOf[a]] = a

FinalPc == {"leave", "list", "wipe"}

CallbacksAreFinal == \A t \in Tasks : task[t].job = "timer" => task[t].pc \in FinalPc

TimerInv == TimerEntriesAreLive /\ EntriesAreOwned /\ CallbacksAreFinal

\* A handler that goes on without touching timers, and without ending a callback.
LEMMA GoingOnKeepsTimers ==
  ASSUME TypeOK, TimerInv, NEW u \in Tasks,
         timers' = timers, timerOf' = timerOf,
         \A t \in Tasks \ {u} : task'[t] = task[t],
         task[u].job = "timer" => task'[u].job = "timer" /\ task'[u].sock = task[u].sock,
         task'[u].job = "timer" => task'[u].pc \in FinalPc
  PROVE  TimerInv'
<1>1. TimerEntriesAreLive'
  <2> SUFFICES ASSUME NEW a \in Addresses, timerOf[a] # NoSock, timerOf[a] \notin timers
               PROVE  \E t \in Tasks : task'[t].job = "timer" /\ task'[t].sock = timerOf[a]
    BY DEF TimerEntriesAreLive
  <2>1. PICK t \in Tasks : task[t].job = "timer" /\ task[t].sock = timerOf[a]
    BY DEF TimerInv, TimerEntriesAreLive
  <2>2. task'[t].job = "timer" /\ task'[t].sock = timerOf[a] BY <2>1
  <2> QED BY <2>2
<1>2. EntriesAreOwned' BY DEF TimerInv, EntriesAreOwned
<1>3. CallbacksAreFinal' BY DEF TimerInv, CallbacksAreFinal
<1> QED BY <1>1, <1>2, <1>3 DEF TimerInv

\* A final disconnect that ends: a callback takes the entry of its account with it.
LEMMA EndFinalKeepsTimers ==
  ASSUME TypeOK, TimerInv, NEW u \in Tasks, ~At(u, "idle"), EndFinal(u), timers' = timers
  PROVE  TimerInv'
<1>1. task' = [task EXCEPT ![u] = Idle] BY DEF EndFinal, End
<1>2. \A t \in Tasks \ {u} : task'[t] = task[t] BY <1>1
<1>3. task'[u] = Idle BY <1>1 DEF TypeOK
<1>4. CASE task[u].job # "timer"
  <2>1. timerOf' = timerOf BY <1>4 DEF EndFinal
  <2> QED BY <1>2, <1>3, <1>4, <2>1, GoingOnKeepsTimers DEF Idle
<1>5. CASE task[u].job = "timer"
  <2>1. timerOf' = [timerOf EXCEPT ![Of(u)] = NoSock] BY <1>5 DEF EndFinal
  <2>2. TimerEntriesAreLive'
    <3> SUFFICES ASSUME NEW a \in Addresses, timerOf'[a] # NoSock, timerOf'[a] \notin timers
                 PROVE  \E t \in Tasks : task'[t].job = "timer" /\ task'[t].sock = timerOf'[a]
      BY DEF TimerEntriesAreLive
    <3>1. a # Of(u) /\ timerOf'[a] = timerOf[a] BY <2>1 DEF TypeOK
    <3>2. PICK t \in Tasks : task[t].job = "timer" /\ task[t].sock = timerOf[a]
      BY <3>1 DEF TimerInv, TimerEntriesAreLive
    <3>3. t # u BY <3>1, <3>2 DEF TimerInv, EntriesAreOwned, Of
    <3> QED BY <1>2, <3>1, <3>2, <3>3
  <2>3. EntriesAreOwned' BY <2>1 DEF TimerInv, EntriesAreOwned, TypeOK
  <2>4. CallbacksAreFinal' BY <1>2, <1>3 DEF TimerInv, CallbacksAreFinal, Idle
  <2> QED BY <2>2, <2>3, <2>4 DEF TimerInv
<1> QED BY <1>4, <1>5

\* A handler that starts for a client.
LEMMA StartKeepsTimers ==
  ASSUME TypeOK, TimerInv, NEW u \in Tasks, NEW c, NEW job \in {"connect", "heartbeat", "stale"},
         NEW pc, Start(u, c, job, pc), timers' = timers, timerOf' = timerOf
  PROVE  TimerInv'
<1>1. task[u].pc = "idle" /\ task[u].job # "timer"
  BY DEF Start, At, TimerInv, CallbacksAreFinal, FinalPc
<1>2. task'[u].job = job BY DEF Start, TypeOK, Idle
<1>3. \A t \in Tasks \ {u} : task'[t] = task[t] BY DEF Start
<1> QED BY <1>1, <1>2, <1>3, GoingOnKeepsTimers

\* What sockets and their timers do.
LEMMA SocketStepKeepsTimers ==
  ASSUME TypeOK, TimerInv, NEW c \in Sockets, SocketStep(c)
  PROVE  TimerInv'
<1> USE DEF socketVars, timerVars, connVars
<1>1. CASE ConnectAnonymous(c) \/ Authenticate(c) \/ DisconnectAnonymous(c)
           \/ ConnectionKeyExpires(c)
  <2>1. timers' = timers /\ timerOf' = timerOf /\ task' = task
    BY <1>1 DEF ConnectAnonymous, Authenticate, DisconnectAnonymous, ConnectionKeyExpires
  <2> QED BY <2>1 DEF TimerInv, TimerEntriesAreLive, EntriesAreOwned, CallbacksAreFinal
<1>2. CASE Disconnect(c)
  <2>1. /\ timers' = timers \union {c} /\ task' = task
        /\ timerOf' = [timerOf EXCEPT ![Owner[c]] = c]
    BY <1>2 DEF Disconnect
  <2>2. TimerEntriesAreLive' BY <2>1 DEF TimerInv, TimerEntriesAreLive, TypeOK
  <2>3. EntriesAreOwned' BY <2>1 DEF TimerInv, EntriesAreOwned, TypeOK
  <2>4. CallbacksAreFinal' BY <2>1 DEF TimerInv, CallbacksAreFinal
  <2> QED BY <2>2, <2>3, <2>4 DEF TimerInv
<1>3. ASSUME NEW t \in Tasks, Connect(c, t) PROVE TimerInv'
  BY <1>3, StartKeepsTimers DEF Connect
<1>4. ASSUME NEW t \in Tasks, Heartbeat(c, t) PROVE TimerInv'
  BY <1>4, StartKeepsTimers DEF Heartbeat
<1>5. ASSUME NEW t \in Tasks, CleanupStale(c, t) PROVE TimerInv'
  BY <1>5, StartKeepsTimers DEF CleanupStale
<1>6. ASSUME NEW t \in Tasks, TimerFires(c, t) PROVE TimerInv'
  <2>1. timers' = timers \ {c} /\ timerOf' = timerOf /\ Start(t, c, "timer", "leave")
    BY <1>6 DEF TimerFires
  <2>2. /\ task'[t].job = "timer" /\ task'[t].sock = c /\ task'[t].pc = "leave"
        /\ \A u \in Tasks \ {t} : task'[u] = task[u]
    BY <2>1 DEF Start, TypeOK, Idle
  <2>3. task[t].job # "timer"
    BY <2>1 DEF Start, At, TimerInv, CallbacksAreFinal, FinalPc
  <2>4. TimerEntriesAreLive'
    <3> SUFFICES ASSUME NEW a \in Addresses, timerOf[a] # NoSock, timerOf[a] \notin timers'
                 PROVE  \E u \in Tasks : task'[u].job = "timer" /\ task'[u].sock = timerOf[a]
      BY <2>1 DEF TimerEntriesAreLive
    <3>1. CASE timerOf[a] = c BY <2>2, <3>1
    <3>2. CASE timerOf[a] # c
      <4>1. PICK u \in Tasks : task[u].job = "timer" /\ task[u].sock = timerOf[a]
        BY <2>1, <3>2 DEF TimerInv, TimerEntriesAreLive
      <4> QED BY <2>2, <2>3, <4>1
    <3> QED BY <3>1, <3>2
  <2>5. EntriesAreOwned' BY <2>1 DEF TimerInv, EntriesAreOwned
  <2>6. CallbacksAreFinal' BY <2>2 DEF TimerInv, CallbacksAreFinal, FinalPc
  <2> QED BY <2>4, <2>5, <2>6 DEF TimerInv
<1> QED BY <1>1, <1>2, <1>3, <1>4, <1>5, <1>6 DEF SocketStep

\* What handlers do.
LEMMA TaskStepKeepsTimers ==
  ASSUME TypeOK, TimerInv, NEW t \in Tasks, TaskStep(t) \/ HandlerFails(t)
  PROVE  TimerInv'
<1> USE DEF socketVars, timerVars, connVars
<1>a. task[t] \in Task BY DEF TypeOK
<1>1. CASE ClearTimer(t)
  <2> DEFINE a == Of(t)
  <2>1. /\ timers' = timers \ {timerOf[a]} /\ timerOf' = [timerOf EXCEPT ![a] = NoSock]
        /\ task' = [task EXCEPT ![t].pc = "restore"] /\ task[t].pc = "clearTimer"
    BY <1>1 DEF ClearTimer, Goto, At
  <2>2. a \in Addresses BY <2>1, OwnerAssumption DEF Of, TypeOK
  <2>3. task[t].job # "timer" BY <2>1 DEF TimerInv, CallbacksAreFinal, FinalPc
  <2>4. /\ \A u \in Tasks \ {t} : task'[u] = task[u]
        /\ task'[t].job = task[t].job
    BY <1>a, <2>1 DEF TypeOK, Task
  <2>5. TimerEntriesAreLive'
    <3> SUFFICES ASSUME NEW b \in Addresses, timerOf'[b] # NoSock, timerOf'[b] \notin timers'
                 PROVE  \E u \in Tasks : task'[u].job = "timer" /\ task'[u].sock = timerOf'[b]
      BY DEF TimerEntriesAreLive
    <3>1. b # a /\ timerOf'[b] = timerOf[b] BY <2>1 DEF TypeOK
    <3>2. timerOf[b] # timerOf[a] BY <2>2, <3>1 DEF TimerInv, EntriesAreOwned
    <3>3. PICK u \in Tasks : task[u].job = "timer" /\ task[u].sock = timerOf[b]
      BY <2>1, <3>1, <3>2 DEF TimerInv, TimerEntriesAreLive
    <3> QED BY <2>3, <2>4, <3>1, <3>3
  <2>6. EntriesAreOwned' BY <2>1 DEF TimerInv, EntriesAreOwned, TypeOK
  <2>7. CallbacksAreFinal' BY <2>3, <2>4 DEF TimerInv, CallbacksAreFinal
  <2> QED BY <2>5, <2>6, <2>7 DEF TimerInv
<1>2. CASE RestoreUserSession(t) \/ Beat(t) \/ Retrack(t)
  <2>1. task[t].job # "timer"
    BY <1>2 DEF RestoreUserSession, Beat, Retrack, At, TimerInv, CallbacksAreFinal, FinalPc
  <2>2. /\ timers' = timers /\ timerOf' = timerOf
        /\ \A u \in Tasks \ {t} : task'[u] = task[u]
    BY <1>2 DEF RestoreUserSession, Beat, Retrack, End, Goto, TypeOK
  <2>3. task'[t].job # "timer"
    BY <1>2, <1>a, <2>1 DEF RestoreUserSession, Beat, Retrack, End, Goto, TypeOK, Idle, Task
  <2> QED BY <2>1, <2>2, <2>3, GoingOnKeepsTimers
<1>3. CASE LeaveStreams(t)
  <2>1. /\ timers' = timers /\ timerOf' = timerOf
        /\ \A u \in Tasks \ {t} : task'[u] = task[u]
    BY <1>3 DEF LeaveStreams, Goto
  <2>2. /\ task'[t].job = task[t].job /\ task'[t].sock = task[t].sock
        /\ task'[t].pc = "list"
    BY <1>3, <1>a DEF LeaveStreams, Goto, TypeOK, Task
  <2> QED BY <2>1, <2>2, GoingOnKeepsTimers DEF FinalPc
<1>4. CASE ListSessions(t)
  <2>1. /\ timers' = timers /\ timerOf' = timerOf
        /\ \A u \in Tasks \ {t} : task'[u] = task[u]
    BY <1>4 DEF ListSessions, TypeOK
  <2>2. /\ task'[t].job = task[t].job /\ task'[t].sock = task[t].sock
        /\ task'[t].pc = "wipe"
    BY <1>4, <1>a DEF ListSessions, TypeOK, Task
  <2> QED BY <2>1, <2>2, GoingOnKeepsTimers DEF FinalPc
<1>5. CASE NoSessions(t) BY <1>5, EndFinalKeepsTimers DEF NoSessions, At
<1>6. CASE WipeSessions(t) BY <1>6, EndFinalKeepsTimers DEF WipeSessions, At
<1>7. CASE HandlerFails(t) BY <1>7, EndFinalKeepsTimers DEF HandlerFails, At
<1> QED BY <1>1, <1>2, <1>3, <1>4, <1>5, <1>6, <1>7 DEF TaskStep

\* No disconnect, connection, callback, failure or restart leaves an entry in
\* disconnectTimers whose timer is over (chat.gateway.ts:90-95, :118-124).
THEOREM TimerEntriesAreLiveHolds == Spec => []TimerEntriesAreLive
<1>1. Init => TimerInv
  BY DEF Init, Idle, TimerInv, TimerEntriesAreLive, EntriesAreOwned, CallbacksAreFinal
<1>2. TypeOK /\ TimerInv /\ [Next]_vars => TimerInv'
  <2> SUFFICES ASSUME TypeOK, TimerInv, [Next]_vars PROVE TimerInv' OBVIOUS
  <2>1. CASE \E c \in Sockets : SocketStep(c) BY <2>1, SocketStepKeepsTimers
  <2>2. CASE \E t \in Tasks : TaskStep(t) \/ HandlerFails(t) BY <2>2, TaskStepKeepsTimers
  <2>3. CASE Restart
    BY <2>3 DEF Restart, Idle, TimerInv, TimerEntriesAreLive, EntriesAreOwned, CallbacksAreFinal
  <2>4. CASE UNCHANGED vars
    BY <2>4 DEF vars, timerVars, TimerInv, TimerEntriesAreLive, EntriesAreOwned, CallbacksAreFinal
  <2> QED BY <2>1, <2>2, <2>3, <2>4 DEF Next
<1>3. TimerInv => TimerEntriesAreLive BY DEF TimerInv
<1> QED BY <1>1, <1>2, <1>3, TypesHold, PTL DEF Spec
=============================================================================
