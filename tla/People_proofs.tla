------------------------------ MODULE People_proofs ------------------------------
(***************************************************************************)
(* Proofs about the components around accounts: the sessions of the        *)
(* sockets, payments in messages, conversations and their histories,       *)
(* notifications, usernames and blocks, and about the instance MCPeople    *)
(* that holds them.  They hold for any number of users and of calls.  Most *)
(* of them say that a look-up and a write in two calls go wrong only when  *)
(* they overlap: the invariant then relates every call that stands between *)
(* the two to what the others have written since.                          *)
(***************************************************************************)
EXTENDS MCPeople, Data_proofs, FiniteSetTheorems, TLAPS

-----------------------------------------------------------------------------
(***************************************************************************)
(* Sessions of the /dm sockets.                                            *)
(***************************************************************************)

\* Unless handlers have overlapped, one at most is between its GET and its SET and the
\* list it read is the list there is; of the sockets in it, each is connected or went
\* without its disconnect.
Quiet == ~\E s \in Sockets : socket[s].late

Sound ==
  /\ \A s \in Sockets : socket[s].pc \in {"join", "leave"} => socket[s].seen = session /\ ~Writing(s)
  /\ \A s \in Sockets : socket[s].pc \in {"on", "leave"} => s \in session
  /\ \A s \in session : \/ socket[s].pc \in {"on", "leave"}
                        \/ socket[s].pc = "off" /\ (socket[s].missed \/ s \in deaths)

OneWriter == Quiet => Sound

SessionTypes ==
  /\ session \in SUBSET Sockets
  /\ socket \in [Sockets -> Socket]
  /\ deaths \in SUBSET Sockets

\* A step of one socket: its late is never taken back.
SocketBecomes(s, q) ==
  /\ q \in Socket
  /\ socket' = [socket EXCEPT ![s] = q]
  /\ socket[s].late => q.late

LEMMA SocketSteps ==
  ASSUME SessionTypes, NEW s \in Sockets, NEW q, SocketBecomes(s, q)
  PROVE  /\ socket' \in [Sockets -> Socket] /\ socket'[s] = q
         /\ \A r \in Sockets : r # s => socket'[r] = socket[r]
         /\ Quiet' => Quiet /\ ~q.late
<1>1. socket' \in [Sockets -> Socket] /\ socket'[s] = q /\ \A r \in Sockets : r # s => socket'[r] = socket[r]
  BY DEF SocketBecomes, SessionTypes
<1>2. \A r \in Sockets : socket[r].late => socket'[r].late
  BY <1>1 DEF SocketBecomes
<1> QED
  BY <1>1, <1>2 DEF Quiet

\* A socket's handler ends.
Ended(k, pc, seen) == [k EXCEPT !.pc = pc, !.seen = seen]

LEMMA SocketEnds ==
  ASSUME NEW k \in Socket, NEW pc \in {"on", "off"}, NEW seen \in SUBSET Sockets
  PROVE  /\ Ended(k, pc, seen) \in Socket
         /\ Ended(k, pc, seen).pc = pc /\ Ended(k, pc, seen).missed = k.missed
         /\ Ended(k, pc, seen).late = k.late
  BY DEF Socket, Ended

\* What every action makes of its socket.
LEMMA SocketOutcomes ==
  ASSUME SessionTypes, NEW s \in Sockets
  PROVE  /\ ReadAtConnect(s) => \E q \in Socket :
              /\ SocketBecomes(s, q) /\ q.pc = "join" /\ q.seen = session /\ (Writing(s) => q.late)
         /\ AddSocket(s) => \E q \in Socket :
              /\ SocketBecomes(s, q) /\ q.pc = (IF q.missed THEN "off" ELSE "on")
         /\ LeaveEarly(s) => \E q \in Socket :
              SocketBecomes(s, q) /\ q.pc = "join" /\ q.seen = socket[s].seen
         /\ ReadAtDisconnect(s) => \E q \in Socket : SocketBecomes(s, q) /\
              \/ session = {} /\ q.pc = "off"
              \/ q.pc = "leave" /\ q.seen = session /\ (Writing(s) => q.late)
         /\ RemoveSocket(s) => \E q \in Socket : SocketBecomes(s, q) /\ q.pc = "off"
<1>0. socket[s] \in Socket
  BY DEF SessionTypes
<1>1. ASSUME NEW pc \in {"join", "leave"}, Read(s, pc)
      PROVE  \E q \in Socket : SocketBecomes(s, q) /\ q.pc = pc /\ q.seen = session /\ (Writing(s) => q.late)
  <2> DEFINE late == socket[s].late \/ Writing(s)
             q == [socket[s] EXCEPT !.pc = pc, !.seen = session, !.late = late]
  <2>1. socket' = [socket EXCEPT ![s] = q]
    BY Zenon, <1>1 DEF Read
  <2>2. late \in BOOLEAN /\ (socket[s].late => late) /\ (Writing(s) => late)
    BY <1>0 DEF Writing, Socket
  <2> HIDE DEF late
  <2>3. q \in Socket /\ q.pc = pc /\ q.seen = session /\ q.late = late
    BY <1>0, <1>1, <2>2 DEF Socket, SessionTypes
  <2> HIDE DEF q
  <2> QED
    BY <2>1, <2>2, <2>3 DEF SocketBecomes
<1>2. ASSUME NEW pc \in {"on", "off"}, NEW seen \in SUBSET Sockets,
             socket' = [socket EXCEPT ![s].pc = pc, ![s].seen = seen]
      PROVE  \E q \in Socket : SocketBecomes(s, q) /\ q.pc = pc /\ q.missed = socket[s].missed
  <2> DEFINE q == Ended(socket[s], pc, seen)
  <2>1. socket' = [socket EXCEPT ![s] = q]
    BY Zenon, <1>2 DEF Ended
  <2>2. q \in Socket /\ q.pc = pc /\ q.missed = socket[s].missed /\ q.late = socket[s].late
    BY <1>0, SocketEnds
  <2> QED
    BY <2>1, <2>2 DEF SocketBecomes
<1>3. ReadAtConnect(s) => \E q \in Socket :
         /\ SocketBecomes(s, q) /\ q.pc = "join" /\ q.seen = session /\ (Writing(s) => q.late)
  BY <1>1 DEF ReadAtConnect
<1>4. AddSocket(s) => \E q \in Socket :
         /\ SocketBecomes(s, q) /\ q.pc = (IF q.missed THEN "off" ELSE "on")
  <2> SUFFICES ASSUME AddSocket(s)
               PROVE  \E q \in Socket : /\ SocketBecomes(s, q) /\ q.pc = (IF q.missed THEN "off" ELSE "on")
    OBVIOUS
  <2> DEFINE pc == IF socket[s].missed THEN "off" ELSE "on"
  <2>1. pc \in {"on", "off"} /\ socket' = [socket EXCEPT ![s].pc = pc, ![s].seen = {}]
    BY DEF AddSocket
  <2>2. PICK q \in Socket : SocketBecomes(s, q) /\ q.pc = pc /\ q.missed = socket[s].missed
    <3>1. {} \in SUBSET Sockets
      OBVIOUS
    <3> HIDE DEF pc
    <3> QED
      BY <1>2, <2>1, <3>1
  <2> QED
    BY <2>2
<1>5. LeaveEarly(s) => \E q \in Socket : SocketBecomes(s, q) /\ q.pc = "join" /\ q.seen = socket[s].seen
  <2> DEFINE q == [socket[s] EXCEPT !.missed = TRUE]
  <2>1. q \in Socket /\ q.pc = socket[s].pc /\ q.seen = socket[s].seen /\ q.late = socket[s].late
    BY <1>0 DEF Socket
  <2> QED
    BY <2>1 DEF LeaveEarly, SocketBecomes
<1>6. ReadAtDisconnect(s) => \E q \in Socket : SocketBecomes(s, q) /\
         \/ session = {} /\ q.pc = "off"
         \/ q.pc = "leave" /\ q.seen = session /\ (Writing(s) => q.late)
  <2> DEFINE q == [socket[s] EXCEPT !.pc = "off"]
  <2>1. q \in Socket /\ q.pc = "off" /\ q.late = socket[s].late
    BY <1>0 DEF Socket
  <2> QED
    BY <1>1, <2>1 DEF ReadAtDisconnect, SocketBecomes
<1>7. RemoveSocket(s) => \E q \in Socket : SocketBecomes(s, q) /\ q.pc = "off"
  <2> SUFFICES ASSUME RemoveSocket(s) PROVE \E q \in Socket : SocketBecomes(s, q) /\ q.pc = "off"
    OBVIOUS
  <2>1. socket' = [socket EXCEPT ![s].pc = "off", ![s].seen = {}] /\ {} \in SUBSET Sockets
    BY DEF RemoveSocket
  <2> QED
    BY <1>2, <2>1
<1> QED
  BY <1>3, <1>4, <1>5, <1>6, <1>7

LEMMA DeathOutcome ==
  ASSUME SessionTypes, NEW gone \in SUBSET Sockets, ProcessDies(gone)
  PROVE  /\ socket' \in [Sockets -> Socket]
         /\ \A s \in Sockets \ gone : socket'[s] = socket[s]
         /\ \A s \in gone : socket'[s].pc = "off" /\ s \in deaths'
         /\ \A s \in Sockets : socket'[s].late = socket[s].late
         /\ session' = session /\ deaths \subseteq deaths'
<1>1. \A s \in Sockets : socket[s] \in Socket
  BY DEF SessionTypes
<1>2. ASSUME NEW s \in Sockets PROVE [socket[s] EXCEPT !.pc = "off", !.seen = {}] \in Socket
  <2>1. PICK pc \in {"on", "off"}, seen \in SUBSET Sockets : pc = "off" /\ seen = {}
    OBVIOUS
  <2>2. Ended(socket[s], pc, seen) \in Socket
    BY <1>1, SocketEnds
  <2> QED
    BY Zenon, <2>1, <2>2 DEF Ended
<1>3. \A s \in Sockets : socket'[s] = IF s \in gone THEN [socket[s] EXCEPT !.pc = "off", !.seen = {}] ELSE socket[s]
  BY Zenon DEF ProcessDies
<1>4. \A s \in gone : socket'[s].pc = "off" /\ socket'[s].late = socket[s].late
  BY <1>1, <1>3 DEF Socket
<1>6. socket' \in [Sockets -> Socket]
  <2>1. \A s \in Sockets : (IF s \in gone THEN [socket[s] EXCEPT !.pc = "off", !.seen = {}] ELSE socket[s]) \in Socket
    BY <1>1, <1>2
  <2> QED
    BY <2>1 DEF ProcessDies
<1> QED
  BY <1>3, <1>4, <1>6 DEF ProcessDies

LEMMA SessionTypesStep == SessionTypes /\ [SessionNext]_sessionVars => SessionTypes'
<1> SUFFICES ASSUME SessionTypes, [SessionNext]_sessionVars PROVE SessionTypes'
  OBVIOUS
<1>1. ASSUME NEW s \in Sockets, NEW q \in Socket, SocketBecomes(s, q), session' \in SUBSET Sockets, deaths' = deaths
      PROVE  SessionTypes'
  BY <1>1, SocketSteps DEF SessionTypes
<1>2. ASSUME NEW s \in Sockets,
             ReadAtConnect(s) \/ AddSocket(s) \/ LeaveEarly(s) \/ ReadAtDisconnect(s) \/ RemoveSocket(s)
      PROVE  SessionTypes'
  <2>1. deaths' = deaths /\ (session' = session \/ session' \subseteq socket[s].seen \union {s})
    BY <1>2 DEF ReadAtConnect, AddSocket, LeaveEarly, ReadAtDisconnect, RemoveSocket
  <2>2. socket[s].seen \in SUBSET Sockets
    BY DEF SessionTypes, Socket
  <2>3. session' \in SUBSET Sockets
    BY <2>1, <2>2 DEF SessionTypes
  <2> QED
    BY <1>1, <1>2, <2>1, <2>3, SocketOutcomes
<1>3. ASSUME NEW gone \in SUBSET Sockets, ProcessDies(gone) PROVE SessionTypes'
  BY <1>3, DeathOutcome DEF ProcessDies, SessionTypes
<1>4. CASE UNCHANGED sessionVars
  BY <1>4 DEF sessionVars, SessionTypes
<1> QED
  BY <1>2, <1>3, <1>4 DEF SessionNext

LEMMA OneWriterStep == SessionTypes /\ OneWriter /\ [SessionNext]_sessionVars => OneWriter'
<1> SUFFICES ASSUME SessionTypes, OneWriter, [SessionNext]_sessionVars, Quiet' PROVE Sound'
  BY DEF OneWriter
<1>1. CASE UNCHANGED sessionVars
  BY <1>1 DEF sessionVars, OneWriter, Quiet, Sound, Writing
<1>2. ASSUME NEW gone \in SUBSET Sockets, ProcessDies(gone) PROVE Sound'
  <2>1. Sound
    BY <1>2, DeathOutcome DEF OneWriter, Quiet
  <2>2. \A s \in Sockets : socket'[s].pc # "off" => s \notin gone /\ socket'[s] = socket[s]
    BY <1>2, DeathOutcome
  <2> QED
    BY <1>2, <2>1, <2>2, DeathOutcome DEF Sound, Writing, SessionTypes
<1>3. ASSUME NEW s \in Sockets, NEW q \in Socket, SocketBecomes(s, q)
      PROVE  /\ socket'[s] = q /\ \A r \in Sockets : r # s => socket'[r] = socket[r]
             /\ ~q.late
             /\ \A r \in Sockets : socket[r].pc \in {"join", "leave"} => socket[r].seen = session /\ ~Writing(r)
             /\ \A r \in Sockets : socket[r].pc \in {"on", "leave"} => r \in session
             /\ \A r \in session : \/ socket[r].pc \in {"on", "leave"}
                                   \/ socket[r].pc = "off" /\ (socket[r].missed \/ r \in deaths)
             /\ session \subseteq Sockets
  <2>1. /\ socket'[s] = q /\ \A r \in Sockets : r # s => socket'[r] = socket[r]
        /\ Quiet /\ ~q.late
    BY <1>3, SocketSteps
  <2> QED
    BY <2>1 DEF OneWriter, Sound, SessionTypes
<1>4. ASSUME NEW s \in Sockets, ReadAtConnect(s) PROVE Sound'
  <2>1. PICK q \in Socket :
          /\ SocketBecomes(s, q)
          /\ q.pc = "join" /\ q.seen = session /\ (Writing(s) => q.late)
    BY <1>4, SocketOutcomes
  <2>2. socket[s].pc = "new" /\ session' = session /\ deaths' = deaths
    BY <1>4 DEF ReadAtConnect
  <2>3. /\ socket'[s] = q /\ \A r \in Sockets : r # s => socket'[r] = socket[r]
        /\ ~q.late
        /\ \A r \in Sockets : socket[r].pc \in {"join", "leave"} => socket[r].seen = session /\ ~Writing(r)
        /\ \A r \in Sockets : socket[r].pc \in {"on", "leave"} => r \in session
        /\ \A r \in session : \/ socket[r].pc \in {"on", "leave"}
                              \/ socket[r].pc = "off" /\ (socket[r].missed \/ r \in deaths)
        /\ session \subseteq Sockets
    BY <1>3, <2>1
  <2> QED
    BY <2>1, <2>2, <2>3 DEF Sound, Writing
<1>5. ASSUME NEW s \in Sockets, AddSocket(s) PROVE Sound'
  <2>1. PICK q \in Socket :
          /\ SocketBecomes(s, q)
          /\ q.pc = (IF q.missed THEN "off" ELSE "on")
    BY <1>5, SocketOutcomes
  <2>2. socket[s].pc = "join" /\ session' = socket[s].seen \union {s} /\ deaths' = deaths
    BY <1>5 DEF AddSocket
  <2>3. /\ socket'[s] = q /\ \A r \in Sockets : r # s => socket'[r] = socket[r]
        /\ ~q.late
        /\ \A r \in Sockets : socket[r].pc \in {"join", "leave"} => socket[r].seen = session /\ ~Writing(r)
        /\ \A r \in Sockets : socket[r].pc \in {"on", "leave"} => r \in session
        /\ \A r \in session : \/ socket[r].pc \in {"on", "leave"}
                              \/ socket[r].pc = "off" /\ (socket[r].missed \/ r \in deaths)
        /\ session \subseteq Sockets
    BY <1>3, <2>1
  <2> QED
    BY <2>1, <2>2, <2>3 DEF Sound, Writing
<1>6. ASSUME NEW s \in Sockets, LeaveEarly(s) PROVE Sound'
  <2>1. PICK q \in Socket :
          /\ SocketBecomes(s, q)
          /\ q.pc = "join" /\ q.seen = socket[s].seen
    BY <1>6, SocketOutcomes
  <2>2. socket[s].pc = "join" /\ session' = session /\ deaths' = deaths
    BY <1>6 DEF LeaveEarly
  <2>3. /\ socket'[s] = q /\ \A r \in Sockets : r # s => socket'[r] = socket[r]
        /\ ~q.late
        /\ \A r \in Sockets : socket[r].pc \in {"join", "leave"} => socket[r].seen = session /\ ~Writing(r)
        /\ \A r \in Sockets : socket[r].pc \in {"on", "leave"} => r \in session
        /\ \A r \in session : \/ socket[r].pc \in {"on", "leave"}
                              \/ socket[r].pc = "off" /\ (socket[r].missed \/ r \in deaths)
        /\ session \subseteq Sockets
    BY <1>3, <2>1
  <2> QED
    BY <2>1, <2>2, <2>3 DEF Sound, Writing
<1>7. ASSUME NEW s \in Sockets, ReadAtDisconnect(s) PROVE Sound'
  <2>1. PICK q \in Socket :
          /\ SocketBecomes(s, q)
          /\ \/ session = {} /\ q.pc = "off"
             \/ q.pc = "leave" /\ q.seen = session /\ (Writing(s) => q.late)
    BY <1>7, SocketOutcomes
  <2>2. socket[s].pc = "on" /\ session' = session /\ deaths' = deaths
    BY <1>7 DEF ReadAtDisconnect
  <2>3. /\ socket'[s] = q /\ \A r \in Sockets : r # s => socket'[r] = socket[r]
        /\ ~q.late
        /\ \A r \in Sockets : socket[r].pc \in {"join", "leave"} => socket[r].seen = session /\ ~Writing(r)
        /\ \A r \in Sockets : socket[r].pc \in {"on", "leave"} => r \in session
        /\ \A r \in session : \/ socket[r].pc \in {"on", "leave"}
                              \/ socket[r].pc = "off" /\ (socket[r].missed \/ r \in deaths)
        /\ session \subseteq Sockets
    BY <1>3, <2>1
  <2> QED
    BY <2>1, <2>2, <2>3 DEF Sound, Writing
<1>8. ASSUME NEW s \in Sockets, RemoveSocket(s) PROVE Sound'
  <2>1. PICK q \in Socket :
          /\ SocketBecomes(s, q)
          /\ q.pc = "off"
    BY <1>8, SocketOutcomes
  <2>2. socket[s].pc = "leave" /\ session' = socket[s].seen \ {s} /\ deaths' = deaths
    BY <1>8 DEF RemoveSocket
  <2>3. /\ socket'[s] = q /\ \A r \in Sockets : r # s => socket'[r] = socket[r]
        /\ ~q.late
        /\ \A r \in Sockets : socket[r].pc \in {"join", "leave"} => socket[r].seen = session /\ ~Writing(r)
        /\ \A r \in Sockets : socket[r].pc \in {"on", "leave"} => r \in session
        /\ \A r \in session : \/ socket[r].pc \in {"on", "leave"}
                              \/ socket[r].pc = "off" /\ (socket[r].missed \/ r \in deaths)
        /\ session \subseteq Sockets
    BY <1>3, <2>1
  <2> QED
    BY <2>1, <2>2, <2>3 DEF Sound, Writing
<1> QED
  BY <1>1, <1>2, <1>4, <1>5, <1>6, <1>7, <1>8 DEF SessionNext

\* The session of a user lists his connected sockets and no other, but those that left
\* early or died with their process, unless two of his handlers overlapped (sessionSet,
\* unset).
THEOREM SessionsKnowSockets == SessionSpec => []SessionKnowsSockets
<1>1. SessionInit => SessionTypes /\ OneWriter
  BY DEF SessionInit, SessionTypes, OneWriter, Sound, Socket
<1>2. OneWriter => SessionKnowsSockets
  BY DEF OneWriter, Quiet, Sound, SessionKnowsSockets
<1> QED
  BY <1>1, <1>2, SessionTypesStep, OneWriterStep, PTL DEF SessionSpec

-----------------------------------------------------------------------------
(***************************************************************************)
(* Payments in messages.                                                   *)
(***************************************************************************)

\* An answer belongs to a saved transaction; only a confirmed tip waits to be announced.
Answered ==
  /\ \A r \in Replies : replies[r].pc # "new" => deals[replies[r].deal].pc = "open"
  /\ \A r \in Replies : replies[r].pc = "emit" => tips[replies[r].deal] = "success"
  /\ \A r \in announced : replies[r].pc = "done"
  /\ OpenedByItsDeal

PayTypes ==
  /\ deals \in [Deals -> Deal] /\ tips \in [Deals -> {"none", "init", "success"}]
  /\ unlocked \in SUBSET Messages
  /\ replies \in [Replies -> Reply]
  /\ announced \in SUBSET Replies

LEMMA PaymentsStep == PayTypes /\ Answered /\ [PayNext]_payVars => PayTypes' /\ Answered'
<1> SUFFICES ASSUME PayTypes, Answered, [PayNext]_payVars PROVE PayTypes' /\ Answered'
  OBVIOUS
<1>0. \A r \in Replies : replies[r] \in Reply /\ replies[r].deal \in Deals
  BY DEF PayTypes, Reply
<1>1. CASE UNCHANGED payVars
  BY <1>1 DEF payVars, PayTypes, Answered, OpenedByItsDeal
<1>2. ASSUME NEW d \in Deals, AddTip(d) PROVE PayTypes' /\ Answered'
  <2>1. /\ tips' = [tips EXCEPT ![d] = "init"] /\ deals' = [deals EXCEPT ![d].pc = "save"]
        /\ UNCHANGED <<unlocked, replies, announced>> /\ deals[d].pc = "new"
    BY <1>2 DEF AddTip
  <2>2. PayTypes'
    BY <2>1 DEF PayTypes, Deal
  <2>3. \A r \in Replies : replies[r].pc # "new" => replies[r].deal # d
    BY <2>1 DEF Answered
  <2>4. \A e \in Deals : e # d => deals'[e] = deals[e] /\ tips'[e] = tips[e]
    BY <2>1 DEF PayTypes
  <2>5. /\ \A e \in Deals : deals'[e].message = deals[e].message
        /\ tips'[d] = "init"
    BY <2>1 DEF PayTypes
  <2>6. ASSUME NEW r \in announced PROVE tips[replies[r].deal] = "success" /\ replies[r].deal \in Deals
    BY <1>0 DEF Answered, OpenedByItsDeal, PayTypes
  <2>7. tips[d] # "success"
    BY <2>1 DEF Answered, OpenedByItsDeal
  <2> QED
    BY <1>0, <2>1, <2>2, <2>3, <2>4, <2>5, <2>6, <2>7 DEF Answered, OpenedByItsDeal
<1>3. ASSUME NEW d \in Deals, SaveDeal(d) \/ DealFails(d) PROVE PayTypes' /\ Answered'
  <2>1. PICK pc \in {"open", "failed"} :
          /\ deals' = [deals EXCEPT ![d].pc = pc]
          /\ deals[d].pc \in {"new", "save"} /\ UNCHANGED <<tips, unlocked, replies, announced>>
    BY <1>3 DEF SaveDeal, DealFails
  <2>2. PayTypes'
    BY <2>1 DEF PayTypes, Deal
  <2>3. /\ \A e \in Deals : deals'[e].message = deals[e].message
        /\ \A e \in Deals : deals[e].pc = "open" => deals'[e].pc = "open"
    BY <2>1 DEF PayTypes, Deal
  <2> QED
    BY <1>0, <2>1, <2>2, <2>3 DEF Answered, OpenedByItsDeal
<1>4. ASSUME NEW d \in Deals, NEW r \in Replies, NEW status \in {"init", "success", "failed"},
             Answer(r, d, status)
      PROVE  PayTypes' /\ Answered'
  <2>1. /\ deals' = [deals EXCEPT ![d].status = status]
        /\ replies' = [replies EXCEPT ![r] = [pc |-> "act", deal |-> d]]
        /\ replies[r].pc = "new" /\ deals[d].pc = "open" /\ UNCHANGED <<tips, unlocked, announced>>
    BY <1>4 DEF Answer
  <2>2. PayTypes'
    <3>1. [pc |-> "act", deal |-> d] \in Reply
      BY DEF Reply
    <3>2. deals' \in [Deals -> Deal]
      BY <2>1 DEF PayTypes, Deal
    <3> QED
      BY <2>1, <3>1, <3>2 DEF PayTypes
  <2>3. \A e \in Deals : deals'[e].message = deals[e].message /\ deals'[e].pc = deals[e].pc
    BY <2>1 DEF PayTypes, Deal
  <2>4. /\ replies'[r] = [pc |-> "act", deal |-> d]
        /\ \A s \in Replies : s # r => replies'[s] = replies[s]
    BY <2>1 DEF PayTypes
  <2>5. r \notin announced
    BY <2>1 DEF Answered
  <2> QED
    BY <1>0, <2>1, <2>2, <2>3, <2>4, <2>5 DEF Answered, OpenedByItsDeal
<1>5. ASSUME NEW r \in Replies, Unlock(r) \/ ConfirmTip(r) \/ Announce(r) \/ ReplyFails(r)
      PROVE  PayTypes' /\ Answered'
  <2>1. PICK pc \in {"emit", "done", "failed"} :
          /\ replies' = [replies EXCEPT ![r].pc = pc] /\ deals' = deals
          /\ replies[r].pc \in {"act", "emit"}
          /\ unlocked' \in {unlocked, unlocked \union {deals[replies[r].deal].message}}
          /\ tips' = tips \/ (tips' = [tips EXCEPT ![replies[r].deal] = "success"])
          /\ announced' \in {announced, announced \union {r}}
          /\ unlocked' # unlocked => pc = "done"
          /\ pc = "emit" => tips' = [tips EXCEPT ![replies[r].deal] = "success"]
          /\ announced' # announced => replies[r].pc = "emit" /\ pc = "done"
    BY <1>5 DEF Unlock, ConfirmTip, Announce, ReplyFails
  <2>2. deals[replies[r].deal].message \in Messages
    BY <1>0 DEF PayTypes, Deal
  <2>3. PayTypes'
    BY <1>0, <2>1, <2>2 DEF PayTypes, Reply
  <2>4. /\ replies'[r].pc = pc
        /\ \A s \in Replies : replies'[s].deal = replies[s].deal /\ (s # r => replies'[s] = replies[s])
    BY <2>1 DEF PayTypes, Reply
  <2>5. \A e \in Deals : \/ tips'[e] = tips[e]
                         \/ (tips'[e] = "success" /\ e = replies[r].deal)
    BY <1>0, <2>1 DEF PayTypes
  <2>6. pc = "emit" => tips'[replies[r].deal] = "success"
    BY <1>0, <2>1 DEF PayTypes
  <2> QED
    BY <1>0, <2>1, <2>3, <2>4, <2>5, <2>6 DEF Answered, OpenedByItsDeal, PayTypes
<1> QED
  BY <1>1, <1>2, <1>3, <1>4, <1>5 DEF PayNext

\* What a payment opens it opened through a transaction that was saved and answered: the
\* two writes of addTnx and of updateTnx keep their order.
THEOREM OpenedThroughDeals == PaySpec => []OpenedByItsDeal
<1>1. PayInit => PayTypes /\ Answered
  BY DEF PayInit, PayTypes, Answered, OpenedByItsDeal, Deal, Reply
<1>2. Answered => OpenedByItsDeal
  BY DEF Answered
<1> QED
  BY <1>1, <1>2, PaymentsStep, PTL DEF PaySpec

-----------------------------------------------------------------------------
(***************************************************************************)
(* Conversations.                                                          *)
(***************************************************************************)

OpenTypes == opens \in [Opens -> Open]

\* Of two calls for one chat that look for it or have opened it, one came late.
OneOpens ==
  \A o, q \in Opens :
    o # q /\ opens[o].pc \in {"asked", "open"} /\ opens[q].pc \in {"asked", "open"}
      /\ opens[o].pair = opens[q].pair
      => opens[o].late \/ opens[q].late

LEMMA OpensStep == OpenTypes /\ OneOpens /\ [ChatNext]_chatVars => OpenTypes' /\ OneOpens'
<1> SUFFICES ASSUME OpenTypes, OneOpens, [ChatNext]_chatVars PROVE OpenTypes' /\ OneOpens'
  OBVIOUS
<1>1. CASE opens' = opens
  BY <1>1 DEF OpenTypes, OneOpens
<1>2. ASSUME NEW o \in Opens, SaveChat(o) PROVE OpenTypes' /\ OneOpens'
  BY <1>2 DEF SaveChat, OpenTypes, OneOpens, Open
<1>3. ASSUME NEW o \in Opens, NEW pair \in Pairs, AskChat(o, pair) PROVE OpenTypes' /\ OneOpens'
  <2>1. CASE \E q \in Opens : opens[q].pc = "open" /\ opens[q].pair = pair
    <3>1. opens' = [opens EXCEPT ![o].pc = "found"]
      BY <1>3, <2>1 DEF AskChat
    <3> QED
      BY <3>1 DEF OpenTypes, OneOpens, Open
  <2>2. CASE ~\E q \in Opens : opens[q].pc = "open" /\ opens[q].pair = pair
    <3> DEFINE late == \E q \in Opens : opens[q].pc = "asked" /\ opens[q].pair = pair
               new == [pc |-> "asked", pair |-> pair, late |-> late]
    <3>1. opens' = [opens EXCEPT ![o] = new]
      BY <1>3, <2>2 DEF AskChat
    <3>2. late \in BOOLEAN
      OBVIOUS
    <3>3. \A q \in Opens : opens[q].pc \in {"asked", "open"} /\ opens[q].pair = pair => late
      BY <2>2
    <3> HIDE DEF late
    <3>4. new \in Open /\ new.late = late /\ new.pair = pair
      BY <3>2 DEF Open
    <3> HIDE DEF new
    <3>5. opens' \in [Opens -> Open] /\ opens'[o] = new /\ \A q \in Opens : q # o => opens'[q] = opens[q]
      BY <3>1, <3>4 DEF OpenTypes
    <3> QED
      BY <3>3, <3>4, <3>5 DEF OpenTypes, OneOpens
  <2> QED
    BY <2>1, <2>2
<1> QED
  BY <1>1, <1>2, <1>3 DEF ChatNext, OpenNext, MoveNext, PushMember, PullUser, SaveGroup, JoinGroup, ExitGroup,
     UpdateGroup, Start, chatVars

MoveTypes ==
  /\ members \in [Users -> Nat] /\ admins \in SUBSET Users
  /\ version \in Nat /\ listed \in [Users -> Nat]
  /\ moves \in [Moves -> Move]
  /\ \A m \in Moves : /\ moves[m].pc = "new" => ~moves[m].late
                      /\ moves[m].pc \in {"push", "pull"} => moves[m].user \in Users
                      /\ moves[m].pc = "save" => moves[m].by \in Users

OneEntry(u) ==
  /\ members[u] <= 1 \/ members[u] = listed[u]
  /\ ~(members[u] > 0 /\ u \in admins)

NoneLate == \A m \in Moves : ~moves[m].late

\* Unless a call came late, everybody has one entry at most or those of one list, who is about to get one by a
\* $push has none, and no two calls give one to the same user.
EntriesStaySingle ==
  NoneLate =>
    /\ \A u \in Users : OneEntry(u)
    /\ \A m \in Moves : moves[m].pc = "push" => ~IsMember(moves[m].user)
    /\ \A m, d \in Moves : m # d => Given(moves[m]) \intersect Given(moves[d]) = {}

\* A pending call becomes another of the same call that gives no more, or a new one
\* becomes a pending one.
LEMMA MovesStep == MoveTypes /\ EntriesStaySingle /\ [ChatNext]_chatVars
                     => MoveTypes' /\ EntriesStaySingle'
<1> SUFFICES ASSUME MoveTypes, EntriesStaySingle, [ChatNext]_chatVars
             PROVE  MoveTypes' /\ EntriesStaySingle'
  OBVIOUS
<1>1. CASE UNCHANGED <<members, admins, version, listed, moves>>
  BY <1>1 DEF MoveTypes, EntriesStaySingle, NoneLate, OneEntry, IsMember
<1>2. ASSUME NEW m \in Moves, NEW q \in Move, moves' = [moves EXCEPT ![m] = q], moves[m].pc = "new",
             UNCHANGED <<members, admins, version, listed>>,
             q.pc \notin {"new", "done"}, q.pc \in {"push", "pull"} => q.user \in Users,
             q.pc = "save" => q.by \in Users,
             q.pc = "push" => ~IsMember(q.user),
             (\E d \in Moves : Given(q) \intersect Given(moves[d]) # {}) => q.late
      PROVE  MoveTypes' /\ EntriesStaySingle'
  <2>1. moves'[m] = q /\ \A d \in Moves : d # m => moves'[d] = moves[d]
    BY <1>2 DEF MoveTypes
  <2>2. MoveTypes'
    BY <1>2, <2>1 DEF MoveTypes
  <2>3. NoneLate' => NoneLate /\ ~q.late
    BY <1>2, <2>1 DEF NoneLate, MoveTypes
  <2>4. ASSUME NoneLate' PROVE \A d, e \in Moves : d # e => Given(moves'[d]) \intersect Given(moves'[e]) = {}
    BY <1>2, <2>1, <2>3, <2>4 DEF EntriesStaySingle
  <2> QED
    BY <1>2, <2>1, <2>2, <2>3, <2>4 DEF EntriesStaySingle, OneEntry, IsMember
\* A refused call.
<1>2a. ASSUME NEW m \in Moves, moves' = [moves EXCEPT ![m].pc = "refused"], moves[m].pc = "new",
              UNCHANGED <<members, admins, version, listed>>
       PROVE  MoveTypes' /\ EntriesStaySingle'
  <2> DEFINE q == [moves[m] EXCEPT !.pc = "refused"]
  <2>1. moves' = [moves EXCEPT ![m] = q]
    BY <1>2a
  <2>2. q \in Move /\ q.pc = "refused"
    BY DEF MoveTypes, Move
  <2> HIDE DEF q
  <2>3. Given(q) = {}
    BY <2>2 DEF Given
  <2> QED
    BY <1>2, <1>2a, <2>1, <2>2, <2>3
\* A call that reads the group.
<1>5. ASSUME NEW m \in Moves, NEW may \in BOOLEAN, NEW pc \in {"push", "pull", "save"},
             NEW u \in Users \union {None}, NEW by \in Users \union {None}, NEW list \in Lists,
             Start(m, may, pc, u, by, list),
             may /\ pc \in {"push", "pull"} => u \in Users, may /\ pc = "push" => ~IsMember(u),
             may /\ pc = "save" => by \in Users
      PROVE  MoveTypes' /\ EntriesStaySingle'
  <2> DEFINE read == [pc |-> pc, user |-> u, list |-> list, by |-> by, seen |-> version, late |-> FALSE]
             q == [read EXCEPT !.late = Coming(Given(read))]
  <2>1. moves[m].pc = "new" /\ UNCHANGED <<members, admins, version, listed>>
    BY <1>5 DEF Start
  <2>2. CASE ~may
    BY <1>2a, <1>5, <2>1, <2>2 DEF Start
  <2>3. CASE may
    <3>1. moves' = [moves EXCEPT ![m] = q]
      BY <1>5, <2>3 DEF Start
    <3>2. PICK late \in BOOLEAN : late = Coming(Given(read))
      BY Zenon DEF Coming
    <3>3. q = [read EXCEPT !.late = late]
      BY <3>2
    <3>4. /\ q.pc = pc /\ q.user = u /\ q.list = list /\ q.by = by /\ q.late = late
          /\ read.pc = pc /\ read.user = u /\ read.list = list /\ read.by = by
      BY <3>3
    <3>5. q \in Move
      BY <3>3 DEF Move, MoveTypes
    <3> HIDE DEF q, read
    <3>6. Given(q) = Given(read)
      BY <3>4 DEF Given
    <3>7. (\E d \in Moves : Given(q) \intersect Given(moves[d]) # {}) => q.late
      BY <3>2, <3>4, <3>6 DEF Coming
    <3> QED
      BY <1>2, <1>5, <2>1, <2>3, <3>1, <3>4, <3>5, <3>7
  <2> QED
    BY <2>2, <2>3
<1>6. Nobody \in Lists
  BY RepeatsAssumption DEF Nobody, Lists
<1>7. ASSUME NEW m \in Moves,
             \/ \E u, by \in Users : JoinGroup(m, u, by) \/ ExitGroup(m, u, by)
             \/ \E by \in Users, list \in Lists : UpdateGroup(m, by, list)
      PROVE  MoveTypes' /\ EntriesStaySingle'
  <2>1. ASSUME NEW u \in Users, NEW by \in Users, JoinGroup(m, u, by)
        PROVE  MoveTypes' /\ EntriesStaySingle'
    <3>1. PICK may \in BOOLEAN : may = (MayJoin(u, by) /\ ~IsMember(u))
      BY Zenon
    <3>2. Start(m, may, "push", u, None, Nobody)
      BY <2>1, <3>1 DEF JoinGroup
    <3> QED
      BY <1>5, <1>6, <3>1, <3>2
  <2>2. ASSUME NEW u \in Users, NEW by \in Users, ExitGroup(m, u, by)
        PROVE  MoveTypes' /\ EntriesStaySingle'
    <3>1. PICK may \in BOOLEAN : may = ((by \in admins \/ by = u) /\ IsMember(u))
      BY Zenon
    <3>2. Start(m, may, "pull", u, None, Nobody)
      BY <2>2, <3>1 DEF ExitGroup
    <3> QED
      BY <1>5, <1>6, <3>2
  <2>3. ASSUME NEW by \in Users, NEW list \in Lists, UpdateGroup(m, by, list)
        PROVE  MoveTypes' /\ EntriesStaySingle'
    <3>1. PICK may \in BOOLEAN : may = AtLeastTwo(list)
      BY Zenon DEF AtLeastTwo
    <3>2. Start(m, may, "save", None, by, list)
      BY <2>3, <3>1 DEF UpdateGroup
    <3> QED
      BY <1>5, <3>2
  <2> QED
    BY <1>7, <2>1, <2>2, <2>3
\* A call that ends leaves what the others are about to give.
<1>8. ASSUME NEW m \in Moves, NEW pc \in {"done", "refused"}, moves' = [moves EXCEPT ![m].pc = pc],
             moves[m].pc # "new"
      PROVE  /\ moves' \in [Moves -> Move] /\ moves'[m].pc = pc /\ Given(moves'[m]) = {}
             /\ \A d \in Moves : d # m => moves'[d] = moves[d]
             /\ NoneLate' => NoneLate
             /\ \A d \in Moves : /\ moves'[d].pc = "new" => ~moves'[d].late
                                 /\ moves'[d].pc \in {"push", "pull"} => moves'[d].user \in Users
                                 /\ moves'[d].pc = "save" => moves'[d].by \in Users
  <2>1. /\ moves' \in [Moves -> Move] /\ moves'[m].pc = pc /\ moves'[m].late = moves[m].late
        /\ \A d \in Moves : d # m => moves'[d] = moves[d]
    BY <1>8 DEF MoveTypes, Move
  <2> QED
    BY <1>8, <2>1 DEF MoveTypes, NoneLate, Given
<1>9. ASSUME NEW m \in Moves, PushMember(m) PROVE MoveTypes' /\ EntriesStaySingle'
  <2> DEFINE u == moves[m].user
  <2>1. /\ moves[m].pc = "push" /\ moves' = [moves EXCEPT ![m].pc = "done"]
        /\ members' = [members EXCEPT ![u] = @ + 1] /\ UNCHANGED <<admins, version, listed>>
    BY <1>9 DEF PushMember
  <2>2. u \in Users /\ Given(moves[m]) = {u}
    BY <2>1 DEF MoveTypes, Given
  <2>3. members' \in [Users -> Nat] /\ members'[u] = members[u] + 1 /\ \A v \in Users : v # u => members'[v] = members[v]
    BY <2>1, <2>2 DEF MoveTypes
  <2>4. /\ moves' \in [Moves -> Move] /\ moves'[m].pc = "done" /\ Given(moves'[m]) = {}
        /\ \A d \in Moves : d # m => moves'[d] = moves[d]
        /\ NoneLate' => NoneLate
    BY <1>8, <2>1
  <2>5. MoveTypes'
    BY <1>8, <2>1, <2>3 DEF MoveTypes
  <2>6. ASSUME NoneLate' PROVE \A v \in Users : OneEntry(v)'
    BY <2>1, <2>2, <2>3, <2>4, <2>6 DEF EntriesStaySingle, OneEntry, IsMember, MoveTypes
  <2>7. ASSUME NoneLate', NEW d \in Moves, moves'[d].pc = "push" PROVE ~IsMember(moves[d].user)'
    <3>1. d # m /\ moves'[d] = moves[d] /\ Given(moves[d]) = {moves[d].user} /\ moves[d].user \in Users
      BY <2>4, <2>7 DEF Given, MoveTypes
    <3>2. moves[d].user # u /\ ~IsMember(moves[d].user)
      BY <2>2, <2>4, <2>7, <3>1 DEF EntriesStaySingle
    <3> QED
      BY <2>1, <2>3, <3>1, <3>2 DEF IsMember
  <2>8. ASSUME NoneLate' PROVE \A d, e \in Moves : d # e => Given(moves'[d]) \intersect Given(moves'[e]) = {}
    BY <2>4, <2>8 DEF EntriesStaySingle
  <2> QED
    BY <2>1, <2>5, <2>6, <2>7, <2>8 DEF EntriesStaySingle
<1>10. ASSUME NEW m \in Moves, PullUser(m) PROVE MoveTypes' /\ EntriesStaySingle'
  <2> DEFINE u == moves[m].user
  <2>1. /\ moves[m].pc = "pull" /\ moves' = [moves EXCEPT ![m].pc = "done"]
        /\ members' = [members EXCEPT ![u] = 0] /\ admins' = admins \ {u} /\ version' = version
        /\ listed' = [listed EXCEPT ![u] = 0]
    BY <1>10 DEF PullUser
  <2>2. u \in Users
    BY <2>1 DEF MoveTypes
  <2>3. /\ members' \in [Users -> Nat] /\ members'[u] = 0 /\ \A v \in Users : v # u => members'[v] = members[v]
        /\ listed' \in [Users -> Nat] /\ \A v \in Users : v # u => listed'[v] = listed[v]
    BY <2>1, <2>2 DEF MoveTypes
  <2>4. /\ moves' \in [Moves -> Move] /\ moves'[m].pc = "done" /\ Given(moves'[m]) = {}
        /\ \A d \in Moves : d # m => moves'[d] = moves[d]
        /\ NoneLate' => NoneLate
    BY <1>8, <2>1
  <2>5. MoveTypes'
    BY <1>8, <2>1, <2>3 DEF MoveTypes
  <2>6. \A v \in Users : (OneEntry(v) => OneEntry(v)') /\ (~IsMember(v) => ~IsMember(v)')
    BY <2>1, <2>3 DEF OneEntry, IsMember
  <2>7. ASSUME NoneLate', NEW d \in Moves, moves'[d].pc = "push" PROVE ~IsMember(moves[d].user)'
    <3>1. moves'[d] = moves[d] /\ moves[d].user \in Users /\ ~IsMember(moves[d].user)
      BY <2>4, <2>7 DEF EntriesStaySingle, MoveTypes
    <3> QED
      BY <2>6, <3>1 DEF IsMember
  <2>8. ASSUME NoneLate' PROVE \A d, e \in Moves : d # e => Given(moves'[d]) \intersect Given(moves'[e]) = {}
    BY <2>4, <2>8 DEF EntriesStaySingle
  <2> QED
    BY <2>1, <2>4, <2>5, <2>6, <2>7, <2>8 DEF EntriesStaySingle
<1>11. ASSUME NEW m \in Moves, SaveGroup(m) PROVE MoveTypes' /\ EntriesStaySingle'
  <2> DEFINE by == moves[m].by
             list == moves[m].list
  <2>1. /\ by \in Users /\ moves[m].pc = "save" /\ list \in [Users -> Nat]
        /\ Given(moves[m]) = {by} \union {u \in Users : list[u] > 0}
    BY <1>11, RepeatsAssumption DEF SaveGroup, MoveTypes, Move, Lists, Given
  <2>2. CASE moves[m].seen # version
    <3>1. moves' = [moves EXCEPT ![m].pc = "refused"] /\ UNCHANGED <<members, admins, version, listed>>
      BY <1>11, <2>2 DEF SaveGroup
    <3>2. /\ moves' \in [Moves -> Move] /\ moves'[m].pc = "refused" /\ Given(moves'[m]) = {}
          /\ \A d \in Moves : d # m => moves'[d] = moves[d]
          /\ NoneLate' => NoneLate
      BY <1>8, <2>1, <3>1
    <3>3. MoveTypes'
      BY <1>8, <2>1, <3>1 DEF MoveTypes
    <3>4. ASSUME NoneLate' PROVE \A d, e \in Moves : d # e => Given(moves'[d]) \intersect Given(moves'[e]) = {}
      BY <3>2, <3>4 DEF EntriesStaySingle
    <3> QED
      BY <3>1, <3>2, <3>3, <3>4 DEF EntriesStaySingle, OneEntry, IsMember
  <2>3. CASE moves[m].seen = version
    <3>1. /\ moves' = [moves EXCEPT ![m].pc = "done"] /\ version' = version + 1
          /\ members' = [u \in Users |-> IF u = by THEN 0 ELSE list[u]] /\ listed' = members'
          /\ admins' = {by}
      BY <1>11, <2>3 DEF SaveGroup, EntriesBy
    <3>2. /\ moves' \in [Moves -> Move] /\ moves'[m].pc = "done" /\ Given(moves'[m]) = {}
          /\ \A d \in Moves : d # m => moves'[d] = moves[d]
          /\ NoneLate' => NoneLate
      BY <1>8, <2>1, <3>1
    <3>3. members' \in [Users -> Nat] /\ listed' \in [Users -> Nat] /\ admins' \in SUBSET Users /\ version' \in Nat
      BY <2>1, <3>1 DEF MoveTypes
    <3>4. MoveTypes'
      BY <1>8, <2>1, <3>1, <3>3 DEF MoveTypes
    <3>5. \A v \in Users : OneEntry(v)' /\ (v \notin Given(moves[m]) => ~IsMember(v)')
      BY <2>1, <3>1 DEF OneEntry, IsMember
    <3>6. ASSUME NoneLate', NEW d \in Moves, moves'[d].pc = "push" PROVE ~IsMember(moves[d].user)'
      <4>1. d # m /\ moves'[d] = moves[d] /\ Given(moves[d]) = {moves[d].user} /\ moves[d].user \in Users
        BY <3>2, <3>6 DEF Given, MoveTypes
      <4>2. moves[d].user \notin Given(moves[m])
        BY <3>2, <3>6, <4>1 DEF EntriesStaySingle
      <4> QED
        BY <3>5, <4>1, <4>2 DEF IsMember
    <3>7. ASSUME NoneLate' PROVE \A d, e \in Moves : d # e => Given(moves'[d]) \intersect Given(moves'[e]) = {}
      BY <3>2, <3>7 DEF EntriesStaySingle
    <3> QED
      BY <3>1, <3>4, <3>5, <3>6, <3>7 DEF EntriesStaySingle
  <2> QED
    BY <2>2, <2>3
<1> QED
  BY <1>1, <1>7, <1>9, <1>10, <1>11 DEF ChatNext, OpenNext, MoveNext, AskChat, SaveChat, chatVars

LEMMA ChatInitOK == ChatInit => OpenTypes /\ OneOpens /\ MoveTypes /\ EntriesStaySingle
<1> SUFFICES ASSUME ChatInit PROVE OpenTypes /\ OneOpens /\ MoveTypes /\ EntriesStaySingle
  OBVIOUS
<1>1. OpenTypes /\ OneOpens
  BY DEF ChatInit, OpenTypes, OneOpens, Open
<1>2. PICK a \in Users, list \in Lists :
        /\ admins = {a} /\ listed = members
        /\ members = [u \in Users |-> IF u = a THEN 0 ELSE list[u]]
  BY DEF ChatInit, EntriesBy
<1>3. \A m \in Moves : moves[m].pc = "new" /\ moves[m].late = FALSE /\ Given(moves[m]) = {}
  BY DEF ChatInit, Given
<1>4. Nobody \in Lists
  BY RepeatsAssumption DEF Nobody, Lists
<1>5. moves \in [Moves -> Move] /\ version \in Nat
  BY <1>4 DEF ChatInit, Move
<1>6. list \in [Users -> Nat]
  BY RepeatsAssumption DEF Lists
<1>7. members \in [Users -> Nat] /\ \A u \in Users : OneEntry(u)
  BY <1>2, <1>6 DEF OneEntry
<1> QED
  BY <1>1, <1>2, <1>3, <1>5, <1>7 DEF MoveTypes, EntriesStaySingle

\* Two users have one direct chat, and a participant one entry or as many as one request
\* has listed him for, unless two calls for the same have overlapped (createAndStart,
\* createGroupChat, joinGroup, exitGroupUser, updateGroupChat).
THEOREM ChatsAreSingle == ChatSpec => []ChatsStaySingle
<1>1. OneOpens /\ MoveTypes /\ EntriesStaySingle => ChatsStaySingle
  BY DEF OneOpens, MoveTypes, EntriesStaySingle, NoneLate, OneEntry, ChatsStaySingle, SecondChatNeedsOverlap,
     SecondEntryNeedsOverlap
<1> QED
  BY <1>1, ChatInitOK, OpensStep, MovesStep, PTL DEF ChatSpec

-----------------------------------------------------------------------------
(***************************************************************************)
(* Notifications.                                                          *)
(***************************************************************************)

NoticeOK ==
  /\ notes \in SUBSET Note /\ IsFiniteSet(notes)
  /\ notice \in [Notices -> Notice]
  /\ \A c \in Notices : notice[c].pc \in {"count", "match", "insert"} =>
       notice[c].to \in Users /\ notice[c].type \in Aggregated \union Single

Inserting(x) == x.pc = "insert" /\ x.type \in Aggregated

\* An upsert that found nothing and a document of its group, and two such upserts of one
\* group, came about by an overlap; whose call made a document is done.
Notified ==
  /\ \A n \in notes : notice[n.id].pc = "done"
  /\ \A m, n \in notes :
       m # n /\ m.type \in Aggregated /\ ~m.read /\ ~n.read /\ Filter(m) = Filter(n)
         => notice[m.id].rival \/ notice[n.id].rival
  /\ \A c \in Notices, n \in notes :
       Inserting(notice[c]) /\ ~n.read /\ Filter(n) = Filter(notice[c])
         => notice[c].rival \/ notice[n.id].rival
  /\ \A c, d \in Notices :
       c # d /\ Inserting(notice[c]) /\ Inserting(notice[d]) /\ Filter(notice[c]) = Filter(notice[d])
         => notice[c].rival \/ notice[d].rival

\* The documents stay, up to what no filter asks for and to their having been read.
Kept(g) ==
  /\ g \in [notes -> Note] /\ notes' = {g[n] : n \in notes}
  /\ \A n \in notes : /\ g[n].id = n.id /\ g[n].type = n.type /\ Filter(g[n]) = Filter(n)
                      /\ n.read => g[n].read

LEMMA NothingIsKept == NoticeOK /\ notes' = notes => \E g : Kept(g)
<1> SUFFICES ASSUME NoticeOK, notes' = notes PROVE \E g : Kept(g)
  OBVIOUS
<1> DEFINE g == [n \in notes |-> n]
<1>1. g \in [notes -> Note] /\ \A n \in notes : g[n] = n
  BY DEF NoticeOK
<1>2. notes' = {g[n] : n \in notes}
  BY <1>1
<1> HIDE DEF g
<1> QED
  BY <1>1, <1>2 DEF Kept

\* What a filter asks for.
LEMMA SameFilter ==
  ASSUME NEW x, NEW y, x.to = y.to, x.type = y.type, x.post = y.post
  PROVE  Filter(x) = Filter(y)
  BY DEF Filter, MatchFilter

\* A call goes on.
LEMMA NoticeGoesOn ==
  ASSUME NoticeOK, Notified, NEW c \in Notices, NEW q \in Notice, NEW g,
         notice' = [notice EXCEPT ![c] = q], notice[c].pc # "done", Kept(g),
         q.pc \in {"count", "match", "insert"} => q.to \in Users /\ q.type \in Aggregated \union Single,
         Inserting(q) => /\ \A n \in notes : ~n.read => Filter(n) # Filter(q)
                         /\ \A d \in Notices : d # c /\ Inserting(notice[d]) /\ Filter(notice[d]) = Filter(q)
                              => q.rival
  PROVE  NoticeOK' /\ Notified'
<1>1. /\ notice' \in [Notices -> Notice] /\ notice'[c] = q
      /\ \A d \in Notices : d # c => notice'[d] = notice[d]
  BY DEF NoticeOK
<1>2. NoticeOK'
  <2>1. g \in [notes -> notes'] /\ \A k \in notes' : \E n \in notes : g[n] = k
    BY DEF Kept
  <2>2. g \in Surjection(notes, notes')
    BY <2>1 DEF Surjection
  <2>3. IsFiniteSet(notes')
    BY <2>2, FS_Surjection DEF NoticeOK
  <2> QED
    BY <1>1, <2>3 DEF NoticeOK, Kept
<1>3. ASSUME NEW k \in notes'
      PROVE  \E n \in notes : /\ k = g[n] /\ k.id = n.id /\ k.type = n.type /\ Filter(k) = Filter(n)
                              /\ n.read => k.read
                              /\ n.id \in Notices /\ n.id # c /\ notice'[n.id] = notice[n.id]
                              /\ notice[n.id].pc = "done"
  <2>1. PICK n \in notes : k = g[n]
    BY <1>3 DEF Kept
  <2>2. n.id \in Notices /\ notice[n.id].pc = "done"
    BY DEF NoticeOK, Note, Notified
  <2> QED
    BY <1>1, <2>1, <2>2 DEF Kept
<1>4. \A k \in notes' : notice'[k.id].pc = "done"
  BY <1>3
<1>5. ASSUME NEW k \in notes', NEW m \in notes',
             k # m, k.type \in Aggregated, ~k.read, ~m.read, Filter(k) = Filter(m)
      PROVE  notice'[k.id].rival \/ notice'[m.id].rival
  <2>1. PICK i \in notes : k = g[i] /\ k.id = i.id /\ k.type = i.type /\ Filter(k) = Filter(i) /\ ~i.read
                           /\ notice'[i.id] = notice[i.id]
    BY <1>3, <1>5
  <2>2. PICK j \in notes : m = g[j] /\ m.id = j.id /\ Filter(m) = Filter(j) /\ ~j.read
                           /\ notice'[j.id] = notice[j.id]
    BY <1>3, <1>5
  <2> QED
    BY <1>5, <2>1, <2>2 DEF Notified
<1>6. ASSUME NEW d \in Notices, NEW k \in notes', Inserting(notice'[d]), ~k.read, Filter(k) = Filter(notice'[d])
      PROVE  notice'[d].rival \/ notice'[k.id].rival
  <2>1. PICK i \in notes : k.id = i.id /\ Filter(k) = Filter(i) /\ ~i.read /\ notice'[i.id] = notice[i.id]
    BY <1>3, <1>6
  <2> QED
    BY <1>1, <1>6, <2>1 DEF Notified
<1>7. ASSUME NEW d \in Notices, NEW e \in Notices, d # e, Inserting(notice'[d]), Inserting(notice'[e]),
             Filter(notice'[d]) = Filter(notice'[e])
      PROVE  notice'[d].rival \/ notice'[e].rival
  BY <1>1, <1>7 DEF Notified
<1>8. Notified'
  BY <1>4, <1>5, <1>6, <1>7 DEF Notified, Inserting, Filter, MatchFilter
<1> QED
  BY <1>2, <1>8

LEMMA NoticeIsInserted ==
  ASSUME NoticeOK, Notified, NEW c \in Notices, InsertNotice(c)
  PROVE  NoticeOK' /\ Notified'
<1> DEFINE me == notice[c]
           n == [id |-> c, to |-> me.to, type |-> me.type, post |-> me.post,
                 by |-> me.by, others |-> me.others, read |-> FALSE]
<1>1. me \in Notice /\ me.pc = "insert" /\ me.to \in Users /\ me.type \in Aggregated \union Single
  BY DEF NoticeOK, InsertNotice, NoticeAt
<1>2. n \in Note
  BY <1>1 DEF Note, Notice
<1>3. notes' = notes \union {n} /\ notice' = [notice EXCEPT ![c].pc = "done"]
  BY DEF InsertNotice, NoticeGoto
<1>4. n.id = c /\ n.type = me.type /\ ~n.read
  OBVIOUS
<1>5. Filter(n) = Filter(me)
  BY SameFilter
<1> HIDE DEF n
<1>6. /\ notice' \in [Notices -> Notice] /\ notice'[c].pc = "done"
      /\ \A d \in Notices : notice'[d].rival = notice[d].rival
      /\ \A d \in Notices : d # c => notice'[d] = notice[d]
  BY <1>3 DEF NoticeOK, Notice
<1>7. NoticeOK'
  <2>1. IsFiniteSet(notes')
    BY <1>3, FS_AddElement DEF NoticeOK
  <2> QED
    BY <1>2, <1>3, <1>6, <2>1 DEF NoticeOK
<1>8. \A k \in notes : k.id \in Notices
  BY DEF NoticeOK, Note
<1>9. \A k \in notes' : notice'[k.id].pc = "done"
  BY <1>3, <1>4, <1>6, <1>8 DEF Notified
\* A document of the group of the new one.
<1>10. ASSUME NEW k \in notes, ~k.read, Filter(k) = Filter(n), n.type \in Aggregated
       PROVE  notice'[k.id].rival \/ notice'[c].rival
  <2>1. Inserting(me)
    BY <1>1, <1>4, <1>10 DEF Inserting
  <2> QED
    BY <1>5, <1>6, <1>8, <1>10, <2>1 DEF Notified
<1>11. \A k \in notes : Filter(k) = Filter(n) => k.type = n.type
  BY DEF Filter, MatchFilter
<1>12. ASSUME NEW k \in notes', NEW m \in notes',
              k # m, k.type \in Aggregated, ~k.read, ~m.read, Filter(k) = Filter(m)
       PROVE  notice'[k.id].rival \/ notice'[m.id].rival
  <2>1. CASE k = n
    BY <1>3, <1>4, <1>10, <1>12, <2>1
  <2>2. CASE m = n
    BY <1>3, <1>4, <1>10, <1>11, <1>12, <2>2
  <2>3. CASE k # n /\ m # n
    BY <1>3, <1>6, <1>8, <1>12, <2>3 DEF Notified
  <2> QED
    BY <2>1, <2>2, <2>3
<1>13. ASSUME NEW d \in Notices, NEW k \in notes', Inserting(notice'[d]), ~k.read, Filter(k) = Filter(notice'[d])
       PROVE  notice'[d].rival \/ notice'[k.id].rival
  <2>1. d # c /\ notice'[d] = notice[d]
    BY <1>6, <1>13 DEF Inserting
  <2>2. CASE k = n
    <3>1. Inserting(me)
      BY <1>1, <1>5, <1>13, <2>1, <2>2 DEF Inserting, Filter, MatchFilter
    <3> QED
      BY <1>4, <1>5, <1>6, <1>13, <2>1, <2>2, <3>1 DEF Notified
  <2>3. CASE k # n
    BY <1>3, <1>6, <1>8, <1>13, <2>1, <2>3 DEF Notified
  <2> QED
    BY <2>2, <2>3
<1>14. ASSUME NEW d \in Notices, NEW e \in Notices, d # e, Inserting(notice'[d]), Inserting(notice'[e]),
              Filter(notice'[d]) = Filter(notice'[e])
       PROVE  notice'[d].rival \/ notice'[e].rival
  BY <1>6, <1>14 DEF Notified, Inserting
<1>15. Notified'
  BY <1>9, <1>12, <1>13, <1>14 DEF Notified, Inserting, Filter, MatchFilter
<1> QED
  BY <1>7, <1>15

LEMMA NoticesStep == NoticeOK /\ Notified /\ [NoticeNext]_noticeVars => NoticeOK' /\ Notified'
<1> SUFFICES ASSUME NoticeOK, Notified, [NoticeNext]_noticeVars PROVE NoticeOK' /\ Notified'
  OBVIOUS
<1>0. \A c \in Notices : notice[c] \in Notice
  BY DEF NoticeOK
<1>1. CASE UNCHANGED noticeVars
  BY <1>1 DEF noticeVars, NoticeOK, Notified, Inserting, Filter, MatchFilter
\* A call that inserts nothing and leaves the documents.
<1>2. ASSUME NEW c \in Notices, NEW q \in Notice, notice' = [notice EXCEPT ![c] = q], notice[c].pc # "done",
             notes' = notes, ~Inserting(q),
             q.pc \in {"count", "match", "insert"} => q.to \in Users /\ q.type \in Aggregated \union Single
      PROVE  NoticeOK' /\ Notified'
  <2>1. PICK g : Kept(g)
    BY <1>2, NothingIsKept
  <2> QED
    BY <1>2, <2>1, NoticeGoesOn
<1>3. ASSUME NEW c \in Notices, NEW u \in Users, NEW y \in NoticeTypes, NEW p \in Posts \union {None},
             NEW by \in Users \union {None}, RequestNotice(c, u, y, p, by)
      PROVE  NoticeOK' /\ Notified'
  <2>1. PICK pc \in {"count", "refused"} : pc = IF Complete(y, p, by) THEN "count" ELSE "refused"
    OBVIOUS
  <2> DEFINE q == [NewNotice EXCEPT !.to = u, !.type = y, !.post = p, !.by = by, !.pc = pc]
  <2>2. notice' = [notice EXCEPT ![c] = q]
    BY Zenon, <1>3, <2>1 DEF RequestNotice
  <2>3. y \in Aggregated \union Single
    BY NoticeTypesAssumption
  <2>4. q \in Notice /\ q.pc = pc /\ q.to = u /\ q.type = y
    BY <2>1, <2>3 DEF NewNotice, Notice
  <2> HIDE DEF q
  <2>5. ~Inserting(q) /\ notice[c].pc # "done" /\ notes' = notes
    BY <1>3, <2>4 DEF Inserting, RequestNotice, NoticeAt
  <2> QED
    BY <1>2, <2>2, <2>3, <2>4, <2>5
<1>4. ASSUME NEW c \in Notices, NEW pc \in {"done", "failed", "insert"}, notice' = [notice EXCEPT ![c].pc = pc],
             notice[c].pc \notin {"new", "done"}, pc = "insert" => notice[c].pc = "count" /\ notice[c].type \notin Aggregated
      PROVE  \E q \in Notice :
               /\ notice' = [notice EXCEPT ![c] = q] /\ q.pc = pc /\ ~Inserting(q)
               /\ q.pc \in {"count", "match", "insert"} => q.to \in Users /\ q.type \in Aggregated \union Single
  <2> DEFINE q == [notice[c] EXCEPT !.pc = pc]
  <2>1. notice' = [notice EXCEPT ![c] = q]
    BY <1>4
  <2>2. q \in Notice /\ q.pc = pc /\ q.to = notice[c].to /\ q.type = notice[c].type
    BY <1>0 DEF Notice
  <2> HIDE DEF q
  <2> QED
    BY <1>4, <2>1, <2>2 DEF Inserting, NoticeOK
<1>5. ASSUME NEW c \in Notices, CountUnread(c) PROVE NoticeOK' /\ Notified'
  <2>1. CASE notice[c].type \notin Aggregated
    <3>1. notice' = [notice EXCEPT ![c].pc = "insert"] /\ notice[c].pc = "count" /\ notes' = notes
      BY <1>5, <2>1 DEF CountUnread, NoticeAt
    <3> QED
      BY <1>2, <1>4, <2>1, <3>1
  <2>2. CASE notice[c].type \in Aggregated
    <3> DEFINE others == Cardinality(Unread(notice[c]))
               q == [notice[c] EXCEPT !.pc = "match", !.others = others]
    <3>1. notice' = [notice EXCEPT ![c] = q]
      BY Zenon, <1>5, <2>2 DEF CountUnread
    <3>2. others \in Nat
      <4>1. IsFiniteSet(Unread(notice[c]))
        BY FS_Subset DEF NoticeOK, Unread
      <4> QED
        BY <4>1, FS_CardinalityType
    <3> HIDE DEF others
    <3>3. q \in Notice /\ q.pc = "match" /\ q.to = notice[c].to /\ q.type = notice[c].type
      BY <1>0, <3>2 DEF Notice
    <3> HIDE DEF q
    <3>4. ~Inserting(q) /\ notice[c].pc = "count" /\ notes' = notes
      BY <1>5, <3>3 DEF Inserting, CountUnread, NoticeAt
    <3> QED
      BY <1>2, <3>1, <3>3, <3>4 DEF NoticeOK
  <2> QED
    BY <2>1, <2>2
<1>6. ASSUME NEW c \in Notices, MatchNotice(c) PROVE NoticeOK' /\ Notified'
  <2>1. notice[c].pc = "match"
    BY <1>6 DEF MatchNotice, NoticeAt
  <2>2. CASE /\ Unread(notice[c]) = {} /\ notes' = notes
             /\ notice' = [notice EXCEPT ![c].pc = "insert",
                  ![c].rival = \E d \in Notices : NoticeAt(d, "insert") /\ SameGroup(c, d)]
    <3>1. PICK rival \in BOOLEAN : rival = \E d \in Notices : NoticeAt(d, "insert") /\ SameGroup(c, d)
      BY Zenon
    <3> DEFINE q == [notice[c] EXCEPT !.pc = "insert", !.rival = rival]
    <3>2. notice' = [notice EXCEPT ![c] = q]
      BY Zenon, <2>2, <3>1
    <3>3. /\ q \in Notice /\ q.pc = "insert" /\ q.rival = rival
          /\ q.to = notice[c].to /\ q.type = notice[c].type /\ q.post = notice[c].post
      BY <1>0 DEF Notice
    <3> HIDE DEF q
    <3>4. Filter(q) = Filter(notice[c])
      BY <3>3, SameFilter
    <3>5. \A n \in notes : ~n.read => Filter(n) # Filter(q)
      BY <2>2, <3>4 DEF Unread
    <3>6. ASSUME NEW d \in Notices, Inserting(notice[d]), Filter(notice[d]) = Filter(q) PROVE q.rival
      BY <3>1, <3>3, <3>4, <3>6 DEF Inserting, NoticeAt, SameGroup
    <3>7. PICK g : Kept(g)
      BY <2>2, NothingIsKept
    <3>8. q.to \in Users /\ q.type \in Aggregated \union Single
      BY <2>1, <3>3 DEF NoticeOK
    <3> QED
      BY <2>1, <3>2, <3>3, <3>5, <3>6, <3>7, <3>8, NoticeGoesOn
  <2>3. ASSUME NEW n \in Unread(notice[c]), Rewrite(n, c), NoticeGoto(c, "done") PROVE NoticeOK' /\ Notified'
    <3> DEFINE by == notice[c].by
               others == notice[c].others
               new == [n EXCEPT !.by = by, !.others = others]
               g == [k \in notes |-> IF k = n THEN new ELSE k]
    <3>1. by \in Users \union {None} /\ others \in Nat /\ n \in notes /\ n \in Note
      BY <1>0 DEF Notice, Unread, NoticeOK
    <3> HIDE DEF by, others
    <3>2. /\ new \in Note /\ new.id = n.id /\ new.type = n.type /\ new.to = n.to /\ new.post = n.post
          /\ new.read = n.read
      BY <3>1 DEF Note
    <3>3. notes' = (notes \ {n}) \union {new}
      BY <2>3 DEF Rewrite, by, others
    <3> HIDE DEF new
    <3>4. Filter(new) = Filter(n)
      BY <3>2, SameFilter
    <3>5. g \in [notes -> Note] /\ \A k \in notes : g[k] = IF k = n THEN new ELSE k
      BY <3>2 DEF NoticeOK
    <3>6. notes' = {g[k] : k \in notes}
      BY <3>1, <3>3, <3>5
    <3> HIDE DEF g
    <3>7. Kept(g)
      BY <3>2, <3>4, <3>5, <3>6 DEF Kept
    <3>8. notice' = [notice EXCEPT ![c].pc = "done"]
      BY <2>3 DEF NoticeGoto
    <3>9. PICK q \in Notice : notice' = [notice EXCEPT ![c] = q] /\ q.pc = "done" /\ ~Inserting(q)
      BY <1>4, <2>1, <3>8
    <3> QED
      BY <2>1, <3>7, <3>9, NoticeGoesOn
  <2> QED
    BY <1>6, <2>2, <2>3 DEF MatchNotice
<1>7. ASSUME NEW c \in Notices, NEW n \in notes, FindNote(c, n) PROVE NoticeOK' /\ Notified'
  <2> DEFINE id == n.id
             q == [NewNotice EXCEPT !.pc = "save", !.note = id]
  <2>1. notice' = [notice EXCEPT ![c] = q] /\ notice[c].pc = "new" /\ notes' = notes
    BY Zenon, <1>7 DEF FindNote, NoticeAt
  <2>2. id \in Notices
    BY DEF NoticeOK, Note
  <2> HIDE DEF id
  <2>3. q \in Notice /\ q.pc = "save"
    BY <2>2 DEF NewNotice, Notice
  <2> HIDE DEF q
  <2> QED
    BY <1>2, <2>1, <2>3 DEF Inserting
<1>8. ASSUME NEW c \in Notices, SaveRead(c) PROVE NoticeOK' /\ Notified'
  <2> DEFINE id == notice[c].note
             mark(k) == [k EXCEPT !.read = @ \/ k.id = id]
             g == [k \in notes |-> mark(k)]
  <2>1. notes' = {mark(k) : k \in notes} /\ notice' = [notice EXCEPT ![c].pc = "done"] /\ notice[c].pc = "save"
    BY <1>8 DEF SaveRead, NoticeAt, NoticeGoto
  <2> HIDE DEF id
  <2>2. ASSUME NEW k \in notes
        PROVE  /\ mark(k) \in Note /\ mark(k).id = k.id /\ mark(k).type = k.type
               /\ mark(k).to = k.to /\ mark(k).post = k.post
               /\ k.read => mark(k).read
    <3>1. k \in Note
      BY DEF NoticeOK
    <3> QED
      BY <3>1 DEF Note
  <2> HIDE DEF mark
  <2>3. \A k \in notes : Filter(mark(k)) = Filter(k)
    BY <2>2, SameFilter
  <2>4. g \in [notes -> Note] /\ \A k \in notes : g[k] = mark(k)
    BY <2>2
  <2>5. notes' = {g[k] : k \in notes}
    BY <2>1, <2>4
  <2> HIDE DEF g
  <2>6. Kept(g)
    BY <2>2, <2>3, <2>4, <2>5 DEF Kept
  <2>7. PICK q \in Notice : notice' = [notice EXCEPT ![c] = q] /\ q.pc = "done" /\ ~Inserting(q)
    BY <1>4, <2>1
  <2> QED
    BY <2>1, <2>6, <2>7, NoticeGoesOn
<1>9. ASSUME NEW c \in Notices, NoticeFails(c) PROVE NoticeOK' /\ Notified'
  <2>1. notice' = [notice EXCEPT ![c].pc = "failed"] /\ notice[c].pc \notin {"new", "done"} /\ notes' = notes
    BY <1>9 DEF NoticeFails, NoticeGoto
  <2>2. PICK q \in Notice : notice' = [notice EXCEPT ![c] = q] /\ q.pc = "failed" /\ ~Inserting(q)
    BY <1>4, <2>1
  <2> QED
    BY <1>2, <2>1, <2>2
<1> QED
  BY <1>1, <1>3, <1>5, <1>6, <1>7, <1>8, <1>9, NoticeIsInserted DEF NoticeNext

\* Two unread notifications of one aggregated group took two upserts that overlapped:
\* rewriting, reading and failures in any order leave one (createNotificationfunc).
THEOREM UnreadStaysSingle == NoticeSpec => []SecondUnreadNeedsOverlap
<1>1. NoticeInit => NoticeOK /\ Notified
  BY FS_EmptySet DEF NoticeInit, NoticeOK, Notified, Inserting, NewNotice, Notice
<1>2. Notified => SecondUnreadNeedsOverlap
  BY DEF Notified, SecondUnreadNeedsOverlap, Filter
<1> QED
  BY <1>1, <1>2, NoticesStep, PTL DEF NoticeSpec

-----------------------------------------------------------------------------
(***************************************************************************)
(* Usernames.                                                              *)
(***************************************************************************)

\* A request that has found its name free and not written it yet.
Holds(k) == k.pc \in {"write", "assign"} /\ k.name # None

Rivalled(n) == \E d \in Asks : ask[d].rival /\ ask[d].name = n

\* A request takes its name once.
Formed(k) ==
  /\ k.pc \in {"new", "suggest"} => k.name = None
  /\ k.pc = "assign" => k.name # None
  /\ k.pc \in {"write", "suggest", "assign"} => k.user \in Users
  /\ k.next # 0

\* The name a request holds belongs to nobody else, and to no other request, unless a
\* rival is on record.
HeldIsFree ==
  \A c \in Asks, v \in Users :
    Holds(ask[c]) /\ v # ask[c].user /\ username[v] = ask[c].name => Rivalled(ask[c].name)

HeldOnce ==
  \A c, d \in Asks :
    Holds(ask[c]) /\ Holds(ask[d]) /\ ask[c].user # ask[d].user /\ ask[c].name = ask[d].name
      => Rivalled(ask[c].name)

NameTypes ==
  /\ username \in [Users -> Names \union {None}]
  /\ ask \in [Asks -> Ask] /\ \A c \in Asks : Formed(ask[c])

NameInv == NameTypes /\ HeldIsFree /\ HeldOnce /\ SharedNameNeedsOverlap

\* As Rivalled, after the step.
RivalledAfter(n) == \E d \in Asks : ask'[d].rival /\ ask'[d].name = n

\* What a step makes of its request: a rival on record stays there.
AskBecomes(c, q) ==
  /\ q \in Ask /\ Formed(q)
  /\ ask' = [ask EXCEPT ![c] = q]
  /\ ask[c].rival /\ ask[c].name # None => q.rival /\ q.name = ask[c].name

LEMMA AskSteps ==
  ASSUME NameTypes, NEW c \in Asks, NEW q, AskBecomes(c, q)
  PROVE  /\ ask' \in [Asks -> Ask] /\ (\A d \in Asks : Formed(ask'[d]))
         /\ ask'[c] = q /\ \A d \in Asks : d # c => ask'[d] = ask[d]
         /\ \A n : n # None /\ Rivalled(n) => RivalledAfter(n)
<1>1. ask' \in [Asks -> Ask] /\ ask'[c] = q /\ \A d \in Asks : d # c => ask'[d] = ask[d]
  BY DEF AskBecomes, NameTypes
<1>2. \A d \in Asks : Formed(ask'[d])
  BY <1>1 DEF AskBecomes, NameTypes
<1>3. ASSUME NEW n, n # None, NEW d \in Asks, ask[d].rival, ask[d].name = n
      PROVE  ask'[d].rival /\ ask'[d].name = n
  BY <1>1, <1>3 DEF AskBecomes
<1> QED
  BY <1>1, <1>2, <1>3 DEF Rivalled, RivalledAfter

\* A step that writes no username: what its request holds it held before or has found free.
LEMMA NamesStay ==
  ASSUME NameInv, NEW c \in Asks, NEW q, AskBecomes(c, q), UNCHANGED username,
         Holds(q) => \/ Holds(ask[c]) /\ q.name = ask[c].name /\ q.user = ask[c].user
                     \/ ~Taken(q.name, q.user) /\ (Contested(c, q.user, q.name) => q.rival)
  PROVE  NameInv'
<1>1. NameTypes /\ HeldIsFree /\ HeldOnce /\ SharedNameNeedsOverlap
  BY DEF NameInv
<1>2. /\ ask' \in [Asks -> Ask] /\ (\A d \in Asks : Formed(ask'[d]))
      /\ ask'[c] = q /\ \A d \in Asks : d # c => ask'[d] = ask[d]
      /\ \A n : n # None /\ Rivalled(n) => RivalledAfter(n)
  BY <1>1, AskSteps
<1>3. NameTypes'
  BY <1>1, <1>2 DEF NameTypes
<1>4. HeldIsFree'
  <2> SUFFICES ASSUME NEW d \in Asks, NEW v \in Users, Holds(ask'[d]), v # ask'[d].user,
                      username[v] = ask'[d].name
               PROVE  RivalledAfter(ask'[d].name)
    BY DEF HeldIsFree, Rivalled, RivalledAfter, Holds
  <2>1. ask'[d].name # None
    BY DEF Holds
  <2>2. CASE d # c
    BY <1>1, <1>2, <2>1, <2>2 DEF HeldIsFree
  <2>3. CASE d = c
    <3>1. ~(~Taken(q.name, q.user))
      BY <1>2, <2>3 DEF Taken
    <3> QED
      BY <1>1, <1>2, <2>1, <2>3, <3>1 DEF HeldIsFree
  <2> QED
    BY <2>2, <2>3
<1>5. ASSUME Holds(q), NEW d \in Asks, d # c, Holds(ask[d]), ask[d].user # q.user, ask[d].name = q.name
      PROVE  RivalledAfter(q.name)
  <2>1. q.name # None
    BY <1>5 DEF Holds
  <2>2. CASE Holds(ask[c]) /\ q.name = ask[c].name /\ q.user = ask[c].user
    BY <1>1, <1>2, <1>5, <2>1, <2>2 DEF HeldOnce
  <2>3. CASE Contested(c, q.user, q.name) => q.rival
    <3>1. q.rival
      BY <1>5, <2>3 DEF Contested, Holds
    <3> QED
      BY <1>2, <3>1 DEF RivalledAfter
  <2> QED
    BY <1>5, <2>2, <2>3
<1>6. HeldOnce'
  <2> SUFFICES ASSUME NEW d \in Asks, NEW e \in Asks, Holds(ask'[d]), Holds(ask'[e]),
                      ask'[d].user # ask'[e].user, ask'[d].name = ask'[e].name
               PROVE  RivalledAfter(ask'[d].name)
    BY DEF HeldOnce, Rivalled, RivalledAfter, Holds
  <2>1. ask'[d].name # None
    BY DEF Holds
  <2>2. CASE d # c /\ e # c
    BY <1>1, <1>2, <2>1, <2>2 DEF HeldOnce
  <2>3. CASE d = c \/ e = c
    BY <1>2, <1>5, <2>3
  <2> QED
    BY <2>2, <2>3
<1>7. SharedNameNeedsOverlap'
  BY <1>1, <1>2 DEF SharedNameNeedsOverlap, Rivalled, RivalledAfter
<1> QED
  BY <1>3, <1>4, <1>6, <1>7 DEF NameInv

\* A request that holds a name writes it.
LEMMA NameIsWritten ==
  ASSUME NameInv, NEW c \in Asks, NEW q, AskBecomes(c, q), Holds(ask[c]), ~Holds(q),
         username' = [username EXCEPT ![ask[c].user] = ask[c].name]
  PROVE  NameInv'
<1> DEFINE u == ask[c].user
           n == ask[c].name
<1>1. NameTypes /\ HeldIsFree /\ HeldOnce /\ SharedNameNeedsOverlap
  BY DEF NameInv
<1>2. /\ ask' \in [Asks -> Ask] /\ (\A d \in Asks : Formed(ask'[d]))
      /\ ask'[c] = q /\ \A d \in Asks : d # c => ask'[d] = ask[d]
      /\ \A m : m # None /\ Rivalled(m) => RivalledAfter(m)
  BY <1>1, AskSteps
<1>3. u \in Users /\ n \in Names \union {None} /\ n # None
  BY <1>1 DEF NameTypes, Formed, Holds, Ask
<1>4. /\ username' \in [Users -> Names \union {None}]
      /\ username'[u] = n /\ \A v \in Users : v # u => username'[v] = username[v]
  BY <1>1, <1>3 DEF NameTypes
<1>5. \A v \in Users : v # u /\ username[v] = n => RivalledAfter(n)
  BY <1>1, <1>2, <1>3 DEF HeldIsFree
<1>6. \A d \in Asks : d # c /\ Holds(ask[d]) /\ ask[d].user # u /\ ask[d].name = n => RivalledAfter(n)
  BY <1>1, <1>2, <1>3 DEF HeldOnce
<1>7. NameTypes'
  BY <1>2, <1>4 DEF NameTypes
<1> HIDE DEF u, n
<1>8. HeldIsFree'
  <2> SUFFICES ASSUME NEW d \in Asks, NEW v \in Users, Holds(ask'[d]), v # ask'[d].user,
                      username'[v] = ask'[d].name
               PROVE  RivalledAfter(ask'[d].name)
    BY DEF HeldIsFree, Rivalled, RivalledAfter, Holds
  <2>1. d # c /\ ask'[d] = ask[d] /\ ask[d].name # None
    BY <1>2 DEF Holds
  <2>2. CASE v = u
    BY <1>4, <1>6, <2>1, <2>2
  <2>3. CASE v # u
    BY <1>1, <1>2, <1>4, <2>1, <2>3 DEF HeldIsFree
  <2> QED
    BY <2>2, <2>3
<1>9. HeldOnce'
  <2> SUFFICES ASSUME NEW d \in Asks, NEW e \in Asks, Holds(ask'[d]), Holds(ask'[e]),
                      ask'[d].user # ask'[e].user, ask'[d].name = ask'[e].name
               PROVE  RivalledAfter(ask'[d].name)
    BY DEF HeldOnce, Rivalled, RivalledAfter, Holds
  <2>1. d # c /\ e # c /\ ask[d].name # None
    BY <1>2 DEF Holds
  <2> QED
    BY <1>1, <1>2, <2>1 DEF HeldOnce
<1>10. SharedNameNeedsOverlap'
  <2> SUFFICES ASSUME NEW v \in Users, NEW w \in Users, v # w, username'[v] # None,
                      username'[v] = username'[w]
               PROVE  RivalledAfter(username'[v])
    BY DEF SharedNameNeedsOverlap, RivalledAfter
  <2>1. CASE v # u /\ w # u
    <3>1. Rivalled(username[v])
      BY <1>1, <1>4, <2>1 DEF SharedNameNeedsOverlap, Rivalled
    <3> QED
      BY <1>2, <1>4, <2>1, <3>1
  <2>2. CASE v = u \/ w = u
    BY <1>4, <1>5, <2>2
  <2> QED
    BY <2>1, <2>2
<1> QED
  BY <1>7, <1>8, <1>9, <1>10 DEF NameInv

\* A request whose pc alone changes, to one that holds nothing and names nothing new.
LEMMA AskGoesOn ==
  ASSUME NameInv, NEW c \in Asks, NEW pc \in {"done", "failed", "refused", "tell", "insert", "untell"},
         AskGoto(c, pc), UNCHANGED username
  PROVE  NameInv'
<1> DEFINE q == [ask[c] EXCEPT !.pc = pc]
<1>1. ask[c] \in Ask /\ Formed(ask[c])
  BY DEF NameInv, NameTypes
<1>2. ask' = [ask EXCEPT ![c] = q]
  BY DEF AskGoto
<1>3. q \in Ask /\ Formed(q) /\ ~Holds(q) /\ q.rival = ask[c].rival /\ q.name = ask[c].name
  BY <1>1 DEF Ask, Formed, Holds
<1> HIDE DEF q
<1>4. AskBecomes(c, q)
  BY <1>2, <1>3 DEF AskBecomes
<1> QED
  BY <1>3, <1>4, NamesStay

LEMMA RequestProfileOK ==
  ASSUME NameInv, NEW c \in Asks, NEW u \in Users, NEW n \in Names \union {None},
         NEW d \in {"keep", "set", "clear"}, RequestProfile(c, u, n, d)
  PROVE  NameInv'
<1> DEFINE taken == n # None /\ Taken(n, u)
           pc == IF taken THEN "refused" ELSE IF n = None /\ d = "keep" THEN "done" ELSE "write"
           rival == n # None /\ Contested(c, u, n)
           q == [NewAsk EXCEPT !.user = u, !.name = n, !.display = d, !.pc = pc, !.rival = rival]
<1>1. ask' = [ask EXCEPT ![c] = q] /\ UNCHANGED username /\ ask[c].pc = "new"
  BY Zenon DEF RequestProfile, profileVars, AskAt
<1>2. ask[c].name = None
  BY <1>1 DEF NameInv, NameTypes, Formed
<1>3. pc \in {"refused", "done", "write"} /\ rival \in BOOLEAN
  BY DEF Contested
<1>4. /\ pc = "write" /\ n # None => ~Taken(n, u)
      /\ n # None /\ Contested(c, u, n) => rival
  OBVIOUS
<1> HIDE DEF taken, pc, rival
<1>5. /\ q \in Ask /\ q.pc = pc /\ q.name = n /\ q.user = u /\ q.rival = rival /\ q.next = 1
  BY <1>3 DEF NewAsk, Ask
<1> HIDE DEF q
<1>6. AskBecomes(c, q)
  BY <1>1, <1>2, <1>3, <1>5 DEF AskBecomes, Formed
<1>7. Holds(q) => ~Taken(q.name, q.user) /\ (Contested(c, q.user, q.name) => q.rival)
  BY <1>3, <1>4, <1>5 DEF Holds
<1> QED
  BY <1>1, <1>6, <1>7, NamesStay

LEMMA WriteProfileOK ==
  ASSUME NameInv, NEW c \in Asks, WriteProfile(c)
  PROVE  NameInv'
<1> DEFINE u == ask[c].user
<1>1. ask[c] \in Ask /\ Formed(ask[c]) /\ ask[c].pc = "write"
      /\ username \in [Users -> Names \union {None}]
  BY DEF NameInv, NameTypes, WriteProfile, AskAt
<1>2. u \in Users
  BY <1>1 DEF Formed
<1>3. PICK pc \in {"suggest", "done"} :
        /\ ask' = [ask EXCEPT ![c].pc = pc]
        /\ pc = "suggest" => ask[c].name = None
  BY DEF WriteProfile, AskGoto
<1> DEFINE q == [ask[c] EXCEPT !.pc = pc]
<1>4. ask' = [ask EXCEPT ![c] = q]
  BY <1>3
<1>5. q \in Ask /\ Formed(q) /\ ~Holds(q) /\ q.rival = ask[c].rival /\ q.name = ask[c].name
  BY <1>1, <1>3 DEF Ask, Formed, Holds
<1> HIDE DEF q
<1>6. AskBecomes(c, q)
  BY <1>4, <1>5 DEF AskBecomes
<1>7. CASE ask[c].name = None
  <2>1. username' = [username EXCEPT ![u] = username[u]]
    BY <1>7 DEF WriteProfile
  <2>2. UNCHANGED username
    BY <1>1, <1>2, <2>1
  <2> QED
    BY <1>5, <1>6, <2>2, NamesStay
<1>8. CASE ask[c].name # None
  <2>1. username' = [username EXCEPT ![u] = ask[c].name]
    BY <1>8 DEF WriteProfile
  <2>2. Holds(ask[c])
    BY <1>1, <1>8 DEF Holds
  <2> QED
    BY <1>5, <1>6, <2>1, <2>2, NameIsWritten
<1> QED
  BY <1>7, <1>8

LEMMA TrySuggestionOK ==
  ASSUME NameInv, NEW c \in Asks, TrySuggestion(c)
  PROVE  NameInv'
<1>1. /\ ask[c] \in Ask /\ ask[c].next # 0 /\ ask[c].user \in Users /\ ask[c].name = None
      /\ UNCHANGED username
  BY DEF NameInv, NameTypes, Formed, TrySuggestion, AskAt, profileVars
<1>2. CASE ask[c].next > Len(Suggested)
  BY <1>1, <1>2, AskGoesOn DEF TrySuggestion
<1>3. CASE ~(ask[c].next > Len(Suggested))
  <2> DEFINE n == Suggested[ask[c].next]
  <2>1. n \in Names /\ n # None /\ ask[c].next + 1 \in Nat \ {0}
    BY <1>1, <1>3, NamesAssumption DEF Ask
  <2>2. ask[c].pc = "suggest" /\
        \/ Taken(n, ask[c].user) /\ ask' = [ask EXCEPT ![c] = [ask[c] EXCEPT !.next = @ + 1]]
        \/ /\ ~Taken(n, ask[c].user)
           /\ ask' = [ask EXCEPT ![c] = [ask[c] EXCEPT !.pc = "assign", !.name = n,
                                                       !.rival = Contested(c, ask[c].user, n)]]
    BY Zenon, <1>3 DEF TrySuggestion, AskAt
  <2> HIDE DEF n
  <2>3. CASE Taken(n, ask[c].user) /\ ask' = [ask EXCEPT ![c] = [ask[c] EXCEPT !.next = @ + 1]]
    <3> DEFINE q == [ask[c] EXCEPT !.next = @ + 1]
    <3>1. q \in Ask /\ Formed(q) /\ ~Holds(q)
      BY <1>1, <2>1, <2>2 DEF Ask, Formed, Holds
    <3> HIDE DEF q
    <3>2. AskBecomes(c, q)
      BY <1>1, <2>3, <3>1 DEF AskBecomes, q
    <3> QED
      BY <1>1, <3>1, <3>2, NamesStay
  <2>4. CASE /\ ~Taken(n, ask[c].user)
             /\ ask' = [ask EXCEPT ![c] = [ask[c] EXCEPT !.pc = "assign", !.name = n,
                                                         !.rival = Contested(c, ask[c].user, n)]]
    <3>1. PICK rival \in BOOLEAN : rival = Contested(c, ask[c].user, n)
      BY Zenon DEF Contested
    <3> DEFINE q == [ask[c] EXCEPT !.pc = "assign", !.name = n, !.rival = rival]
    <3>2. ask' = [ask EXCEPT ![c] = q]
      BY Zenon, <2>4, <3>1
    <3>3. q \in Ask /\ Formed(q) /\ q.name = n /\ q.user = ask[c].user /\ q.rival = rival
      BY <1>1, <2>1 DEF Ask, Formed
    <3> HIDE DEF q
    <3>4. AskBecomes(c, q)
      BY <1>1, <3>2, <3>3 DEF AskBecomes
    <3> QED
      BY <1>1, <2>4, <3>1, <3>3, <3>4, NamesStay
  <2> QED
    BY <2>2, <2>3, <2>4
<1> QED
  BY <1>2, <1>3

LEMMA AssignSuggestionOK ==
  ASSUME NameInv, NEW c \in Asks, AssignSuggestion(c)
  PROVE  NameInv'
<1> DEFINE q == [ask[c] EXCEPT !.pc = "done"]
<1>1. /\ ask[c] \in Ask /\ Formed(ask[c]) /\ ask[c].pc = "assign"
      /\ ask' = [ask EXCEPT ![c] = q] /\ username' = [username EXCEPT ![ask[c].user] = ask[c].name]
  BY DEF NameInv, NameTypes, AssignSuggestion, AskAt, AskGoto
<1>2. q \in Ask /\ Formed(q) /\ ~Holds(q) /\ q.rival = ask[c].rival /\ q.name = ask[c].name
  BY <1>1 DEF Ask, Formed, Holds
<1> HIDE DEF q
<1>3. AskBecomes(c, q)
  BY <1>1, <1>2 DEF AskBecomes
<1>4. Holds(ask[c])
  BY <1>1 DEF Formed, Holds
<1> QED
  BY <1>1, <1>2, <1>3, <1>4, NameIsWritten

\* Follows name nobody: a request of a pair holds no username.
LEMMA FollowsOK ==
  ASSUME NameInv, FollowNext
  PROVE  NameInv'
<1>1. UNCHANGED username
  BY DEF FollowNext, BeginPair, FollowMatch, FollowInsert, TellFollow, Unfollow, UntellFollow, profileVars
<1>2. ASSUME NEW c \in Asks, NEW u \in Users, NEW v \in Users, NEW pc \in {"match", "delete"},
             BeginPair(c, pc, u, v)
      PROVE  NameInv'
  <2>1. PICK rival \in BOOLEAN : rival = (\E d \in Asks : ask[d].pc \in FollowPcs /\ OnPair(d, u, v))
    BY Zenon
  <2> DEFINE q == [NewAsk EXCEPT !.pc = pc, !.user = u, !.of = v, !.rival = rival]
  <2>2. ask' = [ask EXCEPT ![c] = q] /\ ask[c].pc = "new"
    BY Zenon, <1>2, <2>1 DEF BeginPair, AskAt
  <2>3. q \in Ask /\ q.pc = pc /\ q.name = None /\ q.next = 1
    BY DEF NewAsk, Ask
  <2> HIDE DEF q
  <2>4. ask[c].name = None
    BY <2>2 DEF NameInv, NameTypes, Formed
  <2>5. ~Holds(q) /\ Formed(q) /\ AskBecomes(c, q)
    BY <2>2, <2>3, <2>4 DEF AskBecomes, Holds, Formed
  <2> QED
    BY <1>1, <2>5, NamesStay
<1>3. ASSUME NEW c \in Asks, FollowMatch(c) PROVE NameInv'
  <2>1. PICK there \in BOOLEAN : there = (Of(follows, ask[c].user, ask[c].of) # {})
    BY Zenon
  <2> DEFINE q == [ask[c] EXCEPT !.pc = IF there THEN "tell" ELSE "insert", !.rival = @ \/ there]
  <2>2. ask[c] \in Ask /\ Formed(ask[c]) /\ ask' = [ask EXCEPT ![c] = q]
    BY <1>3, <2>1 DEF FollowMatch, NameInv, NameTypes
  <2>3. q \in Ask /\ Formed(q) /\ ~Holds(q) /\ (ask[c].rival => q.rival) /\ q.name = ask[c].name
    BY <2>2 DEF Ask, Formed, Holds
  <2> HIDE DEF q
  <2>4. AskBecomes(c, q)
    BY <2>2, <2>3 DEF AskBecomes
  <2> QED
    BY <1>1, <2>3, <2>4, NamesStay
<1>4. ASSUME NEW c \in Asks, FollowInsert(c) \/ TellFollow(c) \/ Unfollow(c) \/ UntellFollow(c)
      PROVE  NameInv'
  <2>1. \E pc \in {"done", "refused", "tell", "untell"} : AskGoto(c, pc)
    BY <1>4 DEF FollowInsert, TellFollow, Unfollow, UntellFollow
  <2> QED
    BY <1>1, <2>1, AskGoesOn
<1> QED
  BY <1>2, <1>3, <1>4 DEF FollowNext

LEMMA NamesStep == NameInv /\ [AccountNext]_accountVars => NameInv'
<1> SUFFICES ASSUME NameInv, [AccountNext]_accountVars PROVE NameInv'
  OBVIOUS
<1>1. CASE UNCHANGED <<username, ask>>
  BY <1>1 DEF NameInv, NameTypes, HeldIsFree, HeldOnce, SharedNameNeedsOverlap, Rivalled
<1>2. CASE ProfileNext
  <2>1. CASE \E u \in Users : Login(u)
    BY <1>1, <2>1 DEF Login
  <2> QED
    BY <1>2, <2>1, RequestProfileOK, WriteProfileOK, TrySuggestionOK, AssignSuggestionOK DEF ProfileNext
<1>3. CASE \E c \in Asks : AskFails(c)
  BY <1>3, AskGoesOn DEF AskFails, profileVars
<1> QED
  BY <1>1, <1>2, <1>3, FollowsOK DEF AccountNext, accountVars, profileVars

\* Two accounts share a username only after a request that found it free while another
\* had found it free and not written it: no order of requests, suggestions, failures and
\* writes that do not overlap leads there (updateProfile, isValidUsername).
THEOREM NamesAreShared == AccountSpec => []SharedNameNeedsOverlap
<1>1. AccountInit => NameInv
  BY DEF AccountInit, NameInv, NameTypes, HeldIsFree, HeldOnce, SharedNameNeedsOverlap, Holds, Formed,
         NewAsk, Ask
<1>2. NameInv => SharedNameNeedsOverlap
  BY DEF NameInv
<1> QED
  BY <1>1, <1>2, NamesStep, PTL DEF AccountSpec

-----------------------------------------------------------------------------
(***************************************************************************)
(* Blocks of conversations and of group members.                           *)
(***************************************************************************)

BlockTypes ==
  /\ reports \in SUBSET Report
  /\ blocks \in [Blocks -> Block]
  /\ \A b \in Blocks : blocks[b].pc # "new" => blocks[b].chat \in Chats
  /\ sends \in [Sends -> Send]

Underway(m) == sends[m].pc \in {"create", "deliver"}

\* Of a message on its way, whoever an open report of its conversation holds back is
\* spared or was held back after the list was read.
Accounted ==
  \A m \in Sends : Underway(m) =>
    \A r \in BlockList(sends[m].chat) :
      HeldBack(r) \in Users => HeldBack(r) \in sends[m].spared \union sends[m].stale

BlockInv == BlockTypes /\ Accounted

LEMMA BlockInitOK == BlockInit => BlockInv
<1> SUFFICES ASSUME BlockInit PROVE BlockInv
  OBVIOUS
<1>1. reports = {} /\ BlockTypes
  BY DEF BlockInit, BlockTypes, Report, Block, Send, Somebody
<1>2. \A m \in Sends : ~Underway(m)
  BY DEF BlockInit, Underway
<1> QED
  BY <1>1, <1>2 DEF BlockInv, Accounted

LEMMA HeldBackTypes ==
  ASSUME NEW r \in Report
  PROVE  HeldBack(r) \in Somebody /\ r.chat \in Chats /\ r.resolved \in BOOLEAN
BY DEF HeldBack, Report, Somebody

\* A look of a block's handler: nothing else changes.
LEMMA AskBlockTypes ==
  ASSUME BlockTypes, NEW b \in Blocks, NEW c \in Chats, NEW by \in Somebody, NEW admin \in Somebody,
         NEW target \in Somebody, NEW pc \in {"refused", "failed", "block", "unblock"},
         AskBlock(b, c, by, admin, target, pc)
  PROVE  BlockTypes' /\ UNCHANGED <<reports, sends, delivered>>
<1> DEFINE q == [pc |-> pc, chat |-> c, by |-> by, admin |-> admin, target |-> target,
                 late |-> Due(c, by, admin)]
<1>1. Due(c, by, admin) \in BOOLEAN
  BY DEF Due
<1>2. q \in Block /\ q.chat \in Chats
  BY <1>1 DEF Block
<1>3. blocks' = [blocks EXCEPT ![b] = q] /\ UNCHANGED <<reports, sends, delivered>>
  BY DEF AskBlock
<1> HIDE DEF q
<1> QED
  BY <1>2, <1>3 DEF BlockTypes

LEMMA AskBlockSteps ==
  ASSUME BlockTypes, NEW b \in Blocks, NEW c \in Chats, NEW u \in Users, NEW v \in Users,
         BlockDm(b, c, u) \/ UnBlockDm(b, c, u) \/ BlockGroupUser(b, c, u, v)
  PROVE  BlockTypes' /\ UNCHANGED <<reports, sends, delivered>>
<1>0. u \in Somebody /\ v \in Somebody /\ None \in Somebody
  BY DEF Somebody
<1>1. CASE BlockDm(b, c, u)
  <2>1. PICK pc \in {"refused", "failed", "block"} : AskBlock(b, c, u, None, None, pc)
    BY <1>1 DEF BlockDm
  <2> QED
    BY <1>0, <2>1, AskBlockTypes
<1>2. CASE UnBlockDm(b, c, u)
  <2>1. PICK pc \in {"refused", "unblock"} : AskBlock(b, c, u, None, None, pc)
    BY <1>2 DEF UnBlockDm
  <2> QED
    BY <1>0, <2>1, AskBlockTypes
<1>3. CASE BlockGroupUser(b, c, u, v)
  <2>1. PICK pc \in {"refused", "block"} : AskBlock(b, c, None, u, v, pc)
    BY <1>3 DEF BlockGroupUser
  <2> QED
    BY <1>0, <2>1, AskBlockTypes
<1> QED
  BY <1>1, <1>2, <1>3

\* The block that is written is told to the messages on their way.
LEMMA UpsertOK ==
  ASSUME BlockInv, NEW b \in Blocks, UpsertBlock(b)
  PROVE  BlockInv' /\ UNCHANGED delivered
<1> DEFINE x == Blocked(b)
<1>1. blocks[b] \in Block /\ BlockTypes /\ Accounted
  BY DEF BlockInv, BlockTypes
<1>2. PICK pc \in {"done", "failed"} : blocks' = [blocks EXCEPT ![b].pc = pc]
  BY DEF UpsertBlock
<1>3. /\ blocks' \in [Blocks -> Block] /\ blocks[b].chat \in Chats
      /\ \A d \in Blocks : blocks'[d].pc # "new" => blocks'[d].chat \in Chats
  BY <1>1, <1>2 DEF BlockTypes, Block, UpsertBlock
<1>4. UNCHANGED delivered /\
      \/ UNCHANGED <<reports, sends>>
      \/ reports' \subseteq reports \union {x} /\ sends' = Outdated(x)
  BY DEF UpsertBlock
<1>5. CASE UNCHANGED <<reports, sends>>
  BY <1>1, <1>3, <1>4, <1>5 DEF BlockInv, BlockTypes, Accounted, Underway, BlockList
<1>6. CASE reports' \subseteq reports \union {x} /\ sends' = Outdated(x)
  <2>1. x \in Report /\ x.chat = blocks[b].chat
    BY <1>1, <1>3 DEF Blocked, Block, Report
  <2> HIDE DEF x
  <2>2. HeldBack(x) \in Somebody
    BY <2>1, HeldBackTypes
  <2> DEFINE N == {HeldBack(x)} \ {None}
  <2>3. N \subseteq Users /\ (HeldBack(x) \in Users => HeldBack(x) \in N)
    BY <2>2, UsersAssumption DEF Somebody
  <2>4. \A m \in Sends :
          sends'[m] = (IF Underway(m) /\ sends[m].chat = x.chat
                         THEN [sends[m] EXCEPT !.stale = @ \union N] ELSE sends[m])
    BY <1>6 DEF Outdated, Underway
  <2>5. DOMAIN sends' = Sends /\ sends' = [m \in Sends |-> sends'[m]]
    BY <1>6 DEF Outdated
  <2> HIDE DEF N
  <2>6. ASSUME NEW m \in Sends
        PROVE  /\ sends'[m] \in Send /\ sends'[m].pc = sends[m].pc /\ sends'[m].chat = sends[m].chat
               /\ sends'[m].spared = sends[m].spared /\ sends[m].stale \subseteq sends'[m].stale
               /\ Underway(m) /\ sends[m].chat = x.chat => N \subseteq sends'[m].stale
    <3>1. sends[m] \in Send
      BY <1>1 DEF BlockTypes
    <3> QED
      BY <2>3, <2>4, <3>1 DEF Send
  <2>7. BlockTypes'
    BY <1>1, <1>3, <1>6, <2>1, <2>5, <2>6 DEF BlockTypes
  <2>8. ASSUME NEW m \in Sends, Underway(m)', NEW r \in BlockList(sends[m].chat)', HeldBack(r) \in Users
        PROVE  HeldBack(r) \in sends'[m].spared \union sends'[m].stale
    <3>1. Underway(m)
      BY <2>6, <2>8 DEF Underway
    <3>2. r \in reports' /\ r.chat = sends[m].chat /\ ~r.resolved
      BY <2>6, <2>8 DEF BlockList
    <3>3. CASE r = x
      BY <2>3, <2>6, <2>8, <3>1, <3>2, <3>3
    <3>4. CASE r \in reports
      <4>1. r \in BlockList(sends[m].chat)
        BY <3>2, <3>4 DEF BlockList
      <4>2. HeldBack(r) \in sends[m].spared \union sends[m].stale
        BY <1>1, <2>8, <3>1, <4>1 DEF Accounted
      <4> QED
        BY <2>6, <4>2
    <3> QED
      BY <1>6, <3>2, <3>3, <3>4
  <2>9. Accounted'
    BY <2>8 DEF Accounted, HeldBack
  <2> QED
    BY <1>4, <2>7, <2>9 DEF BlockInv
<1> QED
  BY <1>4, <1>5, <1>6

\* A report that is taken back holds nobody back any more.
LEMMA UnblockOK ==
  ASSUME BlockInv, NEW b \in Blocks, Unblock(b)
  PROVE  BlockInv' /\ UNCHANGED delivered
<1>1. blocks[b] \in Block /\ BlockTypes /\ Accounted
  BY DEF BlockInv, BlockTypes
<1>2. UNCHANGED <<sends, delivered>> /\ \E pc \in {"done", "kept"} : blocks' = [blocks EXCEPT ![b].pc = pc]
  BY DEF Unblock
<1>3. /\ blocks' \in [Blocks -> Block]
      /\ \A d \in Blocks : blocks'[d].pc # "new" => blocks'[d].chat \in Chats
  <2>1. blocks[b].pc = "unblock" /\ blocks[b].chat \in Chats
    BY <1>1 DEF Unblock, BlockTypes
  <2> QED
    BY <1>1, <1>2, <2>1 DEF BlockTypes, Block
<1>4. /\ reports' \subseteq Report
      /\ \A r \in reports' : r \in reports \/ r.resolved
  <2>1. CASE UNCHANGED reports
    BY <1>1, <2>1 DEF BlockTypes
  <2>2. CASE ~UNCHANGED reports
    <3>1. PICK r \in reports :
            reports' = (reports \ {r}) \union {[r EXCEPT !.action = "unblock", !.resolved = TRUE]}
      BY <2>2 DEF Unblock, Matching
    <3> DEFINE doc == [r EXCEPT !.action = "unblock", !.resolved = TRUE]
    <3>2. r \in Report
      BY <1>1 DEF BlockTypes
    <3>3. reports' = (reports \ {r}) \union {doc}
      BY <3>1
    <3>4. doc \in Report /\ doc.resolved
      BY <3>2 DEF Report
    <3> HIDE DEF doc
    <3> QED
      BY <1>1, <3>3, <3>4 DEF BlockTypes
  <2> QED
    BY <2>1, <2>2
<1>5. BlockTypes'
  BY <1>1, <1>2, <1>3, <1>4 DEF BlockTypes
<1>6. \A c : BlockList(c)' \subseteq BlockList(c)
  BY <1>4 DEF BlockList
<1>7. Accounted'
  BY <1>1, <1>2, <1>6 DEF Accounted, Underway, HeldBack
<1> QED
  BY <1>2, <1>5, <1>7 DEF BlockInv

\* A message begins with the list of its conversation, as it is.
LEMMA StartSendOK ==
  ASSUME BlockInv, NEW m \in Sends, NEW c \in Chats, NEW u \in Users, StartSend(m, c, u)
  PROVE  BlockInv' /\ UNCHANGED delivered
<1>1. BlockTypes /\ Accounted /\ sends[m] \in Send
  BY DEF BlockInv, BlockTypes
<1> DEFINE S == {HeldBack(r) : r \in BlockList(c)} \ {None}
           q == IF MaySend(c, u)
                  THEN [pc |-> "create", chat |-> c, user |-> u, stale |-> {}, spared |-> S]
                  ELSE [sends[m] EXCEPT !.pc = "refused"]
<1>2. S \subseteq Users /\ \A r \in BlockList(c) : HeldBack(r) \in Users => HeldBack(r) \in S
  BY <1>1, HeldBackTypes, UsersAssumption DEF BlockTypes, BlockList, Somebody
<1>3. sends' = [sends EXCEPT ![m] = q] /\ UNCHANGED <<reports, blocks, delivered>>
  BY Zenon DEF StartSend
<1> HIDE DEF S
<1>4. /\ q \in Send
      /\ q.pc \in {"create", "deliver"} => q.chat = c /\ q.spared = S
  BY <1>1, <1>2 DEF Send, Somebody
<1> HIDE DEF q
<1>5. BlockTypes'
  BY <1>1, <1>3, <1>4 DEF BlockTypes
<1>6. ASSUME NEW l \in Sends, Underway(l)', NEW r \in BlockList(sends[l].chat)', HeldBack(r) \in Users
      PROVE  HeldBack(r) \in sends'[l].spared \union sends'[l].stale
  <2>1. CASE l = m
    <3>1. sends'[l] = q
      BY <1>1, <1>3, <2>1 DEF BlockTypes
    <3> QED
      BY <1>2, <1>3, <1>4, <1>6, <3>1 DEF Underway, BlockList
  <2>2. CASE l # m
    <3>1. sends'[l] = sends[l]
      BY <1>1, <1>3, <2>2 DEF BlockTypes
    <3> QED
      BY <1>1, <1>3, <1>6, <3>1 DEF Accounted, Underway, BlockList
  <2> QED
    BY <2>1, <2>2
<1>7. Accounted'
  BY <1>6 DEF Accounted, HeldBack
<1> QED
  BY <1>3, <1>5, <1>7 DEF BlockInv

\* A message that goes on keeps both sets.
LEMMA SendGoesOn ==
  ASSUME BlockInv, NEW m \in Sends, NEW pc \in {"deliver", "done", "refused"}, Underway(m),
         sends' = [sends EXCEPT ![m].pc = pc], UNCHANGED <<reports, blocks>>
  PROVE  BlockInv'
<1>1. BlockTypes /\ Accounted /\ sends[m] \in Send
  BY DEF BlockInv, BlockTypes
<1>2. \A l \in Sends :
        /\ sends'[l].chat = sends[l].chat /\ sends'[l].spared = sends[l].spared
        /\ sends'[l].stale = sends[l].stale /\ (Underway(l)' => Underway(l))
  BY <1>1 DEF BlockTypes, Send, Underway
<1>3. BlockTypes'
  BY <1>1 DEF BlockTypes, Send
<1>4. Accounted'
  BY <1>1, <1>2 DEF Accounted, BlockList, HeldBack
<1> QED
  BY <1>3, <1>4 DEF BlockInv

LEMMA DeliverOK ==
  ASSUME BlockInv, NEW m \in Sends, Deliver(m)
  PROVE  /\ BlockInv'
         /\ \A u \in Users : <<m, u>> \in delivered' =>
              \/ <<m, u>> \in delivered
              \/ u \in sends[m].stale
              \/ \A r \in BlockList(sends[m].chat) : HeldBack(r) # u
         /\ \A l \in Sends, u \in Users : l # m /\ <<l, u>> \in delivered' => <<l, u>> \in delivered
<1>1. Underway(m)
  BY DEF Deliver, Underway
<1>2. BlockInv'
  BY <1>1, SendGoesOn DEF Deliver
<1>3. \A r \in BlockList(sends[m].chat) :
        HeldBack(r) \in Users => HeldBack(r) \in sends[m].spared \union sends[m].stale
  BY <1>1 DEF BlockInv, Accounted
<1> QED
  BY <1>2, <1>3 DEF Deliver

LEMMA BlocksStep ==
  ASSUME BlockInv, [BlockNext]_blockVars
  PROVE  /\ BlockInv'
         /\ \A m \in Sends, u \in Users :
              <<m, u>> \in delivered' \ delivered
                => \/ u \in sends[m].stale
                   \/ \A r \in BlockList(sends[m].chat) : HeldBack(r) # u
<1>1. CASE UNCHANGED blockVars
  BY <1>1 DEF blockVars, BlockInv, BlockTypes, Accounted, Underway, BlockList, HeldBack
<1>2. CASE \E b \in Blocks : UpsertBlock(b) \/ Unblock(b)
  BY <1>2, UpsertOK, UnblockOK
<1>3. CASE \E b \in Blocks, c \in Chats, u, v \in Users :
             BlockDm(b, c, u) \/ UnBlockDm(b, c, u) \/ BlockGroupUser(b, c, u, v)
  <2>1. BlockTypes /\ Accounted
    BY DEF BlockInv
  <2>2. BlockTypes' /\ UNCHANGED <<reports, sends, delivered>>
    BY <1>3, <2>1, AskBlockSteps
  <2> QED
    BY <2>1, <2>2 DEF BlockInv, Accounted, Underway, BlockList, HeldBack
<1>4. CASE \E m \in Sends, c \in Chats, u \in Users : StartSend(m, c, u)
  BY <1>4, StartSendOK
<1>5. CASE \E m \in Sends : CreateMessage(m)
  <2>1. PICK m \in Sends : CreateMessage(m)
    BY <1>5
  <2>2. PICK pc \in {"deliver", "refused"} : sends' = [sends EXCEPT ![m].pc = pc]
    BY <2>1 DEF CreateMessage
  <2>3. Underway(m) /\ UNCHANGED <<reports, blocks, delivered>>
    BY <2>1 DEF CreateMessage, Underway
  <2> QED
    BY <2>2, <2>3, SendGoesOn
<1>6. CASE \E m \in Sends : Deliver(m)
  BY <1>6, DeliverOK
<1>7. CASE \E m \in Sends : DeleteMessage(m)
  BY <1>7 DEF DeleteMessage, BlockInv, BlockTypes, Accounted, Underway, BlockList, HeldBack
<1> QED
  BY <1>1, <1>2, <1>3, <1>4, <1>5, <1>6, <1>7 DEF BlockNext

\* Whatever calls block and unblock while messages are sent, a message reaches nobody an
\* open report of its conversation holds back, unless he was held back while it was on
\* its way (withRestrictedZone, sendMessage).
THEOREM DeliveriesAreSpared == BlockSpec => DeliveriesSpareBlocked
<1>1. BlockInv /\ [BlockNext]_blockVars => BlockInv'
  BY BlocksStep
<1>2. BlockInv /\ [BlockNext]_blockVars
        => [\A m \in Sends, u \in Users :
              <<m, u>> \in delivered' \ delivered
                => \/ u \in sends[m].stale
                   \/ \A r \in BlockList(sends[m].chat) : HeldBack(r) # u]_blockVars
  BY BlocksStep
<1> QED
  BY <1>1, <1>2, BlockInitOK, PTL DEF BlockSpec, DeliveriesSpareBlocked

-----------------------------------------------------------------------------
(***************************************************************************)
(* What a user is shown of a conversation he deleted for himself.          *)
(***************************************************************************)

HistoryTypes ==
  /\ HistoryTypeOK
  /\ \A s \in Drafts : drafts[s].pc = "create" => drafts[s].by \in Users
  /\ \A c \in Clears : clears[c].pc = "new" <=> clears[c].user = None
  /\ \A c \in Clears : clears[c].begun <= clears[c].from /\ clears[c].from <= clock

ClearsOf(u) == {c \in Clears : clears[c].user = u}

\* A user has one entry, or none before a call of his has ended.  Unless one of his calls
\* began while another was running: one at most runs; the entry is not dated before the
\* calls that may have found it; and a call that runs writes no date before those of the
\* calls that ended.
Cleared(u) ==
  /\ \A i, j \in EntriesOf(u) : i = j
  /\ \A c \in ClearsOf(u) : clears[c].pc = "done" => EntriesOf(u) # {}
  /\ (\A c \in ClearsOf(u) : ~clears[c].late) =>
       /\ \A c, d \in Running(u) : c = d
       /\ \A c \in ClearsOf(u), i \in EntriesOf(u) :
            clears[c].pc \in {"push", "done"} => deletedFor[i].at >= clears[c].begun
       /\ \A c \in ClearsOf(u), d \in Running(u) :
            clears[c].pc = "done" => clears[d].from >= clears[c].begun

LEMMA HistoryInitOK == HistoryInit => HistoryTypes /\ \A u \in Users : Cleared(u)
<1> SUFFICES ASSUME HistoryInit PROVE HistoryTypes /\ \A u \in Users : Cleared(u)
  OBVIOUS
<1>1. HistoryTypeOK
  BY ClockAssumption DEF HistoryInit, HistoryTypeOK, Draft, Clear, Dates
<1>2. HistoryTypes
  BY <1>1 DEF HistoryInit, HistoryTypes
<1>3. ASSUME NEW u \in Users PROVE Cleared(u)
  <2>1. EntriesOf(u) = {} /\ ClearsOf(u) = {} /\ Running(u) = {}
    BY UsersAssumption DEF HistoryInit, EntriesOf, ClearsOf, Running
  <2> QED
    BY <2>1 DEF Cleared
<1> QED
  BY <1>2, <1>3

LEMMA FirstIsEntry ==
  ASSUME HistoryTypes, NEW u \in Users, Cleared(u), EntriesOf(u) # {}
  PROVE  FirstOf(u) \in EntriesOf(u)
<1>1. PICK i \in EntriesOf(u) : TRUE
  OBVIOUS
<1>2. EntriesOf(u) \in SUBSET Int
  BY DEF EntriesOf, HistoryTypes, HistoryTypeOK
<1>3. \A j \in EntriesOf(u) : i <= j
  BY <1>1, <1>2 DEF Cleared
<1> QED
  BY <1>1, <1>3 DEF FirstOf

\* A deletion's step leaves the calls of the others as they are, and their entries.
LEMMA ClearOutcome ==
  ASSUME HistoryTypes, \A u \in Users : Cleared(u), NEW c \in Clears,
         DateEntry(c) \/ PushEntry(c), NEW u \in Users, clears[c].user = u
  PROVE  /\ HistoryTypes' /\ clock' = clock
         /\ \A e \in Clears : clears'[e].user = clears[e].user /\ clears'[e].late = clears[e].late
                              /\ clears'[e].begun = clears[e].begun
         /\ \A e \in Clears : e # c => clears'[e] = clears[e]
         /\ \A w \in Users : w # u =>
              EntriesOf(w)' = EntriesOf(w) /\ \A i \in EntriesOf(w) : deletedFor'[i] = deletedFor[i]
         /\ EntriesOf(u) # {} => EntriesOf(u)' = EntriesOf(u)
         /\ EntriesOf(u) = {} /\ PushEntry(c) => EntriesOf(u)' = {Len(deletedFor) + 1}
         /\ EntriesOf(u) = {} /\ DateEntry(c) => EntriesOf(u)' = {}
         /\ \A i \in EntriesOf(u)' :
                 deletedFor'[i].at >= clears[c].from \/ (PushEntry(c) /\ deletedFor' = deletedFor)
         /\ (DateEntry(c) /\ clears[c].pc = "date" /\ clears'[c].pc = "push" /\ clears'[c].from = clock)
            \/ (PushEntry(c) /\ clears[c].pc = "push" /\ clears'[c].pc = "done"
                /\ clears'[c].from = clears[c].from)
<1>1. clears[c] \in Clear /\ u \in Users /\ clears[c].pc \in {"date", "push"}
  BY DEF HistoryTypes, HistoryTypeOK, Clear, DateEntry, PushEntry
<1>2. clears[c].from \in Dates /\ clock \in Dates /\ clears[c].from .. clock \in SUBSET Dates
  BY <1>1, ClockAssumption DEF HistoryTypes, HistoryTypeOK, Clear, Dates
<1>3. /\ clears' \in [Clears -> Clear] /\ clock' = clock
      /\ \A e \in Clears : clears'[e].user = clears[e].user /\ clears'[e].late = clears[e].late
                              /\ clears'[e].begun = clears[e].begun
      /\ \A e \in Clears : e # c => clears'[e] = clears[e]
      /\ (DateEntry(c) /\ clears[c].pc = "date" /\ clears'[c].pc = "push" /\ clears'[c].from = clock)
            \/ (PushEntry(c) /\ clears[c].pc = "push" /\ clears'[c].pc = "done"
                /\ clears'[c].from = clears[c].from)
  <2>1. CASE DateEntry(c)
    BY <1>1, <1>2, <2>1 DEF HistoryTypes, HistoryTypeOK, Clear, DateEntry
  <2>2. CASE PushEntry(c)
    BY <1>1, <1>2, <2>2 DEF HistoryTypes, HistoryTypeOK, Clear, PushEntry
  <2> QED
    BY <2>1, <2>2
<1>4. deletedFor \in Seq(Entry) /\ DOMAIN deletedFor = 1 .. Len(deletedFor) /\ Len(deletedFor) \in Nat
  BY DEF HistoryTypes, HistoryTypeOK
<1>5. /\ deletedFor' \in Seq(Entry)
      /\ \A w \in Users : w # u =>
              EntriesOf(w)' = EntriesOf(w) /\ \A i \in EntriesOf(w) : deletedFor'[i] = deletedFor[i]
      /\ EntriesOf(u) # {} => EntriesOf(u)' = EntriesOf(u)
      /\ EntriesOf(u) = {} /\ PushEntry(c) => EntriesOf(u)' = {Len(deletedFor) + 1}
      /\ EntriesOf(u) = {} /\ DateEntry(c) => EntriesOf(u)' = {}
      /\ \A i \in EntriesOf(u)' :
                 deletedFor'[i].at >= clears[c].from \/ (PushEntry(c) /\ deletedFor' = deletedFor)
  <2>1. CASE deletedFor' = deletedFor /\ (EntriesOf(u) = {} \/ PushEntry(c))
    <3>1. \A w \in Users : EntriesOf(w)' = EntriesOf(w)
      BY <2>1 DEF EntriesOf
    <3>2. EntriesOf(u) = {} => ~PushEntry(c)
      <4> SUFFICES ASSUME EntriesOf(u) = {}, PushEntry(c) PROVE FALSE
        OBVIOUS
      <4>1. PICK d \in clears[c].from .. clock : deletedFor' = Append(deletedFor, [user |-> u, at |-> d])
        BY DEF PushEntry
      <4>2. Len(deletedFor') = Len(deletedFor) + 1
        BY <4>1, <1>4
      <4> QED
        BY <2>1, <4>2, <1>4
    <3> QED
      BY <1>1, <1>4, <2>1, <3>1, <3>2
  <2>2. CASE DateEntry(c) /\ EntriesOf(u) # {}
    <3>1. PICK d \in clears[c].from .. clock : deletedFor' = [deletedFor EXCEPT ![FirstOf(u)].at = d]
      BY <2>2 DEF DateEntry
    <3> DEFINE k == FirstOf(u)
    <3>2. k \in EntriesOf(u)
      BY <1>1, <2>2, FirstIsEntry
    <3>3. k \in DOMAIN deletedFor /\ deletedFor[k] \in Entry /\ d \in Dates
      BY <1>2, <1>4, <3>2 DEF EntriesOf
    <3> HIDE DEF k
    <3>4. /\ deletedFor' = [deletedFor EXCEPT ![k] = [deletedFor[k] EXCEPT !.at = d]]
          /\ [deletedFor[k] EXCEPT !.at = d] \in Entry
          /\ [deletedFor[k] EXCEPT !.at = d].at = d
          /\ [deletedFor[k] EXCEPT !.at = d].user = deletedFor[k].user
      BY <3>1, <3>3 DEF k, Entry
    <3>5. /\ deletedFor' \in Seq(Entry) /\ DOMAIN deletedFor' = DOMAIN deletedFor
          /\ deletedFor'[k].at = d /\ deletedFor'[k].user = deletedFor[k].user
          /\ \A i \in DOMAIN deletedFor : i # k => deletedFor'[i] = deletedFor[i]
      BY <1>4, <3>3, <3>4
    <3>6. \A w \in Users : EntriesOf(w)' = EntriesOf(w)
      BY <3>5 DEF EntriesOf
    <3>7. \A w \in Users : w # u => k \notin EntriesOf(w)
      BY <3>2 DEF EntriesOf
    <3>8. \A w \in Users : w # u => \A i \in EntriesOf(w) : deletedFor'[i] = deletedFor[i]
      BY <3>5, <3>7 DEF EntriesOf
    <3>9. \A i \in EntriesOf(u)' : i = k /\ deletedFor'[i].at >= clears[c].from
      <4>1. \A i \in EntriesOf(u) : i = k
        BY <3>2 DEF Cleared
      <4>2. d >= clears[c].from
        BY <1>2 DEF Dates
      <4> QED
        BY <3>5, <3>6, <4>1, <4>2
    <3> QED
      BY <2>2, <3>5, <3>6, <3>8, <3>9
  <2>3. CASE PushEntry(c) /\ EntriesOf(u) = {}
    <3>1. PICK d \in clears[c].from .. clock : deletedFor' = Append(deletedFor, [user |-> u, at |-> d])
      BY <2>3 DEF PushEntry
    <3> DEFINE n == Len(deletedFor) + 1
    <3>2. [user |-> u, at |-> d] \in Entry
      BY <1>1, <1>2 DEF Entry
    <3>3. /\ deletedFor' \in Seq(Entry) /\ DOMAIN deletedFor' = 1 .. n
          /\ deletedFor'[n] = [user |-> u, at |-> d]
          /\ \A i \in DOMAIN deletedFor : deletedFor'[i] = deletedFor[i]
      BY <1>4, <3>1, <3>2
    <3>4. /\ 1 .. n = DOMAIN deletedFor \cup {n} /\ n \notin DOMAIN deletedFor
      BY <1>4
    <3> HIDE DEF n
    <3>5. \A w \in Users : w # u => EntriesOf(w)' = EntriesOf(w)
      BY <3>3, <3>4 DEF EntriesOf
    <3>6. EntriesOf(u)' = {n}
      BY <2>3, <3>3, <3>4 DEF EntriesOf
    <3>7. deletedFor'[n].at >= clears[c].from
      BY <1>2, <3>3 DEF Dates
    <3>8. \A w \in Users : \A i \in EntriesOf(w) : deletedFor'[i] = deletedFor[i]
      BY <3>3 DEF EntriesOf
    <3> QED
      BY <2>3, <3>3, <3>5, <3>6, <3>7, <3>8 DEF n, DateEntry, PushEntry
  <2> QED
    BY <2>1, <2>2, <2>3 DEF DateEntry, PushEntry
<1>6. HistoryTypes'
  <2>1. HistoryTypeOK'
    BY <1>3, <1>5 DEF HistoryTypes, HistoryTypeOK, DateEntry, PushEntry
  <2>2. drafts' = drafts
    BY DEF DateEntry, PushEntry
  <2>3. \A e \in Clears : clears'[e].begun <= clears'[e].from /\ clears'[e].from <= clock
    <3>1. clears[c].begun <= clears[c].from /\ clears[c].from <= clock
      BY DEF HistoryTypes
    <3>2. clears[c].begun \in Int /\ clears[c].from \in Int /\ clock \in Int
      BY <1>1, <1>2 DEF Clear, Dates
    <3>3. clears'[c].begun <= clears'[c].from /\ clears'[c].from <= clock
      BY <1>3, <3>1, <3>2
    <3> QED
      BY <1>3, <3>3 DEF HistoryTypes
  <2>4. \A e \in Clears : clears'[e].pc = "new" <=> clears'[e].user = None
    BY <1>1, <1>3, UsersAssumption DEF HistoryTypes
  <2> QED
    BY <1>3, <2>1, <2>2, <2>3, <2>4 DEF HistoryTypes
<1> QED
  BY <1>1, <1>3, <1>5, <1>6

LEMMA ClearGoesOn ==
  ASSUME HistoryTypes, \A u \in Users : Cleared(u), NEW c \in Clears,
         DateEntry(c) \/ PushEntry(c), NEW w \in Users
  PROVE  Cleared(w)'
<1>1. PICK u \in Users : clears[c].user = u
  BY DEF HistoryTypes, HistoryTypeOK, Clear, DateEntry, PushEntry
<1>2. /\ HistoryTypes' /\ clock' = clock
      /\ \A e \in Clears : clears'[e].user = clears[e].user /\ clears'[e].late = clears[e].late
                              /\ clears'[e].begun = clears[e].begun
      /\ \A e \in Clears : e # c => clears'[e] = clears[e]
  BY <1>1, ClearOutcome
<1>3. ClearsOf(w)' = ClearsOf(w)
  BY <1>2 DEF ClearsOf
<1>4. Cleared(w)
  OBVIOUS
<1>5. CASE w # u
  <2>1. EntriesOf(w)' = EntriesOf(w) /\ \A i \in EntriesOf(w) : deletedFor'[i] = deletedFor[i]
    BY <1>1, <1>5, ClearOutcome
  <2>2. c \notin ClearsOf(w)
    BY <1>1, <1>5 DEF ClearsOf
  <2>3. Running(w)' = Running(w) /\ Running(w) \in SUBSET ClearsOf(w)
    BY <1>1, <1>2, <1>5 DEF Running, ClearsOf
  <2>4. \A e \in ClearsOf(w) : clears'[e] = clears[e]
    BY <1>2, <2>2 DEF ClearsOf
  <2> QED
    BY <1>3, <1>4, <2>1, <2>3, <2>4 DEF Cleared
<1>6. CASE w = u
  <2>1. /\ EntriesOf(u) # {} => EntriesOf(u)' = EntriesOf(u)
        /\ EntriesOf(u) = {} /\ PushEntry(c) => EntriesOf(u)' = {Len(deletedFor) + 1}
        /\ EntriesOf(u) = {} /\ DateEntry(c) => EntriesOf(u)' = {}
        /\ \A i \in EntriesOf(u)' :
                 deletedFor'[i].at >= clears[c].from \/ (PushEntry(c) /\ deletedFor' = deletedFor)
        /\ (DateEntry(c) /\ clears[c].pc = "date" /\ clears'[c].pc = "push" /\ clears'[c].from = clock)
            \/ (PushEntry(c) /\ clears[c].pc = "push" /\ clears'[c].pc = "done"
                /\ clears'[c].from = clears[c].from)
    BY <1>1, ClearOutcome
  <2>2. \A i, j \in EntriesOf(u)' : i = j
    BY <1>4, <1>6, <2>1 DEF Cleared
  <2>3. \A e \in ClearsOf(u) : clears'[e].pc = "done" => EntriesOf(u)' # {}
    <3>1. PushEntry(c) => EntriesOf(u)' # {}
      BY <2>1
    <3>2. \A e \in ClearsOf(u) : e # c => clears'[e] = clears[e]
      BY <1>2 DEF ClearsOf
    <3>3. EntriesOf(u) # {} => EntriesOf(u)' # {}
      BY <2>1
    <3>4. ~PushEntry(c) => clears'[c].pc = "push"
      BY <2>1
    <3> QED
      BY <1>4, <1>6, <3>1, <3>2, <3>3, <3>4 DEF Cleared
  <2>4. ASSUME \A e \in ClearsOf(u) : ~clears[e].late
        PROVE  /\ \A e, d \in Running(u)' : e = d
               /\ \A e \in ClearsOf(u), i \in EntriesOf(u)' :
                    clears'[e].pc \in {"push", "done"} => deletedFor'[i].at >= clears'[e].begun
               /\ \A e \in ClearsOf(u), d \in Running(u)' :
                    clears'[e].pc = "done" => clears'[d].from >= clears'[e].begun
    <3>1. /\ \A e, d \in Running(u) : e = d
          /\ \A e \in ClearsOf(u), i \in EntriesOf(u) :
               clears[e].pc \in {"push", "done"} => deletedFor[i].at >= clears[e].begun
          /\ \A e \in ClearsOf(u), d \in Running(u) :
               clears[e].pc = "done" => clears[d].from >= clears[e].begun
      BY <1>4, <1>6, <2>4 DEF Cleared
    <3>2. c \in Running(u) /\ c \in ClearsOf(u)
      BY <1>1, <2>1 DEF Running, ClearsOf
    <3>3. Running(u)' \in SUBSET {c}
      BY <1>2, <3>1, <3>2 DEF Running
    <3>4. \A e \in Clears : /\ clears[e].begun \in Int /\ clears[e].from \in Int
                            /\ clears'[e].begun \in Int /\ clears'[e].from \in Int
      BY <1>2 DEF HistoryTypes, HistoryTypeOK, Clear, Dates
    <3>5. clock \in Int /\ \A i \in EntriesOf(u) : deletedFor[i].at \in Int
      <4>1. clock \in Int /\ \A i \in DOMAIN deletedFor : deletedFor[i] \in Entry
        BY ClockAssumption DEF HistoryTypes, HistoryTypeOK, Dates
      <4> QED
        BY <4>1 DEF EntriesOf, Entry, Dates
    <3>6. \A i \in EntriesOf(u)' : deletedFor'[i].at \in Int
      <4>1. \A i \in DOMAIN deletedFor' : deletedFor'[i] \in Entry
        BY <1>2 DEF HistoryTypes, HistoryTypeOK
      <4> QED
        BY <4>1 DEF EntriesOf, Entry, Dates
    <3>7. clears[c].from >= clears[c].begun /\ clock >= clears[c].from
      BY <3>4, <3>5 DEF HistoryTypes
    <3>8. \A e \in ClearsOf(u) : e # c /\ clears'[e].pc \in {"push", "done"} =>
             clears'[e] = clears[e] /\ clears[e].pc = "done" /\ clears[c].from >= clears[e].begun
      <4>1. \A e \in ClearsOf(u) : e # c => clears'[e] = clears[e]
        BY <1>2 DEF ClearsOf
      <4>2. \A e \in ClearsOf(u) : e # c => clears[e].pc # "push"
        BY <3>1, <3>2 DEF ClearsOf, Running
      <4> QED
        BY <3>1, <3>2, <4>1, <4>2
    <3>9. ASSUME NEW e \in ClearsOf(u), NEW i \in EntriesOf(u)', clears'[e].pc \in {"push", "done"}
          PROVE  deletedFor'[i].at >= clears'[e].begun
      <4>1. e \in Clears
        BY DEF ClearsOf
      <4>2. CASE deletedFor'[i].at >= clears[c].from
        <5>1. CASE e = c
          BY <1>2, <3>2, <3>4, <3>6, <3>7, <4>1, <4>2, <5>1
        <5>2. CASE e # c
          BY <3>4, <3>6, <3>8, <3>9, <4>1, <4>2, <5>2
        <5> QED
          BY <5>1, <5>2
      <4>3. CASE PushEntry(c) /\ deletedFor' = deletedFor
        <5>1. i \in EntriesOf(u)
          BY <4>3 DEF EntriesOf
        <5>2. clears[e].pc \in {"push", "done"} /\ clears'[e].begun = clears[e].begun
          BY <1>2, <3>8, <3>9, <4>1, <4>3 DEF PushEntry
        <5> QED
          BY <3>1, <4>3, <5>1, <5>2
      <4> QED
        BY <2>1, <4>2, <4>3
    <3>10. ASSUME NEW e \in ClearsOf(u), NEW d \in Running(u)', clears'[e].pc = "done"
           PROVE  clears'[d].from >= clears'[e].begun
      <4>1. d = c /\ e \in Clears /\ clears'[c].pc # "done"
        BY <3>3 DEF ClearsOf, Running
      <4>2. clears'[e] = clears[e] /\ clears[c].from >= clears[e].begun
        BY <3>8, <3>10, <4>1
      <4>3. clears'[c].from = clock
        BY <2>1, <4>1
      <4> QED
        BY <3>4, <3>5, <3>7, <4>1, <4>2, <4>3
    <3>11. \A e, d \in Running(u)' : e = d
      BY <3>3
    <3> QED
      BY <3>9, <3>10, <3>11
  <2>5. (\A e \in ClearsOf(u) : ~clears'[e].late) => \A e \in ClearsOf(u) : ~clears[e].late
    BY <1>2 DEF ClearsOf
  <2> QED
    BY <1>3, <1>6, <2>2, <2>3, <2>4, <2>5 DEF Cleared
<1> QED
  BY <1>5, <1>6

LEMMA AskClearOutcome ==
  ASSUME HistoryTypes, \A u \in Users : Cleared(u), NEW c \in Clears, NEW u \in Users,
         AskClear(c, u)
  PROVE  HistoryTypes' /\ \A w \in Users : Cleared(w)'
<1>1. /\ clears' \in [Clears -> Clear] /\ clears[c].pc = "new" /\ clears[c].user = None
      /\ clears'[c] = [pc |-> "date", user |-> u, from |-> clock, begun |-> clock,
                       late |-> Running(u) # {}]
      /\ \A e \in Clears : e # c => clears'[e] = clears[e]
  BY DEF AskClear, HistoryTypes, HistoryTypeOK, Clear
<1>2. clock' = clock /\ drafts' = drafts /\ deletedFor' = deletedFor /\ clock \in Int
  BY DEF AskClear, HistoryTypes, HistoryTypeOK, Dates
<1>3. HistoryTypes'
  <2>1. HistoryTypeOK'
    BY <1>1, <1>2 DEF AskClear, HistoryTypes, HistoryTypeOK
  <2>2. \A e \in Clears : clears'[e].pc = "new" <=> clears'[e].user = None
    BY <1>1, UsersAssumption DEF HistoryTypes
  <2>3. \A e \in Clears : clears'[e].begun <= clears'[e].from /\ clears'[e].from <= clock
    BY <1>1, <1>2 DEF HistoryTypes
  <2> QED
    BY <1>2, <2>1, <2>2, <2>3 DEF HistoryTypes
<1>4. ASSUME NEW w \in Users PROVE Cleared(w)'
  <2>1. Cleared(w) /\ EntriesOf(w)' = EntriesOf(w)
    BY <1>2 DEF EntriesOf
  <2>2. c \notin ClearsOf(w) /\ c \notin Running(w)
    BY <1>1, UsersAssumption DEF ClearsOf, Running
  <2>3. \A e \in ClearsOf(w) : clears'[e] = clears[e] /\ e \in Clears
    BY <1>1, <2>2 DEF ClearsOf
  <2>4. CASE w # u
    <3>1. ClearsOf(w)' = ClearsOf(w) /\ Running(w)' = Running(w) /\ Running(w) \in SUBSET ClearsOf(w)
      BY <1>1, <2>2, <2>4 DEF ClearsOf, Running
    <3> QED
      BY <1>2, <2>1, <2>3, <3>1 DEF Cleared
  <2>5. CASE w = u
    <3>1. ClearsOf(u)' = ClearsOf(u) \union {c} /\ Running(u)' = Running(u) \union {c}
      BY <1>1, <2>2, <2>5 DEF ClearsOf, Running
    <3>2. \A e \in ClearsOf(u)' : clears'[e].pc = "done" => EntriesOf(u)' # {}
      BY <1>1, <2>1, <2>3, <2>5, <3>1 DEF Cleared
    <3>3. ASSUME \A e \in ClearsOf(u)' : ~clears'[e].late
          PROVE  /\ \A e, d \in Running(u)' : e = d
                 /\ \A e \in ClearsOf(u)', i \in EntriesOf(u)' :
                      clears'[e].pc \in {"push", "done"} => deletedFor'[i].at >= clears'[e].begun
                 /\ \A e \in ClearsOf(u)', d \in Running(u)' :
                      clears'[e].pc = "done" => clears'[d].from >= clears'[e].begun
      <4>1. Running(u) = {} /\ \A e \in ClearsOf(u) : ~clears[e].late
        <5>1. ~clears'[c].late
          BY <3>1, <3>3
        <5>2. clears'[c].late = (Running(u) # {})
          BY <1>1
        <5>3. Running(u) = {}
          BY <5>1, <5>2, Zenon
        <5> QED
          BY <2>3, <2>5, <3>1, <3>3, <5>3
      <4>2. \A e \in ClearsOf(u) : clears[e].begun \in Int /\ clock >= clears[e].begun
        <5>1. \A e \in Clears : clears[e].begun \in Int /\ clears[e].from \in Int
          BY DEF HistoryTypes, HistoryTypeOK, Clear, Dates
        <5> QED
          BY <1>2, <5>1 DEF HistoryTypes, ClearsOf
      <4>3. \A e \in ClearsOf(u), i \in EntriesOf(u) :
              clears[e].pc \in {"push", "done"} => deletedFor[i].at >= clears[e].begun
        BY <2>1, <2>5, <4>1 DEF Cleared
      <4>4. \A e \in ClearsOf(u), i \in EntriesOf(u) :
              clears'[e].pc \in {"push", "done"} => deletedFor'[i].at >= clears'[e].begun
        BY <1>2, <2>3, <2>5, <4>3
      <4>5. clears'[c].pc = "date" /\ clears'[c].from = clock
        BY <1>1
      <4> QED
        BY <2>1, <2>3, <2>5, <3>1, <4>1, <4>2, <4>4, <4>5
    <3> QED
      BY <2>1, <2>5, <3>2, <3>3 DEF Cleared
  <2> QED
    BY <2>4, <2>5
<1> QED
  BY <1>3, <1>4

\* A message that is taken out leaves the others.
LEMMA RemoveAtType ==
  ASSUME NEW X, NEW s \in Seq(X), NEW i \in DOMAIN s
  PROVE  RemoveAt(s, i) \in Seq(X)
BY DEF RemoveAt

LEMMA HistoryStep ==
  ASSUME HistoryTypes, \A u \in Users : Cleared(u), [HistoryNext]_historyVars
  PROVE  HistoryTypes' /\ \A w \in Users : Cleared(w)'
<1>1. ASSUME clears' = clears, deletedFor' = deletedFor PROVE \A w \in Users : Cleared(w)'
  <2>1. \A w \in Users : EntriesOf(w)' = EntriesOf(w) /\ ClearsOf(w)' = ClearsOf(w)
                         /\ Running(w)' = Running(w)
    BY <1>1 DEF EntriesOf, ClearsOf, Running
  <2> QED
    BY <1>1, <2>1 DEF Cleared
<1>2. clock \in Dates /\ \A s \in Drafts : drafts[s] \in Draft
  BY DEF HistoryTypes, HistoryTypeOK
<1>3. ASSUME Tick PROVE HistoryTypes'
  <2>1. \A c \in Clears : clears[c].from \in Int
    BY DEF HistoryTypes, HistoryTypeOK, Clear, Dates
  <2>2. clock' \in Dates /\ clock \in Int /\ clock' = clock + 1
    BY <1>2, <1>3, ClockAssumption DEF Dates, Tick
  <2> QED
    BY <1>3, <2>1, <2>2 DEF Tick, HistoryTypes, HistoryTypeOK
<1>4. ASSUME NEW s \in Drafts, NEW u \in Users, StartMessage(s, u) PROVE HistoryTypes'
  <2>1. drafts' \in [Drafts -> Draft] /\ drafts'[s].by = u /\ \A r \in Drafts : r # s => drafts'[r] = drafts[r]
    BY <1>2, <1>4 DEF StartMessage, HistoryTypes, HistoryTypeOK, Draft
  <2> QED
    BY <1>4, <2>1 DEF StartMessage, HistoryTypes, HistoryTypeOK
<1>5. ASSUME NEW s \in Drafts, WriteMessage(s) PROVE HistoryTypes'
  <2>1. /\ drafts' \in [Drafts -> Draft] /\ drafts'[s].pc = "done"
        /\ \A r \in Drafts : r # s => drafts'[r] = drafts[r]
    BY <1>2, <1>5 DEF WriteMessage, HistoryTypes, HistoryTypeOK, Draft
  <2>2. PICK d \in drafts[s].from .. clock : written' = Append(written, [by |-> drafts[s].by, at |-> d])
    BY <1>5 DEF WriteMessage
  <2>3. [by |-> drafts[s].by, at |-> d] \in Written
    BY <1>2, <1>5, <2>2, ClockAssumption DEF WriteMessage, HistoryTypes, Written, Draft, Dates
  <2>4. written' \in Seq(Written)
    BY <2>2, <2>3 DEF HistoryTypes, HistoryTypeOK
  <2> QED
    BY <1>5, <2>1, <2>4 DEF WriteMessage, HistoryTypes, HistoryTypeOK
<1>6. ASSUME NEW i \in DOMAIN written, NEW u \in Users, RemoveMessage(i, u) PROVE HistoryTypes'
  <2>1. written' \in Seq(Written)
    BY <1>6, RemoveAtType DEF RemoveMessage, HistoryTypes, HistoryTypeOK
  <2> QED
    BY <1>6, <2>1 DEF RemoveMessage, HistoryTypes, HistoryTypeOK
<1>7. ASSUME NEW u \in Users, ReportUser(u) \/ ResolveReport(u) PROVE HistoryTypes'
  <2>1. blockedAt' \in [Users -> Dates \union {None}]
    BY <1>2, <1>7 DEF ReportUser, ResolveReport, HistoryTypes, HistoryTypeOK
  <2> QED
    BY <1>7, <2>1 DEF ReportUser, ResolveReport, HistoryTypes, HistoryTypeOK
<1>8. ASSUME UNCHANGED historyVars PROVE HistoryTypes' /\ \A w \in Users : Cleared(w)'
  BY <1>1, <1>8 DEF historyVars, HistoryTypes, HistoryTypeOK
<1>9. ASSUME NEW c \in Clears, DateEntry(c) \/ PushEntry(c)
      PROVE  HistoryTypes' /\ \A w \in Users : Cleared(w)'
  <2>1. PICK u \in Users : clears[c].user = u
    BY <1>9 DEF HistoryTypes, HistoryTypeOK, Clear, DateEntry, PushEntry
  <2> QED
    BY <1>9, <2>1, ClearOutcome, ClearGoesOn
<1> QED
  BY <1>1, <1>3, <1>4, <1>5, <1>6, <1>7, <1>8, <1>9, AskClearOutcome
     DEF HistoryNext, Tick, StartMessage, WriteMessage, RemoveMessage, ReportUser, ResolveReport

\* A list of a conversation holds messages that the user's deletions and reports leave.
LEMMA ListedIsLooked ==
  ASSUME HistoryTypes, NEW u
  PROVE  ToSet(Listed(u)) \in SUBSET Looked(u)
<1> DEFINE its == Looked(u)
           R == {e \in its \X its : Newer(e[1], e[2])}
           sorted == InOrder(its, R)
           first == IF Len(sorted) > PageSize THEN Len(sorted) - PageSize + 1 ELSE 1
<1>1. its \in SUBSET (1 .. Len(written)) /\ Len(written) \in Nat
      /\ \A i \in its : i \in Int /\ written[i].at \in Int
  <2>1. written \in Seq(Written)
    BY DEF HistoryTypes, HistoryTypeOK
  <2>2. /\ Len(written) \in Nat /\ DOMAIN written = 1 .. Len(written)
        /\ \A i \in DOMAIN written : i \in Int /\ written[i] \in Written
    BY <2>1
  <2> QED
    BY <2>2 DEF Looked, Written, Dates
<1>2. IsFiniteSet(its)
  <2> HIDE DEF its
  <2>1. IsFiniteSet(1 .. Len(written))
    BY <1>1, FS_Interval
  <2> QED
    BY <1>1, <2>1, FS_Subset
<1>3. \A x, y \in its : <<x, y>> \in R <=> Newer(x, y)
  OBVIOUS
<1>4. Orders(R, its)
  <2> HIDE DEF R, its
  <2> QED
    BY <1>1, <1>3 DEF Orders, Newer
<1>5. sorted \in Seq(its)
  <2> HIDE DEF R, its
  <2>1. Cardinality(its) \in Nat /\ InOrder(its, R) \in [1 .. Cardinality(its) -> its]
    BY <1>2, <1>4, InOrderLists
  <2> QED
    BY <2>1
<1>6. first \in Nat \ {0} /\ Len(sorted) \in Nat
  <2> HIDE DEF sorted, its
  <2> QED
    BY <1>5, PageSizeAssumption
<1>7. ToSet(SubSeq(sorted, first, Len(sorted))) = {sorted[i] : i \in first .. Len(sorted)}
  <2> HIDE DEF sorted, first, its
  <2> QED
    BY <1>5, <1>6, SubSeqItems
<1>8. \A i \in first .. Len(sorted) : sorted[i] \in its
  <2> HIDE DEF sorted, first, its
  <2> QED
    BY <1>5, <1>6
<1>9. Listed(u) = SubSeq(sorted, first, Len(sorted))
  BY DEF Listed
<1> QED
  <2> HIDE DEF sorted, first, its
  <2>1. its = Looked(u)
    BY DEF its
  <2> QED
    BY <1>7, <1>8, <1>9, <2>1

LEMMA ClearedIsCleared ==
  ASSUME HistoryTypes, \A u \in Users : Cleared(u)
  PROVE  ClearedStaysCleared
<1> SUFFICES ASSUME NEW u \in Users
             PROVE LET its == {c \in Clears : clears[c].user = u}
                       done == {c \in its : clears[c].pc = "done"}
                   IN /\ Cardinality(EntriesOf(u)) <= 1 /\ (done # {} => EntriesOf(u) # {})
                      /\ (\A c \in its : ~clears[c].late) =>
                           \A c \in done, i \in ToSet(Listed(u)) : written[i].at >= clears[c].begun
  BY DEF ClearedStaysCleared
<1>1. Cardinality(EntriesOf(u)) <= 1
  <2>1. CASE EntriesOf(u) = {}
    BY <2>1, FS_EmptySet
  <2>2. CASE EntriesOf(u) # {}
    <3>1. PICK i \in EntriesOf(u) : TRUE
      BY <2>2
    <3>2. EntriesOf(u) = {i}
      BY <3>1 DEF Cleared
    <3>3. Cardinality({i}) = 1
      BY FS_Singleton
    <3> QED
      BY <3>2, <3>3
  <2> QED
    BY <2>1, <2>2
<1>2. \A c \in ClearsOf(u) : clears[c].pc = "done" => EntriesOf(u) # {}
  BY DEF Cleared
<1>3. ASSUME \A c \in ClearsOf(u) : ~clears[c].late,
             NEW c \in ClearsOf(u), clears[c].pc = "done", NEW i \in ToSet(Listed(u))
      PROVE  written[i].at >= clears[c].begun
  <2> DEFINE k == FirstOf(u)
  <2>1. EntriesOf(u) # {} /\ k \in EntriesOf(u)
    BY <1>2, <1>3, FirstIsEntry
  <2>2. deletedFor[k].at >= clears[c].begun
    BY <1>3, <2>1 DEF Cleared
  <2>3. i \in Looked(u)
    BY <1>3, ListedIsLooked
  <2>4. written[i].at >= deletedFor[k].at
    BY <2>1, <2>3 DEF Looked, AfterDeletion
  <2>5. written[i].at \in Int /\ deletedFor[k].at \in Int /\ clears[c].begun \in Int
    <3>1. \A j \in DOMAIN written : written[j] \in Written
      BY DEF HistoryTypes, HistoryTypeOK
    <3>2. \A j \in DOMAIN deletedFor : deletedFor[j] \in Entry
      BY DEF HistoryTypes, HistoryTypeOK
    <3>3. clears[c] \in Clear
      BY DEF HistoryTypes, HistoryTypeOK, ClearsOf
    <3>4. i \in DOMAIN written /\ k \in DOMAIN deletedFor
      BY <2>1, <2>3 DEF Looked, EntriesOf
    <3> QED
      BY <3>1, <3>2, <3>3, <3>4 DEF Written, Entry, Clear, Dates
  <2> HIDE DEF k
  <2> QED
    BY <2>2, <2>4, <2>5
<1> QED
  BY <1>1, <1>2, <1>3 DEF ClearsOf

\* The messages, the entries of the deletions and the calls keep their shape.
THEOREM HistoryTyped == HistorySpec => []HistoryTypeOK
<1> DEFINE IInv == HistoryTypes /\ \A u \in Users : Cleared(u)
<1>1. HistoryInit => IInv
  BY HistoryInitOK
<1>2. IInv /\ [HistoryNext]_historyVars => IInv'
  BY HistoryStep
<1>3. IInv => HistoryTypeOK
  BY DEF HistoryTypes
<1> QED
  BY <1>1, <1>2, <1>3, PTL DEF HistorySpec

\* The date of a user's deletion, the only one kept for him, is none before the last of his
\* calls that ended began: no list of his shows what he had deleted by then.
THEOREM ClearedAlwaysStaysCleared == HistorySpec => []ClearedStaysCleared
<1> DEFINE IInv == HistoryTypes /\ \A u \in Users : Cleared(u)
<1>1. HistoryInit => IInv
  BY HistoryInitOK
<1>2. IInv /\ [HistoryNext]_historyVars => IInv'
  BY HistoryStep
<1>3. IInv => ClearedStaysCleared
  BY ClearedIsCleared
<1> QED
  BY <1>1, <1>2, <1>3, PTL DEF HistorySpec

-----------------------------------------------------------------------------
(***************************************************************************)
(* Types.                                                                  *)
(***************************************************************************)

\* Between its calls a socket's handler holds no list.
NoListHeld == \A s \in Sockets : socket[s].pc \notin {"join", "leave"} => socket[s].seen = {}

LEMMA NoListStep == SessionTypes /\ NoListHeld /\ [SessionNext]_sessionVars => NoListHeld'
<1> SUFFICES ASSUME SessionTypes, NoListHeld, [SessionNext]_sessionVars PROVE NoListHeld'
  OBVIOUS
<1>0. \A s \in Sockets : socket[s] \in Socket
  BY DEF SessionTypes
<1>1. ASSUME NEW s \in Sockets, NEW q, socket' = [socket EXCEPT ![s] = q],
             q.pc \in {"join", "leave"} \/ q.seen = {}
      PROVE  NoListHeld'
  BY <1>1 DEF NoListHeld, SessionTypes
<1>2. ASSUME NEW s \in Sockets, NEW pc \in {"join", "leave"}, Read(s, pc) PROVE NoListHeld'
  <2> DEFINE late == socket[s].late \/ Writing(s)
             q == [socket[s] EXCEPT !.pc = pc, !.seen = session, !.late = late]
  <2>1. socket' = [socket EXCEPT ![s] = q]
    BY <1>2, Zenon DEF Read
  <2> HIDE DEF late
  <2>2. q.pc = pc
    BY <1>0 DEF Socket
  <2> HIDE DEF q
  <2> QED
    BY <1>1, <2>1, <2>2
<1>3. ASSUME NEW s \in Sockets, NEW pc, socket' = [socket EXCEPT ![s].pc = pc, ![s].seen = {}]
      PROVE  NoListHeld'
  <2> DEFINE q == [socket[s] EXCEPT !.pc = pc, !.seen = {}]
  <2>1. socket' = [socket EXCEPT ![s] = q]
    BY <1>3, Zenon
  <2>2. q.seen = {}
    BY <1>0 DEF Socket
  <2> HIDE DEF q
  <2> QED
    BY <1>1, <2>1, <2>2
<1>4. ASSUME NEW s \in Sockets, LeaveEarly(s) PROVE NoListHeld'
  <2> DEFINE q == [socket[s] EXCEPT !.missed = TRUE]
  <2>1. socket' = [socket EXCEPT ![s] = q] /\ socket[s].pc = "join"
    BY <1>4, Zenon DEF LeaveEarly
  <2>2. q.pc = "join"
    BY <1>0, <2>1 DEF Socket
  <2> HIDE DEF q
  <2> QED
    BY <1>1, <2>1, <2>2
<1>5. ASSUME NEW s \in Sockets, ReadAtDisconnect(s), session = {} PROVE NoListHeld'
  <2> DEFINE q == [socket[s] EXCEPT !.pc = "off"]
  <2>1. socket' = [socket EXCEPT ![s] = q] /\ socket[s].pc = "on"
    BY <1>5, Zenon DEF ReadAtDisconnect
  <2>2. q.seen = {}
    BY <1>0, <2>1 DEF Socket, NoListHeld
  <2> HIDE DEF q
  <2> QED
    BY <1>1, <2>1, <2>2
<1>6. ASSUME NEW gone \in SUBSET Sockets, ProcessDies(gone) PROVE NoListHeld'
  <2>1. \A s \in Sockets : socket'[s] = IF s \in gone THEN [socket[s] EXCEPT !.pc = "off", !.seen = {}]
                                                      ELSE socket[s]
    BY <1>6, Zenon DEF ProcessDies
  <2>2. \A s \in gone : socket'[s].seen = {}
    BY <1>0, <2>1 DEF Socket
  <2> QED
    BY <2>1, <2>2 DEF NoListHeld
<1>7. CASE UNCHANGED sessionVars
  BY <1>7 DEF sessionVars, NoListHeld
<1> QED
  BY <1>2, <1>3, <1>4, <1>5, <1>6, <1>7
     DEF SessionNext, ReadAtConnect, AddSocket, ReadAtDisconnect, RemoveSocket

\* Sessions: the list and what the handlers hold of it keep their shape.
THEOREM SessionTyped == SessionSpec => []SessionTypeOK
<1>1. SessionInit => SessionTypes /\ NoListHeld
  BY DEF SessionInit, SessionTypes, NoListHeld, Socket
<1>2. SessionTypes /\ NoListHeld => SessionTypeOK
  BY DEF SessionTypes, NoListHeld, SessionTypeOK
<1> QED
  BY <1>1, <1>2, SessionTypesStep, NoListStep, PTL DEF SessionSpec

\* Payments: an answer belongs to a transaction that was saved.
THEOREM PayTyped == PaySpec => []PayTypeOK
<1>1. PayInit => PayTypes /\ Answered
  BY DEF PayInit, PayTypes, Answered, OpenedByItsDeal, Deal, Reply
<1>2. PayTypes /\ Answered => PayTypeOK
  BY DEF PayTypes, Answered, PayTypeOK
<1> QED
  BY <1>1, <1>2, PaymentsStep, PTL DEF PaySpec

\* Conversations: the lists of a group hold users, and its version is a number.
THEOREM ChatTyped == ChatSpec => []ChatTypeOK
<1> DEFINE Buyers == subscribed \in SUBSET Users
<1>1. ChatInit => Buyers
  BY DEF ChatInit
<1>2. Buyers /\ [ChatNext]_chatVars => Buyers'
  BY DEF ChatNext, OpenNext, MoveNext, AskChat, SaveChat, PushMember, PullUser, SaveGroup, JoinGroup,
         ExitGroup, UpdateGroup, Start, chatVars
<1>3. OpenTypes /\ MoveTypes /\ Buyers => ChatTypeOK
  BY DEF OpenTypes, MoveTypes, ChatTypeOK
<1> QED
  BY <1>1, <1>2, <1>3, ChatInitOK, OpensStep, MovesStep, PTL DEF ChatSpec

\* Notifications: the documents and the requests keep their shape.
THEOREM NoticeTyped == NoticeSpec => []NoticeTypeOK
<1>1. NoticeInit => NoticeOK /\ Notified
  BY FS_EmptySet DEF NoticeInit, NoticeOK, Notified, Inserting, NewNotice, Notice
<1>2. NoticeOK => NoticeTypeOK
  BY DEF NoticeOK, NoticeTypeOK
<1> QED
  BY <1>1, <1>2, NoticesStep, PTL DEF NoticeSpec

\* What the type of the blocks says besides BlockTypes.
BlockRest ==
  /\ isGroup \in SUBSET Chats
  /\ IndexOK(reports)
  /\ messages \in SUBSET Sends
  /\ delivered \in SUBSET (Sends \X Users)

LEMMA BlockRestStep == BlockRest /\ [BlockNext]_blockVars => BlockRest'
<1> SUFFICES ASSUME BlockRest, [BlockNext]_blockVars PROVE BlockRest'
  OBVIOUS
<1>1. CASE UNCHANGED <<isGroup, reports, messages, delivered>>
  BY <1>1 DEF BlockRest, IndexOK
<1>2. ASSUME NEW b \in Blocks, UpsertBlock(b) \/ Unblock(b) PROVE BlockRest'
  <2>1. IndexOK(reports')
    BY <1>2 DEF UpsertBlock, Unblock, BlockRest
  <2> QED
    BY <1>2, <2>1 DEF UpsertBlock, Unblock, BlockRest, IndexOK
<1>3. ASSUME NEW m \in Sends, CreateMessage(m) \/ Deliver(m) \/ DeleteMessage(m) PROVE BlockRest'
  BY <1>3 DEF CreateMessage, Deliver, DeleteMessage, BlockRest, IndexOK
<1> QED
  BY <1>1, <1>2, <1>3
     DEF BlockNext, BlockDm, UnBlockDm, BlockGroupUser, AskBlock, StartSend, blockVars

\* Blocks: no two reports have one key of the unique index, whatever the upserts do.
THEOREM BlockTyped == BlockSpec => []BlockTypeOK
<1>1. BlockInit => BlockRest
  BY DEF BlockInit, BlockRest, IndexOK
<1>2. BlockInv /\ [BlockNext]_blockVars => BlockInv'
  BY BlocksStep
<1>3. BlockInv /\ BlockRest => BlockTypeOK
  BY DEF BlockInv, BlockTypes, BlockRest, BlockTypeOK
<1> QED
  BY <1>1, <1>2, <1>3, BlockInitOK, BlockRestStep, PTL DEF BlockSpec

\* What the type of the accounts says besides NameTypes, and whom a request for a follow is
\* about.
AccountRest ==
  /\ accounts \in SUBSET Users /\ displayed \in SUBSET accounts
  /\ \A u \in Users : username[u] # None => u \in accounts
  /\ follows \in SUBSET Pairing /\ told \in SUBSET Pairing
  /\ \A c \in Asks : ask[c].pc \in {"suggest", "assign"} => ask[c].user \in accounts
  /\ \A c \in Asks : ask[c].pc \in FollowPcs => ask[c].user \in Users /\ ask[c].of \in Users

\* What is expected of the request that a step leaves.
Expected(q) ==
  /\ q.pc \in {"suggest", "assign"} => q.user \in accounts'
  /\ q.pc \in FollowPcs => q.user \in Users /\ q.of \in Users

LEMMA RestOfAsk ==
  ASSUME NameTypes, AccountRest, NEW c \in Asks, NEW q, ask' = [ask EXCEPT ![c] = q], Expected(q),
         accounts \in SUBSET accounts', accounts' \in SUBSET Users, displayed' \in SUBSET accounts',
         \A u \in Users : username'[u] # None => u \in accounts',
         follows' \in SUBSET Pairing, told' \in SUBSET Pairing
  PROVE  AccountRest'
<1>1. ask'[c] = q /\ \A d \in Asks : d # c => ask'[d] = ask[d]
  BY DEF NameTypes
<1> QED
  BY <1>1 DEF AccountRest, Expected

LEMMA ProfileRest ==
  ASSUME NameTypes, AccountRest, ProfileNext
  PROVE  AccountRest'
<1>0. /\ \A c \in Asks : ask[c] \in Ask /\ Formed(ask[c])
      /\ accounts \in SUBSET Users /\ displayed \in SUBSET accounts
  BY DEF NameTypes, AccountRest
<1>1. ASSUME NEW u \in Users, Login(u) PROVE AccountRest'
  BY <1>1 DEF Login, followVars, AccountRest
<1>2. ASSUME NEW c \in Asks, NEW u \in Users, NEW n \in Names \union {None},
             NEW d \in {"keep", "set", "clear"}, RequestProfile(c, u, n, d)
      PROVE  AccountRest'
  <2>1. PICK pc \in {"refused", "done", "write"}, rival \in BOOLEAN :
          ask' = [ask EXCEPT ![c] = [NewAsk EXCEPT !.user = u, !.name = n, !.display = d, !.pc = pc,
                                                   !.rival = rival]]
    <3> DEFINE taken == n # None /\ Taken(n, u)
               pc == IF taken THEN "refused" ELSE IF n = None /\ d = "keep" THEN "done" ELSE "write"
               rival == n # None /\ Contested(c, u, n)
    <3>1. ask' = [ask EXCEPT ![c] = [NewAsk EXCEPT !.user = u, !.name = n, !.display = d, !.pc = pc,
                                                   !.rival = rival]]
      BY <1>2, Zenon DEF RequestProfile
    <3>2. pc \in {"refused", "done", "write"}
      OBVIOUS
    <3>3. rival \in BOOLEAN
      BY DEF Contested
    <3> HIDE DEF pc, rival
    <3> QED
      BY <3>1, <3>2, <3>3
  <2> DEFINE q == [NewAsk EXCEPT !.user = u, !.name = n, !.display = d, !.pc = pc, !.rival = rival]
  <2>2. q.pc = pc
    BY DEF NewAsk
  <2> HIDE DEF q
  <2>3. Expected(q)
    BY <2>2 DEF Expected, FollowPcs
  <2>4. UNCHANGED <<accounts, username, displayed, follows, told>>
    BY <1>2 DEF RequestProfile, profileVars, followVars
  <2>5. ask' = [ask EXCEPT ![c] = q]
    BY <2>1, Zenon DEF q
  <2> QED
    BY <2>3, <2>4, <2>5, RestOfAsk DEF AccountRest
<1>3. ASSUME NEW c \in Asks, WriteProfile(c) PROVE AccountRest'
  <2> DEFINE me == ask[c]
             name == IF me.name = None THEN username[me.user] ELSE me.name
             shown == CASE me.display = "set" -> displayed \union {me.user}
                        [] me.display = "clear" -> displayed \ {me.user}
                        [] OTHER -> displayed
             pc == IF me.user \in shown /\ name = None THEN "suggest" ELSE "done"
             q == [me EXCEPT !.pc = pc]
  <2>1. /\ me.pc = "write" /\ accounts' = accounts \union {me.user} /\ displayed' = shown
        /\ username' = [username EXCEPT ![me.user] = name]
        /\ follows' = follows /\ told' = told
    BY <1>3 DEF WriteProfile, AskAt, followVars
  <2>2. ask' = [ask EXCEPT ![c] = q]
    BY <1>3, Zenon DEF WriteProfile, AskGoto
  <2>3. me.user \in Users /\ shown \in SUBSET (displayed \union {me.user})
    BY <1>0, <2>1 DEF Formed
  <2>4. pc \in {"suggest", "done"}
    OBVIOUS
  <2> HIDE DEF pc, shown
  <2>5. q.pc = pc /\ q.user = me.user
    BY <1>0 DEF Ask
  <2> HIDE DEF q
  <2>6. Expected(q)
    BY <2>1, <2>4, <2>5 DEF Expected, FollowPcs
  <2> HIDE DEF me, name
  <2>7. \A u \in Users : u # me.user => username'[u] = username[u]
    BY <2>1 DEF NameTypes
  <2>8. \A u \in Users : username'[u] # None => u \in accounts'
    BY <2>1, <2>7 DEF AccountRest
  <2> QED
    BY <1>0, <2>1, <2>2, <2>3, <2>6, <2>8, RestOfAsk DEF AccountRest
<1>4. ASSUME NEW c \in Asks, TrySuggestion(c) PROVE AccountRest'
  <2> DEFINE me == ask[c]
  <2>1. me.pc = "suggest" /\ me \in Ask /\ me.user \in accounts
    BY <1>0, <1>4 DEF TrySuggestion, AskAt, AccountRest
  <2>2. UNCHANGED <<accounts, username, displayed, follows, told>>
    BY <1>4 DEF TrySuggestion, profileVars, followVars
  <2>3. PICK q : ask' = [ask EXCEPT ![c] = q] /\ q.user = me.user /\ q.pc \in {"done", "suggest", "assign"}
    <3>1. CASE me.next > Len(Suggested)
      <4>1. ask' = [ask EXCEPT ![c] = [me EXCEPT !.pc = "done"]]
        BY <1>4, <3>1, Zenon DEF TrySuggestion, AskGoto
      <4>2. [me EXCEPT !.pc = "done"].user = me.user /\ [me EXCEPT !.pc = "done"].pc = "done"
        BY <2>1 DEF Ask
      <4> QED
        BY <4>1, <4>2, Zenon
    <3>2. CASE ~(me.next > Len(Suggested))
      <4> DEFINE n == Suggested[me.next]
                 next == me.next + 1
                 rival == Contested(c, me.user, n)
                 r == [me EXCEPT !.next = next]
                 s == [me EXCEPT !.pc = "assign", !.name = n, !.rival = rival]
      <4>1. ask' = [ask EXCEPT ![c] = IF Taken(n, me.user) THEN r ELSE s]
        BY <1>4, <3>2, Zenon DEF TrySuggestion
      <4> HIDE DEF n, next, rival
      <4>2. r.user = me.user /\ r.pc = "suggest" /\ s.user = me.user /\ s.pc = "assign"
        BY <2>1 DEF Ask
      <4> HIDE DEF r, s
      <4> QED
        BY <4>1, <4>2
    <3> QED
      BY <3>1, <3>2
  <2>4. Expected(q)
    BY <2>1, <2>2, <2>3 DEF Expected, FollowPcs
  <2> QED
    BY <2>2, <2>3, <2>4, RestOfAsk DEF AccountRest
<1>5. ASSUME NEW c \in Asks, AssignSuggestion(c) PROVE AccountRest'
  <2> DEFINE me == ask[c]
             q == [me EXCEPT !.pc = "done"]
  <2>1. /\ me.pc = "assign" /\ me \in Ask /\ me.user \in accounts
        /\ username' = [username EXCEPT ![me.user] = me.name]
        /\ UNCHANGED <<accounts, displayed, follows, told>>
    BY <1>0, <1>5 DEF AssignSuggestion, AskAt, AccountRest, followVars
  <2>2. ask' = [ask EXCEPT ![c] = q]
    BY <1>5, Zenon DEF AssignSuggestion, AskGoto
  <2>3. q.pc = "done"
    BY <2>1 DEF Ask
  <2> HIDE DEF q
  <2>4. Expected(q)
    BY <2>3 DEF Expected, FollowPcs
  <2> HIDE DEF me
  <2>5. \A u \in Users : u # me.user => username'[u] = username[u]
    BY <2>1 DEF NameTypes
  <2>6. \A u \in Users : username'[u] # None => u \in accounts'
    BY <2>1, <2>5 DEF AccountRest
  <2> QED
    BY <1>0, <2>1, <2>2, <2>4, <2>6, RestOfAsk DEF AccountRest
<1> QED
  BY <1>1, <1>2, <1>3, <1>4, <1>5 DEF ProfileNext

LEMMA FollowRest ==
  ASSUME NameTypes, AccountRest, NEW c \in Asks,
         \/ \E u, v \in Users : BeginPair(c, "match", u, v) \/ BeginPair(c, "delete", u, v)
         \/ FollowMatch(c) \/ FollowInsert(c) \/ TellFollow(c) \/ Unfollow(c) \/ UntellFollow(c)
         \/ AskFails(c)
  PROVE  AccountRest'
<1>0. /\ ask[c] \in Ask
      /\ ask[c].pc \in FollowPcs => ask[c].user \in Users /\ ask[c].of \in Users
  BY DEF NameTypes, AccountRest
<1>1. UNCHANGED <<accounts, username, displayed>>
  BY DEF BeginPair, FollowMatch, FollowInsert, TellFollow, Unfollow, UntellFollow, AskFails, profileVars
<1>2. ASSUME ask[c].pc \in FollowPcs PROVE [id |-> c, by |-> ask[c].user, of |-> ask[c].of] \in Pairing
  BY <1>0, <1>2 DEF Pairing
<1>3. follows' \in SUBSET Pairing /\ told' \in SUBSET Pairing
  <2>1. CASE FollowInsert(c) \/ TellFollow(c)
    <3>1. ask[c].pc \in FollowPcs
      BY <2>1 DEF FollowInsert, TellFollow, AskAt, FollowPcs
    <3> QED
      BY <1>2, <2>1, <3>1 DEF FollowInsert, TellFollow, AccountRest
  <2>2. CASE ~(FollowInsert(c) \/ TellFollow(c))
    BY <2>2 DEF BeginPair, FollowMatch, Unfollow, UntellFollow, AskFails, AccountRest, followVars, Of
  <2> QED
    BY <2>1, <2>2
<1>4. PICK q : ask' = [ask EXCEPT ![c] = q] /\ Expected(q)
  <2>1. ASSUME NEW pc \in FollowPcs, NEW u \in Users, NEW v \in Users, BeginPair(c, pc, u, v)
        PROVE  \E q : ask' = [ask EXCEPT ![c] = q] /\ Expected(q)
    <3> DEFINE rival == \E d \in Asks : ask[d].pc \in FollowPcs /\ OnPair(d, u, v)
               q == [NewAsk EXCEPT !.pc = pc, !.user = u, !.of = v, !.rival = rival]
    <3>1. ask' = [ask EXCEPT ![c] = q]
      BY <2>1, Zenon DEF BeginPair
    <3> HIDE DEF rival
    <3>2. q.pc = pc /\ q.user = u /\ q.of = v
      BY DEF NewAsk
    <3> HIDE DEF q
    <3>3. Expected(q)
      BY <3>2 DEF Expected, FollowPcs
    <3> QED
      BY <3>1, <3>3
  <2>2. ASSUME NEW pc \in {"tell", "untell", "done", "refused", "failed"},
               AskGoto(c, pc), ask[c].pc \in FollowPcs \/ pc = "failed"
        PROVE  \E q : ask' = [ask EXCEPT ![c] = q] /\ Expected(q)
    <3> DEFINE q == [ask[c] EXCEPT !.pc = pc]
    <3>1. ask' = [ask EXCEPT ![c] = q]
      BY <2>2, Zenon DEF AskGoto
    <3>2. q.pc = pc /\ q.user = ask[c].user /\ q.of = ask[c].of
      BY <1>0 DEF Ask
    <3> HIDE DEF q
    <3>3. Expected(q)
      BY <1>0, <2>2, <3>2 DEF Expected, FollowPcs
    <3> QED
      BY <3>1, <3>3
  <2>3. ASSUME FollowMatch(c) PROVE \E q : ask' = [ask EXCEPT ![c] = q] /\ Expected(q)
    <3> DEFINE there == Of(follows, ask[c].user, ask[c].of) # {}
               pc == IF there THEN "tell" ELSE "insert"
               rival == ask[c].rival \/ there
               q == [ask[c] EXCEPT !.pc = pc, !.rival = rival]
    <3>1. ask' = [ask EXCEPT ![c] = q]
      BY <2>3, Zenon DEF FollowMatch
    <3>2. pc \in FollowPcs /\ ask[c].pc \in FollowPcs
      BY <2>3 DEF FollowMatch, AskAt, FollowPcs
    <3> HIDE DEF pc, rival
    <3>3. q.pc = pc /\ q.user = ask[c].user /\ q.of = ask[c].of
      BY <1>0 DEF Ask
    <3> HIDE DEF q
    <3>4. Expected(q)
      BY <1>0, <3>2, <3>3 DEF Expected, FollowPcs
    <3> QED
      BY <3>1, <3>4
  <2>4. CASE \E u, v \in Users : BeginPair(c, "match", u, v) \/ BeginPair(c, "delete", u, v)
    BY <2>1, <2>4 DEF FollowPcs
  <2>5. CASE FollowInsert(c) \/ TellFollow(c) \/ Unfollow(c) \/ UntellFollow(c)
    <3>1. ask[c].pc \in FollowPcs
      BY <2>5 DEF FollowInsert, TellFollow, Unfollow, UntellFollow, AskAt, FollowPcs
    <3>2. AskGoto(c, "tell") \/ AskGoto(c, "done") \/ AskGoto(c, "refused") \/ AskGoto(c, "untell")
      BY <2>5 DEF FollowInsert, TellFollow, Unfollow, UntellFollow
    <3> QED
      BY <2>2, <3>1, <3>2
  <2>6. CASE AskFails(c)
    BY <2>2, <2>6 DEF AskFails
  <2> QED
    BY <2>3, <2>4, <2>5, <2>6
<1> QED
  BY <1>1, <1>3, <1>4, RestOfAsk DEF AccountRest

\* Accounts: whoever has a username or a display name has an account, and a document of
\* followers is about two users.
THEOREM AccountTyped == AccountSpec => []AccountTypeOK
<1>1. AccountInit => NameInv /\ AccountRest
  BY DEF AccountInit, NameInv, NameTypes, HeldIsFree, HeldOnce, SharedNameNeedsOverlap, Holds, Formed,
         NewAsk, Ask, AccountRest, FollowPcs
<1>2. NameInv /\ AccountRest /\ [AccountNext]_accountVars => AccountRest'
  <2>1. CASE UNCHANGED accountVars
    BY <2>1 DEF accountVars, profileVars, followVars, AccountRest
  <2>2. NameInv => NameTypes
    BY DEF NameInv
  <2> QED
    BY <2>1, <2>2, ProfileRest, FollowRest DEF AccountNext, FollowNext
<1>3. NameInv /\ AccountRest => AccountTypeOK
  BY DEF NameInv, NameTypes, AccountRest, AccountTypeOK
<1> QED
  BY <1>1, <1>2, <1>3, NamesStep, PTL DEF AccountSpec


-----------------------------------------------------------------------------
(***************************************************************************)
(* The instance that runs the components as alternatives (MCPeople).       *)
(***************************************************************************)

\* Whatever the instance runs is a step of that component, and none of the others.
LEMMA PeopleStep ==
  [MCNext]_allVars =>
    /\ [NoticeNext]_noticeVars
    /\ [AccountNext]_accountVars
    /\ [ChatNext]_chatVars
    /\ [BlockNext]_blockVars
    /\ [HistoryNext]_historyVars
    /\ [SessionNext]_sessionVars
    /\ [PayNext]_payVars
<1>1. CASE UNCHANGED allVars
  BY <1>1 DEF allVars
<1>2. CASE MCNext
  BY <1>2 DEF MCNext, AccountNext, ChatNext
<1> QED
  BY <1>1, <1>2

\* The instance of the components around accounts behaves as each of them: what is proved
\* of a component holds in it.
THEOREM PeopleProject ==
  MCSpec => NoticeSpec /\ AccountSpec /\ ChatSpec /\ BlockSpec /\ HistorySpec /\ SessionSpec /\ PaySpec
<1>1. MCInit => /\ NoticeInit /\ AccountInit /\ ChatInit /\ BlockInit /\ HistoryInit /\ SessionInit
                /\ PayInit
  BY DEF MCInit
<1> QED
  BY <1>1, PeopleStep, PTL
     DEF MCSpec, NoticeSpec, AccountSpec, ChatSpec, BlockSpec, HistorySpec, SessionSpec, PaySpec

\* Every variable around accounts keeps its type, whichever component runs.
THEOREM PeopleTyped == MCSpec => []PeopleTypesOK
<1>1. (NoticeTypeOK /\ AccountTypeOK /\ ChatTypeOK /\ BlockTypeOK /\ HistoryTypeOK /\ SessionTypeOK
         /\ PayTypeOK) => PeopleTypesOK
  BY DEF PeopleTypesOK
<1> QED
  BY <1>1, PeopleProject, NoticeTyped, AccountTyped, ChatTyped, BlockTyped, HistoryTyped, SessionTyped,
     PayTyped, PTL

\* What a run checks of the instance on a few ids holds of it on any number.
THEOREM PeopleAreSafe ==
  MCSpec =>
    /\ [](SessionKnowsSockets /\ OpenedByItsDeal /\ ChatsStaySingle /\ ClearedStaysCleared)
    /\ [](SecondUnreadNeedsOverlap /\ SharedNameNeedsOverlap)
    /\ DeliveriesSpareBlocked
  BY PeopleProject, SessionsKnowSockets, OpenedThroughDeals, ChatsAreSingle, ClearedAlwaysStaysCleared,
     UnreadStaysSingle, NamesAreShared, DeliveriesAreSpared, PTL
=============================================================================
