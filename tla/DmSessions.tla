------------------------------- MODULE DmSessions -------------------------------
(***************************************************************************)
(* The Redis session of one user of the /dm namespace: the list of his     *)
(* sockets, which a connect and a disconnect read, change and write back   *)
(* (dm.socket.controller.ts).                                              *)
(***************************************************************************)
EXTENDS Integers, FiniteSets

CONSTANTS
  Sockets,    \* bound: the user's sockets, over all instances of the server
  MaxDeaths   \* bound: process deaths

ASSUME SocketsAssumption == IsFiniteSet(Sockets)

VARIABLES
  session,    \* socketIds of the user's key in Redis; empty: no key
  socket,     \* the sockets and the handler of each
  deaths      \* sockets whose process died

sessionVars == <<session, socket, deaths>>

\* seen: the list a handler read.  late: it read while another handler of the
\* user had read and not written.  missed: it left before its disconnect was
\* listened for.
Socket == [pc : {"new", "join", "on", "leave", "gone", "off"}, seen : SUBSET Sockets,
           late : BOOLEAN, missed : BOOLEAN]

SessionTypeOK ==
  /\ session \in SUBSET Sockets
  /\ socket \in [Sockets -> Socket]
  /\ deaths \in SUBSET Sockets
  /\ \A s \in Sockets : socket[s].pc \in {"new", "off"} => socket[s].seen = {}

SessionInit ==
  /\ session = {}
  /\ socket = [s \in Sockets |-> [pc |-> "new", seen |-> {}, late |-> FALSE, missed |-> FALSE]]
  /\ deaths = {}

-----------------------------------------------------------------------------

\* A handler of the user is between its GET and its SET.
Writing(s) == \E r \in Sockets \ {s} : socket[r].pc \in {"join", "leave"}

Read(s, pc) ==
  socket' = [socket EXCEPT ![s].pc = pc, ![s].seen = session, ![s].late = @ \/ Writing(s)]

\* sessionSet, when the address has an account.
ReadAtConnect(s) ==
  /\ socket[s].pc = "new"
  /\ Read(s, "join")
  /\ UNCHANGED <<session, deaths>>

\* Only now the socket's events are listened for, its disconnect included.
AddSocket(s) ==
  /\ socket[s].pc = "join"
  /\ session' = socket[s].seen \union {s}
  /\ socket' = [socket EXCEPT ![s].pc = IF socket[s].missed THEN "off" ELSE "on", ![s].seen = {}]
  /\ UNCHANGED deaths

LeaveEarly(s) ==
  /\ socket[s].pc = "join" /\ ~socket[s].missed
  /\ socket' = [socket EXCEPT ![s].missed = TRUE]
  /\ UNCHANGED <<session, deaths>>

\* unset: nothing to do without a session.
ReadAtDisconnect(s) ==
  /\ socket[s].pc = "on"
  /\ IF session = {}
       THEN socket' = [socket EXCEPT ![s].pc = "off"]
       ELSE Read(s, "leave")
  /\ UNCHANGED <<session, deaths>>

\* Slip: the key goes with any socket.
DropSession(s) ==
  /\ socket[s].pc = "leave"
  /\ session' = {}
  /\ socket' = [socket EXCEPT ![s].pc = "off", ![s].seen = {}]
  /\ UNCHANGED deaths

\* The rest is written back, or the key deleted with the last.
RemoveSocket(s) ==
  /\ socket[s].pc = "leave"
  /\ session' = socket[s].seen \ {s}
  /\ socket' = [socket EXCEPT ![s].pc = "off", ![s].seen = {}]
  /\ UNCHANGED deaths

\* A process dies with some sockets; Redis keeps what it has, and nothing
\* clears it at the next start.
ProcessDies(gone) ==
  /\ gone # {} /\ Cardinality(deaths \union gone) <= MaxDeaths
  /\ \A s \in gone : socket[s].pc \in {"join", "on", "leave"}
  /\ deaths' = deaths \union gone
  /\ socket' = [s \in Sockets |-> IF s \in gone THEN [socket[s] EXCEPT !.pc = "off", !.seen = {}]
                                                ELSE socket[s]]
  /\ UNCHANGED session

SessionNext ==
  \/ \E s \in Sockets :
       \/ ReadAtConnect(s)
       \/ AddSocket(s)
       \/ LeaveEarly(s)
       \/ ReadAtDisconnect(s)
       \/ RemoveSocket(s)
  \/ \E gone \in SUBSET Sockets : ProcessDies(gone)

SessionSpec == SessionInit /\ [][SessionNext]_sessionVars

-----------------------------------------------------------------------------

(***************************************************************************)
(* The session lists the sockets that are connected, and no other that did *)
(* not leave early or die with its process, unless two handlers of the     *)
(* user overlapped: each writes back the list it read (sessionSet, unset). *)
(***************************************************************************)
SessionKnowsSockets ==
  \/ \E s \in Sockets : socket[s].late
  \/ /\ \A s \in Sockets : socket[s].pc \in {"on", "leave"} => s \in session
     /\ \A s \in session : socket[s].pc = "off" => socket[s].missed \/ s \in deaths
=============================================================================
