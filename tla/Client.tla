-------------------------------- MODULE Client --------------------------------
(***************************************************************************)
(* The client's connections (business/usecase/client.go,                   *)
(* client.connections.go, client.interface.go) over UDP, one to each port  *)
(* of the server: who draws a connection to send on, and how connections,  *)
(* session and tunnel interface come and go.                               *)
(*                                                                         *)
(* Goroutines: the manager (Start, Exit); for each connection its receive  *)
(* loop (commandReset) and its keepalive goroutine (disconnect, which      *)
(* connects again).  connMux is held throughout createConnection.  The     *)
(* server's answers and silences are any it may give.  What only reads     *)
(* this state (getConnection, the two goroutines of the tunnel interface)  *)
(* is not an action: the properties say what it can meet.                  *)
(***************************************************************************)
EXTENDS Integers, Sequences, SequencesExt, FiniteSets

CONSTANTS
  MaxPort,                   (* ports 1 .. MaxPort                             *)
  MaxConnectionAttempts,
  MaxConns,                  (* bound: sockets dialled                         *)
  MaxFailures,               (* bound: resets and keepalive timeouts            *)
  None

Ports == 1 .. MaxPort
Conns == 1 .. MaxConns
Manager == 0                 (* the other holders of connMux are keepalive goroutines *)
SessionIDs == 0 .. MaxConns  (* 0: none                                        *)

ASSUME ClientAssumption ==
  /\ MaxPort \in Nat \ {0} /\ MaxConnectionAttempts \in Nat \ {0} /\ MaxConns \in Nat
  /\ MaxFailures \in Nat
  /\ None \notin Int

VARIABLES
  connections,               (* the slice                                      *)
  connectionsMap,            (* the map: Key() is the server's port            *)
  connMux,                   (* who is inside createConnection                 *)
  creation,                  (* the locals of createConnection                 *)
  sessionID, isConnected, isExit,
  interfaceConn,             (* it is not nil                                  *)
  conn,                      (* the sockets dialled: port, idx, session, open, started *)
  manager,                   (* what Start or Exit does next, for which port   *)
  keepalive,                 (* connection -> what its keepalive goroutine does *)
  receiver,                  (* connection -> what its receive loop does       *)
  \* what happened so far
  failures,                  (* resets and timeouts so far                     *)
  sessionsGiven,             (* sessions the server created                    *)
  misplaced,                 (* a removal took an element of another connection *)
  overlapped,                (* a reset, Stop or Exit overlapped a creation    *)
  refused                    (* connections answered with ErrUnauthorized      *)

table == <<connections, connectionsMap, misplaced>>
lock == <<connMux, creation>>
session == <<sessionID, isConnected, sessionsGiven, overlapped>>
past == <<failures, refused>>
shared == <<table, lock, session, isExit, interfaceConn, conn>>
vars == <<shared, manager, keepalive, receiver, past>>

NoCreation == [at |-> "no", port |-> 1, tries |-> 0, sid |-> 0]
NoConn == [port |-> 1, idx |-> 0, sid |-> 0, open |-> FALSE, started |-> FALSE,
           late |-> FALSE]   (* late: made after isExit was set *)
Off == [at |-> "off", again |-> FALSE]

Init ==
  /\ connections = <<>> /\ connectionsMap = [p \in Ports |-> None]
  /\ connMux = None /\ creation = NoCreation
  /\ sessionID = 0 /\ isConnected = FALSE /\ isExit = FALSE /\ interfaceConn = FALSE
  /\ conn = <<>>
  /\ manager = [at |-> "start", port |-> 1]
  /\ keepalive = [c \in Conns |-> Off]
  /\ receiver = [c \in Conns |-> "off"]
  /\ failures = 0 /\ sessionsGiven = 0
  /\ misplaced = FALSE /\ overlapped = FALSE /\ refused = {}

Free == connMux = None

InMap == {p \in Ports : connectionsMap[p] # None}
Closing ==
  \/ manager.at \in {"closeAll", "closeIf", "clear"}
  \/ \E c \in Conns : keepalive[c].at \in {"closeIf", "sendReset", "clear"}
  \/ \E c \in Conns : receiver[c] \in {"closeAll", "closeIf"}

-----------------------------------------------------------------------------
(* The slice, the map and what is done to them under connMux *)

\* mutant: the last element stays
DeleteKeeps(s, i) == IF i > Len(s) THEN s ELSE [s EXCEPT ![i] = Last(s)]

\* structs.Delete: the last element takes the place of the one deleted.
Delete(s, i) ==
  IF i > Len(s) THEN s ELSE SubSeq([s EXCEPT ![i] = Last(s)], 1, Len(s) - 1)

\* addConnection: the index is that of the slice when it was appended.
Added(c, p) ==
  IF connectionsMap[p] # None THEN UNCHANGED table
  ELSE /\ connectionsMap' = [connectionsMap EXCEPT ![p] = c]
       /\ connections' = Append(connections, c)
       /\ UNCHANGED misplaced

\* the connection the map has for this port goes, by the index it was given
Removed(p) ==
  LET c == connectionsMap[p]
  IN  IF c = None THEN UNCHANGED table
      ELSE /\ connectionsMap' = [connectionsMap EXCEPT ![p] = None]
           /\ connections' = Delete(connections, conn[c].idx)
           /\ misplaced' = (misplaced \/ conn[c].idx > Len(connections)
                                      \/ connections[conn[c].idx] # c)

\* mutant: no Close
CloseAllOnlyForgets ==
  /\ connections' = <<>> /\ connectionsMap' = [p \in Ports |-> None]
  /\ UNCHANGED conn

\* closeAndRemoveAllConnections
CloseAll ==
  /\ conn' = [c \in DOMAIN conn |->
                [conn[c] EXCEPT !.open = @ /\ c \notin ToSet(connections)]]
  /\ connections' = <<>>
  /\ connectionsMap' = [p \in Ports |-> None]

\* mutant: isConnected stays
ClearSession == sessionID' = 0 /\ UNCHANGED isConnected

Clear == sessionID' = 0 /\ isConnected' = FALSE

\* reset()
ResetSession ==
  /\ Clear
  /\ overlapped' = (overlapped \/ ~Free)
  /\ UNCHANGED sessionsGiven

-----------------------------------------------------------------------------
(* createConnection *)

\* A createConnection starts for the goroutine a.
Begins(a, p) ==
  /\ Free
  /\ connMux' = a
  /\ creation' = [NoCreation EXCEPT !.at = "dial", !.port = p]
  /\ UNCHANGED <<table, session, isExit, interfaceConn, conn, manager, keepalive,
                 receiver, past>>

ManagerCreates == manager.at = "start" /\ Begins(Manager, manager.port)
KeepaliveCreates(c) == keepalive[c].at = "create" /\ Begins(c, conn[c].port)

\* It returns to Start, which goes on with the next port or gives up, or to
\* disconnect, which is done or calls Stop.
ManagerAfter(ok) ==
  IF ~ok THEN [manager EXCEPT !.at = "failed"]
  ELSE IF manager.port = MaxPort THEN [manager EXCEPT !.at = "up"]
  ELSE [manager EXCEPT !.port = @ + 1]

KeepaliveAfter(ok) == [at |-> IF ok THEN "off" ELSE "stop", again |-> TRUE]

Returns(ok, keep) ==
  /\ connMux' = None
  /\ creation' = NoCreation
  /\ manager' = IF connMux = Manager THEN ManagerAfter(ok) ELSE manager
  /\ keepalive' = IF connMux = Manager THEN keep
                  ELSE [keep EXCEPT ![connMux] = KeepaliveAfter(ok)]

LastAttempt == creation.tries + 1 = MaxConnectionAttempts

\* One more attempt, or ErrMaxConnectionAttempts.
TriesAgain ==
  IF LastAttempt THEN Returns(FALSE, keepalive)
  ELSE /\ creation' = [creation EXCEPT !.at = "dial", !.tries = @ + 1]
       /\ UNCHANGED <<connMux, manager, keepalive>>

DialFails ==
  /\ creation.at = "dial"
  /\ TriesAgain
  /\ UNCHANGED <<table, session, isExit, interfaceConn, conn, receiver, past>>

\* Run, addConnection, and the authentication sent with the session of now.
Dial ==
  /\ creation.at = "dial" /\ Len(conn) < MaxConns
  /\ conn' = Append(conn, [NoConn EXCEPT !.port = creation.port, !.open = TRUE, !.late = isExit,
                                         !.idx = Len(connections) + 1])
  /\ Added(Len(conn) + 1, creation.port)
  /\ creation' = [creation EXCEPT !.at = "auth", !.sid = sessionID]
  /\ UNCHANGED <<connMux, session, isExit, interfaceConn, manager, keepalive, receiver,
                 past>>

\* No answer, an answer that is an error, or createInterface fails; the same
\* after the handshake.  The socket stays open.
AttemptFails ==
  /\ creation.at \in {"auth", "handshake"}
  /\ Removed(creation.port)
  /\ TriesAgain
  /\ UNCHANGED <<session, isExit, interfaceConn, conn, receiver, past>>

\* The server does not know the session: the connection stays where it was put.
Unauthorized ==
  /\ creation.at = "auth" /\ creation.sid # 0
  /\ Returns(FALSE, keepalive)
  /\ refused' = refused \union {Len(conn)}
  /\ UNCHANGED <<table, session, isExit, interfaceConn, conn, receiver, failures>>

\* createInterface, and the session of the answer
Authenticated ==
  /\ creation.at = "auth"
  /\ interfaceConn' = TRUE
  /\ sessionsGiven' = IF creation.sid = 0 THEN sessionsGiven + 1 ELSE sessionsGiven
  /\ sessionID' = IF creation.sid = 0 THEN sessionsGiven + 1 ELSE creation.sid
  /\ creation' = [creation EXCEPT !.at = "handshake"]
  /\ UNCHANGED <<table, connMux, isConnected, overlapped, isExit, conn, manager,
                 keepalive, receiver, past>>

\* isConnected, then ReceiverUDP with its Retry and Ack
HandshakeDone ==
  /\ creation.at = "handshake"
  /\ isConnected' = TRUE
  /\ overlapped' = (overlapped \/ Closing)
  /\ conn' = [conn EXCEPT ![Len(conn)].sid = sessionID, ![Len(conn)].started = TRUE]
  /\ receiver' = [receiver EXCEPT ![Len(conn)] = "run"]
  /\ Returns(TRUE, [keepalive EXCEPT ![Len(conn)].at = "run"])
  /\ UNCHANGED <<table, sessionID, sessionsGiven, isExit, interfaceConn, past>>

-----------------------------------------------------------------------------
(* The keepalive goroutine: disconnect *)

KeepaliveGoes(c, place) == keepalive' = [keepalive EXCEPT ![c].at = place]

\* KeepaliveProbes went unanswered
KeepaliveTimeout(c) ==
  /\ keepalive[c].at = "run"
  /\ failures < MaxFailures
  /\ failures' = failures + 1
  /\ KeepaliveGoes(c, "remove")
  /\ UNCHANGED <<shared, manager, receiver, refused>>

\* Retry.Stop: the receive loop has ended
KeepaliveStops(c) ==
  /\ keepalive[c].at = "run" /\ receiver[c] = "off"
  /\ KeepaliveGoes(c, "off")
  /\ UNCHANGED <<shared, manager, receiver, past>>

\* mutant: no Unlock
AfterRemoveConnectionLocked(c) == c

AfterRemoveConnection(c) == None

\* removeConnection: under the lock ...
RemoveConnection(c) ==
  /\ keepalive[c].at = "remove" /\ Free
  /\ Removed(conn[c].port)
  /\ connMux' = AfterRemoveConnection(c)
  /\ KeepaliveGoes(c, "last")
  /\ UNCHANGED <<creation, session, isExit, interfaceConn, conn, manager, receiver,
                 past>>

\* ... and after it, without: was it the last one?
WasLast(c) ==
  /\ keepalive[c].at = "last"
  /\ KeepaliveGoes(c, IF InMap = {} THEN "stop" ELSE "close")
  /\ UNCHANGED <<shared, manager, receiver, past>>

AfterStop(c) == IF keepalive[c].again THEN "off" ELSE "close"

\* Stop: isConnected, closeInterface, sendReset, reset
StopTests(c) ==
  /\ keepalive[c].at = "stop"
  /\ KeepaliveGoes(c, IF isConnected THEN "closeIf" ELSE AfterStop(c))
  /\ UNCHANGED <<shared, manager, receiver, past>>

StopClosesInterface(c) ==
  /\ keepalive[c].at = "closeIf" /\ Free
  /\ interfaceConn' = FALSE
  /\ KeepaliveGoes(c, "sendReset")
  /\ UNCHANGED <<table, lock, session, isExit, conn, manager, receiver, past>>

StopSendsReset(c) ==
  /\ keepalive[c].at = "sendReset" /\ (isConnected => Free)
  /\ KeepaliveGoes(c, "clear")
  /\ UNCHANGED <<shared, manager, receiver, past>>

StopClears(c) ==
  /\ keepalive[c].at = "clear"
  /\ ResetSession
  /\ KeepaliveGoes(c, AfterStop(c))
  /\ UNCHANGED <<table, lock, isExit, interfaceConn, conn, manager, receiver, past>>

CloseConnection(c) ==
  /\ keepalive[c].at = "close"
  /\ conn' = [conn EXCEPT ![c].open = FALSE]
  /\ KeepaliveGoes(c, "reconnect")
  /\ UNCHANGED <<table, lock, session, isExit, interfaceConn, manager, receiver, past>>

Reconnect(c) ==
  /\ keepalive[c].at = "reconnect"
  /\ KeepaliveGoes(c, IF isExit THEN "off" ELSE "create")
  /\ UNCHANGED <<shared, manager, receiver, past>>

-----------------------------------------------------------------------------
(* The receive loop: commandReset *)

\* A reset for the session comes in, and Exit has not begun.
CommandReset(c) ==
  /\ receiver[c] = "run" /\ conn[c].open
  /\ conn[c].sid = sessionID /\ ~isExit
  /\ failures < MaxFailures
  /\ failures' = failures + 1
  /\ ResetSession
  /\ receiver' = [receiver EXCEPT ![c] = "closeAll"]
  /\ UNCHANGED <<table, lock, isExit, interfaceConn, conn, manager, keepalive, refused>>

ResetClosesAll(c) ==
  /\ receiver[c] = "closeAll" /\ Free
  /\ CloseAll
  /\ receiver' = [receiver EXCEPT ![c] = "closeIf"]
  /\ UNCHANGED <<lock, session, isExit, interfaceConn, manager, keepalive, misplaced,
                 past>>

ResetClosesInterface(c) ==
  /\ receiver[c] = "closeIf" /\ Free
  /\ interfaceConn' = FALSE
  /\ receiver' = [receiver EXCEPT ![c] = "run"]
  /\ UNCHANGED <<table, lock, session, isExit, conn, manager, keepalive, past>>

\* The socket is closed, or data came in for a connection that is not in the map.
ReceiverEnds(c) ==
  /\ receiver[c] = "run"
  /\ ~conn[c].open \/ (connectionsMap[conn[c].port] = None /\ Free)
  /\ receiver' = [receiver EXCEPT ![c] = "off"]
  /\ UNCHANGED <<shared, manager, keepalive, past>>

-----------------------------------------------------------------------------
(* Exit, called by the connection manager once Start is done *)

ManagerGoes(place) == manager' = [manager EXCEPT !.at = place]

ExitBegins ==
  /\ manager.at = "up"
  /\ isExit' = isConnected
  /\ ManagerGoes(IF isConnected THEN "sendReset" ELSE "gone")
  /\ UNCHANGED <<table, lock, session, interfaceConn, conn, keepalive, receiver, past>>

ExitSendsReset ==
  /\ manager.at = "sendReset" /\ (isConnected => Free)
  /\ ManagerGoes("closeAll")
  /\ UNCHANGED <<shared, keepalive, receiver, past>>

ExitClosesAll ==
  /\ manager.at = "closeAll" /\ Free
  /\ CloseAll
  /\ ManagerGoes("closeIf")
  /\ UNCHANGED <<lock, session, isExit, interfaceConn, keepalive, receiver, misplaced,
                 past>>

ExitClosesInterface ==
  /\ manager.at = "closeIf" /\ Free
  /\ interfaceConn' = FALSE
  /\ ManagerGoes("clear")
  /\ UNCHANGED <<table, lock, session, isExit, conn, keepalive, receiver, past>>

ExitClears ==
  /\ manager.at = "clear"
  /\ ResetSession
  /\ ManagerGoes("exited")
  /\ UNCHANGED <<table, lock, isExit, interfaceConn, conn, keepalive, receiver, past>>

-----------------------------------------------------------------------------

CreationStep ==
  DialFails \/ Dial \/ AttemptFails \/ Unauthorized \/ Authenticated \/ HandshakeDone

DisconnectStep(c) ==
  \/ RemoveConnection(c) \/ WasLast(c)
  \/ StopTests(c) \/ StopClosesInterface(c) \/ StopSendsReset(c) \/ StopClears(c)
  \/ CloseConnection(c) \/ Reconnect(c) \/ KeepaliveCreates(c)

ResetStep(c) == ResetClosesAll(c) \/ ResetClosesInterface(c)

ExitStep == ExitSendsReset \/ ExitClosesAll \/ ExitClosesInterface \/ ExitClears

Next ==
  \/ ManagerCreates
  \/ DialFails \/ Dial \/ AttemptFails \/ Unauthorized \/ Authenticated \/ HandshakeDone
  \/ \E c \in Conns :
       \/ KeepaliveTimeout(c) \/ KeepaliveStops(c)
       \/ RemoveConnection(c) \/ WasLast(c)
       \/ StopTests(c) \/ StopClosesInterface(c) \/ StopSendsReset(c) \/ StopClears(c)
       \/ CloseConnection(c) \/ Reconnect(c) \/ KeepaliveCreates(c)
       \/ CommandReset(c) \/ ResetClosesAll(c) \/ ResetClosesInterface(c) \/ ReceiverEnds(c)
  \/ ExitBegins \/ ExitSendsReset \/ ExitClosesAll \/ ExitClosesInterface \/ ExitClears

Spec == Init /\ [][Next]_vars

\* Goroutines run, and every call to the server returns within its timeout.
Fairness ==
  /\ WF_vars(CreationStep)
  /\ WF_vars(ExitStep)
  /\ \A c \in Conns : WF_vars(DisconnectStep(c)) /\ WF_vars(ResetStep(c))

FairSpec == Spec /\ Fairness

-----------------------------------------------------------------------------
(* Properties *)

\* getConnection draws below the size of the map from the slice: it finds an
\* element, whatever removals by an index of long ago did to the slice.  Until a
\* removal hits the element of another connection, the slice holds the
\* connections of the map, each once and, when nobody is creating one, each
\* started or refused by the server.
SliceMatches ==
  /\ Cardinality(InMap) <= Len(connections)
  /\ ~misplaced =>
       /\ ToSet(connections) = {connectionsMap[p] : p \in InMap}
       /\ Len(connections) = Cardinality(InMap)
       /\ Free => \A c \in ToSet(connections) : conn[c].started \/ c \in refused

\* A client that is connected has its session and its tunnel interface, unless a
\* reset, Stop or Exit is at work or overlapped the creation of a connection.
ConnectedIsWhole ==
  isConnected /\ ~Closing /\ ~overlapped => sessionID # 0 /\ interfaceConn

\* disconnect is on its way to close it
BeingClosed(c) == keepalive[c].at \notin {"off", "run", "remove"}

\* Exit leaves no connection at work but those a keepalive goroutine, past the
\* test of isExit, made after it, and those a misplaced removal took from the slice.
ExitCloses ==
  manager.at = "exited" /\ ~misplaced =>
    \A c \in DOMAIN conn :
      conn[c].open /\ conn[c].started => conn[c].late \/ BeingClosed(c)

\* Exit ends: nobody waits for connMux while holding it.
ExitEnds ==
  (manager.at = "sendReset") ~> (manager.at = "exited")

\* structs.Delete "deletes element from slice": what is removed is not drawn any
\* more.
RemovedIsGone == \A c \in ToSet(connections) : connectionsMap[conn[c].port] = c
===============================================================================
