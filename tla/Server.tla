-------------------------------- MODULE Server --------------------------------
(***************************************************************************)
(* The tables of the server (business/usecase/server.go and its            *)
(* server.sessions, server.connections and server.interfaces files):       *)
(* sessions of clients, the tunnel interface and address block of each     *)
(* session, and the connections that carry it.                             *)
(*                                                                         *)
(* Messages of different connections are handled at the same time: a TCP   *)
(* connection has a goroutine of its own, UDP has one for each port.  A    *)
(* handler takes sessMux and connMux several times, once a table, and lets *)
(* go of them in between; each such region is an action here.              *)
(***************************************************************************)
EXTENDS Integers, FiniteSets, FiniteSetsExt

CONSTANTS
  Clients,
  Keys,              (* connections, by Connection.Key()                       *)
  Owner,             (* connection -> the client at its other end              *)
  Socket,            (* connection -> protocol and port it comes in on         *)
  UDPKeys,           (* those that are UDP                                     *)
  AddrMin,           (* first address of the tunnels                           *)
  MaxSessions,       (* bound: sessions created                                *)
  MaxAuth,           (* bound: authentications of one UDP connection           *)
  MaxCrossed,        (* bound: connections in crossed                          *)
  None

SessionIDs == 1 .. MaxSessions
IfNames == 1 .. MaxSessions       \* tun0, tun1, ...

ASSUME ServerAssumption ==
  /\ MaxSessions \in Nat /\ MaxAuth \in Nat /\ MaxCrossed \in Nat /\ AddrMin \in Nat
  /\ Owner \in [Keys -> Clients]
  /\ DOMAIN Socket = Keys
  /\ UDPKeys \subseteq Keys
  /\ None \notin Clients \union Int
  /\ None \notin [client : Clients, ifName : IfNames \union {None}]
  /\ None \notin [session : SessionIDs, ifName : IfNames]
  /\ None \notin [session : SessionIDs, ip : Nat, conns : SUBSET [key : Keys, sid : Nat]]

VARIABLES
  sessions,          (* id -> its client and IfName                            *)
  client2session,    (* client -> id                                           *)
  connections,       (* connection -> its serverConn: session and ifName       *)
  interfaces,        (* name -> session, first of its four addresses, Connections *)
  streams,           (* sessions the merger has                                *)
  request,           (* whose authentication request the shared struct holds   *)
  handler,           (* connection -> where its handler is                     *)
  panicked,          (* what a handler dereferenced that was nil               *)
  \* what happened so far
  created,           (* sessions created                                       *)
  auths,             (* connection -> authentications it started               *)
  given,             (* connection -> sessions its client was told of over it  *)
  bereft,            (* sessions whose interface was closed for another one    *)
  crossed            (* connections that another's request may have served     *)

tables == <<sessions, client2session, interfaces, streams, bereft>>
decoder == <<request, crossed>>
vars == <<tables, decoder, connections, handler, panicked, created, auths, given>>

\* sid: conn.SessionID; a UDP connection is a new object for each datagram, with
\* the identifier in its header.  at: what the handler does next; sc and ic: what it read
\* from connections and interfaces and goes on with.
Idle(sid) == [at |-> "idle", sid |-> sid, sc |-> None, ic |-> None]

Init ==
  /\ sessions = [s \in SessionIDs |-> None]
  /\ client2session = [c \in Clients |-> None]
  /\ connections = [k \in Keys |-> None]
  /\ interfaces = [n \in IfNames |-> None]
  /\ streams = {}
  /\ request = None
  /\ crossed = {}
  /\ handler = [k \in Keys |-> Idle(0)]
  /\ panicked = "nothing"
  /\ created = 0
  /\ auths = [k \in Keys |-> 0]
  /\ given = [k \in Keys |-> {}]
  /\ bereft = {}

Running == panicked = "nothing"
At(k, place) == Running /\ handler[k].at = place
GoesTo(k, place) == handler' = [handler EXCEPT ![k].at = place]
Ends(k) == handler' = [handler EXCEPT ![k] = Idle(IF k \in UDPKeys THEN 0 ELSE @.sid)]

Live(s) == s \in SessionIDs /\ sessions[s] # None

-----------------------------------------------------------------------------
(***************************************************************************)
(* dropSession: nothing happens unless the interface of the session is     *)
(* there.  Entries of connections stay.                                    *)
(***************************************************************************)

\* The interface called n is closed on behalf of session s.
Closed(n, s) ==
  /\ interfaces' = [interfaces EXCEPT ![n] = None]
  /\ bereft' = bereft \union ({interfaces[n].session} \ {s})

\* mutant: the session stays
ForgetsNothing(s) == UNCHANGED <<sessions, client2session>>

\* mutant: the client is still looked up
ForgetsNot(s) ==
  /\ sessions' = [sessions EXCEPT ![s] = None]
  /\ UNCHANGED client2session

Forgets(s) ==
  /\ client2session' = [client2session EXCEPT ![sessions[s].client] = None]
  /\ sessions' = [sessions EXCEPT ![s] = None]

HasInterface(s) == sessions[s].ifName # None /\ interfaces[sessions[s].ifName] # None

DropSession(s) ==
  IF HasInterface(s)
  THEN /\ Closed(sessions[s].ifName, s)
       /\ Forgets(s)
       /\ streams' = streams \ {s}
  ELSE UNCHANGED tables

-----------------------------------------------------------------------------
(***************************************************************************)
(* commandAuthentication.  mapstructure.Decode writes to the one struct    *)
(* that MessageTypePayload has for this type of message; all connections   *)
(* read it again whenever they need the client.                            *)
(***************************************************************************)

\* Those whose handler has decoded its request and goes on to read it.
Reading == {j \in Keys : handler[j].at \in {"decoded", "session"}}

\* k has read it for the last time; what it holds is dropped with its last reader.
HasRead(k) == request' = IF Reading = {k} THEN None ELSE request

Decode(k) ==
  /\ At(k, "idle")
  /\ auths[k] < (IF k \in UDPKeys THEN MaxAuth ELSE 1)
  /\ request' = Owner[k]
  /\ crossed' = crossed \union {j \in Reading : Owner[j] # Owner[k]}
  /\ Cardinality(crossed') <= MaxCrossed
  /\ GoesTo(k, "decoded")
  /\ auths' = [auths EXCEPT ![k] = @ + 1]
  /\ UNCHANGED <<tables, connections, panicked, created, given>>

\* The client sends no session: whatever it had is dropped.
AuthenticateNew(k) ==
  /\ At(k, "decoded")
  /\ IF client2session[request] # None
     THEN DropSession(client2session[request])
     ELSE UNCHANGED tables
  /\ GoesTo(k, "session")
  /\ UNCHANGED <<decoder, connections, panicked, created, auths, given>>

\* The client adds a connection to a session it was told of; checkSession
\* refuses a session that is gone or is another client's.
AuthenticateKnown(k) ==
  /\ At(k, "decoded")
  /\ \E s \in UNION {given[j] : j \in {j \in Keys : Owner[j] = Owner[k]}} :
       handler' = [handler EXCEPT ![k] =
         IF Live(s) /\ sessions[s].client = request
         THEN [Idle(s) EXCEPT !.at = "stream"] ELSE [@ EXCEPT !.at = "idle"]]
  /\ HasRead(k)
  /\ UNCHANGED <<tables, crossed, connections, panicked, created, auths, given>>

NewSessionID == created + 1

\* createSession: the one the client has, or a number never used.
CreateSession(k) ==
  /\ At(k, "session")
  /\ LET c == request
     IN  IF client2session[c] # None
         THEN /\ handler' = [handler EXCEPT ![k].at = "stream", ![k].sid = client2session[c]]
              /\ UNCHANGED <<sessions, client2session, created>>
         ELSE /\ created < MaxSessions
              /\ created' = created + 1
              /\ sessions' = [sessions EXCEPT ![NewSessionID] = [client |-> c, ifName |-> None]]
              /\ client2session' = [client2session EXCEPT ![c] = NewSessionID]
              /\ handler' = [handler EXCEPT ![k].at = "stream", ![k].sid = NewSessionID]
  /\ HasRead(k)
  /\ UNCHANGED <<crossed, interfaces, streams, bereft, connections, panicked, auths, given>>

CreateStream(k) ==
  /\ At(k, "stream")
  /\ streams' = streams \union {handler[k].sid}
  /\ GoesTo(k, "interface")
  /\ UNCHANGED <<decoder, sessions, client2session, interfaces, bereft, connections, panicked,
                 created, auths, given>>

Up == {n \in IfNames : interfaces[n] # None}

\* the kernel gives the lowest name that is free
FreeName == Min(IfNames \ Up)

\* getTunnelIP: after the highest ClientRemote
TunnelIP ==
  IF Up = {} THEN AddrMin ELSE Max({interfaces[n].ip + 3 : n \in Up}) + 1

\* mutant: the name is not looked at
HasNameNever(s) == FALSE

HasName(s) == Live(s) /\ sessions[s].ifName # None

\* createInterface of a session that has a name: whatever has that name now,
\* which may be nothing.
FindInterface(k) ==
  /\ At(k, "interface")
  /\ HasName(handler[k].sid)
  /\ LET n == sessions[handler[k].sid].ifName
     IN  handler' = [handler EXCEPT ![k].at = "connection",
                                    ![k].ic = IF interfaces[n] # None THEN n ELSE None]
  /\ UNCHANGED <<tables, decoder, connections, panicked, created, auths, given>>

\* The session was dropped since it was checked: uc.sessions[sessionID] is nil.
CreateInterface(k) ==
  /\ At(k, "interface")
  /\ LET s == handler[k].sid
     IN  /\ ~HasName(s)
         /\ interfaces' = [interfaces EXCEPT ![FreeName] =
                             [session |-> s, ip |-> TunnelIP, conns |-> {}]]
         /\ IF Live(s)
            THEN /\ sessions' = [sessions EXCEPT ![s].ifName = FreeName]
                 /\ UNCHANGED panicked
            ELSE /\ panicked' = "session"
                 /\ UNCHANGED sessions
         /\ handler' = [handler EXCEPT ![k].at = "connection", ![k].ic = FreeName]
  /\ UNCHANGED <<decoder, client2session, streams, bereft, connections, created, auths, given>>

\* iface.Create fails: the session stays, without an interface.
CreateInterfaceFails(k) ==
  /\ At(k, "interface")
  /\ ~HasName(handler[k].sid)
  /\ Ends(k)
  /\ UNCHANGED <<tables, decoder, connections, panicked, created, auths, given>>

\* ic.handler.Name(), addConnection, and the answer to the client
AddConnection(k) ==
  /\ At(k, "connection")
  /\ IF handler[k].ic = None
     THEN /\ panicked' = "interface"
          /\ UNCHANGED <<connections, handler, given>>
     ELSE LET s == handler[k].sid
              Same(j) == /\ connections[j] # None
                         /\ connections[j].session = s /\ Socket[j] = Socket[k]
          IN  /\ connections' = [j \in Keys |->
                   IF j = k THEN [session |-> s, ifName |-> handler[k].ic]
                   ELSE IF Same(j) THEN None ELSE connections[j]]
              /\ given' = [given EXCEPT ![k] = @ \union {s}]
              /\ Ends(k)
              /\ UNCHANGED panicked
  /\ UNCHANGED <<tables, decoder, created, auths>>

-----------------------------------------------------------------------------
(* commandHandshake: getConnection, setConnectionEncryptor,                *)
(* addInterfaceConnection                                                  *)

Handshake(k) ==
  /\ At(k, "idle")
  /\ connections[k] # None
  /\ \E s \in IF k \in UDPKeys THEN given[k] ELSE {handler[k].sid} :
       handler' = [handler EXCEPT ![k].at = "encryptor", ![k].sid = s, ![k].sc = connections[k]]
  /\ UNCHANGED <<tables, decoder, connections, panicked, created, auths, given>>

SetConnectionEncryptor(k) ==
  /\ At(k, "encryptor")
  /\ IF connections[k] = None
     THEN panicked' = "connection" /\ UNCHANGED handler
     ELSE GoesTo(k, "attach") /\ UNCHANGED panicked
  /\ UNCHANGED <<tables, decoder, connections, created, auths, given>>

\* A connection of the same session on the same socket is replaced.
Attached(conns, sc, k) ==
  {c \in conns : ~(c.sid = sc.session /\ Socket[c.key] = Socket[k])}
    \union {[key |-> k, sid |-> handler[k].sid]}

AddInterfaceConnection(k) ==
  /\ At(k, "attach")
  /\ LET sc == handler[k].sc
     IN  interfaces' = IF interfaces[sc.ifName] = None THEN interfaces
                       ELSE [interfaces EXCEPT ![sc.ifName].conns = Attached(@, sc, k)]
  /\ Ends(k)
  /\ UNCHANGED <<decoder, sessions, client2session, streams, bereft, connections, panicked,
                 created, auths, given>>

-----------------------------------------------------------------------------
(* commandReset: getConnection, dropSessionByID *)

Reset(k) ==
  /\ At(k, "idle")
  /\ connections[k] # None
  /\ handler' = [handler EXCEPT ![k].at = "reset", ![k].sc = connections[k]]
  /\ UNCHANGED <<tables, decoder, connections, panicked, created, auths, given>>

DropSessionByID(k) ==
  /\ At(k, "reset")
  /\ IF Live(handler[k].sc.session) THEN DropSession(handler[k].sc.session) ELSE UNCHANGED tables
  /\ Ends(k)
  /\ UNCHANGED <<decoder, connections, panicked, created, auths, given>>

-----------------------------------------------------------------------------
(***************************************************************************)
(* disconnect, for a connection whose SessionID is sid: its entry goes,    *)
(* and with its interface's last connection the session sid and the        *)
(* interface.                                                              *)
(***************************************************************************)

WithoutKey(conns, k) == {c \in conns : c.key # k}

\* mutant: not only with the last connection
IsLastAlways(n, k) == TRUE

IsLast(n, k) == WithoutKey(interfaces[n].conns, k) = {}

RemoveConnection(k, sid) ==
  /\ connections' = [connections EXCEPT ![k] = None]
  /\ IF connections[k] = None THEN UNCHANGED tables
     ELSE LET n == connections[k].ifName
          IN  IF interfaces[n] = None THEN UNCHANGED tables
              ELSE IF IsLast(n, k)
              THEN /\ Closed(n, sid)
                   /\ IF Live(sid) THEN Forgets(sid)
                      ELSE UNCHANGED <<sessions, client2session>>
                   /\ streams' = streams \ {sid}
              ELSE /\ interfaces' = [interfaces EXCEPT ![n].conns = WithoutKey(@, k)]
                   /\ UNCHANGED <<sessions, client2session, streams, bereft>>

\* A TCP connection is closed: its goroutine removes it and ends.
TCPDisconnect(k) ==
  /\ k \notin UDPKeys
  /\ At(k, "idle")
  /\ RemoveConnection(k, handler[k].sid)
  /\ GoesTo(k, "closed")
  /\ UNCHANGED <<decoder, panicked, created, auths, given>>

\* The keepalive goroutine of a session on a UDP socket gives up.
KeepaliveDisconnect(k) ==
  /\ k \in UDPKeys
  /\ Running
  /\ \E s \in given[k] : RemoveConnection(k, s)
  /\ UNCHANGED <<decoder, handler, panicked, created, auths, given>>

\* A datagram has a header that does not decode: no session identifier was read.
HeaderDisconnect(k) ==
  /\ k \in UDPKeys
  /\ At(k, "idle")
  /\ RemoveConnection(k, 0)
  /\ UNCHANGED <<decoder, handler, panicked, created, auths, given>>

-----------------------------------------------------------------------------

Next ==
  \E k \in Keys :
    \/ Decode(k) \/ AuthenticateNew(k) \/ AuthenticateKnown(k)
    \/ CreateSession(k) \/ CreateStream(k)
    \/ FindInterface(k) \/ CreateInterface(k) \/ CreateInterfaceFails(k) \/ AddConnection(k)
    \/ Handshake(k) \/ SetConnectionEncryptor(k) \/ AddInterfaceConnection(k)
    \/ Reset(k) \/ DropSessionByID(k)
    \/ TCPDisconnect(k) \/ KeepaliveDisconnect(k) \/ HeaderDisconnect(k)

Spec == Init /\ [][Next]_vars

-----------------------------------------------------------------------------
(* Properties *)

\* A client has one session, and finds it: however many of its connections
\* authenticate, reset or close at the same time, sessions and client2session
\* say the same.  A connection carries another client's session only when the
\* two clients authenticated at the same time, through the one struct that
\* their requests are decoded into.
SessionsMatch ==
  /\ \A c \in Clients : client2session[c] # None =>
       Live(client2session[c]) /\ sessions[client2session[c]].client = c
  /\ \A s \in SessionIDs : Live(s) => client2session[sessions[s].client] = s
  /\ \A k \in Keys \ crossed : connections[k] # None =>
       LET s == connections[k].session
       IN  Live(s) => sessions[s].client = Owner[k]

\* A session whose interface was not closed for another session has it, and the
\* merger knows the session.  An interface is that of one live session, however
\* many of its connections authenticate at the same time: no interface is left
\* behind by a session that is gone, as long as no two clients authenticated at
\* the same time (SessionsMatch).  No two interfaces share an address.
InterfacesMatch ==
  /\ \A s \in SessionIDs :
       Live(s) /\ s \notin bereft /\ sessions[s].ifName # None =>
         /\ interfaces[sessions[s].ifName] # None
         /\ interfaces[sessions[s].ifName].session = s
         /\ s \in streams
  /\ Running /\ crossed = {} => \A n \in Up :
       LET s == interfaces[n].session
       IN  Live(s) /\ sessions[s].ifName = n
  /\ \A n, m \in Up : n # m =>
       (interfaces[n].ip .. interfaces[n].ip + 3)
         \intersect (interfaces[m].ip .. interfaces[m].ip + 3) = {}

\* Losing one connection does not end a session that has others: what ends is
\* conn.SessionID, while the test for the last one looks at the interface the
\* connection was registered with.  (SessionsMatch says of which connections the
\* two are another client's.)
OthersCarryOn ==
  [][\A k \in Keys \ crossed, n \in Up, s \in SessionIDs :
       /\ connections[k] # None /\ connections'[k] = None
       /\ interfaces[n].session = s /\ WithoutKey(interfaces[n].conns, k) # {}
       /\ Live(s)
       => Live(s)']_vars

\* ic.handler.Name() meets a nil ic only in a session whose interface was closed
\* for another one: by a datagram without a session, or by a connection of an
\* earlier session whose interface had the same name.
PanicExplained ==
  panicked = "interface" =>
    \E k \in Keys : handler[k].ic = None /\ handler[k].sid \in bereft

===============================================================================
