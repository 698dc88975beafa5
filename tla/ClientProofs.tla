------------------------------ MODULE ClientProofs ------------------------------
(***************************************************************************)
(* Proofs about the client's connections, for every number of ports,       *)
(* attempts, resets and timeouts: what the slice and the map of            *)
(* connections have to do with each other, what a connected client has,    *)
(* and what Exit leaves behind.                                            *)
(***************************************************************************)
EXTENDS Client, FiniteSetTheorems, TLAPS

Conn == [port : Ports, idx : Nat \ {0}, sid : Nat, open : BOOLEAN, started : BOOLEAN,
         late : BOOLEAN]

TableType ==
  /\ connections \in Seq(Conns) /\ connectionsMap \in [Ports -> {None} \union Conns]
  /\ misplaced \in BOOLEAN
  /\ conn \in Seq(Conn) /\ Len(conn) <= MaxConns

WorkType ==
  /\ connMux \in {None, Manager} \union Conns
  /\ creation \in [at : {"no", "dial", "auth", "handshake"}, port : Ports, tries : Nat, sid : Nat]
  /\ manager \in [at : {"start", "failed", "up", "sendReset", "closeAll", "closeIf", "clear",
                        "exited", "gone"}, port : Ports]
  /\ keepalive \in [Conns -> [at : {"off", "run", "remove", "last", "stop", "closeIf", "sendReset",
                                    "clear", "close", "reconnect", "create"}, again : BOOLEAN]]
  /\ receiver \in [Conns -> {"off", "run", "closeAll", "closeIf"}]
  /\ isExit \in BOOLEAN

SessionType ==
  /\ sessionID \in Nat /\ sessionsGiven \in Nat
  /\ isConnected \in BOOLEAN /\ interfaceConn \in BOOLEAN /\ overlapped \in BOOLEAN

-----------------------------------------------------------------------------
(* The slice and the map *)

\* What the map has for a port is a connection to that port.
MapHolds == \A p \in InMap : connectionsMap[p] \in DOMAIN conn /\ conn[connectionsMap[p]].port = p

Enough == Cardinality(InMap) <= Len(connections)

\* Until a removal goes wrong the slice has what the map has, each once.
SliceHolds ==
  ~misplaced =>
    /\ ToSet(connections) = {connectionsMap[p] : p \in InMap}
    /\ \A i, j \in DOMAIN connections : connections[i] = connections[j] => i = j
    /\ Len(connections) = Cardinality(InMap)

TableInv == TableType /\ MapHolds /\ Enough /\ SliceHolds

-----------------------------------------------------------------------------
(* Who holds connMux, and who goes on with a port *)

\* createConnection is under way exactly as long as connMux is held, for the port of
\* whoever holds it, who waits for it.
LockHolds ==
  /\ Free <=> creation.at = "no"
  /\ connMux = Manager => manager.at = "start" /\ creation.port = manager.port
  /\ connMux \in Conns => /\ keepalive[connMux].at = "create" /\ ~keepalive[connMux].again
                          /\ creation.port = conn[connMux].port

Creating == creation.at \in {"auth", "handshake"}

\* The connection that is being made is the last one dialled, and it is in the map.
CreatingHolds ==
  /\ creation.at = "dial" => connectionsMap[creation.port] = None
  /\ Creating => /\ conn # <<>>
                 /\ connectionsMap[creation.port] = Len(conn)
                 /\ ~conn[Len(conn)].started /\ conn[Len(conn)].open

\* A connection that was not started has no goroutines.
StartedFirst ==
  \A c \in Conns :
    ~(c \in DOMAIN conn /\ conn[c].started) => keepalive[c] = Off /\ receiver[c] = "off"

\* The keepalive goroutines that have not connected again.
Working == {c \in Conns : keepalive[c].at # "off" /\ ~keepalive[c].again}

\* Who has connected again does no more than Stop.
OnceAgain ==
  \A c \in Conns : keepalive[c].again =>
    keepalive[c].at \in {"off", "stop", "closeIf", "sendReset", "clear"}

\* Each is the only one that goes on with its port.  What the map has for the port is
\* its connection, until it removes that.
OnePerPort ==
  /\ \A c, d \in Working : conn[c].port = conn[d].port => c = d
  /\ \A c \in Working :
       /\ keepalive[c].at \in {"run", "remove"} => connectionsMap[conn[c].port] \in {None, c}
       /\ keepalive[c].at \notin {"run", "remove"} /\ connMux # c =>
            connectionsMap[conn[c].port] = None

\* Start goes through the ports in order.
StartAhead ==
  manager.at = "start" =>
    /\ \A c \in DOMAIN conn : conn[c].port <= manager.port
    /\ \A c \in Working : conn[c].port < manager.port
    /\ connMux # Manager => connectionsMap[manager.port] = None

\* What the slice holds was started, was refused, or is being made.
SliceStarted ==
  ~misplaced => \A c \in ToSet(connections) :
    conn[c].started \/ c \in refused \/ (Creating /\ c = Len(conn))

-----------------------------------------------------------------------------
(* What is open *)

\* Who connects again has closed its connection.
ClosedFirst ==
  \A c \in DOMAIN conn :
    keepalive[c].at \in {"reconnect", "create"} \/ keepalive[c].again => ~conn[c].open

\* An open connection is in the slice or about to be closed.
OpenHeld ==
  ~misplaced => \A c \in DOMAIN conn : conn[c].open /\ conn[c].started =>
    /\ c \in ToSet(connections) \/ BeingClosed(c)
    /\ receiver[c] = "off" => BeingClosed(c)

AfterCloseAll == manager.at \in {"closeIf", "clear", "exited"}

\* Once Exit closed all, what is open is late or about to be closed.
ExitHolds ==
  /\ manager.at \in {"sendReset", "closeAll"} \/ AfterCloseAll => isExit
  /\ AfterCloseAll =>
       /\ ~misplaced => \A c \in DOMAIN conn :
            conn[c].open /\ conn[c].started => conn[c].late \/ BeingClosed(c)
       /\ Creating => conn[Len(conn)].late

WorkInv ==
  /\ WorkType /\ LockHolds /\ CreatingHolds /\ StartedFirst /\ OnceAgain /\ OnePerPort
  /\ StartAhead /\ SliceStarted /\ ClosedFirst /\ OpenHeld /\ ExitHolds

-----------------------------------------------------------------------------
(* The session *)

\* Who has closed the tunnel interface and not yet forgotten the session.
Ending ==
  \/ manager.at = "clear"
  \/ \E c \in Conns : keepalive[c].at \in {"sendReset", "clear"}

SessionHolds ==
  ~overlapped =>
    /\ isConnected => sessionID # 0 /\ (interfaceConn \/ Ending)
    /\ creation.at = "handshake" => sessionID # 0 /\ interfaceConn
    /\ \A c \in Conns : receiver[c] \in {"closeAll", "closeIf"} => ~isConnected

SessionInv == SessionType /\ SessionHolds

ClientInv == TableInv /\ WorkInv /\ SessionInv

-----------------------------------------------------------------------------
(* The slice and the map: Delete, Added, Removed and CloseAll *)

LEMMA Sizes ==
  /\ MaxPort \in Nat \ {0} /\ MaxConns \in Nat
  /\ None \notin Int /\ Manager \notin Conns /\ None # Manager
  /\ IsFiniteSet(InMap) /\ Cardinality(InMap) \in Nat
<1>1. MaxPort \in Nat \ {0} /\ MaxConns \in Nat /\ None \notin Int
  BY ClientAssumption DEF ClientAssumption
<1>2. IsFiniteSet(1 .. MaxPort)
  BY <1>1, FS_Interval
<1>3. IsFiniteSet(InMap) /\ Cardinality(InMap) \in Nat
  BY <1>2, FS_Subset, FS_CardinalityType DEF InMap, Ports
<1> QED  BY <1>1, <1>3 DEF Manager, Conns

\* structs.Delete: the element with this index goes, and every other one is there.
LEMMA DeleteFields ==
  ASSUME NEW S, NEW s \in Seq(S), NEW i \in 1 .. Len(s)
  PROVE  /\ Delete(s, i) \in Seq(S) /\ Len(Delete(s, i)) = Len(s) - 1
         /\ \A j \in 1 .. Len(s) - 1 : Delete(s, i)[j] = IF j = i THEN s[Len(s)] ELSE s[j]
<1>1. Len(s) \in Nat /\ s[Len(s)] \in S /\ ~(i > Len(s))
  OBVIOUS
<1>2. PICK t : t = [s EXCEPT ![i] = s[Len(s)]]
  OBVIOUS
<1>3. t \in Seq(S) /\ Len(t) = Len(s)
      /\ \A j \in 1 .. Len(s) : t[j] = IF j = i THEN s[Len(s)] ELSE s[j]
  BY <1>1, <1>2
<1>4. Delete(s, i) = SubSeq(t, 1, Len(s) - 1)
  BY <1>1, <1>2 DEF Delete, Last
<1>5. /\ SubSeq(t, 1, Len(s) - 1) \in Seq(S) /\ Len(SubSeq(t, 1, Len(s) - 1)) = Len(s) - 1
      /\ \A j \in 1 .. Len(s) - 1 : SubSeq(t, 1, Len(s) - 1)[j] = t[j]
  BY <1>1, <1>3
<1> QED  BY <1>3, <1>4, <1>5

\* The sequence without the element, when no element is there twice.
LEMMA DeleteTakesOut ==
  ASSUME NEW S, NEW s \in Seq(S), NEW i \in 1 .. Len(s),
         \A j, k \in DOMAIN s : s[j] = s[k] => j = k
  PROVE  /\ ToSet(Delete(s, i)) = ToSet(s) \ {s[i]}
         /\ \A j, k \in DOMAIN Delete(s, i) : Delete(s, i)[j] = Delete(s, i)[k] => j = k
<1>1. PICK n \in Nat : n = Len(s) /\ DOMAIN s = 1 .. n
  OBVIOUS
<1>2. PICK t : t = Delete(s, i)
  OBVIOUS
<1>3. /\ DOMAIN t = 1 .. n - 1
      /\ \A j \in 1 .. n - 1 : t[j] = IF j = i THEN s[n] ELSE s[j]
  <2>1. t \in Seq(S) /\ Len(t) = Len(s) - 1
        /\ \A j \in 1 .. Len(s) - 1 : t[j] = IF j = i THEN s[Len(s)] ELSE s[j]
    <3> HIDE DEF Delete
    <3> QED  BY <1>2, DeleteFields
  <2> QED  BY <1>1, <2>1
<1>4. \A x \in ToSet(t) : x \in ToSet(s) \ {s[i]}
  BY <1>1, <1>3 DEF ToSet
<1>5. \A x \in ToSet(s) \ {s[i]} : x \in ToSet(t)
  <2> SUFFICES ASSUME NEW m \in 1 .. n, s[m] # s[i] PROVE \E j \in 1 .. n - 1 : t[j] = s[m]
    BY <1>1, <1>3 DEF ToSet
  <2>1. CASE m = n
    <3>1. i \in 1 .. n - 1 /\ t[i] = s[m]
      BY <1>1, <1>3, <2>1
    <3> QED  BY <3>1
  <2>2. CASE m # n
    <3>1. m \in 1 .. n - 1 /\ t[m] = s[m]
      BY <1>1, <1>3, <2>2
    <3> QED  BY <3>1
  <2> QED  BY <2>1, <2>2
<1>6. \A j, k \in DOMAIN t : t[j] = t[k] => j = k
  BY <1>1, <1>3
<1> QED  BY <1>2, <1>4, <1>5, <1>6

LEMMA InMapHolds ==
  ASSUME TableInv, NEW p \in InMap
  PROVE  /\ p \in Ports /\ connectionsMap[p] # None
         /\ connectionsMap[p] \in DOMAIN conn /\ connectionsMap[p] \in Conns
         /\ conn[connectionsMap[p]] \in Conn /\ conn[connectionsMap[p]].port = p
         /\ conn[connectionsMap[p]].idx \in Nat \ {0}
<1>1. p \in Ports /\ connectionsMap[p] # None
  BY DEF InMap
<1>2. connectionsMap[p] \in Conns
  BY <1>1 DEF TableInv, TableType
<1>3. connectionsMap[p] \in DOMAIN conn /\ conn[connectionsMap[p]].port = p
  BY DEF TableInv, MapHolds
<1>4. conn[connectionsMap[p]] \in Conn
  BY <1>3 DEF TableInv, TableType
<1> QED  BY <1>1, <1>2, <1>3, <1>4 DEF Conn

LEMMA RemovedKeeps ==
  ASSUME TableInv, NEW p \in InMap, Removed(p), UNCHANGED conn
  PROVE  /\ TableInv'
         /\ connectionsMap' = [connectionsMap EXCEPT ![p] = None]
         /\ ~misplaced' => ~misplaced /\ ToSet(connections') = ToSet(connections) \ {connectionsMap[p]}
<1>1. PICK c : c = connectionsMap[p] /\ c # None /\ c \in Conns
  BY InMapHolds
<1>2. PICK i \in Nat \ {0} : i = conn[c].idx
  BY <1>1, InMapHolds
<1>3. PICK s \in Seq(Conns) : s = connections
  BY DEF TableInv, TableType
<1>4. PICK n \in Nat : n = Len(s) /\ DOMAIN s = 1 .. n
  OBVIOUS
<1>5. /\ connectionsMap' = [connectionsMap EXCEPT ![p] = None]
      /\ connections' = Delete(s, i)
      /\ misplaced' \in BOOLEAN
      /\ ~misplaced' => ~misplaced /\ ~(i > Len(s)) /\ s[i] = c
  <2>1. misplaced' = (misplaced \/ i > Len(s) \/ s[i] # c)
    BY <1>1, <1>2, <1>3 DEF Removed
  <2>2. ~misplaced' => ~misplaced /\ ~(i > Len(s)) /\ s[i] = c
    BY <2>1
  <2>3. misplaced' \in BOOLEAN
    BY <2>1
  <2> QED  BY <1>1, <1>2, <1>3, <2>2, <2>3 DEF Removed
<1>6. i > n => Delete(s, i) = s
  BY <1>4 DEF Delete
<1>7. i <= n => i \in 1 .. Len(s) /\ Delete(s, i) \in Seq(Conns) /\ Len(Delete(s, i)) = n - 1
  BY <1>4, DeleteFields
<1>8. p \in Ports /\ InMap' = InMap \ {p}
  BY <1>5 DEF InMap, TableInv, TableType
<1>9. Cardinality(InMap') = Cardinality(InMap) - 1 /\ Cardinality(InMap) \in Nat
  BY <1>8, Sizes, FS_RemoveElement
<1>10. TableType'
  <2>1. connections' \in Seq(Conns)
    BY <1>5, <1>6, <1>7
  <2>2. misplaced' \in BOOLEAN
    BY <1>5
  <2>3. connectionsMap' \in [Ports -> {None} \union Conns]
    BY <1>5 DEF TableInv, TableType
  <2> QED  BY <2>1, <2>2, <2>3 DEF TableInv, TableType
<1>11. \A q \in InMap' : q \in InMap /\ connectionsMap'[q] = connectionsMap[q]
  BY <1>5, <1>8 DEF InMap, TableInv, TableType
<1>12. MapHolds'
  BY <1>11 DEF TableInv, MapHolds
<1>13. Enough'
  BY <1>3, <1>4, <1>5, <1>6, <1>7, <1>9 DEF TableInv, Enough
<1>14. ASSUME ~misplaced'
       PROVE  /\ ~misplaced /\ ToSet(connections') = ToSet(connections) \ {c}
              /\ ToSet(connections') = {connectionsMap'[q] : q \in InMap'}
              /\ \A j, k \in DOMAIN connections' : connections'[j] = connections'[k] => j = k
              /\ Len(connections') = Cardinality(InMap')
  <2>1. ~misplaced /\ i <= n /\ s[i] = c
    BY <1>4, <1>5, <1>14
  <2>2. /\ ToSet(s) = {connectionsMap[q] : q \in InMap}
        /\ \A j, k \in DOMAIN s : s[j] = s[k] => j = k
        /\ n = Cardinality(InMap)
    BY <1>3, <1>4, <2>1 DEF TableInv, SliceHolds
  <2>3. /\ ToSet(connections') = ToSet(s) \ {c}
        /\ \A j, k \in DOMAIN connections' : connections'[j] = connections'[k] => j = k
    BY <1>5, <1>7, <2>1, <2>2, DeleteTakesOut
  <2>4. Len(connections') = Cardinality(InMap')
    BY <1>5, <1>7, <1>9, <2>1, <2>2
  <2>5. \A q \in InMap : connectionsMap[q] = c => q = p
    BY <1>1 DEF TableInv, MapHolds
  <2>6. ToSet(connections') = {connectionsMap'[q] : q \in InMap'}
    BY <1>1, <1>8, <1>11, <2>2, <2>3, <2>5
  <2> QED  BY <1>3, <2>1, <2>3, <2>4, <2>6
<1> QED  BY <1>1, <1>5, <1>10, <1>12, <1>13, <1>14 DEF TableInv, SliceHolds

\* A connection that is dialled is put into the slice and the map.
LEMMA AddedKeeps ==
  ASSUME TableInv, NEW p \in Ports, connectionsMap[p] = None, NEW c \in Conns,
         Added(c, p), NEW new \in Conn, new.port = p,
         conn' = Append(conn, new), c = Len(conn) + 1, Len(conn) < MaxConns
  PROVE  /\ TableInv'
         /\ connectionsMap' = [connectionsMap EXCEPT ![p] = c] /\ misplaced' = misplaced
         /\ ToSet(connections') = ToSet(connections) \union {c}
<1>1. PICK s \in Seq(Conns) : s = connections
  BY DEF TableInv, TableType
<1>2. PICK n \in Nat : n = Len(s) /\ DOMAIN s = 1 .. n
  OBVIOUS
<1>3. /\ connectionsMap' = [connectionsMap EXCEPT ![p] = c]
      /\ connections' = Append(s, c) /\ misplaced' = misplaced
  BY <1>1 DEF Added
<1>4. c # None
  BY Sizes DEF Conns
<1>5. p \notin InMap /\ InMap' = InMap \union {p}
  BY <1>3, <1>4 DEF InMap, TableInv, TableType
<1>6. Cardinality(InMap') = Cardinality(InMap) + 1 /\ Cardinality(InMap) \in Nat
  BY <1>5, Sizes, FS_AddElement
<1>7. /\ conn \in Seq(Conn) /\ conn' \in Seq(Conn) /\ Len(conn) \in Nat
      /\ Len(conn') = Len(conn) + 1 /\ conn'[c] = new
      /\ DOMAIN conn = 1 .. Len(conn) /\ DOMAIN conn' = 1 .. Len(conn')
      /\ \A d \in DOMAIN conn : conn'[d] = conn[d]
  BY DEF TableInv, TableType
<1>8. /\ connections' \in Seq(Conns) /\ Len(connections') = n + 1
      /\ DOMAIN connections' = 1 .. n + 1 /\ connections'[n + 1] = c
      /\ \A i \in 1 .. n : connections'[i] = s[i]
  BY <1>2, <1>3
<1>9. TableType'
  BY <1>3, <1>7, <1>8, Sizes DEF TableInv, TableType
<1>10. MapHolds'
  <2> SUFFICES ASSUME NEW q \in InMap'
               PROVE  connectionsMap'[q] \in DOMAIN conn' /\ conn'[connectionsMap'[q]].port = q
    BY DEF MapHolds
  <2>1. CASE q = p
    <3>1. connectionsMap'[q] = c
      BY <1>3, <2>1 DEF TableInv, TableType
    <3> QED  BY <1>7, <2>1, <3>1
  <2>2. CASE q # p
    <3>1. q \in InMap /\ connectionsMap'[q] = connectionsMap[q]
      BY <1>3, <1>5, <2>2 DEF InMap, TableInv, TableType
    <3>2. connectionsMap[q] \in DOMAIN conn /\ conn[connectionsMap[q]].port = q
      BY <3>1 DEF TableInv, MapHolds
    <3> QED  BY <1>7, <3>1, <3>2
  <2> QED  BY <2>1, <2>2
<1>11. Enough'
  BY <1>1, <1>2, <1>6, <1>8 DEF TableInv, Enough
<1>12. ToSet(connections') = ToSet(s) \union {c}
  <2>1. \A x \in ToSet(connections') : x \in ToSet(s) \union {c}
    <3> SUFFICES ASSUME NEW i \in 1 .. n + 1 PROVE connections'[i] \in ToSet(s) \union {c}
      BY <1>8 DEF ToSet
    <3>1. CASE i = n + 1
      BY <1>8, <3>1
    <3>2. CASE i \in 1 .. n
      BY <1>2, <1>8, <3>2 DEF ToSet
    <3> QED  BY <3>1, <3>2
  <2>2. c \in ToSet(connections')
    BY <1>8 DEF ToSet
  <2>3. \A x \in ToSet(s) : x \in ToSet(connections')
    <3> SUFFICES ASSUME NEW i \in 1 .. n PROVE s[i] \in ToSet(connections')
      BY <1>2 DEF ToSet
    <3>1. i \in 1 .. n + 1 /\ connections'[i] = s[i]
      BY <1>8
    <3> QED  BY <1>8, <3>1 DEF ToSet
  <2> QED  BY <2>1, <2>2, <2>3
<1>13. SliceHolds'
  <2> SUFFICES ASSUME ~misplaced
               PROVE  /\ ToSet(connections') = {connectionsMap'[q] : q \in InMap'}
                      /\ \A i, j \in DOMAIN connections' :
                           connections'[i] = connections'[j] => i = j
                      /\ Len(connections') = Cardinality(InMap')
    BY <1>3 DEF SliceHolds
  <2>1. /\ ToSet(s) = {connectionsMap[q] : q \in InMap}
        /\ \A i, j \in DOMAIN s : s[i] = s[j] => i = j
        /\ n = Cardinality(InMap)
    BY <1>1, <1>2 DEF TableInv, SliceHolds
  <2>2. connectionsMap'[p] = c /\ \A q \in InMap : connectionsMap'[q] = connectionsMap[q]
    BY <1>3, <1>5 DEF InMap, TableInv, TableType
  <2>3. ToSet(connections') = {connectionsMap'[q] : q \in InMap'}
    BY <1>5, <1>12, <2>1, <2>2
  <2>4. c \notin ToSet(s)
    BY <1>7, <2>1 DEF TableInv, MapHolds
  <2>5. \A i, j \in DOMAIN connections' : connections'[i] = connections'[j] => i = j
    <3>1. \A i \in 1 .. n : s[i] # c
      BY <1>2, <2>4 DEF ToSet
    <3> QED  BY <1>2, <1>8, <2>1, <3>1
  <2> QED  BY <1>6, <1>8, <2>1, <2>3, <2>5
<1> QED  BY <1>1, <1>3, <1>9, <1>10, <1>11, <1>12, <1>13 DEF TableInv

LEMMA CloseAllKeeps ==
  ASSUME TableInv, CloseAll, UNCHANGED misplaced
  PROVE  /\ TableInv' /\ InMap' = {} /\ ToSet(connections') = {}
         /\ connectionsMap' = [p \in Ports |-> None]
         /\ DOMAIN conn' = DOMAIN conn /\ Len(conn') = Len(conn)
         /\ \A c \in DOMAIN conn :
              /\ conn'[c].port = conn[c].port /\ conn'[c].started = conn[c].started
              /\ conn'[c].late = conn[c].late
              /\ conn'[c].open => conn[c].open /\ c \notin ToSet(connections)
<1>1. /\ connections' = <<>> /\ connectionsMap' = [p \in Ports |-> None]
      /\ conn' = [c \in DOMAIN conn |->
                    [conn[c] EXCEPT !.open = @ /\ c \notin ToSet(connections)]]
  BY DEF CloseAll
<1>2. conn \in Seq(Conn) /\ Len(conn) \in Nat /\ DOMAIN conn = 1 .. Len(conn)
  BY DEF TableInv, TableType
<1>3. ASSUME NEW c \in DOMAIN conn
      PROVE  /\ conn'[c] \in Conn
             /\ conn'[c].port = conn[c].port /\ conn'[c].started = conn[c].started
             /\ conn'[c].late = conn[c].late
             /\ conn'[c].open => conn[c].open /\ c \notin ToSet(connections)
  <2>1. PICK o : o = (conn[c].open /\ c \notin ToSet(connections))
    OBVIOUS
  <2>2. conn'[c] = [conn[c] EXCEPT !.open = o]
    BY <1>1, <2>1
  <2>3. conn[c] \in Conn /\ o \in BOOLEAN
    BY <1>2, <2>1
  <2>4. /\ conn'[c] \in Conn
        /\ conn'[c].port = conn[c].port /\ conn'[c].started = conn[c].started
        /\ conn'[c].late = conn[c].late /\ conn'[c].open = o
    BY <2>2, <2>3 DEF Conn
  <2> QED  BY <2>1, <2>4
<1>4. /\ conn' \in Seq(Conn) /\ DOMAIN conn' = DOMAIN conn /\ Len(conn') = Len(conn)
  <2>1. PICK n \in Nat : n = Len(conn) /\ DOMAIN conn = 1 .. n
    BY <1>2
  <2>2. conn' = [c \in 1 .. n |-> conn'[c]] /\ \A c \in 1 .. n : conn'[c] \in Conn
    BY <1>1, <1>3, <2>1
  <2>3. conn' \in Seq(Conn) /\ Len(conn') = n /\ DOMAIN conn' = 1 .. n
    BY <2>2
  <2> QED  BY <2>1, <2>3
<1>5. InMap' = {}
  BY <1>1 DEF InMap
<1>6. Cardinality(InMap') = 0 /\ Len(connections') = 0 /\ DOMAIN connections' = {}
  BY <1>1, <1>5, FS_EmptySet
<1>7. ToSet(connections') = {}
  BY <1>6 DEF ToSet
<1>8. TableInv'
  <2>1. TableType'
    BY <1>1, <1>4 DEF TableInv, TableType
  <2>2. MapHolds' /\ Enough'
    BY <1>5, <1>6 DEF MapHolds, Enough
  <2>3. SliceHolds'
    BY <1>5, <1>6, <1>7 DEF SliceHolds
  <2> QED  BY <2>1, <2>2, <2>3 DEF TableInv
<1> QED  BY <1>1, <1>3, <1>4, <1>5, <1>7, <1>8

LEMMA TableSame ==
  ASSUME TableInv, UNCHANGED <<table, conn>>
  PROVE  TableInv' /\ InMap' = InMap
BY DEF TableInv, TableType, MapHolds, Enough, SliceHolds, InMap, table

\* The fields of conn may change without the table noticing.
LEMMA TableConn ==
  ASSUME TableInv, UNCHANGED table, conn' \in Seq(Conn), Len(conn') = Len(conn),
         DOMAIN conn' = DOMAIN conn, \A c \in DOMAIN conn : conn'[c].port = conn[c].port
  PROVE  TableInv' /\ InMap' = InMap
BY DEF TableInv, TableType, MapHolds, Enough, SliceHolds, InMap, table

-----------------------------------------------------------------------------
(* The goroutines move on *)

LEMMA KeepaliveFields ==
  ASSUME WorkType, NEW c \in Conns, NEW place, KeepaliveGoes(c, place)
  PROVE  /\ keepalive'[c].at = place /\ keepalive'[c].again = keepalive[c].again
         /\ \A d \in Conns \ {c} : keepalive'[d] = keepalive[d]
BY DEF KeepaliveGoes, WorkType

\* A keepalive goroutine is past its removal, or before it, and stays so.
LEMMA KeepaliveMoves ==
  ASSUME TableInv, WorkInv, NEW c \in Conns, keepalive[c].at \notin {"off", "create"},
         NEW place \in {"off", "remove", "stop", "closeIf", "sendReset", "clear", "close",
                        "reconnect", "create"},
         KeepaliveGoes(c, place),
         UNCHANGED <<table, lock, isExit, conn, manager, receiver, refused>>,
         place = "remove" => keepalive[c].at = "run",
         place \notin {"off", "remove"} => keepalive[c].at \notin {"run", "remove"},
         keepalive[c].again => place \in {"off", "stop", "closeIf", "sendReset", "clear"},
         place = "off" /\ ~misplaced => ~conn[c].open,
         place \in {"reconnect", "create"} => ~conn[c].open
  PROVE  WorkInv'
<1>1. /\ keepalive'[c].at = place /\ keepalive'[c].again = keepalive[c].again
      /\ \A d \in Conns \ {c} : keepalive'[d] = keepalive[d]
  BY KeepaliveFields DEF WorkInv
<1>2. c \in DOMAIN conn /\ conn[c].started
  BY DEF WorkInv, StartedFirst, Off
<1>3. connMux # c
  BY DEF WorkInv, LockHolds
<1>4. WorkType'
  BY DEF WorkInv, WorkType, KeepaliveGoes, lock
<1>5. LockHolds'
  BY <1>1, <1>3 DEF WorkInv, LockHolds, Free, lock
<1>6. CreatingHolds' /\ SliceStarted'
  BY DEF WorkInv, CreatingHolds, SliceStarted, Creating, lock, table
<1>7. StartedFirst' /\ OnceAgain'
  BY <1>1, <1>2 DEF WorkInv, StartedFirst, OnceAgain
<1>8. \A d \in Working' : d \in Working
  BY <1>1 DEF Working
<1>9. OnePerPort' /\ StartAhead'
  <2>1. c \in Working => c \in Working' \/ place = "off"
    BY <1>1 DEF Working
  <2>2. OnePerPort'
    <3>1. \A d, e \in Working' : conn'[d].port = conn'[e].port => d = e
      BY <1>8 DEF WorkInv, OnePerPort
    <3>2. ASSUME NEW d \in Working'
          PROVE  /\ keepalive'[d].at \in {"run", "remove"} =>
                      connectionsMap[conn[d].port] \in {None, d}
                 /\ keepalive'[d].at \notin {"run", "remove"} /\ connMux # d =>
                      connectionsMap[conn[d].port] = None
      <4>1. d \in Working /\ d \in Conns
        BY <1>8 DEF Working
      <4>2. CASE d # c
        BY <1>1, <4>1, <4>2 DEF WorkInv, OnePerPort
      <4>3. CASE d = c
        <5>1. place # "off"
          BY <1>1, <3>2, <4>3 DEF Working
        <5> QED  BY <1>1, <1>3, <4>1, <4>3, <5>1 DEF WorkInv, OnePerPort
      <4> QED  BY <4>2, <4>3
    <3> QED  BY <3>1, <3>2 DEF OnePerPort, lock, table
  <2>3. StartAhead'
    BY <1>8 DEF WorkInv, StartAhead, lock, table
  <2> QED  BY <2>2, <2>3
<1>10. \A d \in DOMAIN conn : d \in Conns
  BY Sizes DEF TableInv, TableType, Conns
<1>11. ClosedFirst'
  BY <1>1, <1>10 DEF WorkInv, ClosedFirst
<1>12. ~misplaced => \A d \in DOMAIN conn : conn[d].open /\ BeingClosed(d) => BeingClosed(d)'
  BY <1>1, <1>10 DEF BeingClosed
<1>13. OpenHeld'
  BY <1>12 DEF WorkInv, OpenHeld, table
<1>14. ExitHolds'
  BY <1>12 DEF WorkInv, ExitHolds, AfterCloseAll, Creating, table, lock
<1> QED  BY <1>4, <1>5, <1>6, <1>7, <1>9, <1>11, <1>13, <1>14 DEF WorkInv

LEMMA ReceiverMoves ==
  ASSUME TableInv, WorkInv, NEW c \in Conns, receiver[c] # "off",
         NEW place \in {"off", "run", "closeAll", "closeIf"},
         receiver' = [receiver EXCEPT ![c] = place],
         UNCHANGED <<table, lock, isExit, conn, manager, keepalive, refused>>,
         place = "off" /\ ~misplaced /\ conn[c].open => BeingClosed(c)
  PROVE  WorkInv'
<1>1. receiver'[c] = place /\ \A d \in Conns \ {c} : receiver'[d] = receiver[d]
  BY DEF WorkInv, WorkType
<1>2. c \in DOMAIN conn /\ conn[c].started
  BY DEF WorkInv, StartedFirst
<1>3. WorkType'
  BY DEF WorkInv, WorkType, lock
<1>4. LockHolds' /\ CreatingHolds' /\ OnceAgain' /\ StartAhead' /\ SliceStarted' /\ ClosedFirst'
  BY DEF WorkInv, LockHolds, CreatingHolds, OnceAgain, StartAhead, SliceStarted, ClosedFirst,
     Free, Creating, Working, lock, table
<1>5. OnePerPort' /\ ExitHolds'
  BY DEF WorkInv, OnePerPort, ExitHolds, Working, AfterCloseAll, Creating, BeingClosed, lock, table
<1>6. StartedFirst'
  BY <1>1, <1>2 DEF WorkInv, StartedFirst
<1>7. \A d \in DOMAIN conn : d \in Conns
  BY Sizes DEF TableInv, TableType, Conns
<1>8. OpenHeld'
  BY <1>1, <1>7 DEF WorkInv, OpenHeld, BeingClosed, table
<1> QED  BY <1>3, <1>4, <1>5, <1>6, <1>8 DEF WorkInv

LEMMA ManagerMoves ==
  ASSUME TableInv, WorkInv, manager.at # "start",
         NEW place \in {"up", "sendReset", "closeAll", "closeIf", "clear", "exited", "gone"},
         ManagerGoes(place), isExit' \in BOOLEAN,
         UNCHANGED <<table, lock, conn, keepalive, receiver, refused>>,
         place \in {"closeIf", "clear", "exited"} => AfterCloseAll,
         place \in {"sendReset", "closeAll", "closeIf", "clear", "exited"} => isExit'
  PROVE  WorkInv'
<1>1. manager'.at = place /\ manager'.port = manager.port
  BY DEF ManagerGoes, WorkInv, WorkType
<1>2. connMux # Manager
  BY DEF WorkInv, LockHolds
<1>3. WorkType'
  BY DEF ManagerGoes, WorkInv, WorkType, lock
<1>4. LockHolds' /\ StartAhead'
  BY <1>1, <1>2 DEF WorkInv, LockHolds, StartAhead, Free, lock
<1>5. CreatingHolds' /\ StartedFirst' /\ OnceAgain' /\ SliceStarted' /\ ClosedFirst'
  BY DEF WorkInv, CreatingHolds, StartedFirst, OnceAgain, SliceStarted, ClosedFirst, Creating,
     lock, table
<1>6. OnePerPort' /\ OpenHeld'
  BY DEF WorkInv, OnePerPort, OpenHeld, Working, BeingClosed, lock, table
<1>7. ExitHolds'
  BY <1>1 DEF WorkInv, ExitHolds, AfterCloseAll, Creating, BeingClosed, lock, table
<1> QED  BY <1>3, <1>4, <1>5, <1>6, <1>7 DEF WorkInv

LEMMA InConns ==
  ASSUME TableInv
  PROVE  /\ \A d \in DOMAIN conn : d \in Conns /\ conn[d] \in Conn /\ conn[d].port \in Ports
         /\ Len(conn) \in Nat /\ DOMAIN conn = 1 .. Len(conn)
<1>1. conn \in Seq(Conn) /\ Len(conn) <= MaxConns /\ MaxConns \in Nat
  BY Sizes DEF TableInv, TableType
<1>2. Len(conn) \in Nat /\ DOMAIN conn = 1 .. Len(conn) /\ \A d \in DOMAIN conn : conn[d] \in Conn
  BY <1>1
<1>3. \A d \in 1 .. Len(conn) : d \in Conns
  BY <1>1, <1>2 DEF Conns
<1> QED  BY <1>2, <1>3 DEF Conn

-----------------------------------------------------------------------------
(* Connections are closed and removed *)

\* closeAndRemoveAllConnections, by Exit or for a reset.
LEMMA CloseAllMoves ==
  ASSUME TableInv, WorkInv, Free, CloseAll,
         UNCHANGED <<misplaced, lock, isExit, keepalive, refused>>,
         receiver' \in [Conns -> {"off", "run", "closeAll", "closeIf"}],
         \A c \in Conns : receiver'[c] = "off" <=> receiver[c] = "off",
         UNCHANGED manager \/ (manager.at = "closeAll" /\ ManagerGoes("closeIf"))
  PROVE  TableInv' /\ WorkInv'
<1>1. /\ TableInv' /\ InMap' = {} /\ ToSet(connections') = {}
      /\ connectionsMap' = [p \in Ports |-> None]
      /\ DOMAIN conn' = DOMAIN conn /\ Len(conn') = Len(conn)
      /\ \A c \in DOMAIN conn :
           /\ conn'[c].port = conn[c].port /\ conn'[c].started = conn[c].started
           /\ conn'[c].late = conn[c].late
           /\ conn'[c].open => conn[c].open /\ c \notin ToSet(connections)
  BY CloseAllKeeps
<1>2. \A c \in DOMAIN conn : c \in Conns /\ conn[c].port \in Ports
  BY InConns
<1>3. /\ manager'.port = manager.port /\ WorkType'
      /\ UNCHANGED manager \/ (manager.at = "closeAll" /\ manager'.at = "closeIf")
  BY DEF WorkInv, WorkType, ManagerGoes, lock
<1>4. creation.at = "no" /\ connMux = None /\ UNCHANGED <<connMux, creation>>
  BY DEF WorkInv, LockHolds, Free, lock
<1>5. connMux' # Manager /\ connMux' \notin Conns /\ Free'
  BY <1>4, Sizes DEF Free, Conns
<1>6. LockHolds' /\ CreatingHolds' /\ OnceAgain' /\ SliceStarted'
  BY <1>1, <1>4, <1>5 DEF WorkInv, LockHolds, CreatingHolds, Creating, OnceAgain, SliceStarted
<1>7. StartedFirst'
  BY <1>1 DEF WorkInv, StartedFirst
<1>8. \A c \in Working : c \in DOMAIN conn
  BY DEF WorkInv, StartedFirst, Working, Off
<1>9. Working' = Working
  BY DEF Working
<1>10. OnePerPort'
  BY <1>1, <1>2, <1>8, <1>9 DEF WorkInv, OnePerPort
<1>11. StartAhead'
  <2> SUFFICES ASSUME manager'.at = "start"
               PROVE  /\ \A c \in DOMAIN conn' : conn'[c].port <= manager'.port
                      /\ \A c \in Working' : conn'[c].port < manager'.port
                      /\ connectionsMap'[manager'.port] = None
    BY DEF StartAhead
  <2>1. manager.at = "start" /\ manager.port \in Ports
    BY <1>3 DEF WorkInv, WorkType
  <2> QED  BY <1>1, <1>3, <1>8, <1>9, <2>1 DEF WorkInv, StartAhead
<1>12. ClosedFirst'
  BY <1>1 DEF WorkInv, ClosedFirst
<1>13. ~misplaced => \A c \in DOMAIN conn : conn'[c].open /\ conn'[c].started => BeingClosed(c)'
  BY <1>1 DEF WorkInv, OpenHeld, BeingClosed
<1>14. OpenHeld'
  BY <1>1, <1>13 DEF OpenHeld
<1>15. ExitHolds'
  BY <1>1, <1>3, <1>4, <1>13 DEF WorkInv, ExitHolds, AfterCloseAll, Creating
<1> QED  BY <1>1, <1>3, <1>6, <1>7, <1>10, <1>11, <1>12, <1>14, <1>15 DEF WorkInv

LEMMA CloseConnectionKeeps ==
  ASSUME TableInv, WorkInv, NEW c \in Conns, CloseConnection(c)
  PROVE  TableInv' /\ WorkInv'
<1> USE DEF CloseConnection
<1>1. /\ keepalive'[c].at = "reconnect" /\ keepalive'[c].again = keepalive[c].again
      /\ \A d \in Conns \ {c} : keepalive'[d] = keepalive[d]
  BY KeepaliveFields DEF WorkInv
<1>2. c \in DOMAIN conn /\ conn[c].started /\ ~keepalive[c].again /\ connMux # c
  BY DEF WorkInv, StartedFirst, Off, OnceAgain, LockHolds
<1>3. \A d \in DOMAIN conn : d \in Conns /\ conn[d] \in Conn
  BY InConns
<1>4. /\ conn' \in Seq(Conn) /\ Len(conn') = Len(conn) /\ DOMAIN conn' = DOMAIN conn
      /\ \A d \in DOMAIN conn :
           /\ conn'[d].port = conn[d].port /\ conn'[d].started = conn[d].started
           /\ conn'[d].late = conn[d].late
           /\ conn'[d].open => conn[d].open /\ d # c
           /\ d # c => conn'[d] = conn[d]
  <2>1. /\ conn' = [conn EXCEPT ![c] = [conn[c] EXCEPT !.open = FALSE]]
        /\ [conn[c] EXCEPT !.open = FALSE] \in Conn
    BY <1>2, <1>3 DEF Conn
  <2>2. conn' \in Seq(Conn) /\ Len(conn') = Len(conn) /\ DOMAIN conn' = DOMAIN conn
    BY <1>2, <2>1 DEF TableInv, TableType
  <2>3. \A d \in DOMAIN conn : d # c => conn'[d] = conn[d]
    BY <2>1 DEF TableInv, TableType
  <2>4. conn'[c] = [conn[c] EXCEPT !.open = FALSE]
    BY <1>2, <2>1 DEF TableInv, TableType
  <2>5. /\ conn'[c].port = conn[c].port /\ conn'[c].started = conn[c].started
        /\ conn'[c].late = conn[c].late /\ ~conn'[c].open
    BY <1>2, <1>3, <2>4 DEF Conn
  <2> QED  BY <1>2, <2>2, <2>3, <2>5
<1>5. TableInv' /\ UNCHANGED <<connections, connectionsMap, misplaced, connMux, creation>>
  BY <1>4, TableConn DEF table, lock
<1>6. WorkType'
  BY DEF WorkInv, WorkType, KeepaliveGoes, lock
<1>7. LockHolds'
  <2>1. connMux \in Conns => connMux \in DOMAIN conn
    BY DEF WorkInv, LockHolds, StartedFirst, Off
  <2> QED  BY <1>1, <1>2, <1>4, <1>5, <2>1 DEF WorkInv, LockHolds, Free
<1>8. CreatingHolds'
  <2>1. Creating => Len(conn) \in DOMAIN conn /\ Len(conn) # c
    BY <1>2, InConns DEF WorkInv, CreatingHolds
  <2>2. conn # <<>> => conn' # <<>>
    BY <1>4 DEF TableInv, TableType
  <2> QED  BY <1>4, <1>5, <2>1, <2>2 DEF WorkInv, CreatingHolds, Creating
<1>9. StartedFirst' /\ OnceAgain'
  BY <1>1, <1>2, <1>4 DEF WorkInv, StartedFirst, OnceAgain
<1>10. Working' = Working /\ \A d \in Working : d \in DOMAIN conn
  BY <1>1, <1>2 DEF WorkInv, Working, StartedFirst, Off
<1>11. OnePerPort'
  <2>1. ASSUME NEW d \in Working
        PROVE  /\ keepalive'[d].at \in {"run", "remove"} =>
                    connectionsMap[conn[d].port] \in {None, d}
               /\ keepalive'[d].at \notin {"run", "remove"} /\ connMux # d =>
                    connectionsMap[conn[d].port] = None
    <3>1. CASE d = c
      BY <1>1, <1>2, <2>1, <3>1 DEF WorkInv, OnePerPort
    <3>2. CASE d # c
      BY <1>1, <2>1, <3>2 DEF WorkInv, OnePerPort, Working
    <3> QED  BY <3>1, <3>2
  <2> QED  BY <1>4, <1>5, <1>10, <2>1 DEF WorkInv, OnePerPort
<1>12. StartAhead'
  BY <1>4, <1>5, <1>10 DEF WorkInv, StartAhead
<1>13. SliceStarted'
  <2> SUFFICES ASSUME ~misplaced, NEW d \in ToSet(connections)
               PROVE  conn'[d].started \/ d \in refused \/ (Creating /\ d = Len(conn))
    BY <1>4, <1>5 DEF SliceStarted, Creating, past
  <2>1. d \in DOMAIN conn
    BY DEF TableInv, SliceHolds, MapHolds
  <2> QED  BY <1>4, <2>1 DEF WorkInv, SliceStarted
<1>14. ClosedFirst'
  BY <1>1, <1>3, <1>4 DEF WorkInv, ClosedFirst
<1>15. \A d \in DOMAIN conn : BeingClosed(d) => BeingClosed(d)'
  BY <1>1, <1>3 DEF BeingClosed
<1>16. OpenHeld'
  BY <1>4, <1>5, <1>15 DEF WorkInv, OpenHeld
<1>17. ExitHolds'
  BY <1>4, <1>5, <1>15, InConns DEF WorkInv, ExitHolds, AfterCloseAll, Creating, CreatingHolds
<1> QED  BY <1>5, <1>6, <1>7, <1>8, <1>9, <1>11, <1>12, <1>13, <1>14, <1>16, <1>17 DEF WorkInv

\* What the map has for a port is in the slice only as the connection to this port.
LEMMA OnlyItsPort ==
  ASSUME TableInv, ~misplaced, NEW c \in ToSet(connections)
  PROVE  c \in DOMAIN conn /\ conn[c].port \in InMap /\ connectionsMap[conn[c].port] = c
BY DEF TableInv, SliceHolds, MapHolds

\* A removal for a port that may not be in the map.
LEMMA RemovedOrNot ==
  ASSUME TableInv, NEW p \in Ports, Removed(p), UNCHANGED conn
  PROVE  /\ TableInv' /\ InMap' \subseteq InMap
         /\ connectionsMap' = [connectionsMap EXCEPT ![p] = None]
         /\ ~misplaced' => ~misplaced /\ ToSet(connections') = ToSet(connections) \ {connectionsMap[p]}
<1>1. CASE p \in InMap
  <2>1. /\ TableInv'
        /\ connectionsMap' = [connectionsMap EXCEPT ![p] = None]
        /\ ~misplaced' =>
             ~misplaced /\ ToSet(connections') = ToSet(connections) \ {connectionsMap[p]}
    BY <1>1, RemovedKeeps
  <2>2. InMap' \subseteq InMap
    BY <2>1 DEF InMap, TableInv, TableType
  <2> QED  BY <2>1, <2>2
<1>2. CASE p \notin InMap
  <2>1. connectionsMap[p] = None /\ UNCHANGED table
    BY <1>2 DEF InMap, Removed
  <2>2. TableInv' /\ InMap' = InMap
    BY <2>1, TableSame DEF table
  <2>3. connectionsMap' = [connectionsMap EXCEPT ![p] = None]
    BY <2>1 DEF TableInv, TableType, table
  <2>4. ~misplaced => None \notin ToSet(connections)
    BY DEF TableInv, SliceHolds, InMap
  <2> QED  BY <2>1, <2>2, <2>3, <2>4 DEF table
<1> QED  BY <1>1, <1>2

LEMMA RemoveConnectionKeeps ==
  ASSUME TableInv, WorkInv, NEW c \in Conns, RemoveConnection(c)
  PROVE  TableInv' /\ WorkInv'
<1> USE DEF RemoveConnection
<1>1. /\ keepalive'[c].at = "last" /\ keepalive'[c].again = keepalive[c].again
      /\ \A d \in Conns \ {c} : keepalive'[d] = keepalive[d]
  BY KeepaliveFields DEF WorkInv
<1>2. c \in DOMAIN conn /\ conn[c].started /\ ~keepalive[c].again /\ c \in Working
  BY DEF WorkInv, StartedFirst, Off, OnceAgain, Working
<1>3. PICK p \in Ports : p = conn[c].port
  BY <1>2, InConns
<1>4. /\ TableInv' /\ connectionsMap' = [connectionsMap EXCEPT ![p] = None]
      /\ ~misplaced' =>
           ~misplaced /\ ToSet(connections') = ToSet(connections) \ {connectionsMap[p]}
  BY <1>3, RemovedOrNot
<1>5. /\ \A q \in Ports : connectionsMap'[q] = IF q = p THEN None ELSE connectionsMap[q]
      /\ connectionsMap[p] \in {None, c}
      /\ ~misplaced' => ToSet(connections) \subseteq ToSet(connections') \union {c}
  <2>1. connectionsMap[p] \in {None, c}
    BY <1>2, <1>3 DEF WorkInv, OnePerPort
  <2>2. ~misplaced => None \notin ToSet(connections)
    BY DEF TableInv, SliceHolds, InMap
  <2> QED  BY <1>4, <2>1, <2>2 DEF TableInv, TableType
<1>6. creation.at = "no" /\ connMux = None /\ UNCHANGED <<connMux, creation, conn>>
  BY DEF WorkInv, LockHolds, Free, AfterRemoveConnection
<1>7. connMux # Manager /\ connMux \notin Conns /\ Free'
  BY <1>6, Sizes DEF Free, Conns
<1>8. WorkType'
  BY <1>6 DEF WorkInv, WorkType, KeepaliveGoes
<1>9. LockHolds' /\ CreatingHolds'
  BY <1>6, <1>7 DEF WorkInv, LockHolds, CreatingHolds, Creating
<1>10. StartedFirst' /\ OnceAgain'
  BY <1>1, <1>2 DEF WorkInv, StartedFirst, OnceAgain
<1>11. Working' = Working /\ \A d \in Working : d \in DOMAIN conn /\ conn[d].port \in Ports
  BY <1>1, <1>2, InConns DEF WorkInv, Working, StartedFirst, Off
<1>12. OnePerPort'
  <2>1. ASSUME NEW d \in Working
        PROVE  /\ keepalive'[d].at \in {"run", "remove"} =>
                    connectionsMap'[conn[d].port] \in {None, d}
               /\ keepalive'[d].at \notin {"run", "remove"} =>
                    connectionsMap'[conn[d].port] = None
    <3>1. CASE d = c
      BY <1>1, <1>3, <1>5, <3>1
    <3>2. CASE d # c
      <4>1. d \in Conns /\ keepalive'[d] = keepalive[d] /\ connMux # d
        BY <1>1, <1>7, <3>2 DEF Working
      <4> QED  BY <1>5, <1>11, <4>1 DEF WorkInv, OnePerPort
    <3> QED  BY <3>1, <3>2
  <2> QED  BY <1>6, <1>11, <2>1 DEF WorkInv, OnePerPort
<1>13. StartAhead'
  BY <1>5, <1>6, <1>11 DEF WorkInv, WorkType, StartAhead
<1>14. SliceStarted'
  BY <1>4, <1>6 DEF WorkInv, SliceStarted, Creating, past
<1>15. \A d \in DOMAIN conn : d \in Conns
  BY InConns
<1>16. ClosedFirst'
  BY <1>1, <1>2, <1>6, <1>15 DEF WorkInv, ClosedFirst
<1>17. BeingClosed(c)' /\ \A d \in DOMAIN conn : BeingClosed(d) => BeingClosed(d)'
  BY <1>1, <1>15 DEF BeingClosed
<1>18. OpenHeld'
  BY <1>4, <1>5, <1>6, <1>17 DEF WorkInv, OpenHeld
<1>19. ExitHolds'
  BY <1>4, <1>6, <1>17 DEF WorkInv, ExitHolds, AfterCloseAll, Creating
<1> QED  BY <1>4, <1>8, <1>9, <1>10, <1>12, <1>13, <1>14, <1>16, <1>18, <1>19 DEF WorkInv

-----------------------------------------------------------------------------
(* createConnection *)

LEMMA BeginsKeeps ==
  ASSUME TableInv, WorkInv,
         NEW a \in {Manager} \union Conns, NEW p \in Ports, Begins(a, p),
         connectionsMap[p] = None,
         a = Manager => manager.at = "start" /\ p = manager.port,
         a \in Conns => keepalive[a].at = "create" /\ p = conn[a].port
  PROVE  TableInv' /\ WorkInv'
<1> USE DEF Begins
<1>1. TableInv' /\ InMap' = InMap
  BY TableSame
<1>2. /\ creation' = [at |-> "dial", port |-> p, tries |-> 0, sid |-> 0]
      /\ connMux' = a /\ connMux = None /\ creation.at = "no"
      /\ a # None /\ (a = Manager <=> a \notin Conns)
  <2>1. a # None /\ (a = Manager <=> a \notin Conns)
    BY Sizes DEF Conns
  <2>2. creation' = [at |-> "dial", port |-> p, tries |-> 0, sid |-> 0]
    BY DEF NoCreation
  <2> QED  BY <2>1, <2>2 DEF Free, WorkInv, LockHolds
<1>3. WorkType'
  BY <1>2 DEF WorkInv, WorkType, past
<1>4. LockHolds'
  <2>1. a \in Conns => ~keepalive[a].again
    BY DEF WorkInv, OnceAgain
  <2> QED  BY <1>2, <2>1 DEF LockHolds, Free
<1>5. CreatingHolds' /\ StartedFirst' /\ OnceAgain'
  BY <1>2 DEF WorkInv, CreatingHolds, Creating, StartedFirst, OnceAgain, table
<1>6. Working' = Working
  BY DEF Working
<1>7. OnePerPort'
  <2>1. \A c \in Working : connMux # c
    BY <1>2, Sizes DEF Working, Conns
  <2> QED  BY <1>6, <2>1 DEF WorkInv, OnePerPort, table
<1>8. StartAhead'
  BY <1>2, <1>6, Sizes DEF WorkInv, StartAhead, table
<1>9. SliceStarted' /\ ClosedFirst' /\ OpenHeld'
  BY <1>2 DEF WorkInv, SliceStarted, ClosedFirst, OpenHeld, Creating, BeingClosed, table, past
<1>10. ExitHolds'
  BY <1>2 DEF WorkInv, ExitHolds, AfterCloseAll, Creating, BeingClosed, table
<1> QED  BY <1>1, <1>3, <1>4, <1>5, <1>7, <1>8, <1>9, <1>10 DEF WorkInv

LEMMA ManagerCreatesKeeps ==
  ASSUME TableInv, WorkInv, ManagerCreates
  PROVE  TableInv' /\ WorkInv'
<1>1. manager.at = "start" /\ Begins(Manager, manager.port) /\ manager.port \in Ports
  BY DEF ManagerCreates, WorkInv, WorkType
<1>2. connectionsMap[manager.port] = None
  BY <1>1, Sizes DEF Begins, Free, WorkInv, StartAhead
<1> QED  BY <1>1, <1>2, Sizes, BeginsKeeps

LEMMA KeepaliveCreatesKeeps ==
  ASSUME TableInv, WorkInv, NEW c \in Conns, KeepaliveCreates(c)
  PROVE  TableInv' /\ WorkInv'
<1>1. keepalive[c].at = "create" /\ Begins(c, conn[c].port) /\ c # Manager /\ connMux = None
  BY Sizes DEF KeepaliveCreates, Begins, Free
<1>2. c \in DOMAIN conn /\ c \in Working /\ connMux # c
  BY <1>1, Sizes DEF WorkInv, StartedFirst, Off, OnceAgain, Working, Conns
<1>3. conn[c].port \in Ports /\ connectionsMap[conn[c].port] = None
  BY <1>1, <1>2, InConns DEF WorkInv, OnePerPort
<1> QED  BY <1>1, <1>3, BeginsKeeps

\* Who creates a connection is the only one who goes on with its port.
LEMMA Creator ==
  ASSUME TableInv, WorkInv, creation.at # "no"
  PROVE  /\ connMux \in {Manager} \union Conns /\ connMux # None
         /\ creation.port \in Ports
         /\ connMux = Manager => /\ manager.at = "start" /\ creation.port = manager.port
                                 /\ connMux \notin Conns
         /\ connMux \in Conns => /\ keepalive[connMux].at = "create" /\ connMux \in Working
                                 /\ connMux \in DOMAIN conn /\ conn[connMux].started
                                 /\ creation.port = conn[connMux].port
         /\ \A d \in Working : /\ d \in DOMAIN conn /\ d \in Conns /\ conn[d].started
                               /\ conn[d].port \in Ports
                               /\ conn[d].port = creation.port => d = connMux
<1>1. connMux \in {Manager} \union Conns /\ connMux # None /\ creation.port \in Ports
  BY DEF WorkInv, WorkType, LockHolds, Free
<1>2. connMux = Manager => /\ manager.at = "start" /\ creation.port = manager.port
                           /\ connMux \notin Conns
  BY Sizes DEF WorkInv, LockHolds
<1>3. \A d \in Working : /\ d \in DOMAIN conn /\ d \in Conns /\ conn[d].started
                         /\ conn[d].port \in Ports
  BY InConns DEF WorkInv, StartedFirst, Off, Working
<1>4. connMux \in Conns => /\ keepalive[connMux].at = "create" /\ connMux \in Working
                           /\ creation.port = conn[connMux].port
  BY DEF WorkInv, LockHolds, Working
<1>5. ASSUME NEW d \in Working, conn[d].port = creation.port PROVE d = connMux
  <2>1. CASE connMux = Manager
    <3>1. conn[d].port < manager.port
      BY <1>2, <2>1 DEF WorkInv, StartAhead
    <3>2. conn[d].port \in Int
      BY <1>3, Sizes DEF Ports
    <3> QED  BY <1>2, <1>5, <2>1, <3>1, <3>2
  <2>2. CASE connMux \in Conns
    BY <1>4, <1>5, <2>2 DEF WorkInv, OnePerPort
  <2> QED  BY <1>1, <2>1, <2>2
<1> QED  BY <1>1, <1>2, <1>3, <1>4, <1>5

\* createConnection returns an error; a connection it leaves behind was refused.
LEMMA FailedReturn ==
  ASSUME TableInv, WorkInv, creation.at # "no", Returns(FALSE, keepalive),
         UNCHANGED <<isExit, conn, receiver>>, refused \subseteq refused',
         \A q \in Ports : connectionsMap'[q] \in {None, connectionsMap[q]},
         ~misplaced' =>
           /\ ~misplaced /\ ToSet(connections') \subseteq ToSet(connections)
           /\ \A d \in ToSet(connections) : conn[d].started => d \in ToSet(connections')
           /\ Creating => Len(conn) \notin ToSet(connections') \/ Len(conn) \in refused'
  PROVE  WorkInv'
<1>1. /\ connMux' = None /\ creation' = NoCreation
      /\ \/ /\ connMux = Manager /\ keepalive' = keepalive
            /\ manager'.at = "failed" /\ manager'.port = manager.port
         \/ /\ connMux \in Conns /\ connMux # Manager /\ manager' = manager
            /\ keepalive'[connMux] = [at |-> "stop", again |-> TRUE]
            /\ \A d \in Conns \ {connMux} : keepalive'[d] = keepalive[d]
      /\ WorkType'
  <2>1. connMux' = None /\ creation' = NoCreation /\ NoCreation.at = "no"
    BY DEF Returns, NoCreation
  <2>2. CASE connMux = Manager
    <3>1. keepalive' = keepalive /\ manager' = [manager EXCEPT !.at = "failed"]
      BY <2>2 DEF Returns, ManagerAfter
    <3>2. NoCreation \in [at : {"no"}, port : Ports, tries : Nat, sid : Nat]
      BY Sizes DEF NoCreation, Ports
    <3>3. WorkType'
      BY <2>1, <3>1, <3>2 DEF WorkInv, WorkType
    <3> QED  BY <2>1, <2>2, <3>1, <3>3 DEF WorkInv, WorkType
  <2>3. CASE connMux # Manager
    <3>1. manager' = manager
          /\ keepalive' = [keepalive EXCEPT ![connMux] = [at |-> "stop", again |-> TRUE]]
      BY <2>3 DEF Returns, KeepaliveAfter
    <3>2. NoCreation \in [at : {"no"}, port : Ports, tries : Nat, sid : Nat]
      BY Sizes DEF NoCreation, Ports
    <3>3. connMux \in Conns
      BY <2>3, Creator
    <3>4. WorkType'
      BY <2>1, <3>1, <3>2 DEF WorkInv, WorkType
    <3> QED  BY <2>1, <2>3, <3>1, <3>3, <3>4 DEF WorkInv, WorkType
  <2> QED  BY <2>2, <2>3
<1>2. /\ connMux = Manager => manager.at = "start" /\ connMux \notin Conns
      /\ connMux \in Conns => keepalive[connMux].at = "create" /\ conn[connMux].started
                              /\ connMux \in DOMAIN conn
      /\ \A d \in Working : d \in DOMAIN conn /\ conn[d].port \in Ports
  BY Creator
<1>3. creation'.at = "no" /\ ~Creating' /\ Free' /\ connMux' # Manager /\ connMux' \notin Conns
  BY <1>1, Sizes DEF NoCreation, Creating, Free, Conns
<1>4. LockHolds' /\ CreatingHolds'
  BY <1>3 DEF LockHolds, CreatingHolds
<1>5. StartedFirst'
  BY <1>1, <1>2 DEF WorkInv, StartedFirst
<1>6. OnceAgain'
  BY <1>1 DEF WorkInv, OnceAgain
<1>7. \A d \in Working' : d \in Working /\ d # connMux /\ keepalive'[d] = keepalive[d]
  BY <1>1, <1>2 DEF Working
<1>8. OnePerPort'
  <2>1. \A c, d \in Working' : conn'[c].port = conn'[d].port => c = d
    BY <1>7 DEF WorkInv, OnePerPort
  <2>2. ASSUME NEW d \in Working'
        PROVE  /\ keepalive'[d].at \in {"run", "remove"} =>
                    connectionsMap'[conn[d].port] \in {None, d}
               /\ keepalive'[d].at \notin {"run", "remove"} =>
                    connectionsMap'[conn[d].port] = None
    <3>1. d \in Working /\ d # connMux /\ keepalive'[d] = keepalive[d] /\ conn[d].port \in Ports
      BY <1>2, <1>7
    <3>2. connectionsMap'[conn[d].port] \in {None, connectionsMap[conn[d].port]}
      BY <3>1
    <3> QED  BY <3>1, <3>2 DEF WorkInv, OnePerPort
  <2> QED  BY <2>1, <2>2 DEF OnePerPort
<1>9. StartAhead'
  <2> SUFFICES ASSUME manager'.at = "start"
               PROVE  /\ \A c \in DOMAIN conn : conn[c].port <= manager.port
                      /\ \A c \in Working' : conn[c].port < manager.port
                      /\ manager' = manager /\ connectionsMap'[manager.port] = None
    BY DEF StartAhead
  <2>1. manager' = manager /\ connMux # Manager
    BY <1>1
  <2> QED  BY <1>7, <2>1 DEF WorkInv, WorkType, StartAhead
<1>10. SliceStarted'
  BY <1>3 DEF WorkInv, SliceStarted
<1>11. \A d \in DOMAIN conn : d \in Conns
  BY InConns
<1>12. ClosedFirst'
  BY <1>1, <1>2, <1>11 DEF WorkInv, ClosedFirst
<1>13. \A d \in DOMAIN conn : BeingClosed(d) => BeingClosed(d)'
  BY <1>1, <1>11 DEF BeingClosed
<1>14. OpenHeld'
  BY <1>13 DEF WorkInv, OpenHeld
<1>15. ExitHolds'
  <2>1. AfterCloseAll' \/ manager'.at \in {"sendReset", "closeAll"} => manager' = manager
    BY <1>1 DEF AfterCloseAll
  <2> QED  BY <1>3, <1>13, <2>1 DEF WorkInv, ExitHolds, AfterCloseAll
<1> QED  BY <1>1, <1>4, <1>5, <1>6, <1>8, <1>9, <1>10, <1>12, <1>14, <1>15 DEF WorkInv

\* The next attempt, or the error: the connection of this attempt has left the map.
LEMMA NextAttempt ==
  ASSUME TableInv, WorkInv, creation.at # "no", TriesAgain,
         UNCHANGED <<isExit, conn, receiver, past>>,
         connectionsMap' = [connectionsMap EXCEPT ![creation.port] = None],
         ~misplaced' =>
           /\ ~misplaced
           /\ ToSet(connections') = ToSet(connections) \ {connectionsMap[creation.port]}
  PROVE  WorkInv'
<1>1. \A q \in Ports : connectionsMap'[q] = IF q = creation.port THEN None ELSE connectionsMap[q]
  BY DEF TableInv, TableType
<1>2. ~misplaced' =>
        /\ ~misplaced /\ ToSet(connections') \subseteq ToSet(connections)
        /\ \A d \in ToSet(connections) : conn[d].started => d \in ToSet(connections')
        /\ Creating => Len(conn) \notin ToSet(connections')
  <2>1. ASSUME ~misplaced PROVE None \notin ToSet(connections)
    BY <2>1 DEF TableInv, SliceHolds, InMap
  <2>2. creation.at = "dial" => connectionsMap[creation.port] = None
    BY DEF WorkInv, CreatingHolds
  <2>3. Creating => connectionsMap[creation.port] = Len(conn) /\ ~conn[Len(conn)].started
    BY DEF WorkInv, CreatingHolds
  <2>4. creation.at = "dial" \/ Creating
    BY DEF WorkInv, WorkType, Creating
  <2> QED  BY <2>1, <2>2, <2>3, <2>4
<1>3. CASE LastAttempt
  <2>1. Returns(FALSE, keepalive) /\ refused \subseteq refused'
    BY <1>3 DEF TriesAgain, past
  <2> QED  BY <1>1, <1>2, <2>1, FailedReturn
<1>4. CASE ~LastAttempt
  <2>1. /\ creation' = [creation EXCEPT !.at = "dial", !.tries = @ + 1]
        /\ UNCHANGED <<connMux, manager, keepalive>>
    BY <1>4 DEF TriesAgain
  <2>2. creation'.at = "dial" /\ creation'.port = creation.port /\ WorkType' /\ ~Creating'
    <3>1. /\ creation'.at = "dial" /\ creation'.port = creation.port
          /\ creation' \in [at : {"no", "dial", "auth", "handshake"}, port : Ports, tries : Nat,
                            sid : Nat]
      <4>1. creation \in [at : {"no", "dial", "auth", "handshake"}, port : Ports, tries : Nat,
                          sid : Nat]
        BY DEF WorkInv, WorkType
      <4>2. PICK t \in Nat : t = creation.tries + 1
        BY <4>1
      <4>3. creation' = [creation EXCEPT !.at = "dial", !.tries = t]
        BY <2>1, <4>2
      <4> QED  BY <4>1, <4>3
    <3>2. WorkType'
      BY <2>1, <3>1 DEF WorkInv, WorkType
    <3> QED  BY <3>1, <3>2 DEF Creating
  <2>3. LockHolds'
    BY <2>1, <2>2 DEF WorkInv, LockHolds, Free
  <2>4. CreatingHolds'
    BY <1>1, <2>2, Creator DEF CreatingHolds
  <2>5. StartedFirst' /\ OnceAgain' /\ ClosedFirst'
    BY <2>1 DEF WorkInv, StartedFirst, OnceAgain, ClosedFirst
  <2>6. Working' = Working
    BY <2>1 DEF Working
  <2>7. \A d \in Working : conn[d].port \in Ports
    BY Creator
  <2>8. OnePerPort' /\ StartAhead'
    BY <1>1, <2>1, <2>6, <2>7 DEF WorkInv, WorkType, OnePerPort, StartAhead
  <2>9. SliceStarted'
    BY <1>2, <2>2 DEF WorkInv, SliceStarted, past
  <2>10. OpenHeld'
    BY <1>2, <2>1 DEF WorkInv, OpenHeld, BeingClosed
  <2>11. ExitHolds'
    BY <1>2, <2>1, <2>2 DEF WorkInv, ExitHolds, AfterCloseAll, BeingClosed
  <2> QED  BY <2>2, <2>3, <2>4, <2>5, <2>8, <2>9, <2>10, <2>11 DEF WorkInv
<1> QED  BY <1>3, <1>4

LEMMA DialFailsKeeps ==
  ASSUME TableInv, WorkInv, DialFails
  PROVE  TableInv' /\ WorkInv'
<1> USE DEF DialFails
<1>1. connectionsMap[creation.port] = None /\ creation.at # "no"
  BY DEF WorkInv, CreatingHolds
<1>2. TableInv'
  BY TableSame
<1>3. connectionsMap' = [connectionsMap EXCEPT ![creation.port] = None]
  BY <1>1, Creator DEF TableInv, TableType, table
<1>4. ~misplaced' =>
        /\ ~misplaced
        /\ ToSet(connections') = ToSet(connections) \ {connectionsMap[creation.port]}
  BY <1>1 DEF TableInv, SliceHolds, InMap, table
<1> QED  BY <1>1, <1>2, <1>3, <1>4, NextAttempt

LEMMA AttemptFailsKeeps ==
  ASSUME TableInv, WorkInv, AttemptFails
  PROVE  TableInv' /\ WorkInv'
<1> USE DEF AttemptFails
<1>1. creation.at # "no" /\ creation.port \in Ports
  BY Creator
<1>2. /\ TableInv'
      /\ connectionsMap' = [connectionsMap EXCEPT ![creation.port] = None]
      /\ ~misplaced' =>
           /\ ~misplaced
           /\ ToSet(connections') = ToSet(connections) \ {connectionsMap[creation.port]}
  BY <1>1, RemovedOrNot
<1> QED  BY <1>1, <1>2, NextAttempt

LEMMA UnauthorizedKeeps ==
  ASSUME TableInv, WorkInv, Unauthorized
  PROVE  TableInv' /\ WorkInv'
<1> USE DEF Unauthorized
<1>1. TableInv'
  BY TableSame
<1>2. /\ \A q \in Ports : connectionsMap'[q] \in {None, connectionsMap[q]}
      /\ UNCHANGED <<connections, misplaced>>
      /\ refused \subseteq refused' /\ Len(conn) \in refused'
  BY DEF table
<1>3. WorkInv'
  BY <1>2, FailedReturn
<1> QED  BY <1>1, <1>3

LEMMA DialKeeps ==
  ASSUME TableInv, WorkInv, SessionType, Dial
  PROVE  TableInv' /\ WorkInv'
<1> USE DEF Dial
<1>1. PICK n \in Nat : n = Len(conn) /\ DOMAIN conn = 1 .. n
  BY InConns
<1>2. PICK p \in Ports : p = creation.port
  BY Creator
<1>3. PICK new : new = [NoConn EXCEPT !.port = creation.port, !.open = TRUE, !.late = isExit,
                                      !.idx = Len(connections) + 1]
  OBVIOUS
<1>4. new \in Conn /\ new.port = p /\ ~new.started /\ new.late = isExit /\ new.open
  <2>1. Len(connections) + 1 \in Nat \ {0}
    BY DEF TableInv, TableType
  <2>2. isExit \in BOOLEAN
    BY DEF WorkInv, WorkType
  <2> QED  BY <1>2, <1>3, <2>1, <2>2 DEF NoConn, Conn
<1>5. n + 1 \in Conns /\ connectionsMap[p] = None
  BY <1>1, <1>2, Sizes DEF Conns, WorkInv, CreatingHolds
<1>6. conn' = Append(conn, new) /\ Added(n + 1, p)
  BY <1>1, <1>2, <1>3
<1>7. /\ TableInv' /\ connectionsMap' = [connectionsMap EXCEPT ![p] = n + 1]
      /\ misplaced' = misplaced
      /\ ToSet(connections') = ToSet(connections) \union {n + 1}
  BY <1>1, <1>4, <1>5, <1>6, AddedKeeps
<1>8. \A q \in Ports : connectionsMap'[q] = IF q = p THEN n + 1 ELSE connectionsMap[q]
  BY <1>7 DEF TableInv, TableType
<1>9. /\ Len(conn') = n + 1 /\ DOMAIN conn' = DOMAIN conn \union {n + 1} /\ conn'[n + 1] = new
      /\ \A d \in DOMAIN conn : conn'[d] = conn[d] /\ d # n + 1
      /\ conn' # <<>>
  BY <1>1, <1>6 DEF TableInv, TableType
<1>10. /\ creation'.at = "auth" /\ creation'.port = p
       /\ WorkType'
  <2>1. creation' = [creation EXCEPT !.at = "auth", !.sid = sessionID] /\ sessionID \in Nat
    BY DEF SessionType
  <2>2. creation' \in [at : {"no", "dial", "auth", "handshake"}, port : Ports, tries : Nat,
                       sid : Nat]
        /\ creation'.at = "auth" /\ creation'.port = p
    BY <1>2, <2>1 DEF WorkInv, WorkType
  <2> QED  BY <2>2 DEF WorkInv, WorkType
<1>11. keepalive[n + 1] = Off /\ receiver[n + 1] = "off"
  BY <1>1, <1>5 DEF WorkInv, StartedFirst
<1>12. Creating' /\ ~Creating
  BY <1>10 DEF Creating
<1>13. /\ connMux = Manager => manager.at = "start" /\ p = manager.port /\ connMux \notin Conns
       /\ connMux \in Conns => /\ keepalive[connMux].at = "create" /\ connMux \in Working
                               /\ connMux \in DOMAIN conn /\ p = conn[connMux].port
       /\ connMux \in {Manager} \union Conns
       /\ \A d \in Working : /\ d \in DOMAIN conn /\ d \in Conns /\ conn[d].port \in Ports
                             /\ conn[d].port = p => d = connMux
  BY <1>2, Creator
<1>14. LockHolds'
  BY <1>2, <1>9, <1>10, <1>13 DEF WorkInv, LockHolds, Free
<1>15. CreatingHolds'
  BY <1>4, <1>8, <1>9, <1>10 DEF CreatingHolds
<1>16. StartedFirst' /\ OnceAgain'
  BY <1>4, <1>9, <1>11 DEF WorkInv, StartedFirst, OnceAgain
<1>17. Working' = Working
  BY DEF Working
<1>18. OnePerPort'
  <2>1. \A c, d \in Working' : conn'[c].port = conn'[d].port => c = d
    BY <1>9, <1>13, <1>17 DEF WorkInv, OnePerPort
  <2>2. ASSUME NEW d \in Working
        PROVE  /\ keepalive[d].at \in {"run", "remove"} =>
                    connectionsMap'[conn[d].port] \in {None, d}
               /\ keepalive[d].at \notin {"run", "remove"} /\ connMux # d =>
                    connectionsMap'[conn[d].port] = None
    <3>1. CASE conn[d].port = p
      BY <1>13, <3>1
    <3>2. CASE conn[d].port # p
      BY <1>8, <1>13, <3>2 DEF WorkInv, OnePerPort
    <3> QED  BY <3>1, <3>2
  <2> QED  BY <1>9, <1>13, <1>17, <2>1, <2>2 DEF OnePerPort
<1>19. StartAhead'
  <2> SUFFICES ASSUME manager.at = "start"
               PROVE  /\ \A c \in DOMAIN conn' : conn'[c].port <= manager.port
                      /\ \A c \in Working : conn'[c].port < manager.port
                      /\ connMux # Manager => connectionsMap'[manager.port] = None
    BY <1>17 DEF StartAhead
  <2>1. /\ \A c \in DOMAIN conn : conn[c].port <= manager.port
        /\ \A c \in Working : conn[c].port < manager.port
        /\ connMux # Manager => connectionsMap[manager.port] = None
        /\ manager.port \in Ports
    BY DEF WorkInv, WorkType, StartAhead
  <2>2. p \in Nat /\ manager.port \in Nat
    BY <2>1, Sizes DEF Ports
  <2>3. connMux # Manager => p < manager.port
    <3> SUFFICES ASSUME connMux # Manager PROVE p < manager.port
      OBVIOUS
    <3>1. connMux \in Working /\ p = conn[connMux].port
      BY <1>13
    <3> QED  BY <2>1, <3>1
  <2>4. p <= manager.port
    <3>1. connMux = Manager => p = manager.port
      BY <1>13
    <3> QED  BY <2>2, <2>3, <3>1
  <2>5. \A c \in DOMAIN conn' : conn'[c].port <= manager.port
    BY <1>4, <1>9, <2>1, <2>4
  <2>6. \A c \in Working : conn'[c].port < manager.port
    BY <1>9, <1>13, <2>1
  <2>7. connMux # Manager => connectionsMap'[manager.port] = None
    <3> SUFFICES ASSUME connMux # Manager PROVE connectionsMap'[manager.port] = None
      OBVIOUS
    <3>1. p # manager.port
      BY <2>2, <2>3
    <3> QED  BY <1>8, <2>1, <3>1
  <2> QED  BY <2>5, <2>6, <2>7
<1>20. SliceStarted'
  <2> SUFFICES ASSUME ~misplaced, NEW d \in ToSet(connections')
               PROVE  conn'[d].started \/ d \in refused \/ d = n + 1
    BY <1>7, <1>9, <1>12 DEF SliceStarted, past
  <2>1. CASE d \in ToSet(connections)
    <3>1. d \in DOMAIN conn
      BY <2>1, OnlyItsPort
    <3> QED  BY <1>9, <1>12, <2>1, <3>1 DEF WorkInv, SliceStarted
  <2> QED  BY <1>7, <2>1
<1>21. ClosedFirst'
  BY <1>9, <1>11 DEF WorkInv, ClosedFirst, Off
<1>22. OpenHeld'
  <2> SUFFICES ASSUME ~misplaced, NEW d \in DOMAIN conn', conn'[d].open, conn'[d].started
               PROVE  /\ d \in ToSet(connections') \/ BeingClosed(d)
                      /\ receiver[d] = "off" => BeingClosed(d)
    BY <1>7 DEF OpenHeld, BeingClosed
  <2>1. d \in DOMAIN conn /\ conn[d].open /\ conn[d].started
    BY <1>4, <1>9
  <2> QED  BY <1>7, <2>1 DEF WorkInv, OpenHeld
<1>23. ExitHolds'
  <2> SUFFICES ASSUME AfterCloseAll
               PROVE  /\ ~misplaced => \A d \in DOMAIN conn' :
                           conn'[d].open /\ conn'[d].started => conn'[d].late \/ BeingClosed(d)
                      /\ conn'[n + 1].late
    BY <1>7, <1>9 DEF WorkInv, ExitHolds, AfterCloseAll, BeingClosed
  <2>1. isExit /\ conn'[n + 1].late
    BY <1>4, <1>9 DEF WorkInv, ExitHolds
  <2>2. \A d \in DOMAIN conn' : conn'[d].started => d \in DOMAIN conn /\ conn'[d] = conn[d]
    BY <1>4, <1>9
  <2> QED  BY <2>1, <2>2 DEF WorkInv, ExitHolds
<1> QED  BY <1>7, <1>10, <1>14, <1>15, <1>16, <1>18, <1>19, <1>20, <1>21, <1>22, <1>23 DEF WorkInv

LEMMA AuthenticatedKeeps ==
  ASSUME TableInv, WorkInv, Authenticated
  PROVE  TableInv' /\ WorkInv'
<1> USE DEF Authenticated
<1>1. TableInv'
  BY TableSame
<1>2. /\ creation'.at = "handshake" /\ creation'.port = creation.port
      /\ WorkType' /\ Creating' /\ Creating
  BY DEF WorkInv, WorkType, Creating, past
<1>3. LockHolds' /\ CreatingHolds'
  BY <1>2 DEF WorkInv, LockHolds, CreatingHolds, Free, table
<1>4. StartedFirst' /\ OnceAgain' /\ OnePerPort' /\ StartAhead' /\ ClosedFirst'
  BY DEF WorkInv, StartedFirst, OnceAgain, OnePerPort, StartAhead, ClosedFirst, Working, table
<1>5. SliceStarted' /\ OpenHeld'
  BY <1>2 DEF WorkInv, SliceStarted, OpenHeld, BeingClosed, table, past
<1>6. ExitHolds'
  BY <1>2 DEF WorkInv, ExitHolds, AfterCloseAll, BeingClosed, table
<1> QED  BY <1>1, <1>2, <1>3, <1>4, <1>5, <1>6 DEF WorkInv

\* The connection that was being made is at work; who made it goes on.
LEMMA HandshakeDoneKeeps ==
  ASSUME TableInv, WorkInv, SessionType, HandshakeDone
  PROVE  TableInv' /\ WorkInv'
<1> USE DEF HandshakeDone
<1>1. PICK n \in Nat : n = Len(conn) /\ DOMAIN conn = 1 .. n
  BY InConns
<1>2. PICK p \in Ports : p = creation.port
  BY Creator
<1>3. PICK a : a = connMux
  OBVIOUS
<1>4. Creating /\ creation.at # "no"
  BY DEF Creating
<1>5. /\ n \in DOMAIN conn /\ n \in Conns /\ conn[n] \in Conn /\ ~conn[n].started
      /\ connectionsMap[p] = n /\ p \in InMap /\ conn[n].port = p
  <2>1. conn # <<>> /\ connectionsMap[p] = n /\ ~conn[n].started
    BY <1>1, <1>2, <1>4 DEF WorkInv, CreatingHolds
  <2>2. n \in DOMAIN conn
    BY <1>1, <2>1 DEF TableInv, TableType
  <2>3. n # None
    BY <1>1, Sizes
  <2>4. p \in InMap
    BY <1>2, <2>1, <2>3 DEF InMap
  <2> QED  BY <2>1, <2>2, <2>4, InConns, InMapHolds
<1>6. /\ a \in {Manager} \union Conns
      /\ a = Manager => manager.at = "start" /\ p = manager.port /\ a \notin Conns
      /\ a \in Conns => /\ keepalive[a].at = "create" /\ a \in Working
                        /\ a \in DOMAIN conn /\ conn[a].started /\ p = conn[a].port
      /\ \A d \in Working : /\ d \in DOMAIN conn /\ d \in Conns /\ conn[d].port \in Ports
                            /\ conn[d].port = p => d = a
  BY <1>2, <1>3, <1>4, Creator
<1>7. keepalive[n] = Off /\ receiver[n] = "off" /\ a # n
  BY <1>5, <1>6 DEF WorkInv, StartedFirst
<1>8. /\ conn' \in Seq(Conn) /\ Len(conn') = n /\ DOMAIN conn' = DOMAIN conn
      /\ conn'[n].port = p /\ conn'[n].started /\ conn'[n].late = conn[n].late
      /\ \A d \in DOMAIN conn \ {n} : conn'[d] = conn[d]
      /\ \A d \in DOMAIN conn : conn'[d].port = conn[d].port
  <2>1. PICK new : new = [conn[n] EXCEPT !.sid = sessionID, !.started = TRUE]
    OBVIOUS
  <2>2. new \in Conn /\ new.port = p /\ new.started /\ new.late = conn[n].late
    BY <1>5, <2>1 DEF Conn, SessionType
  <2>3. conn' = [conn EXCEPT ![n] = new]
    BY <1>1, <1>5, <2>1
  <2>4. conn' \in Seq(Conn) /\ Len(conn') = n /\ DOMAIN conn' = DOMAIN conn
    <3>1. conn \in Seq(Conn)
      BY DEF TableInv, TableType
    <3>2. [conn EXCEPT ![n] = new] \in Seq(Conn)
      BY <1>5, <2>2, <3>1
    <3>3. Len([conn EXCEPT ![n] = new]) = Len(conn) /\ DOMAIN [conn EXCEPT ![n] = new] = DOMAIN conn
      BY <3>1
    <3> QED  BY <1>1, <2>3, <3>2, <3>3
  <2>5. conn'[n] = new /\ \A d \in DOMAIN conn \ {n} : conn'[d] = conn[d]
    BY <1>5, <2>3 DEF TableInv, TableType
  <2> QED  BY <1>5, <2>2, <2>4, <2>5
<1>9. TableInv' /\ UNCHANGED <<connections, connectionsMap, misplaced>>
  BY <1>1, <1>8, TableConn DEF table
<1>10. /\ connMux' = None /\ creation' = NoCreation
       /\ keepalive'[n].at = "run" /\ ~keepalive'[n].again
       /\ a \in Conns => keepalive'[a] = [at |-> "off", again |-> TRUE] /\ manager' = manager
       /\ \A d \in Conns \ {n, a} : keepalive'[d] = keepalive[d]
       /\ keepalive' \in [Conns -> [at : {"off", "run", "remove", "last", "stop", "closeIf",
                            "sendReset", "clear", "close", "reconnect", "create"}, again : BOOLEAN]]
  <2>1. PICK keep : keep = [keepalive EXCEPT ![n].at = "run"]
    OBVIOUS
  <2>2. /\ keep[n].at = "run" /\ ~keep[n].again
        /\ \A d \in Conns \ {n} : keep[d] = keepalive[d]
        /\ keep \in [Conns -> [at : {"off", "run", "remove", "last", "stop", "closeIf",
                       "sendReset", "clear", "close", "reconnect", "create"}, again : BOOLEAN]]
    <3>1. PICK goes : goes = [keepalive[n] EXCEPT !.at = "run"]
      OBVIOUS
    <3>2. goes \in [at : {"run"}, again : BOOLEAN] /\ goes.at = "run" /\ ~goes.again
      <4>1. PICK k : k = keepalive[n]
        OBVIOUS
      <4>2. ~k.again
        BY <1>7, <4>1 DEF Off
      <4>3. k \in [at : {"off", "run", "remove", "last", "stop", "closeIf", "sendReset", "clear",
                        "close", "reconnect", "create"}, again : BOOLEAN]
        BY <1>5, <4>1 DEF WorkInv, WorkType
      <4> QED  BY <3>1, <4>1, <4>2, <4>3
    <3>3. keep = [keepalive EXCEPT ![n] = goes]
      BY <2>1, <3>1
    <3>4. keepalive \in [Conns -> [at : {"off", "run", "remove", "last", "stop", "closeIf",
                          "sendReset", "clear", "close", "reconnect", "create"}, again : BOOLEAN]]
      BY DEF WorkInv, WorkType
    <3> QED  BY <1>5, <3>2, <3>3, <3>4
  <2>3. connMux' = None /\ creation' = NoCreation
    BY DEF Returns
  <2>4. CASE a = Manager
    <3>1. keepalive' = keep
      BY <1>1, <1>3, <2>1, <2>4 DEF Returns
    <3> QED  BY <1>6, <2>2, <2>3, <2>4, <3>1
  <2>5. CASE a # Manager
    <3>1. keepalive' = [keep EXCEPT ![a] = [at |-> "off", again |-> TRUE]] /\ manager' = manager
      BY <1>1, <1>3, <2>1, <2>5 DEF Returns, KeepaliveAfter
    <3> QED  BY <1>5, <1>6, <1>7, <2>2, <2>3, <2>5, <3>1
  <2> QED  BY <2>4, <2>5
<1>11. a = Manager =>
         /\ manager'.at \in {"up", "start"}
         /\ manager'.at = "start" => manager'.port = p + 1 /\ p + 1 \in Ports
         /\ manager'.at = "up" => manager'.port = p
  <2> SUFFICES ASSUME a = Manager
               PROVE  /\ manager'.at \in {"up", "start"}
                      /\ manager'.at = "start" => manager'.port = p + 1 /\ p + 1 \in Ports
                      /\ manager'.at = "up" => manager'.port = p
    OBVIOUS
  <2>1. manager.at = "start" /\ manager.port = p /\ p \in Nat /\ p <= MaxPort
    BY <1>6, Sizes DEF Ports
  <2>2. CASE p = MaxPort
    <3>1. manager' = [manager EXCEPT !.at = "up"]
      BY <1>3, <2>1, <2>2 DEF Returns, ManagerAfter
    <3> QED  BY <2>1, <3>1 DEF WorkInv, WorkType
  <2>3. CASE p # MaxPort
    <3>1. manager' = [manager EXCEPT !.port = p + 1]
      BY <1>3, <2>1, <2>3 DEF Returns, ManagerAfter
    <3>2. p + 1 \in Ports
      BY <2>1, <2>3, Sizes DEF Ports
    <3> QED  BY <2>1, <3>1, <3>2 DEF WorkInv, WorkType
  <2> QED  BY <2>2, <2>3
<1>12. WorkType'
  <2>1. NoCreation \in [at : {"no"}, port : Ports, tries : Nat, sid : Nat]
    BY Sizes DEF NoCreation, Ports
  <2>2. manager' \in [at : {"start", "failed", "up", "sendReset", "closeAll", "closeIf", "clear",
                            "exited", "gone"}, port : Ports]
    <3>1. CASE a = Manager
      <4>1. manager' = ManagerAfter(TRUE)
        BY <1>3, <3>1 DEF Returns
      <4>2. manager' = [manager EXCEPT !.at = "up"] \/ manager' = [manager EXCEPT !.port = @ + 1]
        BY <4>1 DEF ManagerAfter
      <4>3. manager'.port \in Ports
        BY <1>11, <3>1
      <4> QED  BY <4>2, <4>3 DEF WorkInv, WorkType
    <3>2. CASE a # Manager
      BY <1>6, <1>10, <3>2 DEF WorkInv, WorkType
    <3> QED  BY <3>1, <3>2
  <2>3. receiver' \in [Conns -> {"off", "run", "closeAll", "closeIf"}]
    BY DEF WorkInv, WorkType
  <2> QED  BY <1>10, <2>1, <2>2, <2>3 DEF WorkInv, WorkType
<1>13. /\ receiver'[n] = "run" /\ \A d \in Conns \ {n} : receiver'[d] = receiver[d]
  BY <1>1, <1>5 DEF WorkInv, WorkType
<1>14. ~Creating' /\ creation'.at = "no" /\ Free' /\ connMux' # Manager /\ connMux' \notin Conns
  BY <1>10, Sizes DEF NoCreation, Creating, Free, Conns
<1>15. LockHolds' /\ CreatingHolds'
  BY <1>14 DEF LockHolds, CreatingHolds
<1>16. StartedFirst'
  <2> SUFFICES ASSUME NEW c \in Conns, ~(c \in DOMAIN conn' /\ conn'[c].started)
               PROVE  keepalive'[c] = Off /\ receiver'[c] = "off"
    BY DEF StartedFirst
  <2>1. c # n
    BY <1>5, <1>8
  <2>2. ~(c \in DOMAIN conn /\ conn[c].started)
    BY <1>8, <2>1
  <2>3. c # a
    BY <1>6, <2>2
  <2> QED  BY <1>10, <1>13, <2>1, <2>2, <2>3 DEF WorkInv, StartedFirst
<1>17. OnceAgain'
  BY <1>6, <1>10 DEF WorkInv, OnceAgain
<1>18. /\ \A d \in Working' : d = n \/ (d \in Working /\ d # a /\ d # n /\ keepalive'[d] = keepalive[d])
       /\ n \in Working'
  BY <1>5, <1>7, <1>10 DEF Working, Off
<1>19. OnePerPort'
  <2>1. ASSUME NEW c \in Working', NEW d \in Working', conn'[c].port = conn'[d].port
        PROVE  c = d
    <3>1. CASE c = n /\ d # n
      BY <1>5, <1>6, <1>8, <1>18, <2>1, <3>1
    <3>2. CASE d = n /\ c # n
      BY <1>5, <1>6, <1>8, <1>18, <2>1, <3>2
    <3>3. CASE c # n /\ d # n
      <4>1. c \in Working /\ d \in Working /\ conn[c].port = conn[d].port
        BY <1>6, <1>8, <1>18, <2>1, <3>3
      <4> QED  BY <4>1 DEF WorkInv, OnePerPort
    <3> QED  BY <3>1, <3>2, <3>3
  <2>2. ASSUME NEW d \in Working'
        PROVE  /\ keepalive'[d].at \in {"run", "remove"} =>
                    connectionsMap[conn'[d].port] \in {None, d}
               /\ keepalive'[d].at \notin {"run", "remove"} =>
                    connectionsMap[conn'[d].port] = None
    <3>1. CASE d = n
      BY <1>5, <1>8, <1>10, <3>1
    <3>2. CASE d # n
      <4>1. d \in Working /\ d # a /\ keepalive'[d] = keepalive[d] /\ conn'[d].port = conn[d].port
        BY <1>6, <1>8, <1>18, <2>2, <3>2
      <4> QED  BY <1>3, <4>1 DEF WorkInv, OnePerPort
    <3> QED  BY <3>1, <3>2
  <2> QED  BY <1>9, <2>1, <2>2 DEF OnePerPort
<1>20. StartAhead'
  <2> SUFFICES ASSUME manager'.at = "start"
               PROVE  /\ \A c \in DOMAIN conn : conn[c].port <= manager'.port
                      /\ \A c \in Working' : conn'[c].port < manager'.port
                      /\ connectionsMap[manager'.port] = None
    BY <1>8, <1>9 DEF StartAhead
  <2>1. p \in Nat /\ \A c \in DOMAIN conn : conn[c].port \in Nat
    BY InConns, Sizes DEF Ports
  <2>2. CASE a = Manager
    <3>1. manager'.port = p + 1 /\ p + 1 \in Ports
      BY <1>11, <2>2
    <3>2. \A c \in DOMAIN conn : conn[c].port <= p
      BY <1>6, <2>2 DEF WorkInv, StartAhead
    <3>3. \A c \in DOMAIN conn : conn[c].port < p + 1
      BY <2>1, <3>2
    <3>4. \A c \in Working' : c \in DOMAIN conn
      BY <1>5, <1>6, <1>18
    <3>5. p + 1 \notin InMap
      <4> SUFFICES ASSUME p + 1 \in InMap PROVE FALSE
        OBVIOUS
      <4>1. connectionsMap[p + 1] \in DOMAIN conn /\ conn[connectionsMap[p + 1]].port = p + 1
        BY DEF TableInv, MapHolds
      <4> QED  BY <2>1, <3>3, <4>1
    <3>6. connectionsMap[p + 1] = None
      BY <3>1, <3>5 DEF InMap
    <3>7. \A c \in DOMAIN conn : conn[c].port <= p + 1
      BY <2>1, <3>3
    <3> QED  BY <1>8, <3>1, <3>3, <3>4, <3>6, <3>7
  <2>3. CASE a # Manager
    <3>1. manager' = manager /\ a \in Working /\ p = conn[a].port
      BY <1>6, <1>10, <2>3
    <3>2. /\ \A c \in DOMAIN conn : conn[c].port <= manager.port
          /\ \A c \in Working : conn[c].port < manager.port
          /\ connectionsMap[manager.port] = None
      BY <1>3, <2>3, <3>1 DEF WorkInv, StartAhead
    <3>3. \A c \in Working' : conn'[c].port < manager.port
      BY <1>6, <1>8, <1>18, <3>1, <3>2
    <3> QED  BY <3>1, <3>2, <3>3
  <2> QED  BY <2>2, <2>3
<1>21. SliceStarted'
  <2> SUFFICES ASSUME ~misplaced, NEW d \in ToSet(connections)
               PROVE  conn'[d].started \/ d \in refused
    BY <1>9 DEF SliceStarted, past
  <2>1. d \in DOMAIN conn
    BY OnlyItsPort
  <2> QED  BY <1>1, <1>8, <2>1 DEF WorkInv, SliceStarted
<1>22. \A d \in DOMAIN conn : d \in Conns
  BY InConns
<1>23. a \in Conns => ~conn[a].open /\ ~conn'[a].open
  BY <1>6, <1>7, <1>8 DEF WorkInv, ClosedFirst
<1>24. ClosedFirst'
  <2> SUFFICES ASSUME NEW d \in DOMAIN conn,
                      keepalive'[d].at \in {"reconnect", "create"} \/ keepalive'[d].again
               PROVE  ~conn'[d].open
    BY <1>8 DEF ClosedFirst
  <2>1. d # n /\ d \in Conns
    BY <1>10, <1>22
  <2>2. CASE d = a
    BY <1>23, <2>1, <2>2
  <2>3. CASE d # a
    BY <1>8, <1>10, <2>1, <2>3 DEF WorkInv, ClosedFirst
  <2> QED  BY <2>2, <2>3
<1>25. OpenHeld'
  <2> SUFFICES ASSUME ~misplaced, NEW d \in DOMAIN conn, conn'[d].open, conn'[d].started
               PROVE  /\ d \in ToSet(connections) \/ BeingClosed(d)'
                      /\ receiver'[d] = "off" => BeingClosed(d)'
    BY <1>8, <1>9 DEF OpenHeld
  <2>1. CASE d = n
    <3>1. n \in ToSet(connections)
      BY <1>5 DEF TableInv, SliceHolds
    <3> QED  BY <1>13, <2>1, <3>1
  <2>2. CASE d # n
    <3>1. d # a /\ d \in Conns /\ conn'[d] = conn[d]
      BY <1>8, <1>22, <1>23, <2>2
    <3>2. keepalive'[d] = keepalive[d] /\ receiver'[d] = receiver[d]
      BY <1>10, <1>13, <2>2, <3>1
    <3> QED  BY <3>1, <3>2 DEF WorkInv, OpenHeld, BeingClosed
  <2> QED  BY <2>1, <2>2
<1>26. ExitHolds'
  <2>1. manager'.at \in {"sendReset", "closeAll"} \/ AfterCloseAll' => manager' = manager
    BY <1>6, <1>10, <1>11 DEF AfterCloseAll
  <2>2. manager'.at \in {"sendReset", "closeAll"} \/ AfterCloseAll' => isExit'
    BY <2>1 DEF WorkInv, ExitHolds, AfterCloseAll
  <2>3. ASSUME AfterCloseAll', ~misplaced, NEW d \in DOMAIN conn, conn'[d].open, conn'[d].started
        PROVE  conn'[d].late \/ BeingClosed(d)'
    <3>1. AfterCloseAll
      BY <2>1, <2>3 DEF AfterCloseAll
    <3>2. CASE d = n
      BY <1>1, <1>4, <1>8, <3>1, <3>2 DEF WorkInv, ExitHolds
    <3>3. CASE d # n
      <4>1. d # a /\ d \in Conns /\ conn'[d] = conn[d]
        BY <1>8, <1>22, <1>23, <2>3, <3>3
      <4>2. keepalive'[d] = keepalive[d]
        BY <1>10, <3>3, <4>1
      <4> QED  BY <2>3, <3>1, <4>1, <4>2 DEF WorkInv, ExitHolds, BeingClosed
    <3> QED  BY <3>2, <3>3
  <2> QED  BY <1>8, <1>9, <1>14, <2>2, <2>3 DEF ExitHolds
<1> QED  BY <1>9, <1>12, <1>15, <1>16, <1>17, <1>19, <1>20, <1>21, <1>24, <1>25, <1>26 DEF WorkInv

-----------------------------------------------------------------------------
(* The session *)

\* Nothing here touches the session or the interface, or starts to depend on them.
LEMMA SessionSame ==
  ASSUME SessionInv, UNCHANGED <<session, interfaceConn>>, isConnected /\ Ending => Ending',
         creation'.at = "handshake" => creation.at = "handshake",
         \A c \in Conns : receiver'[c] \in {"closeAll", "closeIf"} =>
                          receiver[c] \in {"closeAll", "closeIf"}
  PROVE  SessionInv'
BY DEF SessionInv, SessionType, SessionHolds, session

\* Ending is about the manager's clear and the keepalive goroutines in Stop.
LEMMA EndingKept ==
  ASSUME manager.at = "clear" => manager'.at = "clear",
         \A c \in Conns : keepalive[c].at \in {"sendReset", "clear"} =>
                          keepalive'[c].at \in {"sendReset", "clear"}
  PROVE  Ending => Ending'
BY DEF Ending

\* reset() forgets all of it; a creation under way makes it an overlap.
LEMMA ResetSessionKeeps ==
  ASSUME WorkInv, SessionInv, ResetSession, UNCHANGED <<lock, interfaceConn>>
  PROVE  SessionInv'
<1>1. /\ sessionID' = 0 /\ ~isConnected' /\ isConnected' \in BOOLEAN
      /\ sessionsGiven' = sessionsGiven
      /\ overlapped' \in BOOLEAN
      /\ ~overlapped' => ~overlapped /\ Free
  BY DEF ResetSession, Clear, SessionInv, SessionType
<1>2. ~overlapped' => creation'.at = "no"
  BY <1>1 DEF WorkInv, LockHolds, lock
<1> QED  BY <1>1, <1>2 DEF SessionInv, SessionType, SessionHolds

\* closeInterface waits for connMux; who calls it forgets the session next, or has.
LEMMA CloseInterfaceKeeps ==
  ASSUME WorkInv, SessionInv, Free, interfaceConn' = FALSE, UNCHANGED <<lock, session>>,
         Ending' \/ (~overlapped => ~isConnected),
         \A c \in Conns : receiver'[c] \in {"closeAll", "closeIf"} =>
                          receiver[c] \in {"closeAll", "closeIf"}
  PROVE  SessionInv'
<1>1. creation'.at = "no"
  BY DEF WorkInv, LockHolds, lock
<1> QED  BY <1>1 DEF SessionInv, SessionType, SessionHolds, session

LEMMA AuthenticatedSession ==
  ASSUME WorkInv, SessionInv, Authenticated
  PROVE  SessionInv'
<1> USE DEF Authenticated
<1>1. sessionID' \in Nat \ {0} /\ sessionsGiven' \in Nat
  BY DEF WorkInv, WorkType, SessionInv, SessionType
<1> QED  BY <1>1 DEF SessionInv, SessionType, SessionHolds

LEMMA HandshakeDoneSession ==
  ASSUME WorkInv, SessionInv, HandshakeDone
  PROVE  SessionInv'
<1> USE DEF HandshakeDone
<1>1. /\ overlapped' \in BOOLEAN /\ isConnected' \in BOOLEAN
      /\ ~overlapped' => ~overlapped /\ ~Closing
  BY DEF SessionInv, SessionType
<1>2. ~overlapped' => \A c \in Conns : receiver'[c] \notin {"closeAll", "closeIf"}
  BY <1>1 DEF Closing, WorkInv, WorkType
<1>3. creation'.at # "handshake"
  BY DEF Returns, NoCreation
<1> QED  BY <1>1, <1>2, <1>3 DEF SessionInv, SessionType, SessionHolds

\* createConnection fails: who waited for it was not in Stop.
LEMMA TriesAgainSession ==
  ASSUME TableInv, WorkInv, SessionInv, creation.at # "no",
         TriesAgain \/ Returns(FALSE, keepalive),
         UNCHANGED <<session, interfaceConn, receiver>>
  PROVE  SessionInv'
<1>1. CASE Returns(FALSE, keepalive)
  <2>1. creation'.at # "handshake"
    BY <1>1 DEF Returns, NoCreation
  <2>2. connMux = Manager => manager.at = "start"
    BY Creator
  <2>3. manager.at = "clear" => manager'.at = "clear"
    BY <1>1, <2>2 DEF Returns
  <2>4. ASSUME NEW c \in Conns, keepalive[c].at \in {"sendReset", "clear"}
        PROVE  keepalive'[c].at \in {"sendReset", "clear"}
    <3>1. c # connMux
      BY <2>4, Creator
    <3>2. keepalive'[c] = keepalive[c]
      BY <1>1, <3>1 DEF Returns, WorkInv, WorkType
    <3> QED  BY <2>4, <3>2
  <2>5. Ending => Ending'
    BY <2>3, <2>4, EndingKept
  <2> QED  BY <2>1, <2>5, SessionSame
<1>2. CASE TriesAgain /\ ~LastAttempt
  <2>1. creation'.at # "handshake" /\ UNCHANGED <<manager, keepalive>>
    BY <1>2 DEF TriesAgain, WorkInv, WorkType
  <2>2. Ending => Ending'
    BY <2>1, EndingKept
  <2> QED  BY <2>1, <2>2, SessionSame
<1>3. CASE TriesAgain /\ LastAttempt
  BY <1>1, <1>3 DEF TriesAgain
<1> QED  BY <1>1, <1>2, <1>3

\* A keepalive goroutine moves on and is not through with Stop.
LEMMA KeepaliveSession ==
  ASSUME WorkInv, SessionInv, NEW c \in Conns, NEW place, KeepaliveGoes(c, place),
         keepalive[c].at \in {"sendReset", "clear"} => place \in {"sendReset", "clear"},
         UNCHANGED <<session, interfaceConn, manager, receiver>>,
         creation'.at = "handshake" => creation.at = "handshake"
  PROVE  SessionInv'
<1>1. keepalive'[c].at = place /\ \A d \in Conns \ {c} : keepalive'[d] = keepalive[d]
  BY KeepaliveFields DEF WorkInv
<1>2. Ending => Ending'
  BY <1>1, EndingKept
<1> QED  BY <1>2, SessionSame

-----------------------------------------------------------------------------
(* Every step *)

\* What createConnection does.
LEMMA CreationKeeps ==
  ASSUME ClientInv, ManagerCreates \/ CreationStep
  PROVE  ClientInv'
<1> USE DEF ClientInv
<1>0. SessionType /\ TableInv /\ WorkInv /\ SessionInv
  BY DEF SessionInv
<1>1. CASE ManagerCreates
  <2>1. creation'.at # "handshake" /\ UNCHANGED <<session, interfaceConn, manager, keepalive, receiver>>
    BY <1>1 DEF ManagerCreates, Begins, NoCreation
  <2>2. SessionInv'
    BY <2>1, EndingKept, SessionSame
  <2> QED  BY <1>1, <2>2, ManagerCreatesKeeps
<1>2. CASE DialFails
  <2>1. SessionInv'
    BY <1>2, TriesAgainSession DEF DialFails
  <2> QED  BY <1>2, <2>1, DialFailsKeeps
<1>3. CASE Dial
  <2>1. creation'.at # "handshake" /\ UNCHANGED <<session, interfaceConn, manager, keepalive, receiver>>
    BY <1>3 DEF Dial, WorkInv, WorkType
  <2>2. SessionInv'
    BY <2>1, EndingKept, SessionSame
  <2> QED  BY <1>0, <1>3, <2>2, DialKeeps
<1>4. CASE AttemptFails
  <2>1. SessionInv'
    BY <1>4, TriesAgainSession DEF AttemptFails
  <2> QED  BY <1>4, <2>1, AttemptFailsKeeps
<1>5. CASE Unauthorized
  <2>1. SessionInv'
    BY <1>5, TriesAgainSession DEF Unauthorized
  <2> QED  BY <1>5, <2>1, UnauthorizedKeeps
<1>6. CASE Authenticated
  BY <1>6, AuthenticatedKeeps, AuthenticatedSession
<1>7. CASE HandshakeDone
  BY <1>0, <1>7, HandshakeDoneKeeps, HandshakeDoneSession
<1> QED  BY <1>1, <1>2, <1>3, <1>4, <1>5, <1>6, <1>7 DEF CreationStep

\* After Stop: who connects again closed its connection.
LEMMA AfterStopGoes ==
  ASSUME TableInv, WorkInv, NEW c \in Conns,
         keepalive[c].at \in {"stop", "closeIf", "sendReset", "clear"}
  PROVE  /\ AfterStop(c) \in {"off", "close"}
         /\ keepalive[c].again => AfterStop(c) = "off"
         /\ AfterStop(c) = "off" => ~conn[c].open
<1>1. c \in DOMAIN conn
  BY DEF WorkInv, StartedFirst, Off
<1> QED  BY <1>1 DEF AfterStop, WorkInv, ClosedFirst

\* The keepalive goroutine up to the connection it makes again.
LEMMA KeepaliveKeeps ==
  ASSUME ClientInv, NEW c \in Conns,
         \/ KeepaliveTimeout(c) \/ KeepaliveStops(c) \/ DisconnectStep(c)
  PROVE  ClientInv'
<1> USE DEF ClientInv
<1>1. CASE KeepaliveTimeout(c)
  <2> USE <1>1 DEF KeepaliveTimeout, shared
  <2>1. ~keepalive[c].again
    BY DEF WorkInv, OnceAgain
  <2> QED  BY <2>1, TableSame, KeepaliveMoves, KeepaliveSession DEF lock
<1>2. CASE KeepaliveStops(c)
  <2> USE <1>2 DEF KeepaliveStops, shared, past
  <2>1. ~misplaced => ~conn[c].open
    <3>1. c \in DOMAIN conn /\ conn[c].started /\ ~BeingClosed(c)
      BY DEF WorkInv, StartedFirst, Off, BeingClosed
    <3> QED  BY <3>1 DEF WorkInv, OpenHeld
  <2> QED  BY <2>1, TableSame, KeepaliveMoves, KeepaliveSession DEF lock
<1>3. CASE RemoveConnection(c)
  <2>1. KeepaliveGoes(c, "last") /\ UNCHANGED <<creation, session, interfaceConn, manager, receiver>>
    BY <1>3 DEF RemoveConnection
  <2>2. keepalive[c].at = "remove"
    BY <1>3 DEF RemoveConnection
  <2> QED  BY <1>3, <2>1, <2>2, RemoveConnectionKeeps, KeepaliveSession
<1>4. CASE WasLast(c)
  <2> USE <1>4 DEF WasLast, shared, past
  <2>1. ~keepalive[c].again
    BY DEF WorkInv, OnceAgain
  <2>2. PICK place \in {"stop", "close"} : KeepaliveGoes(c, place)
    OBVIOUS
  <2> QED  BY <2>1, <2>2, TableSame, KeepaliveMoves, KeepaliveSession DEF lock
<1>5. CASE StopTests(c)
  <2> USE <1>5 DEF StopTests, shared, past
  <2>1. PICK place \in {"closeIf", AfterStop(c)} : KeepaliveGoes(c, place)
    OBVIOUS
  <2> QED  BY <2>1, AfterStopGoes, TableSame, KeepaliveMoves, KeepaliveSession DEF lock
<1>6. CASE StopClosesInterface(c)
  <2> USE <1>6 DEF StopClosesInterface, past
  <2>1. keepalive'[c].at = "sendReset"
    BY KeepaliveFields DEF WorkInv
  <2>2. Ending'
    BY <2>1 DEF Ending
  <2>3. SessionInv'
    BY <2>2, CloseInterfaceKeeps
  <2> QED  BY <2>3, TableSame, KeepaliveMoves
<1>7. CASE StopSendsReset(c)
  BY <1>7, TableSame, KeepaliveMoves, KeepaliveSession DEF StopSendsReset, shared, past, lock
<1>8. CASE StopClears(c)
  <2> USE <1>8 DEF StopClears, past
  <2>1. SessionInv'
    BY ResetSessionKeeps
  <2> QED  BY <2>1, AfterStopGoes, TableSame, KeepaliveMoves
<1>9. CASE CloseConnection(c)
  <2>1. SessionInv'
    BY <1>9, KeepaliveSession DEF CloseConnection, lock
  <2> QED  BY <1>9, <2>1, CloseConnectionKeeps
<1>10. CASE Reconnect(c)
  <2> USE <1>10 DEF Reconnect, shared, past
  <2>1. ~conn[c].open /\ ~keepalive[c].again
    BY DEF WorkInv, StartedFirst, Off, ClosedFirst, OnceAgain
  <2>2. PICK place \in {"off", "create"} : KeepaliveGoes(c, place)
    OBVIOUS
  <2> QED  BY <2>1, <2>2, TableSame, KeepaliveMoves, KeepaliveSession DEF lock
<1>11. CASE KeepaliveCreates(c)
  <2>1. creation'.at # "handshake" /\ UNCHANGED <<session, interfaceConn, manager, keepalive, receiver>>
    BY <1>11 DEF KeepaliveCreates, Begins, NoCreation
  <2>2. SessionInv'
    BY <2>1, EndingKept, SessionSame
  <2> QED  BY <1>11, <2>2, KeepaliveCreatesKeeps
<1> QED
  BY <1>1, <1>2, <1>3, <1>4, <1>5, <1>6, <1>7, <1>8, <1>9, <1>10, <1>11 DEF DisconnectStep

\* The receive loop.
LEMMA ReceiverKeeps ==
  ASSUME ClientInv, NEW c \in Conns,
         \/ CommandReset(c) \/ ResetStep(c) \/ ReceiverEnds(c)
  PROVE  ClientInv'
<1> USE DEF ClientInv
<1>1. CASE CommandReset(c)
  <2> USE <1>1 DEF CommandReset
  <2>1. SessionInv'
    BY ResetSessionKeeps
  <2> QED  BY <2>1, TableSame, ReceiverMoves
<1>2. CASE ResetClosesAll(c)
  <2> USE <1>2 DEF ResetClosesAll, past
  <2>1. /\ receiver' \in [Conns -> {"off", "run", "closeAll", "closeIf"}]
        /\ \A d \in Conns : receiver'[d] = "off" <=> receiver[d] = "off"
        /\ \A d \in Conns : receiver'[d] \in {"closeAll", "closeIf"} =>
                            receiver[d] \in {"closeAll", "closeIf"}
    BY DEF WorkInv, WorkType
  <2>2. TableInv' /\ WorkInv'
    BY <2>1, CloseAllMoves
  <2>3. SessionInv'
    BY <2>1, EndingKept, SessionSame DEF lock
  <2> QED  BY <2>2, <2>3
<1>3. CASE ResetClosesInterface(c)
  <2> USE <1>3 DEF ResetClosesInterface, past
  <2>1. ~overlapped => ~isConnected
    BY DEF SessionInv, SessionHolds
  <2>2. \A d \in Conns : receiver'[d] \in {"closeAll", "closeIf"} =>
                         receiver[d] \in {"closeAll", "closeIf"}
    BY DEF WorkInv, WorkType
  <2>3. SessionInv'
    BY <2>1, <2>2, CloseInterfaceKeeps
  <2> QED  BY <2>3, TableSame, ReceiverMoves
<1>4. CASE ReceiverEnds(c)
  <2> USE <1>4 DEF ReceiverEnds, shared, past
  <2>1. ~misplaced /\ conn[c].open => BeingClosed(c)
    <3> SUFFICES ASSUME ~misplaced, conn[c].open PROVE BeingClosed(c)
      OBVIOUS
    <3>1. c \in DOMAIN conn /\ conn[c].started /\ connectionsMap[conn[c].port] = None
      BY DEF WorkInv, StartedFirst
    <3>2. c \notin ToSet(connections)
      BY <3>1, OnlyItsPort DEF InMap
    <3> QED  BY <3>1, <3>2 DEF WorkInv, OpenHeld
  <2>2. \A d \in Conns : receiver'[d] \in {"closeAll", "closeIf"} =>
                         receiver[d] \in {"closeAll", "closeIf"}
    BY DEF WorkInv, WorkType
  <2>3. SessionInv'
    BY <2>2, EndingKept, SessionSame DEF lock
  <2> QED  BY <2>1, <2>3, TableSame, ReceiverMoves DEF lock
<1> QED  BY <1>1, <1>2, <1>3, <1>4 DEF ResetStep

\* Exit.
LEMMA ExitKeeps ==
  ASSUME ClientInv, ExitBegins \/ ExitStep
  PROVE  ClientInv'
<1> USE DEF ClientInv
<1>1. CASE ExitBegins
  <2> USE <1>1 DEF ExitBegins, past
  <2>1. PICK place \in {"sendReset", "gone"} :
          ManagerGoes(place) /\ (place = "sendReset" => isConnected)
    OBVIOUS
  <2>2. isExit' \in BOOLEAN /\ (place = "sendReset" => isExit')
    BY <2>1 DEF SessionInv, SessionType
  <2>3. SessionInv'
    BY EndingKept, SessionSame DEF lock
  <2>4. manager.at # "start"
    OBVIOUS
  <2>5. WorkInv'
    BY <2>1, <2>2, <2>4, ManagerMoves
  <2> QED  BY <2>3, <2>5, TableSame
<1>2. CASE ExitSendsReset
  <2> USE <1>2 DEF ExitSendsReset, shared, past
  <2>1. isExit' \in BOOLEAN /\ isExit'
    BY DEF WorkInv, WorkType, ExitHolds
  <2>2. SessionInv'
    BY EndingKept, SessionSame DEF lock
  <2> QED  BY <2>1, <2>2, TableSame, ManagerMoves
<1>3. CASE ExitClosesAll
  <2> USE <1>3 DEF ExitClosesAll, past
  <2>1. receiver' \in [Conns -> {"off", "run", "closeAll", "closeIf"}]
    BY DEF WorkInv, WorkType
  <2>2. TableInv' /\ WorkInv'
    BY <2>1, CloseAllMoves
  <2>3. SessionInv'
    BY EndingKept, SessionSame DEF lock
  <2> QED  BY <2>2, <2>3
<1>4. CASE ExitClosesInterface
  <2> USE <1>4 DEF ExitClosesInterface, past
  <2>1. isExit' \in BOOLEAN /\ isExit' /\ AfterCloseAll
    BY DEF WorkInv, WorkType, ExitHolds, AfterCloseAll
  <2>2. Ending'
    BY DEF Ending, ManagerGoes, WorkInv, WorkType
  <2>3. SessionInv'
    BY <2>2, CloseInterfaceKeeps
  <2> QED  BY <2>1, <2>3, TableSame, ManagerMoves
<1>5. CASE ExitClears
  <2> USE <1>5 DEF ExitClears, past
  <2>1. isExit' \in BOOLEAN /\ isExit' /\ AfterCloseAll
    BY DEF WorkInv, WorkType, ExitHolds, AfterCloseAll
  <2>2. SessionInv'
    BY ResetSessionKeeps
  <2> QED  BY <2>1, <2>2, TableSame, ManagerMoves
<1> QED  BY <1>1, <1>2, <1>3, <1>4, <1>5 DEF ExitStep

LEMMA ClientInit == Init => ClientInv
<1> SUFFICES ASSUME Init PROVE ClientInv
  OBVIOUS
<1> USE DEF Init
<1>1. Len(connections) = 0 /\ DOMAIN connections = {} /\ ToSet(connections) = {}
      /\ Len(conn) = 0 /\ DOMAIN conn = {}
  BY DEF ToSet
<1>2. InMap = {} /\ Cardinality(InMap) = 0
  BY FS_EmptySet DEF InMap
<1>3. TableInv
  <2>1. TableType
    <3>1. connections \in Seq(Conns) /\ conn \in Seq(Conn)
      OBVIOUS
    <3>2. Len(conn) <= MaxConns
      BY <1>1, Sizes
    <3> QED  BY <3>1, <3>2 DEF TableType
  <2> QED  BY <1>1, <1>2, <2>1 DEF TableInv, MapHolds, Enough, SliceHolds
<1>4. NoCreation \in [at : {"no"}, port : Ports, tries : Nat, sid : Nat] /\ 1 \in Ports
  BY Sizes DEF NoCreation, Ports
<1>5. WorkType
  BY <1>4 DEF WorkType, Off
<1>6. creation.at = "no" /\ Free /\ connMux # Manager /\ connMux \notin Conns
  BY Sizes DEF NoCreation, Free, Conns
<1>7. Working = {}
  BY DEF Working, Off
<1>8. LockHolds /\ CreatingHolds /\ StartedFirst /\ OnceAgain /\ OnePerPort
  BY <1>6, <1>7 DEF LockHolds, CreatingHolds, Creating, StartedFirst, OnceAgain, OnePerPort, Off
<1>9. StartAhead /\ SliceStarted /\ ClosedFirst /\ OpenHeld /\ ExitHolds
  BY <1>1, <1>4, <1>7
  DEF StartAhead, SliceStarted, ClosedFirst, OpenHeld, ExitHolds, AfterCloseAll
<1>10. SessionInv
  BY <1>6 DEF SessionInv, SessionType, SessionHolds
<1> QED  BY <1>3, <1>5, <1>8, <1>9, <1>10 DEF ClientInv, WorkInv

LEMMA ClientStep == ClientInv /\ [Next]_vars => ClientInv'
<1> SUFFICES ASSUME ClientInv, [Next]_vars PROVE ClientInv'
  OBVIOUS
<1>1. CASE ManagerCreates \/ CreationStep
  BY <1>1, CreationKeeps
<1>2. CASE \E c \in Conns : KeepaliveTimeout(c) \/ KeepaliveStops(c) \/ DisconnectStep(c)
  BY <1>2, KeepaliveKeeps
<1>3. CASE \E c \in Conns : CommandReset(c) \/ ResetStep(c) \/ ReceiverEnds(c)
  BY <1>3, ReceiverKeeps
<1>4. CASE ExitBegins \/ ExitStep
  BY <1>4, ExitKeeps
<1>5. CASE UNCHANGED vars
  <2> USE <1>5 DEF vars, shared, ClientInv
  <2>1. TableInv'
    BY TableSame
  <2>2. WorkType' /\ LockHolds' /\ CreatingHolds' /\ StartedFirst' /\ OnceAgain'
    BY DEF WorkInv, WorkType, LockHolds, CreatingHolds, StartedFirst, OnceAgain, Free, Creating,
           table, lock
  <2>3. OnePerPort' /\ StartAhead' /\ SliceStarted' /\ ClosedFirst'
    BY DEF WorkInv, OnePerPort, StartAhead, SliceStarted, ClosedFirst, Working, Creating,
           table, lock, past
  <2>4. OpenHeld' /\ ExitHolds'
    BY DEF WorkInv, OpenHeld, ExitHolds, AfterCloseAll, Creating, BeingClosed, table, lock
  <2>5. SessionInv'
    BY EndingKept, SessionSame DEF lock
  <2> QED  BY <2>1, <2>2, <2>3, <2>4, <2>5 DEF WorkInv
<1> QED
  BY <1>1, <1>2, <1>3, <1>4, <1>5 DEF Next, CreationStep, DisconnectStep, ResetStep, ExitStep

-----------------------------------------------------------------------------
(* Theorems *)

\* In every reachable state createConnection, disconnect, commandReset and Exit have
\* left the slice, the map, the sockets, connMux and the session as ClientInv says.
THEOREM ClientInvariant == Spec => []ClientInv
BY ClientInit, ClientStep, PTL DEF Spec

\* getConnection finds an element below the size of the map, and as long as no removal
\* by an index of long ago went wrong, the slice holds the connections of the map, each
\* once and, when nobody creates one, each started or refused.
THEOREM ClientSliceMatches == Spec => []SliceMatches
<1>1. ClientInv => SliceMatches
  <2> SUFFICES ASSUME ClientInv PROVE SliceMatches
    OBVIOUS
  <2>1. Free => ~Creating
    BY DEF ClientInv, WorkInv, LockHolds, Creating
  <2> QED
    BY <2>1 DEF ClientInv, TableInv, WorkInv, Enough, SliceHolds, SliceStarted, SliceMatches
<1> QED  BY <1>1, ClientInvariant, PTL

\* A client that is connected has its session and its tunnel interface, but for what a
\* reset, Stop or Exit does, or did while a connection was being created.
THEOREM ClientConnectedIsWhole == Spec => []ConnectedIsWhole
<1>1. ClientInv => ConnectedIsWhole
  BY DEF ClientInv, SessionInv, SessionHolds, Ending, Closing, ConnectedIsWhole
<1> QED  BY <1>1, ClientInvariant, PTL

\* Exit leaves no connection at work but those made after it and those a misplaced
\* removal took from the slice.
THEOREM ClientExitCloses == Spec => []ExitCloses
<1>1. ClientInv => ExitCloses
  BY DEF ClientInv, WorkInv, ExitHolds, AfterCloseAll, ExitCloses
<1> QED  BY <1>1, ClientInvariant, PTL
================================================================================
