----------------------------- MODULE ServerProofs -----------------------------
(***************************************************************************)
(* Proofs about the tables of the server, for every value of the           *)
(* constants, however many clients, connections and messages at the same   *)
(* time: sessions and client2session say the same, sessions and interfaces *)
(* find each other, and what is lost with a connection.                    *)
(***************************************************************************)
EXTENDS Server, FiniteSetTheorems, WellFoundedInduction, TLAPS

Session == [client : Clients, ifName : IfNames \union {None}]
ServerConn == [session : SessionIDs, ifName : IfNames]
InterfaceConn == [session : SessionIDs, ip : Nat, conns : SUBSET [key : Keys, sid : Nat]]

\* A handler that has a session and is not done with its authentication.
Attaching == {"stream", "interface", "connection"}

\* The sessions a connection may go on with.
Held(k) == given[k] \union (IF handler[k].at \in Attaching THEN {handler[k].sid} ELSE {})

Named == {s \in SessionIDs : Live(s) /\ sessions[s].ifName # None}

TablesType ==
  /\ sessions \in [SessionIDs -> {None} \union Session]
  /\ client2session \in [Clients -> {None} \union SessionIDs]
  /\ interfaces \in [IfNames -> {None} \union InterfaceConn]
  /\ created \in 0 .. MaxSessions

KeysType ==
  /\ connections \in [Keys -> {None} \union ServerConn]
  /\ handler \in [Keys -> [at : Attaching \union {"idle", "decoded", "session", "encryptor",
                                                  "attach", "reset", "closed"},
                           sid : 0 .. MaxSessions, sc : {None} \union ServerConn,
                           ic : {None} \union IfNames]]
  /\ \A k \in Keys : handler[k].at \in {"encryptor", "attach", "reset"} => handler[k].sc # None
  /\ given \in [Keys -> SUBSET SessionIDs]
  /\ auths \in [Keys -> Nat]
  /\ request \in Clients \union {None}

-----------------------------------------------------------------------------
(* The tables *)

Agree ==
  /\ \A c \in Clients : client2session[c] # None =>
       Live(client2session[c]) /\ sessions[client2session[c]].client = c
  /\ \A s \in SessionIDs : Live(s) => s <= created /\ client2session[sessions[s].client] = s

\* A session with a name has what has that name, unless another one lost it for it.
NamesHold ==
  \A s \in Named :
    /\ s \in streams
    /\ s \notin bereft => /\ interfaces[sessions[s].ifName] # None
                          /\ interfaces[sessions[s].ifName].session = s

\* An interface is never that of a live session with another name.
OwnersKnow ==
  \A n \in Up :
    LET s == interfaces[n].session
    IN  s <= created /\ (Live(s) => sessions[s].ifName = n)

\* There are no more interfaces than names were given to sessions that live.
Room == Running => Cardinality(Up) <= Cardinality(Named)

Apart(n, m) ==
  interfaces[n].ip + 3 < interfaces[m].ip \/ interfaces[m].ip + 3 < interfaces[n].ip

AddressesApart ==
  /\ \A n, m \in Up : n # m => Apart(n, m)
  /\ \E top \in Nat : \A n \in Up : interfaces[n].ip + 3 <= top

TablesInv == TablesType /\ Agree /\ NamesHold /\ OwnersKnow /\ Room /\ AddressesApart

\* Without crossed requests every interface is that of a live session.
NoneLeft == Running /\ crossed = {} => \A n \in Up : Live(interfaces[n].session)

-----------------------------------------------------------------------------
(* A connection *)

\* Its request is there as long as it is read, and it is its own.
RequestHeld(k) ==
  k \in Reading => request # None /\ (k \notin crossed => request = Owner[k])

\* Its sessions are old ones, and its client's; none is newer than the one its client has.
HeldOwn(k) ==
  /\ Held(k) \subseteq 1 .. created
  /\ k \notin crossed => \A s \in Held(k) :
       /\ Live(s) => sessions[s].client = Owner[k]
       /\ client2session[Owner[k]] # None => s <= client2session[Owner[k]]

\* The one it has is the newest it had.
HeldOrder(k) ==
  k \notin crossed => \A s \in given[k] :
    /\ handler[k].at \in Attaching => s <= handler[k].sid
    /\ connections[k] # None => s <= connections[k].session

\* Its entry is that of a session its client was told of, with the name of the session.
EntryGiven(k) ==
  connections[k] # None =>
    LET s == connections[k].session
    IN  s \in given[k] /\ (Live(s) => sessions[s].ifName = connections[k].ifName)

\* A TCP connection authenticates once, and keeps its session.
TCPOnce(k) ==
  k \notin UDPKeys =>
    /\ handler[k].at \in Attaching \union {"decoded", "session"} =>
         auths[k] # 0 /\ connections[k] = None
    /\ auths[k] = 0 => connections[k] = None
    /\ connections[k] # None => handler[k].sid = connections[k].session

StreamThere(k) ==
  handler[k].at = "interface" => (Live(handler[k].sid) => handler[k].sid \in streams)

NameFound(k) ==
  LET s == handler[k].sid
  IN  handler[k].at = "connection" =>
        /\ handler[k].ic # None => (Live(s) => sessions[s].ifName = handler[k].ic)
        /\ handler[k].ic = None => s \in bereft

KeyInv(k) ==
  /\ RequestHeld(k) /\ HeldOwn(k) /\ HeldOrder(k) /\ EntryGiven(k) /\ TCPOnce(k)
  /\ StreamThere(k) /\ NameFound(k)

KeysInv == KeysType /\ \A k \in Keys : KeyInv(k)

ServerInv == TablesInv /\ NoneLeft /\ KeysInv /\ PanicExplained

-----------------------------------------------------------------------------
(* Least and greatest numbers *)

LEMMA LeastNatural ==
  ASSUME NEW S \in SUBSET Nat, S # {}
  PROVE  \E x \in S : \A y \in S : x <= y
<1> DEFINE R == OpToRel(<, Nat)
<1>1. IsWellFoundedOn(R, Nat)
  BY NatLessThanWellFounded
<1>2. \A x, y \in Nat : y < x => <<y, x>> \in R
  BY DEF OpToRel
<1> HIDE DEF R
<1>3. PICK x \in S : \A y \in S : ~(<<y, x>> \in R)
  BY <1>1, WFMin
<1>4. \A y \in S : x <= y
  <2> SUFFICES ASSUME NEW y \in S PROVE x <= y
    OBVIOUS
  <2>1. x \in Nat /\ y \in Nat /\ ~(y < x)
    BY <1>2, <1>3
  <2> QED  BY <2>1
<1> QED  BY <1>4

LEMMA GreatestNatural ==
  ASSUME NEW S \in SUBSET Nat, S # {}, NEW top \in Nat, \A x \in S : x <= top
  PROVE  \E x \in S : \A y \in S : x >= y
<1> DEFINE T == {n \in Nat : \A x \in S : x <= n}
<1>1. T \in SUBSET Nat /\ T # {}
  OBVIOUS
<1>2. PICK m \in T : \A n \in T : m <= n
  BY <1>1, LeastNatural
<1>3. m \in S
  <2> SUFFICES ASSUME m \notin S PROVE FALSE
    OBVIOUS
  <2>1. \A x \in S : x \in Nat /\ x < m
    OBVIOUS
  <2>2. m # 0
    <3>1. PICK x \in S : TRUE
      OBVIOUS
    <3> QED  BY <2>1, <3>1
  <2>3. m - 1 \in T
    BY <2>1, <2>2
  <2> QED  BY <1>2, <2>3
<1> QED  BY <1>3

LEMMA MaxOfBounded ==
  ASSUME NEW S \in SUBSET Nat, S # {}, NEW top \in Nat, \A x \in S : x <= top
  PROVE  Max(S) \in S /\ \A x \in S : x <= Max(S)
BY GreatestNatural DEF Max

LEMMA MinOfNaturals ==
  ASSUME NEW S \in SUBSET Nat, S # {}
  PROVE  Min(S) \in S
BY LeastNatural DEF Min

\* A new address is above all that are in use.
LEMMA TunnelIPAbove ==
  ASSUME TablesType, AddressesApart
  PROVE  TunnelIP \in Nat /\ \A n \in Up : interfaces[n].ip + 3 < TunnelIP
<1> DEFINE S == {interfaces[n].ip + 3 : n \in Up}
<1>1. S \in SUBSET Nat
  BY DEF TablesType, Up, InterfaceConn
<1>2. CASE Up = {}
  BY <1>2, ServerAssumption DEF TunnelIP, ServerAssumption
<1>3. CASE Up # {}
  <2>1. S # {}
    BY <1>3
  <2>2. PICK top \in Nat : \A x \in S : x <= top
    BY DEF AddressesApart
  <2>3. TunnelIP = Max(S) + 1
    BY <1>3 DEF TunnelIP
  <2>4. \A n \in Up : interfaces[n].ip + 3 \in S
    OBVIOUS
  <2> HIDE DEF S
  <2>5. Max(S) \in S /\ \A x \in S : x <= Max(S)
    BY <1>1, <2>1, <2>2, MaxOfBounded
  <2>6. Max(S) \in Nat /\ \A x \in S : x \in Nat
    BY <1>1, <2>5
  <2> QED  BY <2>3, <2>4, <2>5, <2>6
<1> QED  BY <1>2, <1>3

LEMMA NamesFinite ==
  /\ IsFiniteSet(Up) /\ Cardinality(Up) \in Nat
  /\ IsFiniteSet(Named) /\ Cardinality(Named) \in Nat
<1>1. IsFiniteSet(1 .. MaxSessions)
  BY FS_Interval, ServerAssumption DEF ServerAssumption
<1> QED  BY <1>1, FS_Subset, FS_CardinalityType DEF Up, Named, IfNames, SessionIDs

\* A session that has no name finds one that is free.
LEMMA FreeNameIsFree ==
  ASSUME Room, Running, NEW s \in SessionIDs \ Named
  PROVE  FreeName \in IfNames \ Up
<1>1. MaxSessions \in Nat
  BY ServerAssumption DEF ServerAssumption
<1>2. IsFiniteSet(SessionIDs) /\ Cardinality(SessionIDs) = MaxSessions
      /\ Cardinality(IfNames) = MaxSessions
  BY <1>1, FS_Interval DEF SessionIDs, IfNames
<1>3. Cardinality(SessionIDs \ {s}) = MaxSessions - 1 /\ IsFiniteSet(SessionIDs \ {s})
  BY <1>2, FS_RemoveElement
<1>4. Named \subseteq SessionIDs \ {s}
  BY DEF Named
<1>5. Cardinality(Named) <= MaxSessions - 1
  BY <1>3, <1>4, FS_Subset
<1>6. IfNames \ Up # {}
  <2> SUFFICES ASSUME IfNames \subseteq Up PROVE FALSE
    OBVIOUS
  <2>1. Up = IfNames
    BY DEF Up
  <2>2. Cardinality(Up) = MaxSessions
    BY <1>2, <2>1
  <2> QED  BY <1>1, <1>5, <2>2, NamesFinite DEF Room
<1>7. IfNames \ Up \in SUBSET Nat
  BY DEF IfNames
<1> QED  BY <1>6, <1>7, MinOfNaturals DEF FreeName

LEMMA NoneIsApart ==
  None \notin Session /\ None \notin ServerConn /\ None \notin InterfaceConn /\ None \notin Int
BY ServerAssumption DEF ServerAssumption, Session, ServerConn, InterfaceConn

-----------------------------------------------------------------------------
(* What the tables do to the sessions that connections hold *)

\* A session never comes back, and keeps its client and its name.
Later ==
  /\ created <= created' /\ bereft \subseteq bereft'
  /\ \A s \in 1 .. created :
       /\ Live(s)' => /\ Live(s) /\ sessions'[s].client = sessions[s].client
                      /\ sessions[s].ifName # None => sessions'[s].ifName = sessions[s].ifName
       /\ Live(s)' /\ s \in streams => s \in streams'
  /\ \A c \in Clients : client2session'[c] # None =>
       client2session'[c] = client2session[c] \/ client2session'[c] > created

LEMMA HeldKept ==
  ASSUME TablesType, TablesType', Later, crossed \subseteq crossed',
         NEW k \in Keys, HeldOwn(k), Held(k)' \subseteq Held(k)
  PROVE  HeldOwn(k)'
<1>1. Owner[k] \in Clients
  BY ServerAssumption DEF ServerAssumption
<1>2. created \in Nat /\ created' \in Nat /\ created <= created'
      /\ client2session[Owner[k]] \in {None} \union Nat
      /\ client2session'[Owner[k]] \in {None} \union Nat
  BY <1>1 DEF TablesType, SessionIDs, Later
<1>3. Held(k)' \subseteq 1 .. created' /\ Held(k)' \subseteq 1 .. created
  BY <1>2 DEF HeldOwn
<1>4. ASSUME k \notin crossed', NEW s \in Held(k)'
      PROVE  (/\ Live(s) => sessions[s].client = Owner[k]
              /\ client2session[Owner[k]] # None => s <= client2session[Owner[k]])'
  <2>1. s \in Held(k) /\ s \in 1 .. created /\ k \notin crossed
    BY <1>3, <1>4
  <2>2. /\ Live(s) => sessions[s].client = Owner[k]
        /\ client2session[Owner[k]] # None => s <= client2session[Owner[k]]
    BY <2>1 DEF HeldOwn
  <2>3. Live(s)' => Live(s) /\ sessions'[s].client = sessions[s].client
    BY <2>1 DEF Later
  <2>4. client2session'[Owner[k]] # None =>
          \/ client2session'[Owner[k]] = client2session[Owner[k]]
          \/ client2session'[Owner[k]] > created
    BY <1>1 DEF Later
  <2>5. client2session'[Owner[k]] # None => s <= client2session'[Owner[k]]
    BY <1>2, <2>1, <2>2, <2>4
  <2> QED  BY <2>2, <2>3, <2>5
<1> QED  BY <1>3, <1>4 DEF HeldOwn

LEMMA EntryKept ==
  ASSUME Later, KeysType, NEW k \in Keys, HeldOwn(k), EntryGiven(k),
         connections'[k] \in {connections[k], None}, given[k] \subseteq given'[k]
  PROVE  EntryGiven(k)'
<1> SUFFICES ASSUME connections'[k] # None PROVE EntryGiven(k)'
  BY DEF EntryGiven
<1>1. connections[k] # None /\ connections'[k] = connections[k]
      /\ connections[k].ifName # None
  BY NoneIsApart DEF KeysType, ServerConn, IfNames
<1>2. PICK s : s = connections[k].session /\ s \in given[k] /\ s \in 1 .. created
               /\ (Live(s) => sessions[s].ifName = connections[k].ifName)
  BY <1>1 DEF EntryGiven, HeldOwn, Held
<1>3. Live(s)' => sessions'[s].ifName = connections[k].ifName
  BY <1>1, <1>2 DEF Later
<1> QED  BY <1>1, <1>2, <1>3 DEF EntryGiven

\* What a step leaves of a connection it is not about.
LEMMA OthersKept ==
  ASSUME TablesType, TablesType', Later, crossed \subseteq crossed', KeysType, NEW j \in Keys,
         KeyInv(j), RequestHeld(j)',
         handler'[j] = handler[j], given'[j] = given[j], auths'[j] = auths[j],
         connections'[j] \in {connections[j], None}
  PROVE  KeyInv(j)'
<1>1. Held(j)' = Held(j)
  BY DEF Held
<1>2. HeldOwn(j)'
  BY <1>1, HeldKept DEF KeyInv
<1>3. HeldOrder(j)'
  BY DEF KeyInv, HeldOrder
<1>4. EntryGiven(j)'
  BY EntryKept DEF KeyInv
<1>5. TCPOnce(j)'
  BY DEF KeyInv, TCPOnce
<1>6. handler[j].at \in Attaching => handler[j].sid \in 1 .. created
  BY DEF KeyInv, HeldOwn, Held
<1>7. StreamThere(j)'
  BY <1>6 DEF KeyInv, StreamThere, Later, Attaching
<1>8. NameFound(j)'
  <2>1. handler[j].ic \in {None} \union IfNames
    BY DEF KeysType
  <2> QED  BY <1>6, <2>1 DEF KeyInv, NameFound, Later, Attaching
<1> QED  BY <1>2, <1>3, <1>4, <1>5, <1>7, <1>8 DEF KeyInv

\* A step of connection k, put together.
LEMMA Together ==
  ASSUME ServerInv, NEW k \in Keys, Later, TablesInv', NoneLeft', PanicExplained', KeysType',
         crossed \subseteq crossed', KeyInv(k)',
         \A j \in Keys \ {k} :
           /\ RequestHeld(j)'
           /\ handler'[j] = handler[j] /\ given'[j] = given[j] /\ auths'[j] = auths[j]
           /\ connections'[j] \in {connections[j], None}
  PROVE  ServerInv'
<1>1. \A j \in Keys \ {k} : KeyInv(j)'
  BY OthersKept DEF ServerInv, TablesInv, KeysInv
<1> QED  BY <1>1 DEF ServerInv, KeysInv

\* The request, for those a step is not about.
LEMMA RequestKept ==
  ASSUME KeysInv, NEW k \in Keys, k \in Reading \/ UNCHANGED request,
         UNCHANGED request \/ HasRead(k), UNCHANGED crossed,
         \A j \in Keys \ {k} : handler'[j] = handler[j]
  PROVE  \A j \in Keys \ {k} : RequestHeld(j)'
<1> SUFFICES ASSUME NEW j \in Keys \ {k}, j \in Reading' PROVE RequestHeld(j)'
  BY DEF RequestHeld
<1>1. j \in Reading
  BY DEF Reading
<1>2. request' = request
  BY <1>1 DEF HasRead
<1> QED  BY <1>1, <1>2 DEF KeysInv, KeyInv, RequestHeld

-----------------------------------------------------------------------------
(* What happens to the tables *)

LEMMA TablesSame ==
  ASSUME TablesInv, UNCHANGED <<tables, created>>, Running' => Running
  PROVE  TablesInv' /\ Later /\ Up' = Up
<1>1. TablesType' /\ Agree' /\ NamesHold' /\ AddressesApart'
  BY DEF tables, TablesInv, TablesType, Agree, NamesHold, Named, Live, AddressesApart, Apart, Up
<1>2. OwnersKnow' /\ Room'
  BY DEF tables, TablesInv, OwnersKnow, Room, Named, Live, Up
<1>3. Later
  <2>1. created \in Nat
    BY DEF TablesInv, TablesType
  <2> QED  BY <2>1 DEF tables, Later, Live
<1>4. Up' = Up
  BY DEF tables, Up
<1> QED  BY <1>1, <1>2, <1>3, <1>4 DEF TablesInv

\* An interface is closed on behalf of session s, which is forgotten if it lives.
Loses(n, s) ==
  /\ Closed(n, s)
  /\ streams' = streams \ {s}
  /\ IF Live(s) THEN Forgets(s) ELSE UNCHANGED <<sessions, client2session>>

LEMMA LosesSessions ==
  ASSUME TablesInv, NEW n \in Up, NEW s \in 0 .. MaxSessions, Loses(n, s)
  PROVE  /\ \A t \in SessionIDs : sessions'[t] = IF t = s THEN None ELSE sessions[t]
         /\ \A t : Live(t)' <=> Live(t) /\ t # s
         /\ \A c \in Clients : client2session'[c] # None =>
              client2session'[c] = client2session[c] /\ client2session[c] # s
         /\ \A c \in Clients : client2session[c] # None /\ client2session[c] # s =>
              client2session'[c] = client2session[c]
         /\ sessions' \in [SessionIDs -> {None} \union Session]
         /\ client2session' \in [Clients -> {None} \union SessionIDs]
<1>1. CASE Live(s)
  <2>1. /\ client2session' = [client2session EXCEPT ![sessions[s].client] = None]
        /\ sessions' = [sessions EXCEPT ![s] = None]
    BY <1>1 DEF Loses, Forgets
  <2>2. s \in SessionIDs /\ sessions[s] \in Session /\ sessions[s].client \in Clients
    BY <1>1 DEF TablesInv, TablesType, Live, Session
  <2>3. sessions' \in [SessionIDs -> {None} \union Session]
        /\ client2session' \in [Clients -> {None} \union SessionIDs]
    BY <2>1, <2>2 DEF TablesInv, TablesType
  <2>4. \A t \in SessionIDs : sessions'[t] = IF t = s THEN None ELSE sessions[t]
    BY <2>1, <2>2 DEF TablesInv, TablesType
  <2>5. \A t : Live(t)' <=> Live(t) /\ t # s
    BY <2>4 DEF Live
  <2>6. \A c \in Clients : client2session'[c] # None =>
          client2session'[c] = client2session[c] /\ client2session[c] # s
    BY <2>1, <2>2 DEF TablesInv, TablesType, Agree
  <2>7. client2session[sessions[s].client] = s
    BY <1>1, <2>2 DEF TablesInv, Agree
  <2>8. \A c \in Clients : client2session[c] # None /\ client2session[c] # s =>
          client2session'[c] = client2session[c]
    BY <2>1, <2>7 DEF TablesInv, TablesType
  <2> QED  BY <2>3, <2>4, <2>5, <2>6, <2>8
<1>2. CASE ~Live(s)
  <2>1. UNCHANGED <<sessions, client2session>>
    BY <1>2 DEF Loses
  <2> QED  BY <1>2, <2>1 DEF TablesInv, TablesType, Agree, Live
<1> QED  BY <1>1, <1>2

LEMMA LosesKeeps ==
  ASSUME TablesInv, NEW n \in Up, NEW s \in 0 .. MaxSessions, Loses(n, s),
         UNCHANGED <<created, panicked>>
  PROVE  TablesInv' /\ Later /\ Up' = Up \ {n}
         /\ \A m \in Up' : interfaces'[m] = interfaces[m]
<1> USE LosesSessions
<1>1. /\ interfaces' = [interfaces EXCEPT ![n] = None]
      /\ bereft' = bereft \union ({interfaces[n].session} \ {s})
      /\ streams' = streams \ {s}
      /\ n \in IfNames
  BY DEF Loses, Closed, Up
<1>2. Up' = Up \ {n} /\ \A m \in IfNames : m # n => interfaces'[m] = interfaces[m]
  BY <1>1 DEF TablesInv, TablesType, Up
<1>3. TablesType'
  <2>1. interfaces' \in [IfNames -> {None} \union InterfaceConn]
    BY <1>1 DEF TablesInv, TablesType
  <2> QED  BY <2>1 DEF TablesInv, TablesType
<1>4. Agree'
  <2>1. ASSUME NEW c \in Clients, client2session'[c] # None
        PROVE  (Live(client2session[c]) /\ sessions[client2session[c]].client = c)'
    <3>1. PICK t : t = client2session[c] /\ client2session'[c] = t /\ t # s /\ t \in SessionIDs
                   /\ Live(t) /\ sessions[t].client = c
      BY <2>1 DEF TablesInv, TablesType, Agree
    <3>2. sessions'[t] = sessions[t]
      BY <3>1
    <3> QED  BY <3>1, <3>2
  <2>2. ASSUME NEW t \in SessionIDs, Live(t)'
        PROVE  (t <= created /\ client2session[sessions[t].client] = t)'
    <3>1. Live(t) /\ t # s /\ sessions'[t] = sessions[t]
      BY <2>2
    <3>2. t <= created /\ client2session[sessions[t].client] = t /\ sessions[t].client \in Clients
          /\ t # None
      BY <3>1, NoneIsApart DEF TablesInv, TablesType, Agree, Live, Session, SessionIDs
    <3> QED  BY <3>1, <3>2
  <2> QED  BY <2>1, <2>2 DEF Agree
<1>5. Named' = Named \ {s}
  BY DEF Named, Live
<1>6. NamesHold'
  <2> SUFFICES ASSUME NEW t \in Named'
               PROVE  (/\ t \in streams
                       /\ t \notin bereft => /\ interfaces[sessions[t].ifName] # None
                                             /\ interfaces[sessions[t].ifName].session = t)'
    BY DEF NamesHold
  <2>1. t \in Named /\ t # s /\ sessions'[t] = sessions[t] /\ t \in SessionIDs
    BY <1>5 DEF Named
  <2>2. sessions[t].ifName \in IfNames
    BY <2>1 DEF Named, TablesInv, TablesType, Live, Session
  <2>3. t \notin bereft' => sessions[t].ifName # n
    BY <1>1, <2>1 DEF TablesInv, NamesHold
  <2> QED  BY <1>1, <1>2, <2>1, <2>2, <2>3 DEF TablesInv, NamesHold
<1>7. OwnersKnow'
  <2> SUFFICES ASSUME NEW m \in Up'
               PROVE  (interfaces[m].session <= created
                       /\ (Live(interfaces[m].session) => sessions[interfaces[m].session].ifName = m))'
    BY DEF OwnersKnow
  <2>1. m \in Up /\ interfaces'[m] = interfaces[m] /\ interfaces[m].session \in SessionIDs
    BY <1>2 DEF Up, TablesInv, TablesType, InterfaceConn
  <2> QED  BY <2>1 DEF TablesInv, OwnersKnow
<1>8. Room'
  <2>1. Cardinality(Up') = Cardinality(Up) - 1
    BY <1>2, NamesFinite, FS_RemoveElement
  <2>2. Cardinality(Named \ {s}) =
          IF s \in Named THEN Cardinality(Named) - 1 ELSE Cardinality(Named)
    BY NamesFinite, FS_RemoveElement
  <2>3. Cardinality(Named') \in Nat /\ Cardinality(Named') >= Cardinality(Named) - 1
    <3>1. Cardinality(Named \ {s}) \in Nat
      BY NamesFinite, FS_RemoveElement, FS_CardinalityType
    <3>2. Cardinality(Named \ {s}) >= Cardinality(Named) - 1
      BY <2>2, NamesFinite
    <3> QED  BY <1>5, <3>1, <3>2
  <2> QED  BY <2>1, <2>3, NamesFinite DEF Room, TablesInv, Running
<1>9. AddressesApart'
  BY <1>2 DEF TablesInv, AddressesApart, Apart, Up
<1>10. Later
  <2>1. created \in Nat /\ 1 .. created \subseteq SessionIDs
    BY ServerAssumption DEF TablesInv, TablesType, SessionIDs, ServerAssumption
  <2> QED  BY <1>1, <2>1 DEF Later
<1> QED  BY <1>2, <1>3, <1>4, <1>6, <1>7, <1>8, <1>9, <1>10 DEF TablesInv, Up

\* When what is lost has the name of the session, nothing of the session is left.
LEMMA LosesLeavesNone ==
  ASSUME TablesInv, NoneLeft, NEW n \in Up, NEW s \in 0 .. MaxSessions, Loses(n, s),
         UNCHANGED <<created, panicked, crossed>>,
         crossed = {} /\ Live(s) => sessions[s].ifName = n
  PROVE  NoneLeft'
<1> SUFFICES ASSUME Running', crossed' = {}, NEW m \in Up' PROVE Live(interfaces[m].session)'
  BY DEF NoneLeft
<1>1. m \in Up /\ m # n /\ interfaces'[m] = interfaces[m]
  BY LosesKeeps
<1>2. Live(interfaces[m].session)
  BY <1>1 DEF NoneLeft, Running
<1>3. interfaces[m].session # s
  BY <1>1, <1>2 DEF TablesInv, OwnersKnow
<1> QED  BY <1>1, <1>2, <1>3, LosesSessions

\* dropSession of a session that lives
LEMMA DropSessionKeeps ==
  ASSUME TablesInv, NoneLeft, NEW s \in SessionIDs, Live(s), DropSession(s),
         UNCHANGED <<created, panicked, crossed>>
  PROVE  TablesInv' /\ Later /\ NoneLeft'
<1>1. CASE HasInterface(s)
  <2>1. PICK n \in Up : n = sessions[s].ifName
    BY <1>1 DEF HasInterface, Up, TablesInv, TablesType, Live, Session
  <2>2. Loses(n, s)
    BY <1>1, <2>1 DEF DropSession, Loses
  <2>3. s \in 0 .. MaxSessions
    BY DEF SessionIDs
  <2> QED  BY <2>1, <2>2, <2>3, LosesKeeps, LosesLeavesNone
<1>2. CASE ~HasInterface(s)
  <2>1. UNCHANGED tables
    BY <1>2 DEF DropSession
  <2>2. TablesInv' /\ Later /\ Up' = Up
    BY <2>1, TablesSame DEF Running
  <2>3. NoneLeft'
    BY <2>1, <2>2 DEF NoneLeft, tables, Live, Running
  <2> QED  BY <2>2, <2>3
<1> QED  BY <1>1, <1>2

\* createSession of a client that has none
LEMMA NewSessionKeeps ==
  ASSUME TablesInv, NEW c \in Clients, client2session[c] = None, created < MaxSessions,
         created' = created + 1,
         sessions' = [sessions EXCEPT ![NewSessionID] = [client |-> c, ifName |-> None]],
         client2session' = [client2session EXCEPT ![c] = NewSessionID],
         UNCHANGED <<interfaces, streams, bereft, panicked>>
  PROVE  /\ TablesInv' /\ Later /\ Up' = Up
         /\ \A t \in SessionIDs : t <= created => (Live(t)' <=> Live(t))
<1> DEFINE new == [client |-> c, ifName |-> None]
<1>1. PICK s \in SessionIDs : s = NewSessionID /\ s = created + 1
  BY ServerAssumption DEF NewSessionID, SessionIDs, TablesInv, TablesType, ServerAssumption
<1>2. created \in Nat /\ created' \in 0 .. MaxSessions /\ new \in Session /\ new # None
  BY NoneIsApart, ServerAssumption DEF TablesInv, TablesType, Session, ServerAssumption
<1>3. ~Live(s) /\ s # None
  BY <1>1, <1>2, NoneIsApart DEF TablesInv, Agree, SessionIDs
<1>4. /\ \A t \in SessionIDs : sessions'[t] = IF t = s THEN new ELSE sessions[t]
      /\ \A d \in Clients : client2session'[d] = IF d = c THEN s ELSE client2session[d]
  BY <1>1 DEF TablesInv, TablesType
<1>5. \A t : Live(t)' <=> Live(t) \/ t = s
  BY <1>2, <1>4 DEF Live
<1>6. TablesType'
  BY <1>1, <1>2, NoneIsApart DEF TablesInv, TablesType
<1> HIDE DEF new
<1>7. Agree'
  <2>1. new.client = c
    BY DEF new
  <2>2. \A d \in Clients : client2session'[d] # None =>
          (Live(client2session[d]) /\ sessions[client2session[d]].client = d)'
    BY <1>3, <1>4, <1>5, <2>1 DEF TablesInv, TablesType, Agree
  <2>3. ASSUME NEW t \in SessionIDs, Live(t)'
        PROVE  (t <= created /\ client2session[sessions[t].client] = t)'
    <3>1. CASE t = s
      BY <1>1, <1>2, <1>4, <2>1, <3>1
    <3>2. CASE t # s
      <4>1. Live(t) /\ t <= created /\ client2session[sessions[t].client] = t
            /\ sessions[t].client \in Clients /\ sessions'[t] = sessions[t] /\ t # None
        BY <1>4, <1>5, <2>3, <3>2, NoneIsApart
        DEF TablesInv, TablesType, Agree, Live, Session, SessionIDs
      <4> QED  BY <1>2, <1>4, <4>1 DEF SessionIDs
    <3> QED  BY <3>1, <3>2
  <2> QED  BY <2>2, <2>3 DEF Agree
<1>8. Named' = Named
  <2>1. new.ifName = None
    BY DEF new
  <2> QED  BY <1>3, <1>4, <1>5, <2>1 DEF Named
<1>9. NamesHold'
  BY <1>3, <1>4, <1>8 DEF TablesInv, NamesHold, Named
<1>10. Up' = Up
  BY DEF Up
<1>11. OwnersKnow'
  <2>1. \A n \in Up : interfaces[n].session \in SessionIDs /\ interfaces[n].session # s
    BY <1>1, <1>2 DEF TablesInv, TablesType, OwnersKnow, Up, InterfaceConn, SessionIDs
  <2> QED  BY <1>2, <1>4, <1>5, <1>10, <2>1 DEF TablesInv, OwnersKnow, SessionIDs
<1>12. Room' /\ AddressesApart'
  BY <1>8, <1>10 DEF TablesInv, Room, AddressesApart, Apart, Running
<1>13. Later
  <2>1. \A t \in 1 .. created : t \in SessionIDs /\ t # s
    BY <1>1, <1>2, ServerAssumption DEF SessionIDs, TablesInv, TablesType, ServerAssumption
  <2> QED  BY <1>1, <1>2, <1>4, <1>5, <2>1 DEF Later
<1>14. \A t \in SessionIDs : t <= created => (Live(t)' <=> Live(t))
  BY <1>1, <1>2, <1>5 DEF SessionIDs
<1> QED  BY <1>6, <1>7, <1>9, <1>10, <1>11, <1>12, <1>13, <1>14 DEF TablesInv

LEMMA NewStreamKeeps ==
  ASSUME TablesInv, NEW s, streams' = streams \union {s},
         UNCHANGED <<sessions, client2session, interfaces, bereft, created, panicked>>
  PROVE  TablesInv' /\ Later /\ Up' = Up /\ \A t : Live(t)' <=> Live(t)
<1>1. TablesType' /\ Agree' /\ NamesHold' /\ AddressesApart' /\ Up' = Up
  BY DEF TablesInv, TablesType, Agree, NamesHold, Named, Live, AddressesApart, Apart, Up
<1>2. OwnersKnow' /\ Room'
  BY DEF TablesInv, OwnersKnow, Room, Named, Live, Up, Running
<1>3. Later /\ \A t : Live(t)' <=> Live(t)
  BY DEF TablesInv, TablesType, Later, Live
<1> QED  BY <1>1, <1>2, <1>3 DEF TablesInv

\* The interface of a session that has no name yet, if it lives.
LEMMA NewInterfaceKeeps ==
  ASSUME TablesInv, Running, NEW s \in 1 .. created, ~HasName(s), Live(s) => s \in streams,
         interfaces' = [interfaces EXCEPT ![FreeName] =
                          [session |-> s, ip |-> TunnelIP, conns |-> {}]],
         IF Live(s) THEN sessions' = [sessions EXCEPT ![s].ifName = FreeName] /\ UNCHANGED panicked
         ELSE panicked' = "session" /\ UNCHANGED sessions,
         UNCHANGED <<client2session, streams, bereft, created, crossed>>
  PROVE  /\ TablesInv' /\ Later /\ FreeName \in IfNames
         /\ Live(s) => Live(s)' /\ sessions'[s].ifName = FreeName
         /\ NoneLeft => NoneLeft'
<1>1. s \in SessionIDs \ Named
  BY ServerAssumption
  DEF TablesInv, TablesType, HasName, Named, SessionIDs, ServerAssumption
<1>2. PICK f \in IfNames : f = FreeName /\ f \notin Up
  BY <1>1, FreeNameIsFree DEF TablesInv
<1>3. PICK ip \in Nat : ip = TunnelIP /\ \A n \in Up : interfaces[n].ip + 3 < ip
  BY TunnelIPAbove DEF TablesInv
<1> DEFINE new == [session |-> s, ip |-> ip, conns |-> {}]
<1>4. new \in InterfaceConn /\ new # None /\ f # None
  BY <1>1, NoneIsApart DEF InterfaceConn, IfNames
<1>5. \A n \in IfNames : interfaces'[n] = IF n = f THEN new ELSE interfaces[n]
  BY <1>2, <1>3 DEF TablesInv, TablesType
<1>6. Up' = Up \union {f}
  BY <1>4, <1>5 DEF Up
<1>7. /\ \A t : Live(t)' <=> Live(t)
      /\ \A t \in SessionIDs : Live(t) /\ t # s => sessions'[t] = sessions[t]
      /\ Live(s) => sessions'[s].client = sessions[s].client /\ sessions'[s].ifName = f
      /\ sessions' \in [SessionIDs -> {None} \union Session]
  <2>1. CASE Live(s)
    <3>1. sessions[s] \in Session
      BY <2>1, <1>1 DEF TablesInv, TablesType, Live
    <3>2. [sessions[s] EXCEPT !.ifName = f] \in Session
      BY <3>1 DEF Session
    <3>3. sessions' = [sessions EXCEPT ![s] = [sessions[s] EXCEPT !.ifName = f]]
      BY <1>2, <2>1
    <3>4. sessions'[s] = [sessions[s] EXCEPT !.ifName = f] /\ sessions'[s] # None
      BY <1>1, <3>2, <3>3, NoneIsApart DEF TablesInv, TablesType
    <3> QED  BY <1>1, <2>1, <3>1, <3>2, <3>3, <3>4 DEF TablesInv, TablesType, Live, Session
  <2>2. CASE ~Live(s)
    BY <2>2 DEF TablesInv, TablesType, Live
  <2> QED  BY <2>1, <2>2
<1>8. TablesType'
  <2>1. interfaces' \in [IfNames -> {None} \union InterfaceConn]
    BY <1>2, <1>3, <1>4 DEF TablesInv, TablesType
  <2> QED  BY <1>7, <2>1 DEF TablesInv, TablesType
<1> HIDE DEF new
<1>9. new.session = s /\ new.ip = ip
  BY DEF new
<1>10. Agree'
  <2>1. \A t \in SessionIDs : Live(t) => sessions'[t].client = sessions[t].client
    BY <1>7
  <2>2. \A c \in Clients : client2session[c] # None => client2session[c] \in SessionIDs
    BY DEF TablesInv, TablesType
  <2> QED  BY <1>7, <2>1, <2>2 DEF TablesInv, Agree
<1>11. Named' = IF Live(s) THEN Named \union {s} ELSE Named
  BY <1>1, <1>4, <1>7 DEF Named
<1>12. NamesHold'
  <2> SUFFICES ASSUME NEW t \in Named'
               PROVE  (/\ t \in streams
                       /\ t \notin bereft => /\ interfaces[sessions[t].ifName] # None
                                             /\ interfaces[sessions[t].ifName].session = t)'
    BY DEF NamesHold
  <2>1. CASE t = s
    BY <1>1, <1>2, <1>4, <1>5, <1>7, <1>9, <1>11, <2>1
  <2>2. CASE t # s
    <3>1. t \in Named /\ sessions'[t] = sessions[t] /\ sessions[t].ifName \in IfNames
      BY <1>7, <1>11, <2>2 DEF Named, TablesInv, TablesType, Live, Session
    <3>2. t \notin bereft => sessions[t].ifName # f
      BY <1>2, <3>1 DEF TablesInv, NamesHold, Up
    <3> QED  BY <1>5, <3>1, <3>2 DEF TablesInv, NamesHold
  <2> QED  BY <2>1, <2>2
<1>13. OwnersKnow'
  <2> SUFFICES ASSUME NEW m \in Up'
               PROVE  (interfaces[m].session <= created
                       /\ (Live(interfaces[m].session) => sessions[interfaces[m].session].ifName = m))'
    BY DEF OwnersKnow
  <2>1. CASE m = f
    BY <1>2, <1>5, <1>7, <1>9, <2>1
  <2>2. CASE m # f
    <3>1. m \in Up /\ interfaces'[m] = interfaces[m] /\ interfaces[m].session \in SessionIDs
          /\ m # None
      BY <1>5, <1>6, <2>2, NoneIsApart DEF Up, TablesInv, TablesType, InterfaceConn, IfNames
    <3>2. interfaces[m].session = s => ~Live(s)
      BY <1>1, <3>1 DEF TablesInv, OwnersKnow, Named
    <3> QED  BY <1>7, <3>1, <3>2 DEF TablesInv, OwnersKnow
  <2> QED  BY <2>1, <2>2
<1>14. Room'
  <2> SUFFICES ASSUME Running' PROVE Cardinality(Up') <= Cardinality(Named')
    BY DEF Room
  <2>1. Live(s)
    BY DEF Running
  <2>2. Cardinality(Up') = Cardinality(Up) + 1
    BY <1>2, <1>6, NamesFinite, FS_AddElement
  <2>3. Cardinality(Named') = Cardinality(Named) + 1
    BY <1>1, <1>11, <2>1, NamesFinite, FS_AddElement
  <2> QED  BY <2>2, <2>3, NamesFinite DEF TablesInv, Room
<1>15. AddressesApart'
  <2>1. \A n \in Up : interfaces[n].ip \in Nat /\ interfaces'[n] = interfaces[n]
    BY <1>2, <1>5 DEF Up, TablesInv, TablesType, InterfaceConn
  <2>2. \A n, m \in Up' : n # m => Apart(n, m)'
    <3> SUFFICES ASSUME NEW n \in Up', NEW m \in Up', n # m PROVE Apart(n, m)'
      OBVIOUS
    <3>1. CASE n = f
      BY <1>2, <1>3, <1>5, <1>6, <1>9, <2>1, <3>1 DEF Apart
    <3>2. CASE m = f
      BY <1>2, <1>3, <1>5, <1>6, <1>9, <2>1, <3>2 DEF Apart
    <3>3. CASE n # f /\ m # f
      BY <1>6, <2>1, <3>3 DEF TablesInv, AddressesApart, Apart
    <3> QED  BY <3>1, <3>2, <3>3
  <2>3. \A n \in Up' : interfaces'[n].ip + 3 <= ip + 3
    BY <1>2, <1>3, <1>5, <1>6, <1>9, <2>1
  <2>4. ip + 3 \in Nat
    OBVIOUS
  <2> QED  BY <2>2, <2>3, <2>4 DEF AddressesApart
<1>16. Later
  <2>1. \A t \in 1 .. created : t \in SessionIDs
    BY ServerAssumption DEF SessionIDs, TablesInv, TablesType, ServerAssumption
  <2>2. Live(s) => sessions[s].ifName = None
    BY DEF HasName
  <2> QED  BY <1>7, <2>1, <2>2 DEF Later, TablesInv, TablesType
<1>17. NoneLeft => NoneLeft'
  <2> SUFFICES ASSUME NoneLeft, Running', crossed' = {}, NEW m \in Up'
               PROVE  Live(interfaces[m].session)'
    BY DEF NoneLeft
  <2>1. Live(s)
    BY DEF Running
  <2> QED  BY <1>2, <1>5, <1>6, <1>7, <1>9, <2>1 DEF NoneLeft, Up
<1> QED  BY <1>2, <1>7, <1>8, <1>10, <1>12, <1>13, <1>14, <1>15, <1>16, <1>17 DEF TablesInv

\* Connections of an interface change.
LEMMA ConnsChange ==
  ASSUME TablesInv, NEW n \in Up, NEW conns \in SUBSET [key : Keys, sid : Nat],
         interfaces' = [interfaces EXCEPT ![n].conns = conns],
         UNCHANGED <<sessions, client2session, streams, bereft, created, panicked>>
  PROVE  TablesInv' /\ Later /\ (NoneLeft /\ UNCHANGED crossed => NoneLeft')
<1>1. n \in IfNames /\ interfaces[n] \in InterfaceConn
  BY DEF Up, TablesInv, TablesType
<1> DEFINE new == [interfaces[n] EXCEPT !.conns = conns]
<1>2. interfaces' = [interfaces EXCEPT ![n] = new] /\ new \in InterfaceConn /\ new # None
      /\ new.session = interfaces[n].session /\ new.ip = interfaces[n].ip
  BY <1>1, NoneIsApart DEF InterfaceConn
<1> HIDE DEF new
<1>3. TablesType'
  BY <1>1, <1>2 DEF TablesInv, TablesType
<1>4. Up' = Up /\ \A m \in Up : interfaces'[m].session = interfaces[m].session
                                /\ interfaces'[m].ip = interfaces[m].ip
  BY <1>1, <1>2 DEF TablesInv, TablesType, Up
<1>5. Named' = Named /\ \A t : Live(t)' <=> Live(t)
  BY DEF Named, Live
<1>6. Agree'
  BY <1>5 DEF TablesInv, Agree
<1>7. NamesHold'
  BY <1>4, <1>5 DEF TablesInv, TablesType, NamesHold, Named, Up, Live, Session
<1>8. OwnersKnow' /\ Room' /\ AddressesApart'
  BY <1>4, <1>5 DEF TablesInv, OwnersKnow, Room, AddressesApart, Apart, Running
<1>9. Later
  BY <1>5 DEF TablesInv, TablesType, Later
<1>10. NoneLeft /\ UNCHANGED crossed => NoneLeft'
  BY <1>4, <1>5 DEF NoneLeft, Running
<1> QED  BY <1>3, <1>6, <1>7, <1>8, <1>9, <1>10 DEF TablesInv

-----------------------------------------------------------------------------
(* The initial states, and each step *)

LEMMA ServerInit == Init => ServerInv
<1> SUFFICES ASSUME Init PROVE ServerInv
  OBVIOUS
<1>1. Named = {} /\ Up = {} /\ \A s : ~Live(s)
  BY DEF Init, Named, Up, Live
<1>2. TablesType
  BY ServerAssumption DEF Init, TablesType, ServerAssumption
<1>3. Agree /\ NamesHold /\ OwnersKnow /\ AddressesApart /\ NoneLeft
  BY <1>1 DEF Init, Agree, NamesHold, OwnersKnow, AddressesApart, NoneLeft
<1>4. Room
  <2>1. Cardinality(Up) = Cardinality(Named)
    BY <1>1
  <2> QED  BY <2>1, NamesFinite DEF Room
<1>5. KeysType
  BY ServerAssumption DEF Init, KeysType, Idle, ServerAssumption
<1>6. ASSUME NEW k \in Keys PROVE KeyInv(k)
  <2>1. handler[k].at = "idle" /\ given[k] = {} /\ connections[k] = None
    BY DEF Init, Idle
  <2> QED  BY <2>1 DEF KeyInv, RequestHeld, Reading, HeldOwn, Held, HeldOrder, EntryGiven,
     TCPOnce, StreamThere, NameFound, Attaching
<1>7. PanicExplained
  BY DEF Init, PanicExplained
<1> QED  BY <1>2, <1>3, <1>4, <1>5, <1>6, <1>7 DEF ServerInv, TablesInv, KeysInv

\* A panic that was not there before is one of AddConnection.
LEMMA NoPanic ==
  ASSUME panicked' # "interface"
  PROVE  PanicExplained'
BY DEF PanicExplained

LEMMA DecodeKeeps ==
  ASSUME ServerInv, NEW k \in Keys, Decode(k)
  PROVE  ServerInv'
<1>1. /\ handler[k].at = "idle" /\ request' = Owner[k]
      /\ crossed' = crossed \union {j \in Reading : Owner[j] # Owner[k]}
      /\ handler' = [handler EXCEPT ![k].at = "decoded"]
      /\ auths[k] < (IF k \in UDPKeys THEN MaxAuth ELSE 1)
      /\ auths' = [auths EXCEPT ![k] = @ + 1]
      /\ UNCHANGED <<tables, connections, panicked, created, given>> /\ Running
  BY DEF Decode, At, GoesTo
<1>2. Owner[k] \in Clients /\ Owner[k] # None
  BY ServerAssumption DEF ServerAssumption
<1>3. TablesInv' /\ Later /\ Up' = Up
  BY <1>1, TablesSame DEF ServerInv, Running
<1>4. NoneLeft'
  BY <1>1, <1>3 DEF ServerInv, NoneLeft, tables, Live, Running
<1>5. KeysType'
  BY <1>1, <1>2 DEF ServerInv, KeysInv, KeysType
<1>6. /\ handler'[k].at = "decoded" /\ handler'[k].sid = handler[k].sid
      /\ \A j \in Keys \ {k} : handler'[j] = handler[j] /\ auths'[j] = auths[j]
  BY <1>1 DEF ServerInv, KeysInv, KeysType
<1>7. \A j \in Keys \ {k} : RequestHeld(j)'
  <2> SUFFICES ASSUME NEW j \in Keys \ {k}, j \in Reading' PROVE RequestHeld(j)'
    BY DEF RequestHeld
  <2>1. j \in Reading
    BY <1>6 DEF Reading
  <2> QED  BY <1>1, <1>2, <2>1 DEF RequestHeld
<1>8. KeyInv(k)'
  <2>1. RequestHeld(k)'
    BY <1>1, <1>2 DEF RequestHeld
  <2>2. Held(k)' \subseteq Held(k)
    BY <1>1, <1>6 DEF Held, Attaching
  <2>3. HeldOwn(k)'
    BY <1>1, <1>3, <2>2, HeldKept DEF ServerInv, KeysInv, KeyInv, TablesInv
  <2>4. HeldOrder(k)' /\ StreamThere(k)' /\ NameFound(k)'
    BY <1>1, <1>6 DEF ServerInv, KeysInv, KeyInv, HeldOrder, StreamThere, NameFound, Attaching
  <2>5. EntryGiven(k)'
    BY <1>1, <1>3, EntryKept DEF ServerInv, KeysInv, KeyInv
  <2>6. TCPOnce(k)'
    <3>1. (k \notin UDPKeys => auths[k] = 0) /\ auths'[k] # 0
      BY <1>1 DEF ServerInv, KeysInv, KeysType
    <3> QED  BY <1>1, <1>6, <3>1 DEF ServerInv, KeysInv, KeyInv, TCPOnce
  <2> QED  BY <2>1, <2>3, <2>4, <2>5, <2>6 DEF KeyInv
<1>9. PanicExplained'
  BY <1>1, NoPanic DEF Running
<1> QED  BY <1>1, <1>3, <1>4, <1>5, <1>6, <1>7, <1>8, <1>9, Together

\* Its handler goes somewhere that asks nothing more of what it holds.
LEMMA MovesOn ==
  ASSUME ServerInv, NEW k \in Keys, Later, TablesInv', UNCHANGED <<crossed, auths>>,
         connections'[k] \in {connections[k], None}, given'[k] = given[k],
         handler'[k].at \notin Attaching, handler'[k].sid = handler[k].sid \/ k \in UDPKeys,
         handler'[k].at \in {"decoded", "session"} =>
           handler[k].at \in Attaching \union {"decoded", "session"},
         RequestHeld(k)'
  PROVE  KeyInv(k)'
<1>1. Held(k)' \subseteq Held(k)
  BY DEF Held
<1>2. HeldOwn(k)'
  BY <1>1, HeldKept DEF ServerInv, KeysInv, KeyInv, TablesInv
<1>3. HeldOrder(k)' /\ StreamThere(k)' /\ NameFound(k)'
  BY DEF ServerInv, KeysInv, KeyInv, HeldOrder, StreamThere, NameFound, Attaching
<1>4. EntryGiven(k)'
  BY EntryKept DEF ServerInv, KeysInv, KeyInv
<1>5. TCPOnce(k)'
  BY DEF ServerInv, KeysInv, KeyInv, TCPOnce
<1> QED  BY <1>2, <1>3, <1>4, <1>5 DEF KeyInv

LEMMA AuthenticateNewKeeps ==
  ASSUME ServerInv, NEW k \in Keys, AuthenticateNew(k)
  PROVE  ServerInv'
<1>1. /\ handler[k].at = "decoded" /\ handler' = [handler EXCEPT ![k].at = "session"]
      /\ IF client2session[request] # None THEN DropSession(client2session[request])
         ELSE UNCHANGED tables
      /\ UNCHANGED <<decoder, connections, panicked, created, auths, given>> /\ Running
  BY DEF AuthenticateNew, At, GoesTo
<1>2. k \in Reading /\ request \in Clients
  BY <1>1 DEF Reading, ServerInv, KeysInv, KeysType, KeyInv, RequestHeld
<1>3. TablesInv' /\ Later /\ NoneLeft'
  <2>1. CASE client2session[request] # None
    <3>1. client2session[request] \in SessionIDs /\ Live(client2session[request])
      BY <1>2, <2>1 DEF ServerInv, TablesInv, Agree, Live
    <3> QED  BY <1>1, <2>1, <3>1, DropSessionKeeps DEF ServerInv, decoder
  <2>2. CASE client2session[request] = None
    <3>1. TablesInv' /\ Later /\ Up' = Up
      BY <1>1, <2>2, TablesSame DEF ServerInv, Running
    <3> QED  BY <1>1, <2>2, <3>1 DEF ServerInv, NoneLeft, tables, decoder, Live, Running
  <2> QED  BY <2>1, <2>2
<1>4. KeysType'
  BY <1>1 DEF ServerInv, KeysInv, KeysType, decoder
<1>5. /\ handler'[k].at = "session" /\ handler'[k].sid = handler[k].sid
      /\ \A j \in Keys \ {k} : handler'[j] = handler[j]
  BY <1>1 DEF ServerInv, KeysInv, KeysType
<1>6. \A j \in Keys \ {k} : RequestHeld(j)'
  BY <1>1, <1>5, RequestKept DEF ServerInv, decoder
<1>7. RequestHeld(k)'
  BY <1>1, <1>2 DEF ServerInv, KeysInv, KeyInv, RequestHeld, decoder
<1>8. KeyInv(k)'
  BY <1>1, <1>3, <1>5, <1>7, MovesOn DEF decoder, Attaching
<1>9. PanicExplained'
  BY <1>1, NoPanic DEF Running
<1> QED  BY <1>1, <1>3, <1>4, <1>5, <1>6, <1>8, <1>9, Together DEF decoder

\* The handler has a session of its client: the one its client has, unless another's
\* request served it.
LEMMA TakesSession ==
  ASSUME ServerInv, NEW k \in Keys, handler[k].at \in {"decoded", "session"},
         Later, TablesInv', UNCHANGED <<connections, crossed, auths>>, given'[k] = given[k],
         NEW s \in 1 .. created', handler'[k].at = "stream", handler'[k].sid = s,
         k \notin crossed => Live(s)' /\ sessions'[s].client = Owner[k]
  PROVE  KeyInv(k)'
<1>1. created \in Nat /\ created' \in Nat /\ created <= created' /\ s \in SessionIDs
      /\ Owner[k] \in Clients /\ created' <= MaxSessions
  BY ServerAssumption DEF ServerInv, TablesInv, TablesType, Later, SessionIDs, ServerAssumption
<1>2. k \notin crossed => client2session'[Owner[k]] = s /\ s # None
  BY <1>1, NoneIsApart DEF TablesInv, Agree
<1>3. Held(k)' = given[k] \union {s} /\ given[k] \subseteq Held(k)
  BY DEF Held, Attaching
<1>4. given[k] \subseteq 1 .. created /\ given[k] \subseteq 1 .. created'
  BY <1>1, <1>3 DEF ServerInv, KeysInv, KeyInv, HeldOwn
<1>5. k \notin crossed => \A t \in given[k] : t <= s
  <2> SUFFICES ASSUME k \notin crossed, NEW t \in given[k] PROVE t <= s
    OBVIOUS
  <2>1. client2session[Owner[k]] # None => t <= client2session[Owner[k]]
    BY <1>3 DEF ServerInv, KeysInv, KeyInv, HeldOwn
  <2>2. s = client2session[Owner[k]] \/ s > created
    BY <1>1, <1>2 DEF Later
  <2>3. t \in 1 .. created
    BY <1>4
  <2> QED  BY <1>1, <1>2, <2>1, <2>2, <2>3
<1>6. HeldOwn(k)'
  <2>1. Held(k)' \subseteq 1 .. created'
    BY <1>3, <1>4
  <2>2. ASSUME k \notin crossed, NEW t \in Held(k)'
        PROVE  (/\ Live(t) => sessions[t].client = Owner[k]
                /\ client2session[Owner[k]] # None => t <= client2session[Owner[k]])'
    <3>1. CASE t = s
      BY <1>1, <1>2, <2>2, <3>1 DEF SessionIDs
    <3>2. CASE t # s
      <4>1. t \in given[k] /\ t \in 1 .. created /\ t \in Held(k)
        BY <1>3, <1>4, <2>2, <3>2
      <4>2. Live(t)' => Live(t) /\ sessions'[t].client = sessions[t].client
        BY <4>1 DEF Later
      <4>3. Live(t) => sessions[t].client = Owner[k]
        BY <2>2, <4>1 DEF ServerInv, KeysInv, KeyInv, HeldOwn
      <4> QED  BY <1>2, <1>5, <2>2, <4>1, <4>2, <4>3
    <3> QED  BY <3>1, <3>2
  <2> QED  BY <2>1, <2>2 DEF HeldOwn
<1>7. HeldOrder(k)'
  BY <1>5 DEF HeldOrder, ServerInv, KeysInv, KeyInv
<1>8. EntryGiven(k)'
  BY EntryKept DEF ServerInv, KeysInv, KeyInv
<1>9. TCPOnce(k)'
  BY DEF ServerInv, KeysInv, KeyInv, TCPOnce
<1>10. RequestHeld(k)' /\ StreamThere(k)' /\ NameFound(k)'
  BY DEF RequestHeld, Reading, StreamThere, NameFound
<1> QED  BY <1>6, <1>7, <1>8, <1>9, <1>10 DEF KeyInv

LEMMA AuthenticateKnownKeeps ==
  ASSUME ServerInv, NEW k \in Keys, AuthenticateKnown(k)
  PROVE  ServerInv'
<1>1. PICK s \in UNION {given[j] : j \in {j \in Keys : Owner[j] = Owner[k]}} :
        handler' = [handler EXCEPT ![k] =
          IF Live(s) /\ sessions[s].client = request
          THEN [Idle(s) EXCEPT !.at = "stream"] ELSE [@ EXCEPT !.at = "idle"]]
  BY DEF AuthenticateKnown
<1>2. /\ handler[k].at = "decoded" /\ HasRead(k)
      /\ UNCHANGED <<tables, crossed, connections, panicked, created, auths, given>> /\ Running
  BY DEF AuthenticateKnown, At
<1>3. k \in Reading /\ request \in Clients /\ (k \notin crossed => request = Owner[k])
  BY <1>2 DEF Reading, ServerInv, KeysInv, KeysType, KeyInv, RequestHeld
<1>4. TablesInv' /\ Later /\ Up' = Up
  BY <1>2, TablesSame DEF ServerInv, Running
<1>5. NoneLeft'
  BY <1>2, <1>4 DEF ServerInv, NoneLeft, tables, Live, Running
<1>6. s \in SessionIDs /\ s \in 1 .. created
  <2>1. PICK i \in Keys : s \in given[i]
    OBVIOUS
  <2> QED  BY <2>1 DEF ServerInv, KeysInv, KeysType, KeyInv, HeldOwn, Held
<1>7. /\ \A j \in Keys \ {k} : handler'[j] = handler[j]
      /\ \/ /\ Live(s) /\ sessions[s].client = request
            /\ handler'[k].at = "stream" /\ handler'[k].sid = s
         \/ handler'[k].at = "idle" /\ handler'[k].sid = handler[k].sid
      /\ handler' \in [Keys -> [at : {"idle", "stream"} \union {handler[j].at : j \in Keys},
                                sid : 0 .. MaxSessions, sc : {None} \union ServerConn,
                                ic : {None} \union IfNames]]
  BY <1>1, <1>6 DEF ServerInv, KeysInv, KeysType, Idle, SessionIDs
<1>8. KeysType'
  BY <1>2, <1>3, <1>7 DEF ServerInv, KeysInv, KeysType, HasRead, Attaching
<1>9. \A j \in Keys \ {k} : RequestHeld(j)'
  BY <1>2, <1>3, <1>7, RequestKept DEF ServerInv
<1>10. KeyInv(k)'
  <2>1. CASE /\ Live(s) /\ sessions[s].client = request
             /\ handler'[k].at = "stream" /\ handler'[k].sid = s
    <3>1. created' = created /\ (Live(s)' <=> Live(s)) /\ sessions'[s].client = sessions[s].client
      BY <1>2 DEF tables, Live
    <3> QED  BY <1>2, <1>3, <1>4, <1>6, <2>1, <3>1, TakesSession
  <2>2. CASE handler'[k].at = "idle" /\ handler'[k].sid = handler[k].sid
    <3>1. RequestHeld(k)'
      BY <2>2 DEF RequestHeld, Reading
    <3> QED  BY <1>2, <1>4, <2>2, <3>1, MovesOn DEF Attaching
  <2> QED  BY <1>7, <2>1, <2>2
<1>11. PanicExplained'
  BY <1>2, NoPanic DEF Running
<1> QED  BY <1>2, <1>4, <1>5, <1>7, <1>8, <1>9, <1>10, <1>11, Together

LEMMA CreateSessionKeeps ==
  ASSUME ServerInv, NEW k \in Keys, CreateSession(k)
  PROVE  ServerInv'
<1>1. /\ handler[k].at = "session" /\ HasRead(k)
      /\ UNCHANGED <<crossed, interfaces, streams, bereft, connections, panicked, auths, given>>
      /\ Running
  BY DEF CreateSession, At
<1>2. PICK c \in Clients : c = request /\ (k \notin crossed => c = Owner[k])
  BY <1>1 DEF Reading, ServerInv, KeysInv, KeysType, KeyInv, RequestHeld
<1>3. k \in Reading
  BY <1>1 DEF Reading
<1>4. PICK s \in 1 .. created' :
        /\ handler' = [handler EXCEPT ![k].at = "stream", ![k].sid = s]
        /\ TablesInv' /\ Later /\ NoneLeft'
        /\ Live(s)' /\ sessions'[s].client = c
  <2>1. CASE client2session[c] # None
    <3>1. PICK s \in SessionIDs : s = client2session[c] /\ Live(s) /\ sessions[s].client = c
                                  /\ s <= created
      BY <2>1, <1>2 DEF ServerInv, TablesInv, TablesType, Agree
    <3>2. handler' = [handler EXCEPT ![k].at = "stream", ![k].sid = s]
          /\ UNCHANGED <<sessions, client2session, created>>
      BY <1>2, <2>1, <3>1 DEF CreateSession
    <3>3. UNCHANGED tables
      BY <1>1, <3>2 DEF tables
    <3>4. TablesInv' /\ Later /\ Up' = Up
      BY <1>1, <3>2, <3>3, TablesSame DEF ServerInv, Running
    <3>5. NoneLeft'
      BY <1>1, <3>3, <3>4 DEF ServerInv, NoneLeft, tables, Live, Running
    <3>6. s \in 1 .. created' /\ Live(s)' /\ sessions'[s].client = c
      BY <3>1, <3>2 DEF ServerInv, TablesInv, TablesType, SessionIDs, Live
    <3> QED  BY <3>2, <3>4, <3>5, <3>6
  <2>2. CASE client2session[c] = None
    <3>1. /\ created < MaxSessions /\ created' = created + 1
          /\ sessions' = [sessions EXCEPT ![NewSessionID] = [client |-> c, ifName |-> None]]
          /\ client2session' = [client2session EXCEPT ![c] = NewSessionID]
          /\ handler' = [handler EXCEPT ![k].at = "stream", ![k].sid = NewSessionID]
      BY <1>2, <2>2 DEF CreateSession
    <3>2. /\ TablesInv' /\ Later /\ Up' = Up
          /\ \A t \in SessionIDs : t <= created => (Live(t)' <=> Live(t))
      BY <1>1, <2>2, <3>1, NewSessionKeeps DEF ServerInv
    <3>3. PICK s \in 1 .. created' : s = NewSessionID /\ s \in SessionIDs
      BY <3>1, ServerAssumption
      DEF NewSessionID, SessionIDs, ServerInv, TablesInv, TablesType, ServerAssumption
    <3>4. sessions'[s] = [client |-> c, ifName |-> None]
      BY <3>1, <3>3 DEF ServerInv, TablesInv, TablesType
    <3>5. Live(s)' /\ sessions'[s].client = c
      <4>1. [client |-> c, ifName |-> None] \in Session
        BY DEF Session
      <4> QED  BY <3>3, <3>4, <4>1, NoneIsApart DEF Live
    <3>6. NoneLeft'
      <4> SUFFICES ASSUME Running', crossed' = {}, NEW m \in Up'
                   PROVE  Live(interfaces[m].session)'
        BY DEF NoneLeft
      <4>1. m \in Up /\ interfaces'[m] = interfaces[m] /\ interfaces[m].session \in SessionIDs
            /\ interfaces[m].session <= created /\ Live(interfaces[m].session)
        BY <1>1, <3>2 DEF ServerInv, NoneLeft, TablesInv, TablesType, OwnersKnow, InterfaceConn, Up
      <4> QED  BY <3>2, <4>1
    <3>7. handler' = [handler EXCEPT ![k].at = "stream", ![k].sid = s]
      BY <3>1, <3>3
    <3> QED  BY <3>2, <3>5, <3>6, <3>7
  <2> QED  BY <2>1, <2>2
<1>5. s \in 0 .. MaxSessions
  <2>1. created' \in 0 .. MaxSessions /\ MaxSessions \in Nat
    BY <1>4, ServerAssumption DEF TablesInv, TablesType, ServerAssumption
  <2> QED  BY <2>1
<1>6. /\ \A j \in Keys \ {k} : handler'[j] = handler[j]
      /\ handler'[k].at = "stream" /\ handler'[k].sid = s
      /\ KeysType'
  BY <1>1, <1>2, <1>4, <1>5 DEF ServerInv, KeysInv, KeysType, HasRead, Attaching
<1>7. \A j \in Keys \ {k} : RequestHeld(j)'
  BY <1>1, <1>3, <1>6, RequestKept DEF ServerInv
<1>8. KeyInv(k)'
  BY <1>1, <1>2, <1>4, <1>6, TakesSession
<1>9. PanicExplained'
  BY <1>1, NoPanic DEF Running
<1> QED  BY <1>1, <1>4, <1>6, <1>7, <1>8, <1>9, Together

\* Nothing happens to the tables.
LEMMA TablesQuiet ==
  ASSUME ServerInv, UNCHANGED <<tables, crossed, created>>, Running' => Running
  PROVE  TablesInv' /\ Later /\ NoneLeft'
<1>1. TablesInv' /\ Later /\ Up' = Up
  BY TablesSame DEF ServerInv
<1>2. NoneLeft'
  BY <1>1 DEF ServerInv, NoneLeft, tables, Live
<1> QED  BY <1>1, <1>2

\* Its handler goes on with the session it has.
LEMMA Attaches ==
  ASSUME ServerInv, NEW k \in Keys, Later, TablesInv', UNCHANGED <<connections, crossed, auths>>,
         given'[k] = given[k], handler[k].at \in Attaching, handler'[k].at \in Attaching,
         handler'[k].sid = handler[k].sid, StreamThere(k)', NameFound(k)'
  PROVE  KeyInv(k)'
<1>1. Held(k)' = Held(k)
  BY DEF Held
<1>2. HeldOwn(k)'
  BY <1>1, HeldKept DEF ServerInv, KeysInv, KeyInv, TablesInv
<1>3. HeldOrder(k)' /\ TCPOnce(k)'
  BY DEF ServerInv, KeysInv, KeyInv, HeldOrder, TCPOnce
<1>4. EntryGiven(k)'
  BY EntryKept DEF ServerInv, KeysInv, KeyInv
<1>5. RequestHeld(k)'
  BY DEF RequestHeld, Reading, Attaching
<1> QED  BY <1>2, <1>3, <1>4, <1>5 DEF KeyInv

LEMMA CreateStreamKeeps ==
  ASSUME ServerInv, NEW k \in Keys, CreateStream(k)
  PROVE  ServerInv'
<1>1. /\ handler[k].at = "stream" /\ streams' = streams \union {handler[k].sid}
      /\ handler' = [handler EXCEPT ![k].at = "interface"]
      /\ UNCHANGED <<decoder, sessions, client2session, interfaces, bereft, connections,
                     panicked, created, auths, given>>
      /\ Running
  BY DEF CreateStream, At, GoesTo
<1>2. TablesInv' /\ Later /\ Up' = Up /\ \A t : Live(t)' <=> Live(t)
  BY <1>1, NewStreamKeeps DEF ServerInv
<1>3. NoneLeft'
  BY <1>1, <1>2 DEF ServerInv, NoneLeft, Running, decoder
<1>4. /\ handler'[k].at = "interface" /\ handler'[k].sid = handler[k].sid
      /\ \A j \in Keys \ {k} : handler'[j] = handler[j]
      /\ KeysType'
  BY <1>1 DEF ServerInv, KeysInv, KeysType, Attaching, decoder
<1>5. \A j \in Keys \ {k} : RequestHeld(j)'
  BY <1>1, <1>4, RequestKept DEF ServerInv, decoder
<1>6. KeyInv(k)'
  <2>1. StreamThere(k)' /\ NameFound(k)'
    BY <1>1, <1>4 DEF StreamThere, NameFound
  <2> QED  BY <1>1, <1>2, <1>4, <2>1, Attaches DEF Attaching, decoder
<1>7. PanicExplained'
  BY <1>1, NoPanic DEF Running
<1> QED  BY <1>1, <1>2, <1>3, <1>4, <1>5, <1>6, <1>7, Together DEF decoder

LEMMA FindInterfaceKeeps ==
  ASSUME ServerInv, NEW k \in Keys, FindInterface(k)
  PROVE  ServerInv'
<1>1. PICK n : n = sessions[handler[k].sid].ifName
  OBVIOUS
<1>2. /\ handler[k].at = "interface" /\ HasName(handler[k].sid)
      /\ handler' = [handler EXCEPT ![k].at = "connection",
                                    ![k].ic = IF interfaces[n] # None THEN n ELSE None]
      /\ UNCHANGED <<tables, decoder, connections, panicked, created, auths, given>>
      /\ Running
  BY <1>1 DEF FindInterface, At
<1>3. handler[k].sid \in Named /\ n \in IfNames /\ n # None
  BY <1>1, <1>2, NoneIsApart
  DEF HasName, Named, Live, ServerInv, TablesInv, TablesType, Session, IfNames
<1>4. TablesInv' /\ Later /\ NoneLeft'
  BY <1>2, TablesQuiet DEF Running, decoder
<1>5. /\ handler'[k].at = "connection" /\ handler'[k].sid = handler[k].sid
      /\ handler'[k].ic = IF interfaces[n] # None THEN n ELSE None
      /\ \A j \in Keys \ {k} : handler'[j] = handler[j]
      /\ KeysType'
  BY <1>2, <1>3 DEF ServerInv, KeysInv, KeysType, Attaching, decoder
<1>6. \A j \in Keys \ {k} : RequestHeld(j)'
  BY <1>2, <1>5, RequestKept DEF ServerInv, decoder
<1>7. KeyInv(k)'
  <2>1. StreamThere(k)'
    BY <1>5 DEF StreamThere
  <2>2. interfaces[n] = None => handler[k].sid \in bereft
    BY <1>1, <1>3 DEF ServerInv, TablesInv, NamesHold
  <2>3. NameFound(k)'
    BY <1>1, <1>2, <1>3, <1>5, <2>2 DEF NameFound, tables
  <2> QED  BY <1>2, <1>4, <1>5, <2>1, <2>3, Attaches DEF Attaching, decoder
<1>8. PanicExplained'
  BY <1>2, NoPanic DEF Running
<1> QED  BY <1>2, <1>4, <1>5, <1>6, <1>7, <1>8, Together DEF decoder

LEMMA CreateInterfaceKeeps ==
  ASSUME ServerInv, NEW k \in Keys, CreateInterface(k)
  PROVE  ServerInv'
<1>1. PICK s, n : s = handler[k].sid /\ n = FreeName
  OBVIOUS
<1>2. /\ handler[k].at = "interface" /\ Running /\ ~HasName(s)
      /\ interfaces' = [interfaces EXCEPT ![FreeName] =
                          [session |-> s, ip |-> TunnelIP, conns |-> {}]]
      /\ IF Live(s)
         THEN sessions' = [sessions EXCEPT ![s].ifName = FreeName] /\ UNCHANGED panicked
         ELSE panicked' = "session" /\ UNCHANGED sessions
      /\ handler' = [handler EXCEPT ![k].at = "connection", ![k].ic = n]
      /\ UNCHANGED <<decoder, client2session, streams, bereft, connections, created, auths, given>>
  BY <1>1 DEF CreateInterface, At
<1>3. s \in 1 .. created /\ (Live(s) => s \in streams)
  BY <1>1, <1>2 DEF ServerInv, KeysInv, KeyInv, HeldOwn, Held, Attaching, StreamThere
<1>4. UNCHANGED <<client2session, streams, bereft, created, crossed>>
  BY <1>2 DEF decoder
<1>5. /\ TablesInv' /\ Later /\ n \in IfNames /\ NoneLeft'
      /\ Live(s) => Live(s)' /\ sessions'[s].ifName = n
  <2>1. TablesInv /\ NoneLeft
    BY DEF ServerInv
  <2> QED  BY <1>1, <1>2, <1>3, <1>4, <2>1, NewInterfaceKeeps
<1>6. /\ handler'[k].at = "connection" /\ handler'[k].sid = s /\ handler'[k].ic = n
      /\ \A j \in Keys \ {k} : handler'[j] = handler[j]
      /\ KeysType' /\ n # None
  <2>1. n # None
    BY <1>5, NoneIsApart DEF IfNames
  <2> QED  BY <1>1, <1>2, <1>5, <2>1 DEF ServerInv, KeysInv, KeysType, Attaching, decoder
<1>7. \A j \in Keys \ {k} : RequestHeld(j)'
  BY <1>2, <1>6, RequestKept DEF ServerInv, decoder
<1>8. KeyInv(k)'
  <2>1. StreamThere(k)'
    BY <1>6 DEF StreamThere
  <2>2. Live(s)' => sessions'[s].ifName = n
    BY <1>3, <1>5 DEF Later
  <2>3. NameFound(k)'
    BY <1>6, <2>2 DEF NameFound
  <2> QED  BY <1>1, <1>2, <1>4, <1>5, <1>6, <2>1, <2>3, Attaches DEF Attaching, decoder
<1>9. PanicExplained'
  BY <1>2, NoPanic DEF Running
<1> QED  BY <1>2, <1>4, <1>5, <1>6, <1>7, <1>8, <1>9, Together

\* A handler that is done.
LEMMA EndsAt ==
  ASSUME KeysType, NEW k \in Keys, Ends(k),
         connections' \in [Keys -> {None} \union ServerConn], UNCHANGED <<given, auths, request>>
  PROVE  /\ handler'[k].at = "idle"
         /\ handler'[k].sid = handler[k].sid \/ k \in UDPKeys
         /\ \A j \in Keys \ {k} : handler'[j] = handler[j]
         /\ KeysType' /\ RequestHeld(k)'
<1>1. (IF k \in UDPKeys THEN 0 ELSE handler[k].sid) \in 0 .. MaxSessions
  BY ServerAssumption DEF KeysType, ServerAssumption
<1>2. PICK sid \in 0 .. MaxSessions :
        sid = (IF k \in UDPKeys THEN 0 ELSE handler[k].sid)
        /\ handler' = [handler EXCEPT ![k] = [at |-> "idle", sid |-> sid, sc |-> None, ic |-> None]]
  BY <1>1, ServerAssumption DEF Ends, Idle, KeysType, ServerAssumption
<1>3. handler'[k] = [at |-> "idle", sid |-> sid, sc |-> None, ic |-> None]
      /\ \A j \in Keys \ {k} : handler'[j] = handler[j]
  BY <1>2 DEF KeysType
<1>4. KeysType'
  BY <1>2, <1>3 DEF KeysType
<1> QED  BY <1>2, <1>3, <1>4 DEF RequestHeld, Reading

LEMMA CreateInterfaceFailsKeeps ==
  ASSUME ServerInv, NEW k \in Keys, CreateInterfaceFails(k)
  PROVE  ServerInv'
<1>1. /\ handler[k].at = "interface" /\ Ends(k) /\ Running
      /\ UNCHANGED <<tables, decoder, connections, panicked, created, auths, given>>
  BY DEF CreateInterfaceFails, At
<1>2. TablesInv' /\ Later /\ NoneLeft'
  BY <1>1, TablesQuiet DEF Running, decoder
<1>3. /\ handler'[k].at = "idle" /\ (handler'[k].sid = handler[k].sid \/ k \in UDPKeys)
      /\ \A j \in Keys \ {k} : handler'[j] = handler[j]
      /\ KeysType' /\ RequestHeld(k)'
  BY <1>1, EndsAt DEF ServerInv, KeysInv, KeysType, decoder
<1>4. \A j \in Keys \ {k} : RequestHeld(j)'
  BY <1>1, <1>3, RequestKept DEF ServerInv, decoder
<1>5. KeyInv(k)'
  BY <1>1, <1>2, <1>3, MovesOn DEF Attaching, decoder
<1>6. PanicExplained'
  BY <1>1, NoPanic DEF Running
<1> QED  BY <1>1, <1>2, <1>3, <1>4, <1>5, <1>6, Together DEF decoder

LEMMA AddConnectionKeeps ==
  ASSUME ServerInv, NEW k \in Keys, AddConnection(k)
  PROVE  ServerInv'
<1>1. /\ handler[k].at = "connection" /\ Running
      /\ UNCHANGED <<tables, decoder, created, auths>>
  BY DEF AddConnection, At
<1>2. TablesInv' /\ Later /\ NoneLeft'
  BY <1>1, TablesQuiet DEF Running, decoder
<1>3. CASE handler[k].ic = None
  <2>1. panicked' = "interface" /\ UNCHANGED <<connections, handler, given>>
    BY <1>3 DEF AddConnection
  <2>2. KeysType'
    BY <1>1, <2>1 DEF ServerInv, KeysInv, KeysType, decoder
  <2>3. \A j \in Keys : RequestHeld(j)'
    BY <1>1, <2>1 DEF ServerInv, KeysInv, KeyInv, RequestHeld, Reading, decoder
  <2>4. KeyInv(k)'
    BY <1>1, <1>2, <2>1, <2>3, OthersKept DEF ServerInv, TablesInv, KeysInv, decoder
  <2>5. PanicExplained'
    BY <1>1, <1>3, <2>1 DEF ServerInv, KeysInv, KeyInv, NameFound, PanicExplained, tables
  <2> QED  BY <1>1, <1>2, <2>1, <2>2, <2>3, <2>4, <2>5, Together DEF decoder
<1>4. CASE handler[k].ic # None
  <2>1. PICK s, n : s = handler[k].sid /\ n = handler[k].ic
    OBVIOUS
  <2>2. /\ connections' = [j \in Keys |->
             IF j = k THEN [session |-> s, ifName |-> n]
             ELSE IF connections[j] # None /\ connections[j].session = s /\ Socket[j] = Socket[k]
             THEN None ELSE connections[j]]
        /\ given' = [given EXCEPT ![k] = @ \union {s}]
        /\ Ends(k) /\ UNCHANGED panicked
    BY <1>4, <2>1 DEF AddConnection
  <2>3. s \in Held(k) /\ s \in 1 .. created /\ s \in SessionIDs /\ n \in IfNames
    <3>1. s \in Held(k) /\ s \in 1 .. created
      BY <1>1, <2>1 DEF ServerInv, KeysInv, KeyInv, HeldOwn, Held, Attaching
    <3>2. created \in 0 .. MaxSessions /\ MaxSessions \in Nat
      BY ServerAssumption DEF ServerInv, TablesInv, TablesType, ServerAssumption
    <3>3. n \in IfNames
      BY <1>4, <2>1 DEF ServerInv, KeysInv, KeysType
    <3> QED  BY <3>1, <3>2, <3>3 DEF SessionIDs
  <2>4. [session |-> s, ifName |-> n] \in ServerConn
    BY <2>3 DEF ServerConn
  <2>5. /\ connections'[k] = [session |-> s, ifName |-> n]
        /\ \A j \in Keys \ {k} : connections'[j] \in {connections[j], None}
        /\ connections' \in [Keys -> {None} \union ServerConn]
    BY <2>2, <2>4 DEF ServerInv, KeysInv, KeysType
  <2>6. /\ given'[k] = given[k] \union {s} /\ \A j \in Keys \ {k} : given'[j] = given[j]
        /\ given' \in [Keys -> SUBSET SessionIDs]
    BY <2>2, <2>3 DEF ServerInv, KeysInv, KeysType
  <2>7. PICK sid \in 0 .. MaxSessions :
          /\ k \notin UDPKeys => sid = s
          /\ handler' = [handler EXCEPT
                           ![k] = [at |-> "idle", sid |-> sid, sc |-> None, ic |-> None]]
    <3>1. (IF k \in UDPKeys THEN 0 ELSE handler[k].sid) \in 0 .. MaxSessions
      BY ServerAssumption DEF ServerInv, KeysInv, KeysType, ServerAssumption
    <3> QED  BY <2>1, <2>2, <3>1 DEF Ends, Idle, ServerInv, KeysInv, KeysType
  <2>8. /\ handler'[k] = [at |-> "idle", sid |-> sid, sc |-> None, ic |-> None]
        /\ \A j \in Keys \ {k} : handler'[j] = handler[j]
    BY <2>7 DEF ServerInv, KeysInv, KeysType
  <2>9. KeysType'
    BY <1>1, <2>5, <2>6, <2>7, <2>8 DEF ServerInv, KeysInv, KeysType, decoder
  <2>10. \A j \in Keys \ {k} : RequestHeld(j)'
    BY <1>1, <2>8, RequestKept DEF ServerInv, decoder
  <2>11. KeyInv(k)'
    <3>1. RequestHeld(k)' /\ StreamThere(k)' /\ NameFound(k)'
      BY <2>8 DEF RequestHeld, Reading, StreamThere, NameFound
    <3>2. Held(k)' \subseteq Held(k)
      BY <2>3, <2>6, <2>8 DEF Held, Attaching
    <3>3. HeldOwn(k)'
      BY <1>1, <1>2, <3>2, HeldKept DEF ServerInv, KeysInv, KeyInv, TablesInv, decoder
    <3>4. HeldOrder(k)'
      <4> SUFFICES ASSUME k \notin crossed, NEW t \in given'[k] PROVE t <= s
        BY <1>1, <2>5, <2>8 DEF HeldOrder, decoder, Attaching
      <4>1. CASE t = s
        BY <2>3, <4>1 DEF SessionIDs
      <4>2. CASE t \in given[k]
        BY <1>1, <2>1, <4>2 DEF ServerInv, KeysInv, KeyInv, HeldOrder, Attaching
      <4> QED  BY <2>6, <4>1, <4>2
    <3>5. EntryGiven(k)'
      <4>1. Live(s)' => sessions'[s].ifName = n
        BY <1>1, <1>4, <2>1 DEF ServerInv, KeysInv, KeyInv, NameFound, tables, Live
      <4> QED  BY <2>5, <2>6, <4>1 DEF EntryGiven
    <3>6. TCPOnce(k)'
      BY <1>1, <2>5, <2>7, <2>8 DEF ServerInv, KeysInv, KeyInv, TCPOnce, Attaching
    <3> QED  BY <3>1, <3>3, <3>4, <3>5, <3>6 DEF KeyInv
  <2>12. PanicExplained'
    BY <1>1, <2>2, NoPanic DEF Running
  <2> QED  BY <1>1, <1>2, <2>5, <2>6, <2>8, <2>9, <2>10, <2>11, <2>12, Together DEF decoder
<1> QED  BY <1>3, <1>4

LEMMA HandshakeKeeps ==
  ASSUME ServerInv, NEW k \in Keys, Handshake(k)
  PROVE  ServerInv'
<1>1. PICK s \in IF k \in UDPKeys THEN given[k] ELSE {handler[k].sid} :
        handler' = [handler EXCEPT ![k].at = "encryptor", ![k].sid = s, ![k].sc = connections[k]]
  BY DEF Handshake
<1>2. /\ handler[k].at = "idle" /\ Running /\ connections[k] # None
      /\ UNCHANGED <<tables, decoder, connections, panicked, created, auths, given>>
  BY DEF Handshake, At
<1>3. s \in 0 .. MaxSessions /\ (s = handler[k].sid \/ k \in UDPKeys)
  <2>1. \A t \in SessionIDs : t \in 0 .. MaxSessions
    BY ServerAssumption DEF SessionIDs, ServerAssumption
  <2> QED  BY <2>1 DEF ServerInv, KeysInv, KeysType
<1>4. TablesInv' /\ Later /\ NoneLeft'
  BY <1>2, TablesQuiet DEF Running, decoder
<1>5. /\ handler'[k].at = "encryptor" /\ handler'[k].sid = s /\ handler'[k].sc = connections[k]
      /\ \A j \in Keys \ {k} : handler'[j] = handler[j]
      /\ KeysType'
  BY <1>1, <1>2, <1>3 DEF ServerInv, KeysInv, KeysType, decoder
<1>6. \A j \in Keys \ {k} : RequestHeld(j)'
  BY <1>2, <1>5, RequestKept DEF ServerInv, decoder
<1>7. RequestHeld(k)'
  BY <1>5 DEF RequestHeld, Reading
<1>8. KeyInv(k)'
  BY <1>2, <1>3, <1>4, <1>5, <1>7, MovesOn DEF Attaching, decoder
<1>9. PanicExplained'
  BY <1>2, NoPanic DEF Running
<1> QED  BY <1>2, <1>4, <1>5, <1>6, <1>8, <1>9, Together DEF decoder

LEMMA SetConnectionEncryptorKeeps ==
  ASSUME ServerInv, NEW k \in Keys, SetConnectionEncryptor(k)
  PROVE  ServerInv'
<1>1. /\ handler[k].at = "encryptor" /\ Running
      /\ UNCHANGED <<tables, decoder, connections, created, auths, given>>
      /\ \/ panicked' = "connection" /\ UNCHANGED handler
         \/ handler' = [handler EXCEPT ![k].at = "attach"] /\ UNCHANGED panicked
  BY DEF SetConnectionEncryptor, At, GoesTo
<1>2. TablesInv' /\ Later /\ NoneLeft'
  BY <1>1, TablesQuiet DEF Running, decoder
<1>3. /\ handler'[k].at \in {"encryptor", "attach"} /\ handler'[k].sid = handler[k].sid
      /\ \A j \in Keys \ {k} : handler'[j] = handler[j]
      /\ KeysType'
  <2>1. CASE UNCHANGED handler
    BY <1>1, <2>1 DEF ServerInv, KeysInv, KeysType, decoder
  <2>2. CASE handler' = [handler EXCEPT ![k].at = "attach"]
    BY <1>1, <2>2 DEF ServerInv, KeysInv, KeysType, decoder
  <2> QED  BY <1>1, <2>1, <2>2
<1>4. \A j \in Keys \ {k} : RequestHeld(j)'
  BY <1>1, <1>3, RequestKept DEF ServerInv, decoder
<1>5. RequestHeld(k)'
  BY <1>3 DEF RequestHeld, Reading
<1>6. KeyInv(k)'
  BY <1>1, <1>2, <1>3, <1>5, MovesOn DEF Attaching, decoder
<1>7. PanicExplained'
  BY <1>1, NoPanic DEF Running
<1> QED  BY <1>1, <1>2, <1>3, <1>4, <1>6, <1>7, Together DEF decoder

LEMMA AddInterfaceConnectionKeeps ==
  ASSUME ServerInv, NEW k \in Keys, AddInterfaceConnection(k)
  PROVE  ServerInv'
<1>1. PICK sc : sc = handler[k].sc
  OBVIOUS
<1>2. /\ handler[k].at = "attach" /\ Ends(k) /\ Running
      /\ interfaces' = IF interfaces[sc.ifName] = None THEN interfaces
                       ELSE [interfaces EXCEPT ![sc.ifName].conns = Attached(@, sc, k)]
      /\ UNCHANGED <<decoder, sessions, client2session, streams, bereft, connections, panicked,
                     created, auths, given>>
  BY <1>1 DEF AddInterfaceConnection, At
<1>3. PICK n \in IfNames : n = sc.ifName
  BY <1>1, <1>2 DEF ServerInv, KeysInv, KeysType, ServerConn
<1>4. TablesInv' /\ Later /\ NoneLeft'
  <2>1. CASE interfaces[n] = None
    <3>1. UNCHANGED <<tables, crossed, created>>
      BY <1>2, <1>3, <2>1 DEF tables, decoder
    <3> QED  BY <1>2, <3>1, TablesQuiet DEF Running
  <2>2. CASE interfaces[n] # None
    <3>1. n \in Up
      BY <2>2 DEF Up
    <3>2. PICK conns : conns = Attached(interfaces[n].conns, sc, k)
      OBVIOUS
    <3>3. conns \in SUBSET [key : Keys, sid : Nat]
      <4>1. interfaces[n].conns \in SUBSET [key : Keys, sid : Nat]
        BY <2>2 DEF ServerInv, TablesInv, TablesType, InterfaceConn
      <4>2. handler[k].sid \in Nat
        BY DEF ServerInv, KeysInv, KeysType
      <4> QED  BY <3>2, <4>1, <4>2 DEF Attached
    <3>4. interfaces' = [interfaces EXCEPT ![n].conns = conns]
      BY <1>2, <1>3, <2>2, <3>2
    <3> QED  BY <1>2, <3>1, <3>3, <3>4, ConnsChange DEF ServerInv, decoder
  <2> QED  BY <2>1, <2>2
<1>5. /\ handler'[k].at = "idle" /\ (handler'[k].sid = handler[k].sid \/ k \in UDPKeys)
      /\ \A j \in Keys \ {k} : handler'[j] = handler[j]
      /\ KeysType' /\ RequestHeld(k)'
  BY <1>2, EndsAt DEF ServerInv, KeysInv, KeysType, decoder
<1>6. \A j \in Keys \ {k} : RequestHeld(j)'
  BY <1>2, <1>5, RequestKept DEF ServerInv, decoder
<1>7. KeyInv(k)'
  BY <1>2, <1>4, <1>5, MovesOn DEF Attaching, decoder
<1>8. PanicExplained'
  BY <1>2, NoPanic DEF Running
<1> QED  BY <1>2, <1>4, <1>5, <1>6, <1>7, <1>8, Together DEF decoder

LEMMA ResetKeeps ==
  ASSUME ServerInv, NEW k \in Keys, Reset(k)
  PROVE  ServerInv'
<1>1. /\ handler[k].at = "idle" /\ Running /\ connections[k] # None
      /\ handler' = [handler EXCEPT ![k].at = "reset", ![k].sc = connections[k]]
      /\ UNCHANGED <<tables, decoder, connections, panicked, created, auths, given>>
  BY DEF Reset, At
<1>2. TablesInv' /\ Later /\ NoneLeft'
  BY <1>1, TablesQuiet DEF Running, decoder
<1>3. /\ handler'[k].at = "reset" /\ handler'[k].sid = handler[k].sid
      /\ \A j \in Keys \ {k} : handler'[j] = handler[j]
      /\ KeysType'
  BY <1>1 DEF ServerInv, KeysInv, KeysType, decoder
<1>4. \A j \in Keys \ {k} : RequestHeld(j)'
  BY <1>1, <1>3, RequestKept DEF ServerInv, decoder
<1>5. RequestHeld(k)'
  BY <1>3 DEF RequestHeld, Reading
<1>6. KeyInv(k)'
  BY <1>1, <1>2, <1>3, <1>5, MovesOn DEF Attaching, decoder
<1>7. PanicExplained'
  BY <1>1, NoPanic DEF Running
<1> QED  BY <1>1, <1>2, <1>3, <1>4, <1>6, <1>7, Together DEF decoder

LEMMA DropSessionByIDKeeps ==
  ASSUME ServerInv, NEW k \in Keys, DropSessionByID(k)
  PROVE  ServerInv'
<1>1. PICK s : s = handler[k].sc.session
  OBVIOUS
<1>2. /\ handler[k].at = "reset" /\ Ends(k) /\ Running
      /\ IF Live(s) THEN DropSession(s) ELSE UNCHANGED tables
      /\ UNCHANGED <<decoder, connections, panicked, created, auths, given>>
  BY <1>1 DEF DropSessionByID, At
<1>3. TablesInv' /\ Later /\ NoneLeft'
  <2>1. CASE Live(s)
    BY <1>2, <2>1, DropSessionKeeps DEF ServerInv, Live, decoder
  <2>2. CASE ~Live(s)
    BY <1>2, <2>2, TablesQuiet DEF Running, decoder
  <2> QED  BY <2>1, <2>2
<1>4. /\ handler'[k].at = "idle" /\ (handler'[k].sid = handler[k].sid \/ k \in UDPKeys)
      /\ \A j \in Keys \ {k} : handler'[j] = handler[j]
      /\ KeysType' /\ RequestHeld(k)'
  BY <1>2, EndsAt DEF ServerInv, KeysInv, KeysType, decoder
<1>5. \A j \in Keys \ {k} : RequestHeld(j)'
  BY <1>2, <1>4, RequestKept DEF ServerInv, decoder
<1>6. KeyInv(k)'
  BY <1>2, <1>3, <1>4, MovesOn DEF Attaching, decoder
<1>7. PanicExplained'
  BY <1>2, NoPanic DEF Running
<1> QED  BY <1>2, <1>3, <1>4, <1>5, <1>6, <1>7, Together DEF decoder

\* The entry of a connection and a live session that its client was told of over it
\* name the same interface.
LEMMA SameEntry ==
  ASSUME ServerInv, NEW k \in Keys \ crossed, connections[k] # None,
         NEW s \in given[k], Live(s)
  PROVE  s = connections[k].session /\ sessions[s].ifName = connections[k].ifName
<1>1. PICK t : t = connections[k].session /\ t \in given[k] /\ s <= t
               /\ (Live(t) => sessions[t].ifName = connections[k].ifName)
  BY DEF ServerInv, KeysInv, KeyInv, EntryGiven, HeldOrder
<1>2. s \in 1 .. created /\ t \in 1 .. created /\ created \in Nat
  BY <1>1 DEF ServerInv, KeysInv, KeyInv, HeldOwn, Held, TablesInv, TablesType
<1>3. sessions[s].client = Owner[k]
  BY DEF ServerInv, KeysInv, KeyInv, HeldOwn, Held
<1>4. client2session[Owner[k]] = s
  BY <1>3 DEF ServerInv, TablesInv, Agree, Live
<1>5. s # None
  BY <1>2, NoneIsApart
<1>6. t <= s
  BY <1>1, <1>4, <1>5 DEF ServerInv, KeysInv, KeyInv, HeldOwn, Held
<1>7. s = t
  BY <1>1, <1>2, <1>6
<1> QED  BY <1>1, <1>7

\* What the connection is removed for is its own: its interface is that of the session.
Own(k, sid) ==
  connections[k] # None /\ Live(sid) => sessions[sid].ifName = connections[k].ifName

LEMMA RemoveConnectionKeeps ==
  ASSUME ServerInv, NEW k \in Keys, NEW sid \in 0 .. MaxSessions, RemoveConnection(k, sid),
         crossed = {} => Own(k, sid), UNCHANGED <<crossed, panicked, created>>
  PROVE  /\ TablesInv' /\ Later /\ NoneLeft'
         /\ connections'[k] = None
         /\ \A j \in Keys \ {k} : connections'[j] = connections[j]
         /\ connections' \in [Keys -> {None} \union ServerConn]
<1>1. connections' = [connections EXCEPT ![k] = None]
  BY DEF RemoveConnection
<1>2. /\ connections'[k] = None
      /\ \A j \in Keys \ {k} : connections'[j] = connections[j]
      /\ connections' \in [Keys -> {None} \union ServerConn]
  BY <1>1 DEF ServerInv, KeysInv, KeysType
<1>3. TablesInv' /\ Later /\ NoneLeft'
  <2>1. CASE UNCHANGED tables
    BY <2>1, TablesQuiet DEF Running
  <2>2. CASE connections[k] # None /\ interfaces[connections[k].ifName] # None
    <3>1. PICK n \in Up : n = connections[k].ifName
      BY <2>2 DEF Up, ServerInv, KeysInv, KeysType, ServerConn
    <3>2. CASE IsLast(n, k)
      <4>1. Loses(n, sid)
        BY <2>2, <3>1, <3>2 DEF RemoveConnection, Loses
      <4>2. TablesInv' /\ Later
        BY <4>1, LosesKeeps DEF ServerInv
      <4>3. NoneLeft'
        <5>1. crossed = {} /\ Live(sid) => sessions[sid].ifName = n
          BY <2>2, <3>1 DEF Own
        <5> QED  BY <4>1, <5>1, LosesLeavesNone DEF ServerInv
      <4> QED  BY <4>2, <4>3
    <3>3. CASE ~IsLast(n, k)
      <4>1. PICK conns : conns = WithoutKey(interfaces[n].conns, k)
        OBVIOUS
      <4>2. interfaces' = [interfaces EXCEPT ![n].conns = conns]
            /\ UNCHANGED <<sessions, client2session, streams, bereft>>
        BY <2>2, <3>1, <3>3, <4>1 DEF RemoveConnection
      <4>3. conns \in SUBSET [key : Keys, sid : Nat]
        BY <4>1 DEF WithoutKey, Up, ServerInv, TablesInv, TablesType, InterfaceConn
      <4> QED  BY <4>2, <4>3, ConnsChange DEF ServerInv
    <3> QED  BY <3>2, <3>3
  <2> QED  BY <2>1, <2>2 DEF RemoveConnection
<1> QED  BY <1>2, <1>3

LEMMA TCPDisconnectKeeps ==
  ASSUME ServerInv, NEW k \in Keys, TCPDisconnect(k)
  PROVE  ServerInv' /\ Own(k, handler[k].sid)
<1>1. /\ k \notin UDPKeys /\ handler[k].at = "idle" /\ Running
      /\ RemoveConnection(k, handler[k].sid)
      /\ handler' = [handler EXCEPT ![k].at = "closed"]
      /\ UNCHANGED <<decoder, panicked, created, auths, given>>
  BY DEF TCPDisconnect, At, GoesTo
<1>2. Own(k, handler[k].sid)
  BY <1>1 DEF Own, ServerInv, KeysInv, KeyInv, TCPOnce, EntryGiven
<1>3. handler[k].sid \in 0 .. MaxSessions
  BY DEF ServerInv, KeysInv, KeysType
<1>4. /\ TablesInv' /\ Later /\ NoneLeft'
      /\ connections'[k] = None
      /\ \A j \in Keys \ {k} : connections'[j] = connections[j]
      /\ connections' \in [Keys -> {None} \union ServerConn]
  BY <1>1, <1>2, <1>3, RemoveConnectionKeeps DEF decoder
<1>5. /\ handler'[k].at = "closed" /\ handler'[k].sid = handler[k].sid
      /\ \A j \in Keys \ {k} : handler'[j] = handler[j]
      /\ KeysType'
  BY <1>1, <1>4 DEF ServerInv, KeysInv, KeysType, decoder
<1>6. \A j \in Keys \ {k} : RequestHeld(j)'
  BY <1>1, <1>5, RequestKept DEF ServerInv, decoder
<1>7. RequestHeld(k)'
  BY <1>5 DEF RequestHeld, Reading
<1>8. KeyInv(k)'
  BY <1>1, <1>4, <1>5, <1>7, MovesOn DEF Attaching, decoder
<1>9. PanicExplained'
  BY <1>1, NoPanic DEF Running
<1>10. ServerInv'
  BY <1>1, <1>4, <1>5, <1>6, <1>8, <1>9, Together DEF decoder
<1> QED  BY <1>2, <1>10

\* A connection is removed, and its handler does not know.
LEMMA RemovedKeeps ==
  ASSUME ServerInv, NEW k \in Keys, NEW sid \in 0 .. MaxSessions, Running,
         RemoveConnection(k, sid), crossed = {} => Own(k, sid),
         UNCHANGED <<decoder, handler, panicked, created, auths, given>>
  PROVE  ServerInv'
<1>1. /\ TablesInv' /\ Later /\ NoneLeft'
      /\ \A j \in Keys : connections'[j] \in {connections[j], None}
      /\ connections' \in [Keys -> {None} \union ServerConn]
  BY RemoveConnectionKeeps DEF decoder
<1>2. KeysType'
  BY <1>1 DEF ServerInv, KeysInv, KeysType, decoder
<1>3. \A j \in Keys : RequestHeld(j)'
  BY DEF ServerInv, KeysInv, KeyInv, RequestHeld, Reading, decoder
<1>4. KeyInv(k)'
  BY <1>1, <1>3, OthersKept DEF ServerInv, TablesInv, KeysInv, decoder
<1>5. PanicExplained'
  BY NoPanic DEF Running
<1> QED  BY <1>1, <1>2, <1>3, <1>4, <1>5, Together DEF decoder

LEMMA KeepaliveDisconnectKeeps ==
  ASSUME ServerInv, NEW k \in Keys, KeepaliveDisconnect(k)
  PROVE  ServerInv'
<1>1. PICK s \in given[k] : RemoveConnection(k, s)
  BY DEF KeepaliveDisconnect
<1>2. Running /\ UNCHANGED <<decoder, handler, panicked, created, auths, given>>
  BY DEF KeepaliveDisconnect
<1>3. s \in 0 .. MaxSessions
  BY DEF ServerInv, KeysInv, KeysType, SessionIDs
<1>4. crossed = {} => Own(k, s)
  BY SameEntry DEF Own
<1> QED  BY <1>1, <1>2, <1>3, <1>4, RemovedKeeps

LEMMA HeaderDisconnectKeeps ==
  ASSUME ServerInv, NEW k \in Keys, HeaderDisconnect(k)
  PROVE  ServerInv'
<1>1. /\ Running /\ RemoveConnection(k, 0)
      /\ UNCHANGED <<decoder, handler, panicked, created, auths, given>>
  BY DEF HeaderDisconnect, At
<1>2. 0 \in 0 .. MaxSessions /\ Own(k, 0)
  BY ServerAssumption DEF Own, Live, SessionIDs, ServerAssumption
<1> QED  BY <1>1, <1>2, RemovedKeeps

LEMMA ServerStep ==
  ASSUME ServerInv, [Next]_vars
  PROVE  ServerInv'
<1>1. ASSUME NEW k \in Keys, Decode(k) PROVE ServerInv'
  BY <1>1, DecodeKeeps
<1>2. ASSUME NEW k \in Keys, AuthenticateNew(k) PROVE ServerInv'
  BY <1>2, AuthenticateNewKeeps
<1>3. ASSUME NEW k \in Keys, AuthenticateKnown(k) PROVE ServerInv'
  BY <1>3, AuthenticateKnownKeeps
<1>4. ASSUME NEW k \in Keys, CreateSession(k) PROVE ServerInv'
  BY <1>4, CreateSessionKeeps
<1>5. ASSUME NEW k \in Keys, CreateStream(k) PROVE ServerInv'
  BY <1>5, CreateStreamKeeps
<1>6. ASSUME NEW k \in Keys, FindInterface(k) PROVE ServerInv'
  BY <1>6, FindInterfaceKeeps
<1>7. ASSUME NEW k \in Keys, CreateInterface(k) PROVE ServerInv'
  BY <1>7, CreateInterfaceKeeps
<1>8. ASSUME NEW k \in Keys, CreateInterfaceFails(k) PROVE ServerInv'
  BY <1>8, CreateInterfaceFailsKeeps
<1>9. ASSUME NEW k \in Keys, AddConnection(k) PROVE ServerInv'
  BY <1>9, AddConnectionKeeps
<1>10. ASSUME NEW k \in Keys, Handshake(k) PROVE ServerInv'
  BY <1>10, HandshakeKeeps
<1>11. ASSUME NEW k \in Keys, SetConnectionEncryptor(k) PROVE ServerInv'
  BY <1>11, SetConnectionEncryptorKeeps
<1>12. ASSUME NEW k \in Keys, AddInterfaceConnection(k) PROVE ServerInv'
  BY <1>12, AddInterfaceConnectionKeeps
<1>13. ASSUME NEW k \in Keys, Reset(k) PROVE ServerInv'
  BY <1>13, ResetKeeps
<1>14. ASSUME NEW k \in Keys, DropSessionByID(k) PROVE ServerInv'
  BY <1>14, DropSessionByIDKeeps
<1>15. ASSUME NEW k \in Keys, TCPDisconnect(k) PROVE ServerInv'
  BY <1>15, TCPDisconnectKeeps
<1>16. ASSUME NEW k \in Keys, KeepaliveDisconnect(k) PROVE ServerInv'
  BY <1>16, KeepaliveDisconnectKeeps
<1>17. ASSUME NEW k \in Keys, HeaderDisconnect(k) PROVE ServerInv'
  BY <1>17, HeaderDisconnectKeeps
<1>18. ASSUME UNCHANGED vars PROVE ServerInv'
  <2>1. UNCHANGED <<tables, crossed, created>> /\ (Running' => Running)
    BY <1>18 DEF vars, decoder, Running
  <2>2. TablesInv' /\ Later /\ NoneLeft'
    BY <2>1, TablesQuiet
  <2>3. KeysType'
    BY <1>18 DEF ServerInv, KeysInv, KeysType, vars, decoder
  <2>4. \A j \in Keys : KeyInv(j)'
    <3>1. \A j \in Keys : RequestHeld(j)'
      BY <1>18 DEF ServerInv, KeysInv, KeyInv, RequestHeld, Reading, vars, decoder
    <3> QED  BY <1>18, <2>2, <3>1, OthersKept
             DEF ServerInv, TablesInv, KeysInv, vars, decoder
  <2>5. PanicExplained'
    BY <1>18 DEF ServerInv, PanicExplained, vars, tables
  <2> QED  BY <2>2, <2>3, <2>4, <2>5 DEF ServerInv, KeysInv
<1> QED
  BY <1>1, <1>2, <1>3, <1>4, <1>5, <1>6, <1>7, <1>8, <1>9, <1>10, <1>11, <1>12, <1>13, <1>14,
     <1>15, <1>16, <1>17, <1>18 DEF Next

-----------------------------------------------------------------------------
(* The theorems *)

\* The tables keep to each other and to what the connections hold, however the
\* handlers of all connections take turns between their locks.
THEOREM ServerInvariant == Spec => []ServerInv
BY ServerInit, ServerStep, PTL DEF Spec

\* A client has one session and finds it, and no connection carries another
\* client's session unless their authentications crossed: createSession,
\* dropSession and removeConnection of server.sessions.go and server.connections.go,
\* for any number of clients and connections.
THEOREM ServerSessionsMatch == Spec => []SessionsMatch
<1>1. ASSUME ServerInv PROVE SessionsMatch
  <2>1. \A k \in Keys \ crossed : connections[k] # None =>
          LET s == connections[k].session
          IN  Live(s) => sessions[s].client = Owner[k]
    BY <1>1 DEF ServerInv, KeysInv, KeyInv, EntryGiven, HeldOwn, Held
  <2> QED  BY <1>1, <2>1 DEF ServerInv, TablesInv, Agree, SessionsMatch
<1> QED  BY <1>1, ServerInvariant, PTL

\* A session has the interface it names and an interface the session it is of,
\* and no two interfaces have an address in common (createInterface and
\* getTunnelIP of server.interfaces.go), for any number of sessions.
THEOREM ServerInterfacesMatch == Spec => []InterfacesMatch
<1>1. ASSUME ServerInv PROVE InterfacesMatch
  <2>1. \A s \in SessionIDs :
          Live(s) /\ s \notin bereft /\ sessions[s].ifName # None =>
            /\ interfaces[sessions[s].ifName] # None
            /\ interfaces[sessions[s].ifName].session = s
            /\ s \in streams
    BY <1>1 DEF ServerInv, TablesInv, NamesHold, Named
  <2>2. Running /\ crossed = {} => \A n \in Up :
          LET s == interfaces[n].session
          IN  Live(s) /\ sessions[s].ifName = n
    BY <1>1 DEF ServerInv, TablesInv, NoneLeft, OwnersKnow
  <2>3. \A n, m \in Up : n # m =>
          (interfaces[n].ip .. interfaces[n].ip + 3)
            \intersect (interfaces[m].ip .. interfaces[m].ip + 3) = {}
    <3> SUFFICES ASSUME NEW n \in Up, NEW m \in Up, n # m
                 PROVE  (interfaces[n].ip .. interfaces[n].ip + 3)
                          \intersect (interfaces[m].ip .. interfaces[m].ip + 3) = {}
      OBVIOUS
    <3>1. interfaces[n].ip \in Nat /\ interfaces[m].ip \in Nat
      BY <1>1 DEF ServerInv, TablesInv, TablesType, Up, InterfaceConn
    <3>2. Apart(n, m)
      BY <1>1 DEF ServerInv, TablesInv, AddressesApart
    <3> QED  BY <3>1, <3>2 DEF Apart
  <2> QED  BY <2>1, <2>2, <2>3 DEF InterfacesMatch
<1> QED  BY <1>1, ServerInvariant, PTL

\* The handler that dereferences a nil interface is one whose session lost its
\* interface to another session (commandAuthentication of server.go).
THEOREM ServerPanicExplained == Spec => []PanicExplained
<1>1. ServerInv => PanicExplained
  BY DEF ServerInv
<1> QED  BY <1>1, ServerInvariant, PTL

\* The step of removeConnection that OthersCarryOn is about.
LEMMA RemoveSparesOthers ==
  ASSUME ServerInv, NEW j \in Keys, NEW sid, RemoveConnection(j, sid),
         NEW k \in Keys \ crossed, NEW n \in Up, NEW s \in SessionIDs,
         connections[k] # None, connections'[k] = None,
         interfaces[n].session = s, WithoutKey(interfaces[n].conns, k) # {}, Live(s),
         j = k /\ sid = s => Own(k, s)
  PROVE  Live(s)'
<1>1. j = k
  BY DEF RemoveConnection, ServerInv, KeysInv, KeysType
<1>2. sessions[s].ifName = n
  BY DEF ServerInv, TablesInv, OwnersKnow
<1>3. CASE UNCHANGED sessions
  BY <1>3 DEF Live
<1>4. CASE ~UNCHANGED sessions
  <2>1. IsLast(connections[k].ifName, k) /\ Live(sid) /\ Forgets(sid)
    BY <1>1, <1>4 DEF RemoveConnection, tables
  <2>2. sid # s
    BY <1>1, <1>2, <2>1 DEF Own, IsLast
  <2>3. sessions'[s] = sessions[s]
    BY <2>1, <2>2 DEF Forgets, ServerInv, TablesInv, TablesType
  <2> QED  BY <2>3 DEF Live
<1> QED  BY <1>3, <1>4

\* Losing one connection leaves a session with others alone: disconnect of
\* server.connections.go takes the session from the connection and counts the
\* connections of an interface, and whoever authenticates, resets or disconnects
\* meanwhile, the two belong to each other.
THEOREM ServerOthersCarryOn == Spec => OthersCarryOn
<1> DEFINE A == \A k \in Keys \ crossed, n \in Up, s \in SessionIDs :
                  /\ connections[k] # None /\ connections'[k] = None
                  /\ interfaces[n].session = s /\ WithoutKey(interfaces[n].conns, k) # {}
                  /\ Live(s)
                  => Live(s)'
<1>1. ASSUME ServerInv, [Next]_vars PROVE [A]_vars
  <2> SUFFICES ASSUME NEW k \in Keys \ crossed, NEW n \in Up, NEW s \in SessionIDs,
                      connections[k] # None, connections'[k] = None,
                      interfaces[n].session = s, WithoutKey(interfaces[n].conns, k) # {},
                      Live(s)
               PROVE  Live(s)'
    OBVIOUS
  <2>1. connections' # connections
    OBVIOUS
  <2>2. ASSUME NEW j \in Keys, AddConnection(j) PROVE Live(s)'
    BY <2>2 DEF AddConnection, tables, Live
  <2>3. ASSUME NEW j \in Keys, TCPDisconnect(j) PROVE Live(s)'
    BY <1>1, <2>3, TCPDisconnectKeeps, RemoveSparesOthers DEF TCPDisconnect
  <2>4. ASSUME NEW j \in Keys, KeepaliveDisconnect(j) PROVE Live(s)'
    <3>1. PICK t \in given[j] : RemoveConnection(j, t)
      BY <2>4 DEF KeepaliveDisconnect
    <3>2. j = k /\ t = s => Own(k, s)
      BY <1>1, SameEntry DEF Own
    <3> QED  BY <1>1, <3>1, <3>2, RemoveSparesOthers
  <2>5. ASSUME NEW j \in Keys, HeaderDisconnect(j) PROVE Live(s)'
    <3>1. RemoveConnection(j, 0) /\ 0 # s
      BY <2>5 DEF HeaderDisconnect, SessionIDs
    <3> QED  BY <1>1, <3>1, RemoveSparesOthers
  <2>6. CASE UNCHANGED connections
    BY <2>1, <2>6
  <2> QED
    BY <1>1, <2>2, <2>3, <2>4, <2>5, <2>6
    DEF Next, vars, Decode, AuthenticateNew, AuthenticateKnown, CreateSession, CreateStream,
        FindInterface, CreateInterface, CreateInterfaceFails, Handshake, SetConnectionEncryptor,
        AddInterfaceConnection, Reset, DropSessionByID
<1>2. ServerInv /\ [Next]_vars => [A]_vars
  BY <1>1
<1>3. OthersCarryOn <=> [][A]_vars
  BY DEF OthersCarryOn
<1> HIDE DEF A
<1> QED  BY <1>2, <1>3, ServerInvariant, PTL DEF Spec
===============================================================================
