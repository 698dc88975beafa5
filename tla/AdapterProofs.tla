---------------------------- MODULE AdapterProofs ----------------------------
(***************************************************************************)
(* Proofs about the network adapters, for every value of the constants:    *)
(* the UDP ports of the server (Port), the codec (Codec) and one direction *)
(* of a connection (Wire).                                                 *)
(***************************************************************************)
EXTENDS Port, Wire, FiniteSetTheorems, SequenceTheorems, WellFoundedInduction, TLAPS

PortType ==
  /\ connectionControl \in [Ports -> [Sessions -> {None} \union ConnControl]]
  /\ loop \in [Ports -> [at : {"read", "retry", "ack", "command", "purge", "ended"},
                         sid : Sessions \union {0}]]
  /\ curSessionsCount \in [Ports -> Int] /\ strays \in [Ports -> BOOLEAN]
  /\ DOMAIN maxSessionsCount = Ports
  /\ droppedSessions \subseteq Sessions /\ alive \subseteq Sessions

\* The port has the Retry and Ack of the datagram it holds: only this port purges them,
\* and not before it is done with the datagram.
HeldKnown ==
  ~panicked => \A p \in Ports : loop[p].at \in {"retry", "ack"} => loop[p].sid \in Known(p)

\* A Retry stops when its session was silent here or is dropped, an Ack only then.
StoppedExplained ==
  \A p \in Ports : \A s \in Known(p) :
    /\ ~connectionControl[p][s].retry => s \notin alive \/ <<p, s>> \in silent
    /\ ~connectionControl[p][s].ack => s \notin alive

PortInv == PortType /\ CountRight /\ HeldKnown /\ StoppedExplained

-----------------------------------------------------------------------------
(* Counting *)

LEMMA KnownFinite ==
  ASSUME NEW S \in SUBSET Sessions
  PROVE  IsFiniteSet(S) /\ Cardinality(S) \in Nat
BY PortAssumption, FS_Subset, FS_CardinalityType DEF PortAssumption

\* What is taken away from a set, be it in the set or not, takes away at most as many.
LEMMA CardinalityOfRest ==
  ASSUME NEW S \in SUBSET Sessions, NEW D \in SUBSET Sessions
  PROVE  /\ Cardinality(S) - Cardinality(D) <= Cardinality(S \ D)
         /\ D \subseteq S => Cardinality(S \ D) = Cardinality(S) - Cardinality(D)
<1>1. IsFiniteSet(S) /\ IsFiniteSet(D) /\ IsFiniteSet(S \ D) /\ IsFiniteSet(S \intersect D)
      /\ Cardinality(S) \in Nat /\ Cardinality(D) \in Nat /\ Cardinality(S \ D) \in Nat
      /\ Cardinality(S \intersect D) \in Nat
  BY KnownFinite
<1>2. Cardinality(S \ D) = Cardinality(S) - Cardinality(S \intersect D)
  BY <1>1, FS_Difference
<1>3. Cardinality(S \intersect D) <= Cardinality(D)
  BY <1>1, FS_Subset
<1>4. ASSUME D \subseteq S PROVE Cardinality(S \intersect D) = Cardinality(D)
  <2>1. S \intersect D = D
    BY <1>4
  <2> QED  BY <2>1
<1> QED  BY <1>1, <1>2, <1>3, <1>4

LEMMA NoneIsApart == None \notin ConnControl
<1> SUFFICES ASSUME None \in ConnControl PROVE FALSE
  OBVIOUS
<1>1. KeepaliveProbes \in Nat /\ MaxSize \in Nat
  BY PortAssumption DEF PortAssumption
<1>2. None \in [retry : BOOLEAN, ack : BOOLEAN, keepalives : Nat, ids : Nat]
  BY <1>1 DEF ConnControl
<1> QED  BY <1>2, PortAssumption DEF PortAssumption

LEMMA NewIsControl == NewControl \in ConnControl
BY PortAssumption DEF NewControl, ConnControl, PortAssumption

-----------------------------------------------------------------------------
(* The initial states, and each step *)

LEMMA PortInit == Init => PortInv
<1> SUFFICES ASSUME Init PROVE PortInv
  OBVIOUS
<1>1. \A p \in Ports : Known(p) = {}
  BY DEF Init, Known
<1>2. PortType
  BY DEF Init, PortType
<1>3. CountRight
  <2>1. \A p \in Ports : Cardinality(Known(p)) = 0 /\ curSessionsCount[p] = 0
    BY <1>1, FS_EmptySet DEF Init
  <2> QED  BY <2>1 DEF CountRight
<1> QED  BY <1>1, <1>2, <1>3 DEF Init, PortInv, HeldKnown, StoppedExplained

\* A step that changes neither what is known nor the counts.
LEMMA CountsKept ==
  ASSUME PortInv, UNCHANGED counts, \A p \in Ports : Known(p)' = Known(p)
  PROVE  CountRight'
BY DEF PortInv, CountRight, counts

\* One entry is changed, and its goroutines run as before.
LEMMA EntryChanges ==
  ASSUME PortInv, NEW p \in Ports, NEW s \in Known(p), NEW c \in ConnControl,
         connectionControl' = [connectionControl EXCEPT ![p][s] = c],
         c.retry = connectionControl[p][s].retry, c.ack = connectionControl[p][s].ack,
         UNCHANGED <<counts, droppedSessions, alive, panicked, silent>>
  PROVE  /\ connectionControl' \in [Ports -> [Sessions -> {None} \union ConnControl]]
         /\ \A q \in Ports : Known(q)' = Known(q)
         /\ CountRight' /\ StoppedExplained'
<1>1. s \in Sessions /\ c # None
  BY NoneIsApart DEF Known
<1>2. connectionControl' \in [Ports -> [Sessions -> {None} \union ConnControl]]
  BY <1>1 DEF PortInv, PortType
<1>3. \A q \in Ports : Known(q)' = Known(q)
  BY <1>1, <1>2 DEF PortInv, PortType, Known
<1>4. CountRight'
  BY <1>3, CountsKept
<1>5. StoppedExplained'
  BY <1>1, <1>3 DEF PortInv, PortType, StoppedExplained
<1> QED  BY <1>2, <1>3, <1>4, <1>5

LEMMA ReadSessionKeeps ==
  ASSUME PortInv, NEW p \in Ports, ReadSession(p)
  PROVE  PortInv'
<1>1. PICK kind \in DOMAIN Way, s \in SentIDs \ {0} :
        /\ connectionControl' = IF s \in Known(p) THEN connectionControl
                                ELSE [connectionControl EXCEPT ![p][s] = NewControl]
        /\ Counted(p, s)
        /\ loop' = [loop EXCEPT ![p] = [at |-> Way[kind], sid |-> s]]
  BY DEF ReadSession
<1>2. s \in Sessions /\ NewControl \in ConnControl /\ NewControl # None
  BY PortAssumption, NewIsControl, NoneIsApart DEF PortAssumption
<1>3. UNCHANGED <<maxSessionsCount, strays, droppedSessions, useCase, panicked, silent>>
      /\ ~panicked
  BY DEF ReadSession
<1>4. Way[kind] \in {"retry", "ack", "command"}
  BY DEF Way
<1>5. \A q \in Ports : Known(q)' = IF q = p THEN Known(q) \union {s} ELSE Known(q)
  BY <1>1, <1>2 DEF PortInv, PortType, Known
<1>6. PortType'
  <2>1. connectionControl' \in [Ports -> [Sessions -> {None} \union ConnControl]]
    BY <1>1, <1>2 DEF PortInv, PortType
  <2>2. curSessionsCount' \in [Ports -> Int]
    BY <1>1 DEF PortInv, PortType, Counted
  <2> QED  BY <1>1, <1>2, <1>3, <1>4, <2>1, <2>2 DEF PortInv, PortType, useCase
<1>7. CountRight'
  <2> SUFFICES ASSUME NEW q \in Ports
               PROVE  (/\ curSessionsCount[q] <= Cardinality(Known(q))
                       /\ ~strays[q] => curSessionsCount[q] = Cardinality(Known(q)))'
    BY DEF CountRight
  <2>1. curSessionsCount'[q] = IF q = p /\ s \notin Known(p) THEN curSessionsCount[q] + 1
                               ELSE curSessionsCount[q]
    BY <1>1 DEF PortInv, PortType, Counted
  <2>2. Cardinality(Known(q)') = IF q = p /\ s \notin Known(p) THEN Cardinality(Known(q)) + 1
                                 ELSE Cardinality(Known(q))
    <3>1. Known(q) \in SUBSET Sessions
      BY DEF Known
    <3> QED  BY <1>5, <3>1, KnownFinite, FS_AddElement
  <2>3. Cardinality(Known(q)) \in Nat /\ curSessionsCount[q] \in Int
    BY KnownFinite DEF Known, PortInv, PortType
  <2> QED  BY <1>3, <2>1, <2>2, <2>3 DEF PortInv, CountRight
<1>8. HeldKnown'
  BY <1>1, <1>3, <1>5 DEF PortInv, PortType, HeldKnown
<1>9. StoppedExplained'
  <2>1. \A q \in Ports : \A t \in Known(q)' :
          \/ t \in Known(q) /\ connectionControl'[q][t] = connectionControl[q][t]
          \/ connectionControl'[q][t] = NewControl
    BY <1>1, <1>2, <1>5 DEF PortInv, PortType, Known
  <2>2. NewControl.retry = TRUE /\ NewControl.ack = TRUE
    BY DEF NewControl
  <2> QED  BY <1>3, <2>1, <2>2 DEF PortInv, StoppedExplained, useCase
<1> QED  BY <1>6, <1>7, <1>8, <1>9 DEF PortInv

LEMMA ReadNoSessionKeeps ==
  ASSUME PortInv, NEW p \in Ports, ReadNoSession(p)
  PROVE  PortInv'
<1>1. PICK kind \in DOMAIN Way : /\ panicked' = (kind # "command")
                                 /\ loop' = [loop EXCEPT ![p] = [at |-> Way[kind], sid |-> 0]]
  BY DEF ReadNoSession
<1>2. UNCHANGED <<connectionControl, counts, droppedSessions, useCase, silent>> /\ ~panicked
  BY DEF ReadNoSession
<1>3. PortType'
  BY <1>1, <1>2 DEF PortInv, PortType, counts, useCase, Way
<1>4. CountRight' /\ StoppedExplained'
  BY <1>2 DEF PortInv, CountRight, StoppedExplained, Known, counts, useCase
<1>5. HeldKnown'
  <2>1. ~panicked' => loop' = [loop EXCEPT ![p] = [at |-> "command", sid |-> 0]]
    <3>1. ~panicked' => kind = "command"
      BY <1>1
    <3>2. Way["command"] = "command"
      BY DEF Way
    <3> QED  BY <1>1, <3>1, <3>2
  <2> QED  BY <1>2, <2>1 DEF PortInv, PortType, HeldKnown, Known
<1> QED  BY <1>3, <1>4, <1>5 DEF PortInv

LEMMA SendKeepaliveKeeps ==
  ASSUME PortInv, NEW p \in Ports, SendKeepalive(p)
  PROVE  PortInv'
<1> DEFINE s == loop[p].sid
           old == connectionControl[p][s]
<1>1. s \in Known(p) /\ old \in ConnControl /\ s \in Sessions
  BY DEF SendKeepalive, PortInv, PortType, HeldKnown, Known
<1>2. PICK c \in ConnControl :
        /\ connectionControl' = [connectionControl EXCEPT ![p][s] = c]
        /\ c.retry = old.retry /\ c.ack = old.ack
  <2>1. connectionControl' = [connectionControl EXCEPT ![p][s] =
                                [old EXCEPT !.keepalives = old.keepalives + 1]]
    BY DEF SendKeepalive, PortInv, PortType
  <2>2. [old EXCEPT !.keepalives = old.keepalives + 1] \in ConnControl
    BY <1>1, PortAssumption DEF SendKeepalive, Fits, ConnControl, PortAssumption
  <2> QED  BY <1>1, <2>1, <2>2 DEF ConnControl
<1>3. UNCHANGED <<counts, droppedSessions, useCase, panicked, silent>>
      /\ loop' = [loop EXCEPT ![p].at = "read"]
  BY DEF SendKeepalive, Goes
<1>4. /\ connectionControl' \in [Ports -> [Sessions -> {None} \union ConnControl]]
      /\ \A q \in Ports : Known(q)' = Known(q)
      /\ CountRight' /\ StoppedExplained'
  BY <1>1, <1>2, <1>3, EntryChanges DEF useCase
<1>5. PortType' /\ HeldKnown'
  BY <1>3, <1>4 DEF PortInv, PortType, HeldKnown, counts, useCase
<1> QED  BY <1>4, <1>5 DEF PortInv

LEMMA PushIDKeeps ==
  ASSUME PortInv, NEW p \in Ports, PushID(p)
  PROVE  PortInv'
<1> DEFINE s == loop[p].sid
           old == connectionControl[p][s]
<1>1. s \in Known(p) /\ old \in ConnControl /\ s \in Sessions
  BY DEF PushID, PortInv, PortType, HeldKnown, Known
<1>2. PICK c \in ConnControl :
        /\ connectionControl' = [connectionControl EXCEPT ![p][s] = c]
        /\ c.retry = old.retry /\ c.ack = old.ack
  <2>1. connectionControl' = [connectionControl EXCEPT ![p][s] = [old EXCEPT !.ids = old.ids + 1]]
    BY DEF PushID, PortInv, PortType
  <2>2. [old EXCEPT !.ids = old.ids + 1] \in ConnControl
    BY <1>1, PortAssumption DEF PushID, Fits, ConnControl, PortAssumption
  <2> QED  BY <1>1, <2>1, <2>2 DEF ConnControl
<1>3. UNCHANGED <<counts, droppedSessions, useCase, panicked, silent>>
      /\ loop' = [loop EXCEPT ![p].at = "purge"]
  BY DEF PushID, Goes
<1>4. /\ connectionControl' \in [Ports -> [Sessions -> {None} \union ConnControl]]
      /\ \A q \in Ports : Known(q)' = Known(q)
      /\ CountRight' /\ StoppedExplained'
  BY <1>1, <1>2, <1>3, EntryChanges DEF useCase
<1>5. PortType' /\ HeldKnown'
  BY <1>3, <1>4 DEF PortInv, PortType, HeldKnown, counts, useCase
<1> QED  BY <1>4, <1>5 DEF PortInv

LEMMA AnswerKeeps ==
  ASSUME PortInv, NEW p \in Ports, Answer(p)
  PROVE  PortInv'
<1>1. UNCHANGED <<connectionControl, counts, droppedSessions, alive, panicked, silent>>
      /\ \E place \in {"purge", "ended"} : loop' = [loop EXCEPT ![p].at = place]
  BY DEF Answer, Goes
<1>2. PortType' /\ HeldKnown'
  BY <1>1 DEF PortInv, PortType, HeldKnown, Known, counts
<1>3. CountRight' /\ StoppedExplained'
  BY <1>1 DEF PortInv, CountRight, StoppedExplained, Known, counts
<1> QED  BY <1>2, <1>3 DEF PortInv

\* The count goes down by the sessions that were dropped, what is known by those among
\* them that are known here.
LEMMA PurgeKeeps ==
  ASSUME PortInv, NEW p \in Ports, Purge(p)
  PROVE  PortInv'
<1>1. UNCHANGED <<useCase, panicked, silent>> /\ loop' = [loop EXCEPT ![p].at = "read"]
  BY DEF Purge, Goes
<1>2. CASE ~(curSessionsCount[p] > maxSessionsCount[p])
  <2>1. UNCHANGED <<connectionControl, counts, droppedSessions>>
    BY <1>2 DEF Purge
  <2>2. PortType' /\ HeldKnown'
    BY <1>1, <2>1 DEF PortInv, PortType, HeldKnown, Known, counts, useCase
  <2>3. CountRight' /\ StoppedExplained'
    BY <1>1, <2>1 DEF PortInv, CountRight, StoppedExplained, Known, counts, useCase
  <2> QED  BY <2>2, <2>3 DEF PortInv
<1>3. CASE curSessionsCount[p] > maxSessionsCount[p]
  <2> DEFINE count == curSessionsCount[p] - Cardinality(droppedSessions)
  <2>1. /\ connectionControl' = [connectionControl EXCEPT ![p] =
             [s \in Sessions |-> IF s \in droppedSessions THEN None ELSE connectionControl[p][s]]]
        /\ droppedSessions' = {}
        /\ curSessionsCount' = [curSessionsCount EXCEPT ![p] = count]
        /\ strays' = [strays EXCEPT ![p] = strays[p] \/ ~(droppedSessions \subseteq Known(p))]
    BY <1>3 DEF Purge
  <2>2. \E n : maxSessionsCount' = [maxSessionsCount EXCEPT ![p] = n]
    BY <1>3 DEF Purge
  <2>3. Cardinality(droppedSessions) \in Nat
    BY KnownFinite DEF PortInv, PortType
  <2>4. PortType'
    <3>1. connectionControl' \in [Ports -> [Sessions -> {None} \union ConnControl]]
      BY <2>1 DEF PortInv, PortType
    <3>2. curSessionsCount' \in [Ports -> Int] /\ strays' \in [Ports -> BOOLEAN]
      BY <2>1, <2>3 DEF PortInv, PortType
    <3> QED  BY <1>1, <2>1, <2>2, <3>1, <3>2 DEF PortInv, PortType, useCase
  <2>5. \A q \in Ports : Known(q)' = IF q = p THEN Known(q) \ droppedSessions ELSE Known(q)
    BY <2>1 DEF PortInv, PortType, Known
  <2>6. CountRight'
    <3> SUFFICES ASSUME NEW q \in Ports
                 PROVE  (/\ curSessionsCount[q] <= Cardinality(Known(q))
                         /\ ~strays[q] => curSessionsCount[q] = Cardinality(Known(q)))'
      BY DEF CountRight
    <3>1. /\ curSessionsCount[q] <= Cardinality(Known(q))
          /\ ~strays[q] => curSessionsCount[q] = Cardinality(Known(q))
          /\ Cardinality(Known(q)) \in Nat /\ curSessionsCount[q] \in Int
      BY KnownFinite DEF PortInv, PortType, CountRight, Known
    <3>2. CASE q # p
      BY <2>1, <2>5, <3>1, <3>2 DEF PortInv, PortType
    <3>3. CASE q = p
      <4>1. Known(q) \in SUBSET Sessions /\ droppedSessions \in SUBSET Sessions
        BY DEF Known, PortInv, PortType
      <4>2. /\ Cardinality(Known(q)) - Cardinality(droppedSessions) <= Cardinality(Known(q)')
            /\ droppedSessions \subseteq Known(q) =>
                 Cardinality(Known(q)') = Cardinality(Known(q)) - Cardinality(droppedSessions)
            /\ Cardinality(Known(q)') \in Nat
        BY <2>5, <3>3, <4>1, CardinalityOfRest, KnownFinite
      <4>3. /\ curSessionsCount'[q] = curSessionsCount[q] - Cardinality(droppedSessions)
            /\ ~strays'[q] => ~strays[q] /\ droppedSessions \subseteq Known(q)
        BY <2>1, <3>3 DEF PortInv, PortType
      <4> QED  BY <2>3, <3>1, <4>2, <4>3
    <3> QED  BY <3>2, <3>3
  <2>7. HeldKnown'
    BY <1>1, <2>5 DEF PortInv, PortType, HeldKnown
  <2>8. StoppedExplained'
    <3>1. \A q \in Ports : \A s \in Known(q)' :
            s \in Known(q) /\ connectionControl'[q][s] = connectionControl[q][s]
      BY <2>1, <2>5 DEF PortInv, PortType, Known
    <3> QED  BY <1>1, <3>1 DEF PortInv, StoppedExplained, useCase
  <2> QED  BY <2>4, <2>6, <2>7, <2>8 DEF PortInv
<1> QED  BY <1>2, <1>3

LEMMA TakeKeeps ==
  ASSUME PortInv, NEW p \in Ports, NEW s \in Sessions, TakeKeepalive(p, s) \/ TakeID(p, s)
  PROVE  PortInv'
<1> DEFINE old == connectionControl[p][s]
<1>1. s \in Known(p) /\ old \in ConnControl
  BY DEF TakeKeepalive, TakeID, PortInv, PortType, Known
<1>2. PICK c \in ConnControl :
        /\ connectionControl' = [connectionControl EXCEPT ![p][s] = c]
        /\ c.retry = old.retry /\ c.ack = old.ack
  <2>1. CASE TakeKeepalive(p, s)
    <3>1. connectionControl' = [connectionControl EXCEPT ![p][s] =
                                  [old EXCEPT !.keepalives = old.keepalives - 1]]
      BY <2>1 DEF TakeKeepalive, PortInv, PortType
    <3>2. [old EXCEPT !.keepalives = old.keepalives - 1] \in ConnControl
      BY <1>1, <2>1, PortAssumption DEF TakeKeepalive, ConnControl, PortAssumption
    <3> QED  BY <1>1, <3>1, <3>2 DEF ConnControl
  <2>2. CASE TakeID(p, s)
    <3>1. connectionControl' = [connectionControl EXCEPT ![p][s] =
                                  [old EXCEPT !.ids = old.ids - 1]]
      BY <2>2 DEF TakeID, PortInv, PortType
    <3>2. [old EXCEPT !.ids = old.ids - 1] \in ConnControl
      BY <1>1, <2>2, PortAssumption DEF TakeID, ConnControl, PortAssumption
    <3> QED  BY <1>1, <3>1, <3>2 DEF ConnControl
  <2> QED  BY <2>1, <2>2
<1>3. UNCHANGED <<loop, counts, droppedSessions, useCase, panicked, silent>>
  BY DEF TakeKeepalive, TakeID
<1>4. /\ connectionControl' \in [Ports -> [Sessions -> {None} \union ConnControl]]
      /\ \A q \in Ports : Known(q)' = Known(q)
      /\ CountRight' /\ StoppedExplained'
  BY <1>1, <1>2, <1>3, EntryChanges DEF useCase
<1>5. PortType' /\ HeldKnown'
  BY <1>3, <1>4 DEF PortInv, PortType, HeldKnown, counts, useCase
<1> QED  BY <1>4, <1>5 DEF PortInv

LEMMA KeepaliveTimeoutKeeps ==
  ASSUME PortInv, NEW p \in Ports, NEW s \in Sessions, KeepaliveTimeout(p, s)
  PROVE  PortInv'
<1> DEFINE old == connectionControl[p][s]
           c == [old EXCEPT !.retry = FALSE]
<1>1. s \in Known(p) /\ old \in ConnControl
  BY DEF KeepaliveTimeout, PortInv, PortType, Known
<1>2. c \in ConnControl /\ c # None /\ c.ack = old.ack
  <2>1. c \in ConnControl /\ c.ack = old.ack
    BY <1>1 DEF ConnControl
  <2> QED  BY <2>1, NoneIsApart
<1>3. /\ connectionControl' = [connectionControl EXCEPT ![p][s] = c]
      /\ UNCHANGED <<loop, counts, panicked>>
      /\ alive' \subseteq alive /\ droppedSessions' \subseteq droppedSessions \union {s}
      /\ silent' = silent \union {<<p, s>>}
  BY DEF KeepaliveTimeout, PortInv, PortType
<1> HIDE DEF c
<1>4. connectionControl' \in [Ports -> [Sessions -> {None} \union ConnControl]]
  BY <1>2, <1>3 DEF PortInv, PortType
<1>5. \A q \in Ports : Known(q)' = Known(q)
  BY <1>1, <1>2, <1>3 DEF PortInv, PortType, Known
<1>6. PortType' /\ HeldKnown'
  BY <1>3, <1>4, <1>5 DEF PortInv, PortType, HeldKnown, counts
<1>7. CountRight'
  BY <1>3, <1>5, CountsKept
<1>8. StoppedExplained'
  <2>1. \A q \in Ports : \A t \in Known(q) :
          IF q = p /\ t = s THEN connectionControl'[q][t] = c
          ELSE connectionControl'[q][t] = connectionControl[q][t]
    BY <1>3 DEF PortInv, PortType, Known
  <2> SUFFICES ASSUME NEW q \in Ports, NEW t \in Known(q)
               PROVE  (/\ ~connectionControl[q][t].retry => t \notin alive \/ <<q, t>> \in silent
                       /\ ~connectionControl[q][t].ack => t \notin alive)'
    BY <1>5 DEF StoppedExplained
  <2>2. /\ ~connectionControl[q][t].retry => t \notin alive \/ <<q, t>> \in silent
        /\ ~connectionControl[q][t].ack => t \notin alive
    BY DEF PortInv, StoppedExplained
  <2>3. CASE q = p /\ t = s
    BY <1>2, <1>3, <2>1, <2>2, <2>3
  <2>4. CASE ~(q = p /\ t = s)
    BY <1>3, <2>1, <2>2, <2>4
  <2> QED  BY <2>3, <2>4
<1> QED  BY <1>6, <1>7, <1>8 DEF PortInv

\* Only goroutines of the session that goes are stopped.
LEMMA DropKeeps ==
  ASSUME PortInv, NEW s \in Sessions, Drop(s)
  PROVE  PortInv'
<1>1. /\ connectionControl' = [p \in Ports |-> [t \in Sessions |->
           IF s \in connections[p] /\ t \in Stopped(s) THEN Stop(connectionControl[p][t])
           ELSE connectionControl[p][t]]]
      /\ alive' = alive \ {s} /\ droppedSessions' = droppedSessions \union {s}
      /\ UNCHANGED <<loop, counts, panicked, silent>>
  BY DEF Drop
<1>2. \A c \in {None} \union ConnControl :
        /\ Stop(c) \in {None} \union ConnControl
        /\ Stop(c) = None <=> c = None
  <2>1. \A c \in ConnControl : [c EXCEPT !.retry = FALSE, !.ack = FALSE] \in ConnControl
    BY DEF ConnControl
  <2> QED  BY <2>1, NoneIsApart DEF Stop
<1>3. \A p \in Ports, t \in Sessions :
        /\ connectionControl'[p][t] \in {None} \union ConnControl
        /\ connectionControl'[p][t] = None <=> connectionControl[p][t] = None
        /\ t # s => connectionControl'[p][t] = connectionControl[p][t]
  BY <1>1, <1>2 DEF PortInv, PortType, Stopped
<1>4. connectionControl' \in [Ports -> [Sessions -> {None} \union ConnControl]]
  BY <1>1, <1>3
<1>5. \A p \in Ports : Known(p)' = Known(p)
  BY <1>3 DEF Known
<1>6. PortType' /\ HeldKnown'
  BY <1>1, <1>4, <1>5 DEF PortInv, PortType, HeldKnown, counts
<1>7. CountRight'
  BY <1>1, <1>5, CountsKept
<1>8. StoppedExplained'
  BY <1>1, <1>3, <1>5 DEF PortInv, StoppedExplained, Known
<1> QED  BY <1>6, <1>7, <1>8 DEF PortInv

LEMMA PortStep == PortInv /\ [Next]_vars => PortInv'
<1> SUFFICES ASSUME PortInv, [Next]_vars PROVE PortInv'
  OBVIOUS
<1>1. CASE UNCHANGED vars
  BY <1>1 DEF vars, counts, useCase, PortInv, PortType, CountRight, HeldKnown, StoppedExplained,
     Known
<1>2. CASE Next
  BY <1>2, ReadSessionKeeps, ReadNoSessionKeeps, SendKeepaliveKeeps, PushIDKeeps, AnswerKeeps,
     PurgeKeeps, TakeKeeps, KeepaliveTimeoutKeeps, DropKeeps DEF Next
<1> QED  BY <1>1, <1>2

-----------------------------------------------------------------------------
(* The theorems *)

\* The port knows the session of the datagram it holds, and what it knows explains every
\* Retry and Ack that stopped.
THEOREM PortInvariant == Spec => []PortInv
BY PortInit, PortStep, PTL DEF Spec

\* The count of sessions is what the port has, but never more, as long as no session was
\* purged here that came in on other ports only.
THEOREM PortCountRight == Spec => []CountRight
<1>1. PortInv => CountRight
  BY DEF PortInv
<1> QED  BY <1>1, PortInvariant, PTL

\* A port gets stuck only on a datagram of a session that is dropped or was silent here.
THEOREM PortStuckExplained == Spec => []StuckExplained
<1>1. PortInv => StuckExplained
  BY DEF PortInv, HeldKnown, StoppedExplained, StuckExplained, Stuck
<1> QED  BY <1>1, PortInvariant, PTL

-----------------------------------------------------------------------------
(* Codec: induction *)

\* A non-empty set of naturals has a least element.
LEMMA LeastElement ==
  ASSUME NEW S \in SUBSET Nat, S # {}
  PROVE  \E x \in S : \A y \in S : x <= y
<1>1. \E x \in S : \A y \in S : ~(<<y, x>> \in OpToRel(<, Nat))
  BY NatLessThanWellFounded, WFMin
<1>2. PICK x \in S : \A y \in S : <<y, x>> \notin OpToRel(<, Nat)
  BY <1>1
<1>3. ASSUME NEW y \in S PROVE x <= y
  <2>1. x \in Nat /\ y \in Nat
    OBVIOUS
  <2>2. y < x => <<y, x>> \in OpToRel(<, Nat)
    BY <2>1 DEF OpToRel
  <2>3. ~(y < x)
    BY <1>2, <2>2
  <2> QED  BY <2>1, <2>3
<1> QED  BY <1>3

\* What is true of 1, and of k when it is of k - 1, is true of all of them.
LEMMA Climb ==
  ASSUME NEW n \in Nat, NEW T, 1 \in T,
         \A k \in 2 .. n : k - 1 \in T => k \in T
  PROVE  \A k \in 1 .. n : k \in T
<1> DEFINE Bad == {k \in 1 .. n : k \notin T}
<1>1. CASE Bad = {}
  BY <1>1
<1>2. CASE Bad # {}
  <2>1. Bad \in SUBSET Nat
    OBVIOUS
  <2>2. PICK x \in Bad : \A y \in Bad : x <= y
    <3> HIDE DEF Bad
    <3> QED  BY <1>2, <2>1, LeastElement
  <2>3. x \in 1 .. n /\ x # 1 /\ x \notin T
    OBVIOUS
  <2>4. x \in 2 .. n /\ x - 1 \in 1 .. n
    BY <2>3
  <2>5. x - 1 \in Bad
    BY <2>3, <2>4
  <2>6. x <= x - 1
    BY <2>2, <2>5
  <2> QED  BY <2>4, <2>6
<1> QED  BY <1>1, <1>2

IsFlatten(flat, s) == flat = [i \in 1 .. Len(s) |-> IF i = 1 THEN s[i] ELSE flat[i - 1] \o s[i]]

LEMMA FlattenExists ==
  ASSUME NEW S, NEW s \in Seq(Seq(S))
  PROVE  \E flat : IsFlatten(flat, s)
<1> DEFINE n == Len(s)
           Upto(flat, k) == \A i \in 1 .. k : flat[i] = IF i = 1 THEN s[i] ELSE flat[i - 1] \o s[i]
           T == {k \in 1 .. n : \E flat : Upto(flat, k)}
<1>1. n \in Nat
  BY LenProperties
<1>2. CASE n = 0
  <2>1. IsFlatten([i \in 1 .. n |-> s[i]], s)
    BY <1>2 DEF IsFlatten
  <2> QED  BY <2>1
<1>3. CASE n # 0
  <2>1. 1 \in T
    <3>1. Upto(s, 1)
      OBVIOUS
    <3> QED  BY <1>1, <1>3, <3>1
  <2>2. ASSUME NEW k \in 2 .. n, k - 1 \in T PROVE k \in T
    <3>1. PICK flat : Upto(flat, k - 1)
      BY <2>2
    <3>2. PICK g : g = [i \in 1 .. k |-> IF i = k THEN flat[k - 1] \o s[k] ELSE flat[i]]
      OBVIOUS
    <3>3. Upto(g, k)
      <4>1. ASSUME NEW i \in 1 .. k
            PROVE  g[i] = IF i = 1 THEN s[i] ELSE g[i - 1] \o s[i]
        <5>1. CASE i = k
          <6>1. k \in 1 .. k /\ k - 1 \in 1 .. k /\ k - 1 # k /\ k # 1
            BY <2>2
          <6>2. g[k] = flat[k - 1] \o s[k] /\ g[k - 1] = flat[k - 1]
            BY <3>2, <6>1
          <6> QED  BY <5>1, <6>1, <6>2
        <5>2. CASE i # k
          <6>1. i \in 1 .. k - 1
            BY <2>2, <5>2
          <6> QED  BY <3>1, <3>2, <5>2, <6>1
        <5> QED  BY <5>1, <5>2
      <4> QED  BY <4>1
    <3> QED  BY <1>1, <3>3
  <2>3. n \in T
    <3> HIDE DEF T
    <3>1. \A k \in 1 .. n : k \in T
      BY <1>1, <2>1, <2>2, Climb
    <3> QED  BY <1>1, <1>3, <3>1
  <2>4. PICK flat : Upto(flat, n)
    BY <2>3
  <2>5. PICK g : g = [i \in 1 .. n |-> flat[i]]
    OBVIOUS
  <2>6. IsFlatten(g, s)
    <3>1. \A i \in 1 .. n : g[i] = IF i = 1 THEN s[i] ELSE g[i - 1] \o s[i]
      <4>1. \A i \in 1 .. n : i = 1 \/ i - 1 \in 1 .. n
        BY <1>1
      <4> QED  BY <2>4, <2>5, <4>1
    <3> QED  BY <2>5, <3>1 DEF IsFlatten
  <2> QED  BY <2>6
<1> QED  BY <1>2, <1>3

LEMMA FlattenSeqIs ==
  ASSUME NEW S, NEW s \in Seq(Seq(S)), s # <<>>
  PROVE  \E flat : IsFlatten(flat, s) /\ FlattenSeq(s) = flat[Len(s)]
<1>1. Len(s) # 0
  BY EmptySeq, LenProperties
<1>2. DEFINE flat == CHOOSE f : IsFlatten(f, s)
<1>3. IsFlatten(flat, s)
  BY FlattenExists
<1>4. FlattenSeq(s) = flat[Len(s)]
  BY <1>1 DEF FlattenSeq, IsFlatten
<1> QED  BY <1>3, <1>4

LEMMA FlattenType ==
  ASSUME NEW S, NEW s \in Seq(Seq(S)), NEW flat, IsFlatten(flat, s), NEW k \in 1 .. Len(s)
  PROVE  flat[k] \in Seq(S)
<1> DEFINE n == Len(s)
           T == {i \in 1 .. n : flat[i] \in Seq(S)}
<1>1. n \in Nat /\ \A i \in 1 .. n : s[i] \in Seq(S)
  BY LenProperties, ElementOfSeq
<1>2. \A i \in 1 .. n : flat[i] = IF i = 1 THEN s[i] ELSE flat[i - 1] \o s[i]
  BY DEF IsFlatten
<1> HIDE DEF n
<1>3. 1 \in T
  <2>1. 1 \in 1 .. n
    BY <1>1 DEF n
  <2> QED  BY <1>1, <1>2, <2>1
<1>4. ASSUME NEW i \in 2 .. n, i - 1 \in T PROVE i \in T
  <2>1. i \in 1 .. n /\ i # 1
    BY <1>1
  <2>2. flat[i] = flat[i - 1] \o s[i] /\ s[i] \in Seq(S) /\ flat[i - 1] \in Seq(S)
    BY <1>1, <1>2, <1>4, <2>1
  <2>3. flat[i] \in Seq(S)
    BY <2>2, ConcatProperties
  <2> QED  BY <2>1, <2>3
<1>5. \A i \in 1 .. n : i \in T
  <2> HIDE DEF T
  <2> QED  BY <1>1, <1>3, <1>4, Climb
<1> QED  BY <1>5 DEF n

\* What was appended to is still there.
LEMMA FlattenPrefix ==
  ASSUME NEW S, NEW s \in Seq(Seq(S)), NEW flat, IsFlatten(flat, s), NEW k \in 1 .. Len(s)
  PROVE  /\ Len(flat[k]) \in Nat /\ Len(flat[k]) <= Len(flat[Len(s)])
         /\ \A j \in 1 .. Len(flat[k]) : flat[Len(s)][j] = flat[k][j]
<1> DEFINE P(n, i) == /\ Len(flat[i]) \in Nat /\ Len(flat[i]) <= Len(flat[n])
                      /\ \A j \in 1 .. Len(flat[i]) : flat[n][j] = flat[i][j]
<1>1. PICK n \in Nat : n = Len(s) /\ k \in 1 .. n
  BY LenProperties
<1>2. /\ \A i \in 1 .. n : flat[i] \in Seq(S) /\ s[i] \in Seq(S)
      /\ \A i \in 1 .. n : flat[i] = IF i = 1 THEN s[i] ELSE flat[i - 1] \o s[i]
  BY <1>1, FlattenType, ElementOfSeq DEF IsFlatten
<1> DEFINE T == {m \in 1 .. n : P(n, n + 1 - m)}
<1>3. 1 \in T
  <2>1. n + 1 - 1 = n /\ n \in 1 .. n /\ 1 \in 1 .. n
    BY <1>1
  <2>2. P(n, n)
    BY <1>2, <2>1, LenProperties
  <2> QED  BY <2>1, <2>2
<1>4. ASSUME NEW m \in 2 .. n, m - 1 \in T PROVE m \in T
  <2>1. PICK i : i = n + 1 - (m - 1)
    OBVIOUS
  <2>2. i \in 2 .. n /\ i - 1 = n + 1 - m /\ i - 1 \in 1 .. n /\ m \in 1 .. n
    BY <1>1, <2>1
  <2>3. P(n, i)
    BY <1>4, <2>1
  <2>4. flat[i] = flat[i - 1] \o s[i] /\ flat[i - 1] \in Seq(S) /\ s[i] \in Seq(S)
    <3>1. i # 1 /\ i \in 1 .. n
      BY <2>2
    <3> QED  BY <1>2, <2>2, <3>1
  <2>5. PICK a \in Seq(S), b \in Seq(S) : a = flat[i - 1] /\ b = s[i]
    BY <2>4
  <2>6. PICK x \in Nat, y \in Nat : x = Len(a) /\ y = Len(b)
    BY LenProperties
  <2>7. /\ Len(flat[i]) = x + y
        /\ \A j \in 1 .. x + y : flat[i][j] = IF j <= x THEN a[j] ELSE b[j - x]
    <3>1. flat[i] = a \o b
      BY <2>4, <2>5
    <3>2. /\ Len(a \o b) = Len(a) + Len(b)
          /\ \A j \in 1 .. Len(a) + Len(b) : (a \o b)[j] = IF j <= Len(a) THEN a[j] ELSE b[j - Len(a)]
      BY ConcatProperties
    <3> QED  BY <2>6, <3>1, <3>2
  <2>8. x + y <= Len(flat[n]) /\ \A j \in 1 .. x + y : flat[n][j] = flat[i][j]
    BY <2>3, <2>7
  <2>9. \A j \in 1 .. x : j \in 1 .. x + y /\ j <= x
    OBVIOUS
  <2>10. \A j \in 1 .. x : flat[n][j] = a[j]
    BY <2>7, <2>8, <2>9
  <2>11. x <= Len(flat[n])
    <3>1. PICK z \in Nat : z = Len(flat[n])
      <4>1. n \in 1 .. n
        BY <1>1
      <4> QED  BY <1>2, <4>1, LenProperties
    <3> QED  BY <2>8, <3>1
  <2>12. P(n, i - 1)
    BY <2>5, <2>6, <2>10, <2>11
  <2> QED  BY <2>2, <2>12
<1>5. \A m \in 1 .. n : m \in T
  <2> HIDE DEF T
  <2> QED  BY <1>3, <1>4, Climb
<1>6. n + 1 - k \in 1 .. n /\ n + 1 - (n + 1 - k) = k
  BY <1>1
<1>7. P(n, k)
  BY <1>5, <1>6
<1> QED  BY <1>1, <1>7

\* total is the sequences of s put together: where the k-th of them ends, and that it is there
Holds(total, s, end) ==
  /\ end \in [0 .. Len(s) -> Nat] /\ end[0] = 0 /\ end[Len(s)] = Len(total)
  /\ \A k \in 1 .. Len(s) :
       /\ end[k] = end[k - 1] + Len(s[k]) /\ end[k] <= Len(total)
       /\ \A j \in 1 .. Len(s[k]) : total[end[k - 1] + j] = s[k][j]

\* FlattenSeq puts sequences together.
LEMMA Flattened ==
  ASSUME NEW S, NEW s \in Seq(Seq(S)), s # <<>>
  PROVE  FlattenSeq(s) \in Seq(S) /\ \E end : Holds(FlattenSeq(s), s, end)
<1>1. PICK flat : IsFlatten(flat, s) /\ FlattenSeq(s) = flat[Len(s)]
  BY FlattenSeqIs
<1>2. PICK n \in Nat \ {0} : n = Len(s)
  BY EmptySeq, LenProperties
<1>3. /\ \A i \in 1 .. n : flat[i] \in Seq(S) /\ s[i] \in Seq(S)
      /\ \A i \in 1 .. n : flat[i] = IF i = 1 THEN s[i] ELSE flat[i - 1] \o s[i]
      /\ n \in 1 .. n
  <2>1. \A i \in 1 .. n : flat[i] \in Seq(S) /\ s[i] \in Seq(S)
    BY <1>1, <1>2, FlattenType, ElementOfSeq
  <2>2. \A i \in 1 .. n : flat[i] = IF i = 1 THEN s[i] ELSE flat[i - 1] \o s[i]
    BY <1>1, <1>2 DEF IsFlatten
  <2> QED  BY <2>1, <2>2
<1>4. PICK total \in Seq(S) : total = FlattenSeq(s) /\ total = flat[n]
  BY <1>1, <1>2, <1>3
<1>5. \A k \in 1 .. n : /\ Len(flat[k]) \in Nat /\ Len(flat[k]) <= Len(total)
                        /\ \A j \in 1 .. Len(flat[k]) : total[j] = flat[k][j]
  BY <1>1, <1>2, <1>4, FlattenPrefix
<1>6. PICK end : end = [k \in 0 .. n |-> IF k = 0 THEN 0 ELSE Len(flat[k])]
  OBVIOUS
<1>7. end \in [0 .. n -> Nat] /\ end[0] = 0 /\ end[n] = Len(total)
  BY <1>2, <1>3, <1>4, <1>5, <1>6
<1>8. ASSUME NEW k \in 1 .. n
      PROVE  /\ end[k] = end[k - 1] + Len(s[k]) /\ end[k] <= Len(total)
             /\ \A j \in 1 .. Len(s[k]) : total[end[k - 1] + j] = s[k][j]
  <2>1. end[k] = Len(flat[k]) /\ Len(flat[k]) \in Nat /\ Len(flat[k]) <= Len(total)
        /\ \A j \in 1 .. Len(flat[k]) : total[j] = flat[k][j]
    BY <1>5, <1>6
  <2>2. CASE k = 1
    <3>1. end[k - 1] = 0 /\ flat[k] = s[k]
      BY <1>3, <1>7, <2>2
    <3>2. PICK y \in Nat : y = Len(s[k])
      BY <2>1, <3>1
    <3>3. \A j \in 1 .. y : 0 + j = j
      OBVIOUS
    <3> QED  BY <2>1, <3>1, <3>2, <3>3
  <2>3. CASE k # 1
    <3>1. k - 1 \in 1 .. n /\ k - 1 # 0 /\ k - 1 \in 0 .. n
      BY <2>3
    <3>2. end[k - 1] = Len(flat[k - 1]) /\ flat[k] = flat[k - 1] \o s[k]
      BY <1>3, <1>6, <2>3, <3>1
    <3>3. PICK a \in Seq(S), b \in Seq(S) : a = flat[k - 1] /\ b = s[k]
      BY <1>3, <3>1
    <3>4. PICK x \in Nat, y \in Nat : x = Len(a) /\ y = Len(b)
      BY LenProperties
    <3>5. /\ Len(flat[k]) = x + y
          /\ \A j \in 1 .. x + y : flat[k][j] = IF j <= x THEN a[j] ELSE b[j - x]
      <4>1. flat[k] = a \o b
        BY <3>2, <3>3
      <4>2. /\ Len(a \o b) = Len(a) + Len(b)
            /\ \A j \in 1 .. Len(a) + Len(b) : (a \o b)[j] = IF j <= Len(a) THEN a[j] ELSE b[j - Len(a)]
        BY ConcatProperties
      <4> QED  BY <3>4, <4>1, <4>2
    <3>6. ASSUME NEW j \in 1 .. y PROVE total[x + j] = b[j]
      <4>1. x + j \in 1 .. x + y /\ ~(x + j <= x) /\ x + j - x = j
        BY <3>4
      <4>2. flat[k][x + j] = b[j]
        BY <3>5, <4>1
      <4>3. total[x + j] = flat[k][x + j]
        BY <2>1, <3>5, <4>1
      <4> QED  BY <4>2, <4>3
    <3> QED  BY <2>1, <3>2, <3>3, <3>4, <3>5, <3>6
  <2> QED  BY <2>2, <2>3
<1>9. end \in [0 .. Len(s) -> Nat] /\ end[0] = 0 /\ end[Len(s)] = Len(total)
  BY <1>2, <1>7
<1>10. \A k \in 1 .. Len(s) :
         /\ end[k] = end[k - 1] + Len(s[k]) /\ end[k] <= Len(total)
         /\ \A j \in 1 .. Len(s[k]) : total[end[k - 1] + j] = s[k][j]
  BY <1>2, <1>8
<1>11. Holds(total, s, end)
  BY <1>9, <1>10 DEF Holds
<1> QED  BY <1>4, <1>11

LEMMA ConcatParts ==
  ASSUME NEW S, NEW a \in Seq(S), NEW b \in Seq(S)
  PROVE  /\ a \o b \in Seq(S) /\ Len(a) \in Nat /\ Len(b) \in Nat
         /\ Len(a \o b) = Len(a) + Len(b)
         /\ \A j \in 1 .. Len(a) : (a \o b)[j] = a[j]
         /\ \A j \in 1 .. Len(b) : (a \o b)[Len(a) + j] = b[j]
<1>1. PICK x \in Nat, y \in Nat : x = Len(a) /\ y = Len(b)
  BY LenProperties
<1>2. /\ a \o b \in Seq(S) /\ Len(a \o b) = x + y
      /\ \A j \in 1 .. x + y : (a \o b)[j] = IF j <= x THEN a[j] ELSE b[j - x]
  BY <1>1, ConcatProperties
<1>3. ASSUME NEW j \in 1 .. x PROVE (a \o b)[j] = a[j]
  <2>1. j \in 1 .. x + y /\ j <= x
    OBVIOUS
  <2> QED  BY <1>2, <2>1
<1>4. ASSUME NEW j \in 1 .. y PROVE (a \o b)[x + j] = b[j]
  <2>1. x + j \in 1 .. x + y /\ ~(x + j <= x) /\ x + j - x = j
    OBVIOUS
  <2> QED  BY <1>2, <2>1
<1> QED  BY <1>1, <1>2, <1>3, <1>4

\* where string k begins
IsFrom(from, bytes, n) ==
  from = [k \in 1 .. n + 1 |->
            IF k = 1 THEN 1
            ELSE IF from[k - 1] > Len(bytes) THEN from[k - 1]
            ELSE from[k - 1] + bytes[from[k - 1]] + 1]

\* There is one such function.
LEMMA FromIs ==
  ASSUME NEW n \in Nat, NEW bytes, NEW at, IsFrom(at, bytes, n)
  PROVE  LET from == CHOOSE x : IsFrom(x, bytes, n) IN \A k \in 1 .. n + 1 : from[k] = at[k]
<1>1. PICK f : f = CHOOSE x : IsFrom(x, bytes, n)
  OBVIOUS
<1>2. IsFrom(f, bytes, n)
  BY <1>1
<1>3. PICK m \in Nat : m = n + 1
  OBVIOUS
<1> DEFINE T == {k \in 1 .. m : f[k] = at[k]}
<1>4. 1 \in T
  BY <1>2, <1>3 DEF IsFrom
<1>5. ASSUME NEW k \in 2 .. m, k - 1 \in T PROVE k \in T
  <2>1. k \in 1 .. m /\ k # 1
    BY <1>3
  <2>2. f[k - 1] = at[k - 1]
    BY <1>5
  <2>3. /\ f[k] = IF f[k - 1] > Len(bytes) THEN f[k - 1] ELSE f[k - 1] + bytes[f[k - 1]] + 1
        /\ at[k] = IF at[k - 1] > Len(bytes) THEN at[k - 1] ELSE at[k - 1] + bytes[at[k - 1]] + 1
    BY <1>2, <1>3, <2>1 DEF IsFrom
  <2> QED  BY <2>1, <2>2, <2>3
<1>6. \A k \in 1 .. m : k \in T
  <2> HIDE DEF T
  <2> QED  BY <1>4, <1>5, Climb
<1> QED  BY <1>1, <1>3, <1>6

\* each string after its length
Items(strings) == [i \in DOMAIN strings |-> <<Len(strings[i])>> \o strings[i]]

LEMMA ItemsRight ==
  ASSUME NEW strings \in Seq(Seq(Byte)), strings # <<>>, MarshalBytes(strings) # Failed
  PROVE  /\ MarshalBytes(strings) = FlattenSeq(Items(strings))
         /\ Items(strings) \in Seq(Seq(Byte)) /\ Len(Items(strings)) = Len(strings)
         /\ Items(strings) # <<>>
         /\ \A i \in 1 .. Len(strings) :
              /\ strings[i] \in Seq(Byte) /\ Len(strings[i]) \in Nat
              /\ Len(Items(strings)[i]) = 1 + Len(strings[i])
              /\ Items(strings)[i][1] = Len(strings[i])
              /\ \A j \in 1 .. Len(strings[i]) : Items(strings)[i][1 + j] = strings[i][j]
<1>1. PICK n \in Nat \ {0} : n = Len(strings) /\ DOMAIN strings = 1 .. n
  BY EmptySeq, LenProperties
<1>2. \A i \in 1 .. n : strings[i] \in Seq(Byte) /\ Len(strings[i]) \in Nat
  BY <1>1, ElementOfSeq, LenProperties
<1>3. PICK items : items = Items(strings)
  OBVIOUS
<1>4. MarshalBytes(strings) = FlattenSeq(items) /\ \A i \in 1 .. n : ~(Len(strings[i]) + 1 > MaxUint8)
  BY <1>1, <1>3 DEF MarshalBytes, Items
<1>5. \A i \in 1 .. n : Len(strings[i]) \in Byte
  <2>1. MaxUint8 \in Nat
    BY CodecAssumption
  <2> QED  BY <1>2, <1>4, <2>1 DEF Byte
<1>6. ASSUME NEW i \in 1 .. n
      PROVE  /\ items[i] \in Seq(Byte) /\ Len(items[i]) = 1 + Len(strings[i])
             /\ items[i][1] = Len(strings[i])
             /\ \A j \in 1 .. Len(strings[i]) : items[i][1 + j] = strings[i][j]
  <2>0. PICK l \in Byte : l = Len(strings[i])
    BY <1>5
  <2>1. PICK a \in Seq(Byte), b \in Seq(Byte) : a = <<l>> /\ b = strings[i]
    <3>1. <<l>> \in Seq(Byte)
      OBVIOUS
    <3>2. strings[i] \in Seq(Byte)
      BY <1>2
    <3> QED  BY <3>1, <3>2
  <2>2. Len(a) = 1 /\ a[1] = Len(strings[i]) /\ 1 \in 1 .. Len(a)
    BY <2>0, <2>1
  <2>3. items[i] = a \o b
    BY <1>1, <1>3, <2>0, <2>1 DEF Items
  <2> QED  BY <2>1, <2>2, <2>3, ConcatParts
<1>7. items \in Seq(Seq(Byte)) /\ Len(items) = n /\ items # <<>>
  <2>1. items \in [1 .. n -> Seq(Byte)]
    BY <1>1, <1>3, <1>6 DEF Items
  <2>2. items \in Seq(Seq(Byte)) /\ Len(items) = n
    BY <2>1
  <2> QED  BY <1>1, <2>2
<1> QED  BY <1>1, <1>2, <1>3, <1>4, <1>6, <1>7

\* The strings of a request, an answer or a key, which marshalBytes writes each after its
\* length, are read back by unmarshalBytes whatever fake data addFakeData put behind them.
THEOREM StringsReadBack ==
  ASSUME NEW strings \in Seq(Seq(Byte)), strings # <<>>, MarshalBytes(strings) # Failed,
         NEW fake \in Seq(Byte)
  PROVE  /\ MarshalBytes(strings) \in Seq(Byte)
         /\ UnmarshalBytes(MarshalBytes(strings) \o fake, Len(strings)) = strings
<1>1. PICK n \in Nat \ {0} : n = Len(strings) /\ DOMAIN strings = 1 .. n
  BY EmptySeq, LenProperties
<1>2. \A i \in 1 .. n : strings[i] \in Seq(Byte) /\ Len(strings[i]) \in Nat
  BY <1>1, ElementOfSeq, LenProperties
<1>3. PICK items : items = Items(strings)
  OBVIOUS
<1>4. MarshalBytes(strings) = FlattenSeq(items)
  BY <1>3, ItemsRight
<1>6. ASSUME NEW i \in 1 .. n
      PROVE  /\ Len(items[i]) = 1 + Len(strings[i]) /\ items[i][1] = Len(strings[i])
             /\ \A j \in 1 .. Len(strings[i]) : items[i][1 + j] = strings[i][j]
  BY <1>1, <1>3, ItemsRight
<1>7. items \in Seq(Seq(Byte)) /\ Len(items) = n /\ items # <<>>
  BY <1>1, <1>3, ItemsRight
<1>8. PICK total \in Seq(Byte), end \in [0 .. n -> Nat] :
        /\ total = FlattenSeq(items) /\ end[0] = 0 /\ end[n] = Len(total)
        /\ \A k \in 1 .. n :
             /\ end[k] = end[k - 1] + Len(items[k]) /\ end[k] <= Len(total)
             /\ \A j \in 1 .. Len(items[k]) : total[end[k - 1] + j] = items[k][j]
  <2>1. PICK total \in Seq(Byte) : total = FlattenSeq(items)
    BY <1>7, Flattened
  <2>2. PICK end : Holds(total, items, end)
    BY <1>7, <2>1, Flattened
  <2>3. /\ end \in [0 .. n -> Nat] /\ end[n] = Len(total)
        /\ \A k \in 1 .. n :
             /\ end[k] = end[k - 1] + Len(items[k]) /\ end[k] <= Len(total)
             /\ \A j \in 1 .. Len(items[k]) : total[end[k - 1] + j] = items[k][j]
    BY <1>7, <2>2 DEF Holds
  <2>4. end[0] = 0
    BY <2>2 DEF Holds
  <2> QED  BY <2>1, <2>3, <2>4
<1>9. PICK bytes \in Seq(Byte) : bytes = total \o fake
  BY ConcatProperties
<1>10. /\ Len(total) \in Nat /\ Len(bytes) \in Nat /\ Len(total) <= Len(bytes)
       /\ \A j \in 1 .. Len(total) : bytes[j] = total[j]
  <2>1. PICK x \in Nat, y \in Nat : x = Len(total) /\ y = Len(fake)
    BY LenProperties
  <2>2. Len(bytes) = x + y /\ \A j \in 1 .. Len(total) : bytes[j] = total[j]
    BY <1>9, <2>1, ConcatParts
  <2> QED  BY <2>1, <2>2
<1>11. ASSUME NEW k \in 1 .. n
       PROVE  /\ end[k - 1] \in Nat /\ end[k] \in Nat
              /\ end[k] = end[k - 1] + 1 + Len(strings[k]) /\ end[k] <= Len(bytes)
              /\ bytes[end[k - 1] + 1] = Len(strings[k])
              /\ \A j \in 1 .. Len(strings[k]) : bytes[end[k - 1] + 1 + j] = strings[k][j]
  <2>1. PICK e \in Nat, l \in Nat, g \in Nat : e = end[k - 1] /\ l = Len(strings[k]) /\ g = end[k]
    <3>1. k - 1 \in 0 .. n /\ k \in 0 .. n
      OBVIOUS
    <3> QED  BY <1>2, <1>8, <3>1
  <2>2. Len(items[k]) = 1 + l /\ items[k][1] = l /\ \A j \in 1 .. l : items[k][1 + j] = strings[k][j]
    BY <1>6, <2>1
  <2>3. g = e + (1 + l) /\ g <= Len(total) /\ \A j \in 1 .. 1 + l : total[e + j] = items[k][j]
    BY <1>8, <2>1, <2>2
  <2>4. \A j \in 1 .. 1 + l : bytes[e + j] = items[k][j]
    <3>1. ASSUME NEW j \in 1 .. 1 + l PROVE bytes[e + j] = items[k][j]
      <4>1. e + j \in 1 .. Len(total)
        BY <1>10, <2>3
      <4>2. bytes[e + j] = total[e + j]
        BY <1>10, <4>1
      <4> QED  BY <2>3, <4>2
    <3> QED  BY <3>1
  <2>5. bytes[e + 1] = l
    <3>1. 1 \in 1 .. 1 + l
      OBVIOUS
    <3> QED  BY <2>2, <2>4, <3>1
  <2>6. ASSUME NEW j \in 1 .. l PROVE bytes[e + 1 + j] = strings[k][j]
    <3>1. 1 + j \in 1 .. 1 + l /\ e + (1 + j) = e + 1 + j
      OBVIOUS
    <3> QED  BY <2>2, <2>4, <3>1
  <2>7. g = e + 1 + l /\ g <= Len(bytes)
    BY <1>10, <2>3
  <2> QED  BY <2>1, <2>5, <2>6, <2>7
<1>12. PICK at : at = [k \in 1 .. n + 1 |-> end[k - 1] + 1]
  OBVIOUS
<1>13. IsFrom(at, bytes, n)
  <2>1. ASSUME NEW k \in 1 .. n + 1
        PROVE  at[k] = IF k = 1 THEN 1
                       ELSE IF at[k - 1] > Len(bytes) THEN at[k - 1]
                       ELSE at[k - 1] + bytes[at[k - 1]] + 1
    <3>1. CASE k = 1
      BY <1>8, <1>12, <3>1
    <3>2. CASE k # 1
      <4>1. PICK h \in 1 .. n : h = k - 1
        BY <3>2
      <4>2. at[k] = end[h] + 1 /\ at[h] = end[h - 1] + 1
        BY <1>12, <4>1
      <4>3. PICK e \in Nat, l \in Nat, g \in Nat : e = end[h - 1] /\ l = Len(strings[h]) /\ g = end[h]
        BY <1>2, <1>11
      <4>4. g = e + 1 + l /\ g <= Len(bytes) /\ bytes[e + 1] = l
        <5>1. /\ end[h] = end[h - 1] + 1 + Len(strings[h]) /\ end[h] <= Len(bytes)
              /\ bytes[end[h - 1] + 1] = Len(strings[h])
          BY <1>11
        <5> QED  BY <4>3, <5>1
      <4>5. ~(at[h] > Len(bytes)) /\ at[k] = at[h] + bytes[at[h]] + 1
        <5>1. PICK x \in Nat, y \in Nat : x = at[h] /\ y = Len(bytes) /\ x = e + 1
          BY <1>10, <4>2, <4>3
        <5>2. bytes[at[h]] = l /\ at[k] = g + 1
          BY <4>2, <4>3, <4>4
        <5>3. ~(x > y) /\ g + 1 = x + l + 1
          BY <4>4, <5>1
        <5> QED  BY <5>1, <5>2, <5>3
      <4> QED  BY <3>2, <4>1, <4>5
    <3> QED  BY <3>1, <3>2
  <2>2. at = [k \in 1 .. n + 1 |-> at[k]]
    BY <1>12
  <2> QED  BY <2>1, <2>2, Zenon DEF IsFrom
<1>14. PICK from : from = CHOOSE f : IsFrom(f, bytes, n)
  OBVIOUS
<1>15. \A k \in 1 .. n + 1 : from[k] = end[k - 1] + 1
  <2>1. \A k \in 1 .. n + 1 : from[k] = at[k]
    BY <1>13, <1>14, FromIs
  <2> QED  BY <1>12, <2>1
<1>16. PICK there : there = {k \in 1 .. n : from[k] <= Len(bytes)}
  OBVIOUS
<1>17. ASSUME NEW k \in 1 .. n
       PROVE  /\ from[k] <= Len(bytes) /\ ~(from[k + 1] > Len(bytes) + 1)
              /\ SubSeq(bytes, from[k] + 1, from[k + 1] - 1) = strings[k]
  <2>1. PICK e \in Nat, l \in Nat, g \in Nat : e = end[k - 1] /\ l = Len(strings[k]) /\ g = end[k]
    BY <1>2, <1>11
  <2>2. g = e + 1 + l /\ g <= Len(bytes) /\ \A j \in 1 .. l : bytes[e + 1 + j] = strings[k][j]
    BY <1>11, <2>1
  <2>3. from[k] = e + 1 /\ from[k + 1] = g + 1
    <3>1. k \in 1 .. n + 1 /\ k + 1 \in 1 .. n + 1 /\ k + 1 - 1 = k
      OBVIOUS
    <3> QED  BY <1>15, <2>1, <3>1
  <2>4. PICK u : u = SubSeq(bytes, e + 2, e + 1 + l)
    OBVIOUS
  <2>5. strings[k] \in [1 .. l -> Byte] /\ strings[k] \in Seq(Byte)
    BY <1>2, <2>1, LenProperties
  <2>6. u = strings[k]
    <3>1. PICK lo \in Int, hi \in Int : lo = e + 2 /\ hi = e + 1 + l
      OBVIOUS
    <3>2. \A i \in lo .. hi : bytes[i] \in Byte
      <4>1. \A i \in lo .. hi : i \in 1 .. Len(bytes)
        BY <1>10, <2>2, <3>1
      <4> QED  BY <4>1, ElementOfSeq
    <3>3. /\ u \in Seq(Byte) /\ Len(u) = IF lo <= hi THEN hi - lo + 1 ELSE 0
          /\ \A i \in 1 .. hi - lo + 1 : u[i] = bytes[lo + i - 1]
      <4>1. u = SubSeq(bytes, lo, hi)
        BY <2>4, <3>1
      <4> QED  BY <3>2, <4>1, SubSeqProperties
    <3>4. Len(u) = l /\ hi - lo + 1 = l
      <4>1. hi - lo + 1 = l /\ (~(lo <= hi) => l = 0)
        BY <3>1
      <4>2. Len(u) = IF lo <= hi THEN hi - lo + 1 ELSE 0
        BY <3>3
      <4> QED  BY <4>1, <4>2
    <3>5. \A i \in 1 .. l : u[i] = strings[k][i]
      <4>1. \A i \in 1 .. l : lo + i - 1 = e + 1 + i
        BY <3>1
      <4> QED  BY <2>2, <3>3, <3>4, <4>1
    <3>6. u \in [1 .. l -> Byte]
      BY <3>3, <3>4, LenProperties
    <3> QED  BY <2>5, <3>5, <3>6
  <2>7. from[k] + 1 = e + 2 /\ from[k + 1] - 1 = e + 1 + l
    BY <2>2, <2>3
  <2> QED  BY <1>10, <2>2, <2>3, <2>4, <2>6, <2>7
<1>18. there = 1 .. n /\ Cardinality(there) = n
  <2>1. there = 1 .. n
    BY <1>16, <1>17
  <2>2. Cardinality(1 .. n) = n
    BY FS_Interval
  <2> QED  BY <2>1, <2>2
<1>19. UnmarshalBytes(bytes, n) = [k \in 1 .. n |-> SubSeq(bytes, from[k] + 1, from[k + 1] - 1)]
  <2>1. UnmarshalBytes(bytes, n) =
          IF \E k \in there : from[k + 1] > Len(bytes) + 1 THEN Failed
          ELSE [k \in 1 .. Cardinality(there) |-> SubSeq(bytes, from[k] + 1, from[k + 1] - 1)]
    BY <1>14, <1>16 DEF UnmarshalBytes, IsFrom
  <2> QED  BY <1>17, <1>18, <2>1
<1>20. [k \in 1 .. n |-> SubSeq(bytes, from[k] + 1, from[k + 1] - 1)] = strings
  <2>1. strings = [k \in 1 .. n |-> strings[k]]
    BY <1>1
  <2> QED  BY <1>17, <2>1
<1> QED  BY <1>1, <1>4, <1>8, <1>9, <1>19, <1>20

\* What is true of 0, and of k when it is of k - 1, is true of all of them.
LEMMA ClimbFromZero ==
  ASSUME NEW n \in Nat, NEW T, 0 \in T,
         \A k \in 1 .. n : k - 1 \in T => k \in T
  PROVE  \A k \in 0 .. n : k \in T
<1> DEFINE U == {k \in 1 .. n : k \in T}
<1>1. CASE n = 0
  BY <1>1
<1>2. CASE n # 0
  <2>1. 1 \in U
    <3>1. 1 \in 1 .. n /\ 1 - 1 = 0
      BY <1>2
    <3> QED  BY <3>1
  <2>2. \A k \in 2 .. n : k - 1 \in U => k \in U
    OBVIOUS
  <2>3. \A k \in 1 .. n : k \in U
    <3> HIDE DEF U
    <3> QED  BY <2>1, <2>2, Climb
  <2> QED  BY <2>3
<1> QED  BY <1>1, <1>2

LEMMA Division ==
  ASSUME NEW x \in Nat, NEW b \in Nat \ {0}
  PROVE  x \div b \in Nat /\ x % b \in 0 .. b - 1 /\ ((x \div b) * b) + (x % b) = x
OBVIOUS

IsShifted(shifted, n, width) ==
  shifted = [k \in 0 .. width |-> IF k = 0 THEN n ELSE shifted[k - 1] \div (MaxUint8 + 1)]

LEMMA ShiftedType ==
  ASSUME NEW n \in Nat, NEW width \in Nat
  PROVE  /\ Shifted(n, width)[0] = n
         /\ \A k \in 0 .. width : Shifted(n, width)[k] \in Nat
         /\ \A k \in 1 .. width :
              Shifted(n, width)[k] = Shifted(n, width)[k - 1] \div (MaxUint8 + 1)
<1>1. MaxUint8 + 1 \in Nat \ {0}
  BY CodecAssumption
<1>2. PICK s : s = Shifted(n, width)
  OBVIOUS
<1>3. \E f : IsShifted(f, n, width)
  <2> DEFINE Upto(f, k) ==
               \A i \in 0 .. k : f[i] = IF i = 0 THEN n ELSE f[i - 1] \div (MaxUint8 + 1)
             T == {k \in 0 .. width : \E f : Upto(f, k)}
  <2>1. 0 \in T
    <3>1. PICK f : f = [i \in {0} |-> n]
      OBVIOUS
    <3>2. Upto(f, 0)
      BY <3>1
    <3> QED  BY <3>2
  <2>2. ASSUME NEW k \in 1 .. width, k - 1 \in T PROVE k \in T
    <3>1. PICK f : Upto(f, k - 1)
      BY <2>2
    <3>2. PICK g : g = [i \in 0 .. k |-> IF i = k THEN f[k - 1] \div (MaxUint8 + 1) ELSE f[i]]
      OBVIOUS
    <3>3. ASSUME NEW i \in 0 .. k
          PROVE  g[i] = IF i = 0 THEN n ELSE g[i - 1] \div (MaxUint8 + 1)
      <4>1. CASE i = k
        <5>1. k \in 0 .. k /\ k - 1 \in 0 .. k /\ k - 1 # k /\ k # 0
          OBVIOUS
        <5> QED  BY <3>2, <4>1, <5>1
      <4>2. CASE i # k
        <5>1. i \in 0 .. k - 1
          BY <4>2
        <5> QED  BY <3>1, <3>2, <4>2, <5>1
      <4> QED  BY <4>1, <4>2
    <3> QED  BY <3>3
  <2>3. width \in T
    <3> HIDE DEF T
    <3>1. \A k \in 0 .. width : k \in T
      BY <2>1, <2>2, ClimbFromZero
    <3> QED  BY <3>1
  <2>4. PICK f : Upto(f, width)
    BY <2>3
  <2>5. PICK g : g = [i \in 0 .. width |-> f[i]]
    OBVIOUS
  <2>6. ASSUME NEW i \in 0 .. width
        PROVE  g[i] = IF i = 0 THEN n ELSE g[i - 1] \div (MaxUint8 + 1)
    <3>1. i = 0 \/ i - 1 \in 0 .. width
      OBVIOUS
    <3> QED  BY <2>4, <2>5, <3>1
  <2> QED  BY <2>5, <2>6 DEF IsShifted
<1>4. IsShifted(s, n, width)
  BY <1>2, <1>3 DEF Shifted, IsShifted
<1>5. s[0] = n /\ \A k \in 1 .. width : s[k] = s[k - 1] \div (MaxUint8 + 1)
  BY <1>4 DEF IsShifted
<1> DEFINE T == {k \in 0 .. width : s[k] \in Nat}
<1>6. 0 \in T
  BY <1>5
<1>7. ASSUME NEW k \in 1 .. width, k - 1 \in T PROVE k \in T
  <2>1. s[k - 1] \in Nat /\ s[k] = s[k - 1] \div (MaxUint8 + 1)
    BY <1>5, <1>7
  <2>2. s[k] \in Nat
    BY <1>1, <2>1, Division
  <2> QED  BY <2>2
<1>8. \A k \in 0 .. width : k \in T
  <2> HIDE DEF T
  <2> QED  BY <1>6, <1>7, ClimbFromZero
<1> QED  BY <1>2, <1>5, <1>8

LEMMA BigEndianType ==
  ASSUME NEW n \in Nat, NEW width \in Nat
  PROVE  BigEndian(n, width) \in Seq(Byte) /\ Len(BigEndian(n, width)) = width
<1>1. MaxUint8 + 1 \in Nat \ {0} /\ MaxUint8 \in Nat
  BY CodecAssumption
<1>2. ASSUME NEW i \in 1 .. width
      PROVE  Shifted(n, width)[width - i] % (MaxUint8 + 1) \in Byte
  <2>1. width - i \in 0 .. width
    OBVIOUS
  <2>2. PICK x \in Nat : x = Shifted(n, width)[width - i]
    BY <2>1, ShiftedType
  <2>3. x % (MaxUint8 + 1) \in 0 .. (MaxUint8 + 1) - 1
    BY <1>1, Division
  <2>4. (MaxUint8 + 1) - 1 = MaxUint8
    BY <1>1
  <2> QED  BY <2>2, <2>3, <2>4 DEF Byte
<1>3. BigEndian(n, width) \in [1 .. width -> Byte]
  BY <1>2 DEF BigEndian
<1> QED  BY <1>3

IsValue(value, bytes) ==
  value = [i \in 0 .. Len(bytes) |-> IF i = 0 THEN 0 ELSE value[i - 1] * (MaxUint8 + 1) + bytes[i]]

LEMMA NumberIs ==
  ASSUME NEW bytes, NEW value, IsValue(value, bytes), Len(bytes) \in Nat
  PROVE  Number(bytes) = value[Len(bytes)]
<1>1. PICK f : f = CHOOSE x : IsValue(x, bytes)
  OBVIOUS
<1>2. IsValue(f, bytes)
  BY <1>1
<1>3. PICK m \in Nat : m = Len(bytes)
  OBVIOUS
<1> DEFINE T == {i \in 0 .. m : f[i] = value[i]}
<1>4. 0 \in T
  BY <1>2, <1>3 DEF IsValue
<1>5. ASSUME NEW i \in 1 .. m, i - 1 \in T PROVE i \in T
  <2>1. i \in 0 .. m /\ i # 0
    BY <1>3
  <2>2. f[i] = f[i - 1] * (MaxUint8 + 1) + bytes[i] /\ value[i] = value[i - 1] * (MaxUint8 + 1) + bytes[i]
    BY <1>2, <1>3, <2>1 DEF IsValue
  <2>3. f[i - 1] = value[i - 1]
    BY <1>5
  <2> QED  BY <2>1, <2>2, <2>3
<1>6. \A i \in 0 .. m : i \in T
  <2> HIDE DEF T
  <2> QED  BY <1>3, <1>4, <1>5, ClimbFromZero
<1>7. f[m] = value[m]
  BY <1>3, <1>6
<1>8. Number(bytes) = f[m]
  BY <1>1, <1>3 DEF Number, IsValue
<1> QED  BY <1>3, <1>7, <1>8

\* A number that fits in that many bytes is read back from them.
LEMMA NumberReadBack ==
  ASSUME NEW n \in Nat, NEW width \in Nat, FitsIn(n, width)
  PROVE  Number(BigEndian(n, width)) = n
<1>1. PICK bytes : bytes = BigEndian(n, width)
  OBVIOUS
<1>2. PICK b \in Nat \ {0} : b = MaxUint8 + 1
  BY CodecAssumption
<1>3. PICK s : s = Shifted(n, width)
  OBVIOUS
<1>4. /\ s[0] = n /\ s[width] = 0
      /\ \A k \in 0 .. width : s[k] \in Nat
      /\ \A k \in 1 .. width : s[k] = s[k - 1] \div b
  BY <1>2, <1>3, ShiftedType DEF FitsIn
<1>5. Len(bytes) = width /\ \A i \in 1 .. width : bytes[i] = s[width - i] % b
  BY <1>1, <1>2, <1>3, BigEndianType DEF BigEndian
<1>6. PICK value : value = [i \in 0 .. width |-> s[width - i]]
  OBVIOUS
<1>7. ASSUME NEW i \in 0 .. width
      PROVE  value[i] = IF i = 0 THEN 0 ELSE value[i - 1] * b + bytes[i]
  <2>1. CASE i = 0
    BY <1>4, <1>6, <2>1
  <2>2. CASE i # 0
    <3>1. PICK k \in 0 .. width : k = width - i
      OBVIOUS
    <3>2. k + 1 \in 1 .. width /\ width - (i - 1) = k + 1 /\ i - 1 \in 0 .. width /\ k + 1 - 1 = k
          /\ i \in 1 .. width
      BY <2>2, <3>1
    <3>3. s[k + 1] = s[k] \div b /\ s[k] \in Nat
      BY <1>4, <3>2
    <3>4. value[i] = s[k] /\ value[i - 1] = s[k] \div b /\ bytes[i] = s[k] % b
      BY <1>5, <1>6, <3>1, <3>2, <3>3
    <3>5. ((s[k] \div b) * b) + (s[k] % b) = s[k]
      BY <3>3, Division
    <3> QED  BY <2>2, <3>4, <3>5
  <2> QED  BY <2>1, <2>2
<1>8. IsValue(value, bytes)
  BY <1>2, <1>5, <1>6, <1>7 DEF IsValue
<1>9. Number(bytes) = value[width]
  BY <1>5, <1>8, NumberIs
<1>10. value[width] = n
  BY <1>4, <1>6
<1> QED  BY <1>1, <1>9, <1>10

\* A part of a sequence that holds the elements of another one is the other one.
LEMMA PartIs ==
  ASSUME NEW S, NEW bytes \in Seq(S), NEW part \in Seq(S), NEW from \in Nat, NEW l \in Nat, l = Len(part),
         from + l <= Len(bytes), \A j \in 1 .. l : bytes[from + j] = part[j]
  PROVE  SubSeq(bytes, from + 1, from + l) = part
<1>1. PICK u : u = SubSeq(bytes, from + 1, from + l)
  OBVIOUS
<1>2. PICK lo \in Int, hi \in Int : lo = from + 1 /\ hi = from + l
  OBVIOUS
<1>3. PICK total \in Nat : total = Len(bytes)
  BY LenProperties
<1>4. \A i \in lo .. hi : bytes[i] \in S
  <2>1. \A i \in lo .. hi : i \in 1 .. total
    BY <1>2, <1>3
  <2> QED  BY <1>3, <2>1, ElementOfSeq
<1>5. /\ u \in Seq(S) /\ Len(u) = IF lo <= hi THEN hi - lo + 1 ELSE 0
      /\ \A i \in 1 .. hi - lo + 1 : u[i] = bytes[lo + i - 1]
  <2>1. u = SubSeq(bytes, lo, hi)
    BY <1>1, <1>2
  <2> QED  BY <1>4, <2>1, SubSeqProperties
<1>6. Len(u) = l /\ hi - lo + 1 = l
  BY <1>2, <1>5
<1>7. \A i \in 1 .. l : u[i] = part[i]
  <2>1. \A i \in 1 .. l : lo + i - 1 = from + i
    BY <1>2
  <2> QED  BY <1>5, <1>6, <2>1
<1>8. u \in [1 .. l -> S] /\ part \in [1 .. l -> S]
  BY <1>5, <1>6, LenProperties
<1>9. u = part
  BY <1>7, <1>8
<1> QED  BY <1>1, <1>9

LEMMA SmallRemainder ==
  ASSUME NEW c \in Nat, NEW b \in Nat, c < b
  PROVE  c % b = c
OBVIOUS

\* bytes holds the first c of the identifiers, one after the other.
AreIdentifiers(bytes, ids, c) ==
  /\ bytes \in Seq(Byte) /\ Len(bytes) = 4 * c
  /\ \A k \in 1 .. c : \A j \in 1 .. 4 : bytes[4 * (k - 1) + j] = BigEndian(ids[k], 4)[j]

\* The identifiers of an endpoint, four bytes each.
LEMMA IdentifierBytes ==
  ASSUME NEW ids \in Seq(Nat), NEW c \in Nat \ {0}, c = Len(ids)
  PROVE  AreIdentifiers(FlattenSeq([j \in DOMAIN ids |-> BigEndian(ids[j], 4)]), ids, c)
<1>1. PICK items : items = [j \in DOMAIN ids |-> BigEndian(ids[j], 4)]
  OBVIOUS
<1>2. DOMAIN ids = 1 .. c /\ \A k \in 1 .. c : ids[k] \in Nat
  BY LenProperties, ElementOfSeq
<1>3. \A k \in 1 .. c : items[k] = BigEndian(ids[k], 4) /\ items[k] \in Seq(Byte) /\ Len(items[k]) = 4
  BY <1>1, <1>2, BigEndianType
<1>4. items \in Seq(Seq(Byte)) /\ Len(items) = c /\ items # <<>>
  <2>1. items \in [1 .. c -> Seq(Byte)]
    BY <1>1, <1>2, <1>3
  <2>2. items \in Seq(Seq(Byte)) /\ Len(items) = c
    BY <2>1
  <2> QED  BY <2>2
<1>5. PICK rest \in Seq(Byte) : rest = FlattenSeq(items)
  BY <1>4, Flattened
<1>6. PICK end : /\ end[0] = 0 /\ end[c] = Len(rest)
                 /\ \A k \in 1 .. c :
                      /\ end[k] = end[k - 1] + 4
                      /\ \A j \in 1 .. 4 : rest[end[k - 1] + j] = items[k][j]
  <2>1. PICK end : Holds(rest, items, end)
    BY <1>4, <1>5, Flattened
  <2>2. /\ end[0] = 0 /\ end[c] = Len(rest)
        /\ \A k \in 1 .. c :
             /\ end[k] = end[k - 1] + Len(items[k])
             /\ \A j \in 1 .. Len(items[k]) : rest[end[k - 1] + j] = items[k][j]
    BY <1>4, <2>1 DEF Holds
  <2>3. ASSUME NEW k \in 1 .. c
        PROVE  /\ end[k] = end[k - 1] + 4
               /\ \A j \in 1 .. 4 : rest[end[k - 1] + j] = items[k][j]
    <3>1. Len(items[k]) = 4
      BY <1>3
    <3> QED  BY <2>2, <3>1
  <2> QED  BY <2>2, <2>3
<1>7. \A k \in 0 .. c : end[k] = 4 * k
  <2> DEFINE T == {k \in 0 .. c : end[k] = 4 * k}
  <2>1. 0 \in T
    BY <1>6
  <2>2. ASSUME NEW k \in 1 .. c, k - 1 \in T PROVE k \in T
    <3>1. end[k - 1] = 4 * (k - 1) /\ end[k] = end[k - 1] + 4
      BY <1>6, <2>2
    <3>2. 4 * (k - 1) + 4 = 4 * k
      OBVIOUS
    <3> QED  BY <3>1, <3>2
  <2>3. \A k \in 0 .. c : k \in T
    <3> HIDE DEF T
    <3> QED  BY <2>1, <2>2, ClimbFromZero
  <2> QED  BY <2>3
<1>8. ASSUME NEW k \in 1 .. c, NEW j \in 1 .. 4
      PROVE  rest[4 * (k - 1) + j] = BigEndian(ids[k], 4)[j]
  <2>1. end[k - 1] = 4 * (k - 1)
    BY <1>7
  <2> QED  BY <1>3, <1>6, <2>1
<1>9. Len(rest) = 4 * c
  BY <1>6, <1>7
<1> QED  BY <1>1, <1>5, <1>8, <1>9 DEF AreIdentifiers

\* An endpoint in eight bytes, the count of its identifiers, the identifiers.
IsEndpoint(b, e, ids) ==
  /\ b \in Seq(Byte) /\ Len(b) = EndpointSize + 4 * Len(ids)
  /\ \A j \in 1 .. 8 : b[j] = BigEndian(e, 8)[j]
  /\ b[9] = Len(ids)
  /\ \A k \in 1 .. Len(ids) : \A j \in 1 .. 4 :
       b[EndpointSize + 4 * (k - 1) + j] = BigEndian(ids[k], 4)[j]

LEMMA EndpointBytes ==
  ASSUME NEW e \in Nat, NEW ids \in Seq(Nat), Len(ids) \in 1 .. MaxUint8
  PROVE  IsEndpoint(MarshalEndpoint(e, ids), e, ids)
<1>0. PICK c \in 1 .. MaxUint8 : c = Len(ids)
  OBVIOUS
<1>1. MaxUint8 \in Nat /\ c \in Nat \ {0} /\ c \in Byte
  BY CodecAssumption DEF Byte
<1>2. Len(ids) % (MaxUint8 + 1) = c
  <2>1. c \in Nat /\ MaxUint8 + 1 \in Nat /\ c < MaxUint8 + 1
    BY <1>1
  <2>2. c % (MaxUint8 + 1) = c
    BY <2>1, SmallRemainder
  <2> QED  BY <1>0, <2>2
<1> DEFINE items == [j \in DOMAIN ids |-> BigEndian(ids[j], 4)]
<1>3. PICK first : first = BigEndian(e, 8)
  OBVIOUS
<1>4. first \in Seq(Byte) /\ Len(first) = 8
  BY <1>3, BigEndianType
<1>5. PICK count : count = <<c>>
  OBVIOUS
<1>6. count \in Seq(Byte) /\ Len(count) = 1 /\ count[1] = c
  BY <1>1, <1>5
<1>7. PICK rest : rest = FlattenSeq(items)
  OBVIOUS
<1>8. /\ rest \in Seq(Byte) /\ Len(rest) = 4 * c
      /\ \A k \in 1 .. c : \A j \in 1 .. 4 : rest[4 * (k - 1) + j] = BigEndian(ids[k], 4)[j]
  <2>1. AreIdentifiers(rest, ids, c)
    BY <1>0, <1>1, <1>7, IdentifierBytes
  <2> QED  BY <2>1 DEF AreIdentifiers
<1>9. PICK head : head = first \o count
  OBVIOUS
<1>10. /\ head \in Seq(Byte) /\ Len(head) = 9 /\ (\A j \in 1 .. 8 : head[j] = first[j])
       /\ head[9] = c
  <2>1. /\ head \in Seq(Byte) /\ Len(head) = Len(first) + Len(count)
        /\ \A j \in 1 .. Len(first) : head[j] = first[j]
        /\ \A j \in 1 .. Len(count) : head[Len(first) + j] = count[j]
    <3>1. first \in Seq(Byte) /\ count \in Seq(Byte)
      BY <1>4, <1>6
    <3> QED  BY <1>9, <3>1, ConcatParts
  <2>2. 1 \in 1 .. Len(count) /\ Len(first) + 1 = 9
    BY <1>4, <1>6
  <2>3. head[9] = count[1]
    BY <2>1, <2>2
  <2> QED  BY <1>4, <1>6, <2>1, <2>3
<1>11. PICK b : b = head \o rest
  OBVIOUS
<1>12. /\ b \in Seq(Byte) /\ Len(b) = 9 + 4 * c
       /\ \A j \in 1 .. 9 : b[j] = head[j]
       /\ \A j \in 1 .. 4 * c : b[9 + j] = rest[j]
  <2>1. /\ b \in Seq(Byte) /\ Len(b) = Len(head) + Len(rest)
        /\ \A j \in 1 .. Len(head) : b[j] = head[j]
        /\ \A j \in 1 .. Len(rest) : b[Len(head) + j] = rest[j]
    <3>1. head \in Seq(Byte) /\ rest \in Seq(Byte)
      BY <1>8, <1>10
    <3> QED  BY <1>11, <3>1, ConcatParts
  <2> QED  BY <1>8, <1>10, <2>1
<1>13. b = MarshalEndpoint(e, ids)
  <2>1. count = <<Len(ids) % (MaxUint8 + 1)>>
    BY <1>2, <1>5
  <2>2. MarshalEndpoint(e, ids) = first \o count \o rest
    BY <1>3, <1>7, <2>1, Zenon DEF MarshalEndpoint
  <2> QED  BY <1>9, <1>11, <2>2, Zenon
<1>14. ASSUME NEW j \in 1 .. 8 PROVE b[j] = BigEndian(e, 8)[j]
  <2>1. j \in 1 .. 9
    OBVIOUS
  <2>2. b[j] = first[j]
    BY <1>10, <1>12, <2>1
  <2> QED  BY <1>3, <2>2
<1>15. b[9] = c
  <2>1. 9 \in 1 .. 9
    OBVIOUS
  <2> QED  BY <1>10, <1>12, <2>1
<1>16. ASSUME NEW k \in 1 .. c, NEW j \in 1 .. 4
       PROVE  b[9 + 4 * (k - 1) + j] = BigEndian(ids[k], 4)[j]
  <2>1. PICK i : i = 4 * (k - 1) + j
    OBVIOUS
  <2>2. i \in 1 .. 4 * c /\ 9 + 4 * (k - 1) + j = 9 + i
    BY <1>1, <2>1
  <2>3. b[9 + i] = rest[i]
    BY <1>12, <2>2
  <2> QED  BY <1>8, <2>1, <2>2, <2>3
<1>17. IsEndpoint(b, e, ids)
  BY <1>0, <1>12, <1>14, <1>15, <1>16 DEF IsEndpoint, EndpointSize
<1> QED  BY <1>13, <1>17

\* A number is read back from where its bytes are.
LEMMA NumberAt ==
  ASSUME NEW bytes \in Seq(Byte), NEW n \in Nat, NEW width \in Nat, FitsIn(n, width),
         NEW from \in Nat, from + width <= Len(bytes),
         \A j \in 1 .. width : bytes[from + j] = BigEndian(n, width)[j]
  PROVE  Number(SubSeq(bytes, from + 1, from + width)) = n
<1>1. PICK part : part = BigEndian(n, width)
  OBVIOUS
<1>2. part \in Seq(Byte) /\ Len(part) = width
  BY <1>1, BigEndianType
<1>3. SubSeq(bytes, from + 1, from + width) = part
  <2>1. width = Len(part) /\ \A j \in 1 .. width : bytes[from + j] = part[j]
    BY <1>1, <1>2
  <2> QED  BY <1>2, <2>1, PartIs
<1> QED  BY <1>1, <1>3, NumberReadBack

\* what is read when i bytes are, from says what is read later
ReadAt(from, bytes, i) ==
  IF i = Len(bytes) THEN {}
  ELSE IF i + EndpointSize >= Len(bytes) THEN {Failed}
  ELSE LET count == bytes[i + 9]
           start == i + EndpointSize
       IN  IF start + 4 * count > Len(bytes) THEN {Failed}
           ELSE {<<Number(SubSeq(bytes, i + 1, i + 8)),
                   [j \in 1 .. count |->
                      Number(SubSeq(bytes, start + 4 * j - 3, start + 4 * j))]>>}
                \union from[start + 4 * count]

IsRead(from, bytes) == from = [i \in 0 .. Len(bytes) |-> ReadAt(from, bytes, i)]

LEMMA ReadLater ==
  ASSUME NEW bytes \in Seq(Byte), NEW f, NEW g, NEW i \in 0 .. Len(bytes),
         \A k \in i + 1 .. Len(bytes) : f[k] = g[k]
  PROVE  ReadAt(f, bytes, i) = ReadAt(g, bytes, i)
<1>1. PICK l \in Nat : l = Len(bytes)
  BY LenProperties
<1>2. CASE i = l \/ i + EndpointSize >= l
  BY <1>1, <1>2 DEF ReadAt
<1>3. CASE ~(i = l \/ i + EndpointSize >= l)
  <2>1. i \in Nat /\ i + 9 \in 1 .. l
    BY <1>1, <1>3 DEF EndpointSize
  <2>2. PICK c \in Nat : c = bytes[i + 9]
    <3>1. bytes[i + 9] \in Byte
      BY <1>1, <2>1, ElementOfSeq
    <3>2. Byte \subseteq Nat
      BY CodecAssumption DEF Byte
    <3> QED  BY <3>1, <3>2
  <2>3. PICK next \in Nat : next = i + EndpointSize + 4 * c
    BY <2>1 DEF EndpointSize
  <2>4. CASE next > l
    BY <1>1, <2>2, <2>3, <2>4 DEF ReadAt
  <2>5. CASE ~(next > l)
    <3>1. next \in i + 1 .. l
      BY <1>1, <2>1, <2>3, <2>5 DEF EndpointSize
    <3>2. f[next] = g[next]
      BY <1>1, <3>1
    <3> QED  BY <2>2, <2>3, <3>2 DEF ReadAt
  <2> QED  BY <2>4, <2>5
<1> QED  BY <1>2, <1>3

LEMMA ReadExists ==
  ASSUME NEW bytes \in Seq(Byte)
  PROVE  \E from : IsRead(from, bytes)
<1>1. PICK l \in Nat : l = Len(bytes)
  BY LenProperties
<1> DEFINE Down(f, k) == \A i \in l - k .. l : f[i] = ReadAt(f, bytes, i)
           T == {k \in 0 .. l : \E f : Down(f, k)}
<1>2. 0 \in T
  <2>1. PICK f : f = [i \in {l} |-> {}]
    OBVIOUS
  <2>2. f[l] = ReadAt(f, bytes, l)
    BY <1>1, <2>1 DEF ReadAt
  <2>3. \A i \in l - 0 .. l : i = l
    OBVIOUS
  <2>4. Down(f, 0)
    BY <2>2, <2>3
  <2> QED  BY <2>4
<1>3. ASSUME NEW k \in 1 .. l, k - 1 \in T PROVE k \in T
  <2>1. PICK f : Down(f, k - 1)
    BY <1>3
  <2>2. PICK g : g = [i \in l - k .. l |-> IF i = l - k THEN ReadAt(f, bytes, i) ELSE f[i]]
    OBVIOUS
  <2>3. ASSUME NEW i \in l - k .. l PROVE g[i] = ReadAt(g, bytes, i)
    <3>1. i \in 0 .. Len(bytes)
      BY <1>1
    <3>2. \A j \in i + 1 .. Len(bytes) : f[j] = g[j]
      <4>1. \A j \in i + 1 .. Len(bytes) : j \in l - k .. l /\ j # l - k
        BY <1>1
      <4> QED  BY <2>2, <4>1
    <3>3. ReadAt(f, bytes, i) = ReadAt(g, bytes, i)
      BY <3>1, <3>2, ReadLater
    <3>4. g[i] = ReadAt(f, bytes, i)
      <4>1. CASE i = l - k
        BY <2>2, <4>1
      <4>2. CASE i # l - k
        <5>1. i \in l - (k - 1) .. l
          BY <4>2
        <5> QED  BY <2>1, <2>2, <4>2, <5>1
      <4> QED  BY <4>1, <4>2
    <3> QED  BY <3>3, <3>4
  <2> QED  BY <2>3
<1>4. l \in T
  <2> HIDE DEF T
  <2>1. \A k \in 0 .. l : k \in T
    BY <1>2, <1>3, ClimbFromZero
  <2> QED  BY <2>1
<1>5. PICK f : Down(f, l)
  BY <1>4
<1>6. PICK g : g = [i \in 0 .. l |-> f[i]]
  OBVIOUS
<1>7. ASSUME NEW i \in 0 .. l PROVE g[i] = ReadAt(g, bytes, i)
  <2>1. i \in 0 .. Len(bytes) /\ \A j \in i + 1 .. Len(bytes) : f[j] = g[j]
    BY <1>1, <1>6
  <2>2. ReadAt(f, bytes, i) = ReadAt(g, bytes, i)
    BY <2>1, ReadLater
  <2>3. f[i] = ReadAt(f, bytes, i)
    <3>1. i \in l - l .. l
      OBVIOUS
    <3> QED  BY <1>5, <3>1
  <2> QED  BY <1>6, <2>2, <2>3
<1>8. g = [i \in 0 .. l |-> ReadAt(g, bytes, i)]
  BY <1>6, <1>7
<1> QED  BY <1>1, <1>8 DEF IsRead

\* an endpoint and identifiers that can be written
IsPair(a) ==
  /\ a \in Nat \X Seq(Nat)
  /\ FitsIn(a[1], 8) /\ Len(a[2]) \in 1 .. MaxUint8 /\ \A j \in DOMAIN a[2] : FitsIn(a[2][j], 4)

\* b is what follows the first i bytes, and next the number of bytes up to its end.
Follows(bytes, i, b, next) ==
  /\ next = i + Len(b) /\ next <= Len(bytes)
  /\ \A j \in 1 .. Len(b) : bytes[i + j] = b[j]

\* What is read after the first i bytes is a and what is read from next on.
GivesFirst(from, bytes, i, a, next) == ReadAt(from, bytes, i) = {a} \union from[next]

\* An endpoint and its identifiers are read back from where their bytes are.
LEMMA EndpointRead ==
  ASSUME NEW bytes \in Seq(Byte), NEW a, IsPair(a), NEW b, IsEndpoint(b, a[1], a[2]),
         NEW i \in Nat, NEW next \in Nat, Follows(bytes, i, b, next), NEW from
  PROVE  GivesFirst(from, bytes, i, a, next)
<1>0. PICK e \in Nat, ids \in Seq(Nat) : a = <<e, ids>>
  BY DEF IsPair
<1>01. /\ FitsIn(e, 8) /\ Len(ids) \in 1 .. MaxUint8 /\ \A j \in DOMAIN ids : FitsIn(ids[j], 4)
       /\ IsEndpoint(b, e, ids)
  BY <1>0 DEF IsPair
<1>02. PICK c \in 1 .. MaxUint8 : c = Len(ids)
  BY <1>01
<1>1. MaxUint8 \in Nat /\ c \in Nat \ {0}
  BY CodecAssumption
<1>2. PICK l \in Nat : l = Len(bytes)
  BY LenProperties
<1>3. /\ EndpointSize = 9 /\ Len(b) = 9 + 4 * c
      /\ \A j \in 1 .. 8 : b[j] = BigEndian(e, 8)[j]
      /\ b[9] = c
      /\ \A k \in 1 .. c : \A j \in 1 .. 4 : b[9 + 4 * (k - 1) + j] = BigEndian(ids[k], 4)[j]
  BY <1>01, <1>02 DEF IsEndpoint, EndpointSize
<1>4. DOMAIN ids = 1 .. c /\ \A k \in 1 .. c : ids[k] \in Nat /\ FitsIn(ids[k], 4)
  BY <1>01, <1>02, <1>1, LenProperties, ElementOfSeq
<1>5. next = i + 9 + 4 * c /\ next <= l
  BY <1>1, <1>2, <1>3 DEF Follows
<1>6. \A j \in 1 .. 9 + 4 * c : bytes[i + j] = b[j]
  BY <1>3 DEF Follows
<1>8. bytes[i + 9] = c
  <2>1. 9 \in 1 .. 9 + 4 * c
    BY <1>1
  <2> QED  BY <1>3, <1>6, <2>1
<1>9. Number(SubSeq(bytes, i + 1, i + 8)) = e
  <2>1. \A j \in 1 .. 8 : bytes[i + j] = BigEndian(e, 8)[j]
    <3>1. \A j \in 1 .. 8 : j \in 1 .. 9 + 4 * c
      BY <1>1
    <3> QED  BY <1>3, <1>6, <3>1
  <2>2. i + 8 <= Len(bytes)
    BY <1>1, <1>2, <1>5
  <2> QED  BY <1>01, <2>1, <2>2, NumberAt
<1>10. ASSUME NEW k \in 1 .. c
       PROVE  Number(SubSeq(bytes, i + 9 + 4 * k - 3, i + 9 + 4 * k)) = ids[k]
  <2>1. PICK at \in Nat : at = i + 9 + 4 * (k - 1)
    OBVIOUS
  <2>2. at + 1 = i + 9 + 4 * k - 3 /\ at + 4 = i + 9 + 4 * k /\ at + 4 <= l
    BY <1>1, <1>5, <2>1
  <2>3. ASSUME NEW j \in 1 .. 4 PROVE bytes[at + j] = BigEndian(ids[k], 4)[j]
    <3>1. PICK h : h = 9 + 4 * (k - 1) + j
      OBVIOUS
    <3>2. h \in 1 .. 9 + 4 * c /\ at + j = i + h
      <4>1. PICK x \in Nat : x = 4 * (k - 1) /\ x + 4 <= 4 * c
        BY <1>1
      <4>2. at = i + 9 + x /\ h = 9 + x + j
        BY <2>1, <3>1, <4>1
      <4> QED  BY <4>1, <4>2
    <3>3. b[h] = BigEndian(ids[k], 4)[j]
      BY <1>3, <3>1
    <3> QED  BY <1>6, <3>2, <3>3
  <2>4. ids[k] \in Nat /\ FitsIn(ids[k], 4)
    BY <1>4
  <2>5. Number(SubSeq(bytes, at + 1, at + 4)) = ids[k]
    <3>1. at + 4 <= Len(bytes)
      BY <1>2, <2>2
    <3> QED  BY <2>3, <2>4, <3>1, NumberAt, Zenon
  <2> QED  BY <2>2, <2>5
<1>11. [k \in 1 .. c |-> Number(SubSeq(bytes, i + 9 + 4 * k - 3, i + 9 + 4 * k))] = ids
  <2>1. ids = [k \in 1 .. c |-> ids[k]]
    BY <1>4
  <2> QED  BY <1>10, <2>1
<1>12. ~(i = l) /\ ~(i + 9 >= l) /\ ~(i + 9 + 4 * c > l)
  BY <1>1, <1>5
<1>13. ReadAt(from, bytes, i) =
         {<<Number(SubSeq(bytes, i + 1, i + 8)),
            [k \in 1 .. c |-> Number(SubSeq(bytes, i + 9 + 4 * k - 3, i + 9 + 4 * k))]>>}
           \union from[i + 9 + 4 * c]
  BY <1>2, <1>3, <1>8, <1>12 DEF ReadAt
<1> QED  BY <1>0, <1>5, <1>9, <1>11, <1>13 DEF GivesFirst

Collected(acks) ==
  acks # {} /\ IsFiniteSet(acks) /\ \A a \in acks : IsPair(a)

\* unmarshalAcknowledgement gives back the identifiers of every endpoint that
\* marshalAcknowledgement wrote, in whatever order its map gave the endpoints.
THEOREM AcknowledgementReadBack ==
  ASSUME NEW acks, Collected(acks), Failed \notin acks, NEW bytes \in MarshalAcknowledgement(acks)
  PROVE  bytes \in Seq(Byte) /\ UnmarshalAcknowledgement(bytes) = acks
<1>1. MaxUint8 \in Nat
  BY CodecAssumption
<1>2. PICK n \in Nat \ {0} : n = Cardinality(acks)
  BY FS_CardinalityType, FS_EmptySet DEF Collected
<1>3. PICK order \in SetToSeqs(acks) :
        bytes = FlattenSeq([i \in DOMAIN order |-> MarshalEndpoint(order[i][1], order[i][2])])
  BY DEF MarshalAcknowledgement
<1>4. /\ order \in [1 .. n -> acks]
      /\ \A i, j \in 1 .. n : i # j => order[i] # order[j]
  BY <1>2 DEF SetToSeqs
<1>5. \A a \in acks : \E i \in 1 .. n : order[i] = a
  <2>1. order \in Injection(1 .. n, acks)
    BY <1>4 DEF Injection, IsInjective
  <2>2. Cardinality(1 .. n) = n
    BY FS_Interval
  <2>3. order \in Surjection(1 .. n, acks)
    BY <1>2, <2>1, <2>2, FS_Injection DEF Collected
  <2> QED  BY <2>3 DEF Surjection
<1>6. PICK items : items = [i \in DOMAIN order |-> MarshalEndpoint(order[i][1], order[i][2])]
  OBVIOUS
<1>7. ASSUME NEW i \in 1 .. n
      PROVE  IsPair(order[i]) /\ IsEndpoint(items[i], order[i][1], order[i][2])
  <2>1. PICK a \in acks : a = order[i]
    BY <1>4
  <2>2. IsPair(a)
    BY DEF Collected
  <2>3. items[i] = MarshalEndpoint(a[1], a[2])
    BY <1>4, <1>6, <2>1
  <2>4. a[1] \in Nat /\ a[2] \in Seq(Nat) /\ Len(a[2]) \in 1 .. MaxUint8
    BY <2>2 DEF IsPair
  <2>5. IsEndpoint(items[i], a[1], a[2])
    BY <2>3, <2>4, EndpointBytes
  <2> QED  BY <2>1, <2>2, <2>5
<1>8. items \in Seq(Seq(Byte)) /\ Len(items) = n /\ items # <<>>
  <2>1. items \in [1 .. n -> Seq(Byte)]
    BY <1>4, <1>6, <1>7 DEF IsEndpoint
  <2>2. items \in Seq(Seq(Byte)) /\ Len(items) = n
    BY <2>1
  <2> QED  BY <2>2
<1>9. bytes \in Seq(Byte)
  BY <1>3, <1>6, <1>8, Flattened
<1>10. PICK l \in Nat : l = Len(bytes)
  BY <1>9, LenProperties
<1>11. PICK end : /\ end \in [0 .. n -> Nat] /\ end[0] = 0 /\ end[n] = l
                  /\ \A k \in 1 .. n :
                       /\ end[k] = end[k - 1] + Len(items[k]) /\ end[k] <= l
                       /\ \A j \in 1 .. Len(items[k]) : bytes[end[k - 1] + j] = items[k][j]
  <2>1. PICK end : Holds(bytes, items, end)
    BY <1>3, <1>6, <1>8, Flattened
  <2>2. /\ end \in [0 .. n -> Nat] /\ end[0] = 0 /\ end[n] = l
        /\ \A k \in 1 .. n :
             /\ end[k] = end[k - 1] + Len(items[k]) /\ end[k] <= l
             /\ \A j \in 1 .. Len(items[k]) : bytes[end[k - 1] + j] = items[k][j]
    BY <1>8, <1>10, <2>1 DEF Holds
  <2> QED  BY <2>2
<1>12. PICK from : from = CHOOSE f : IsRead(f, bytes)
  OBVIOUS
<1>13. from = [i \in 0 .. l |-> ReadAt(from, bytes, i)]
  <2>1. IsRead(from, bytes)
    BY <1>9, <1>12, ReadExists
  <2> QED  BY <1>10, <2>1 DEF IsRead
<1>14. ASSUME NEW k \in 1 .. n
       PROVE  from[end[k - 1]] = {order[k]} \union from[end[k]]
  <2>1. PICK i \in Nat, next \in Nat : i = end[k - 1] /\ next = end[k]
    <3>1. k - 1 \in 0 .. n /\ k \in 0 .. n
      OBVIOUS
    <3> QED  BY <1>11, <3>1
  <2>2. /\ next = i + Len(items[k]) /\ next <= l
        /\ \A j \in 1 .. Len(items[k]) : bytes[i + j] = items[k][j]
    BY <1>11, <2>1
  <2>3. ReadAt(from, bytes, i) = {order[k]} \union from[next]
    <3>1. PICK b : b = items[k]
      OBVIOUS
    <3>2. PICK a : a = order[k]
      OBVIOUS
    <3>3. IsPair(a) /\ IsEndpoint(b, a[1], a[2])
      BY <1>7, <3>1, <3>2
    <3>4. Follows(bytes, i, b, next)
      BY <1>10, <2>2, <3>1 DEF Follows
    <3>5. GivesFirst(from, bytes, i, a, next)
      BY <1>9, <3>3, <3>4, EndpointRead
    <3> QED  BY <3>2, <3>5 DEF GivesFirst
  <2>4. i \in 0 .. l
    <3>1. PICK m \in Nat : m = Len(items[k])
      BY <1>7, LenProperties DEF IsEndpoint
    <3> QED  BY <2>2, <3>1
  <2>5. from[i] = ReadAt(from, bytes, i)
    BY <1>13, <2>4
  <2> QED  BY <2>1, <2>3, <2>5
<1> DEFINE After(k) == {order[j] : j \in k + 1 .. n}
           T == {m \in 0 .. n : from[end[n - m]] = After(n - m)}
<1>15. 0 \in T
  <2>1. from[l] = {}
    <3>1. l \in 0 .. l
      OBVIOUS
    <3>2. from[l] = ReadAt(from, bytes, l)
      BY <1>13, <3>1, Zenon
    <3> QED  BY <1>10, <3>2 DEF ReadAt
  <2>2. n - 0 = n /\ n + 1 .. n = {}
    OBVIOUS
  <2>3. After(n - 0) = {}
    BY <2>2
  <2> QED  BY <1>11, <2>1, <2>2, <2>3
<1>16. ASSUME NEW m \in 1 .. n, m - 1 \in T PROVE m \in T
  <2>1. PICK k \in 1 .. n : k = n - (m - 1) /\ k - 1 = n - m
    OBVIOUS
  <2>2. from[end[k]] = After(k)
    BY <1>16, <2>1
  <2>3. After(k - 1) = {order[k]} \union After(k)
    <3>1. k - 1 + 1 .. n = {k} \union (k + 1 .. n)
      OBVIOUS
    <3> QED  BY <3>1
  <2>4. from[end[k - 1]] = After(k - 1)
    BY <1>14, <2>2, <2>3
  <2> QED  BY <2>1, <2>4
<1>17. from[0] = acks
  <2>1. n \in T
    <3> HIDE DEF T
    <3>1. \A m \in 0 .. n : m \in T
      BY <1>15, <1>16, ClimbFromZero
    <3> QED  BY <3>1
  <2>2. from[end[n - n]] = After(n - n)
    BY <2>1
  <2>3. n - n = 0 /\ 0 + 1 = 1
    OBVIOUS
  <2>4. from[0] = {order[j] : j \in 1 .. n}
    BY <1>11, <2>2, <2>3
  <2>5. \A j \in 1 .. n : order[j] \in acks
    BY <1>4
  <2>6. from[0] \subseteq acks
    BY <2>4, <2>5
  <2>7. acks \subseteq from[0]
    BY <1>5, <2>4
  <2> QED  BY <2>6, <2>7
<1>18. ~(l < MinAcknowledgement)
  <2>1. 1 \in 1 .. n /\ 1 - 1 = 0
    OBVIOUS
  <2>2. PICK c \in Nat \ {0} : c = Len(order[1][2])
    BY <1>1, <1>7, <2>1 DEF IsPair
  <2>3. Len(items[1]) = 9 + 4 * c
    BY <1>7, <2>1, <2>2 DEF IsEndpoint, EndpointSize
  <2>4. end[1] = 0 + Len(items[1]) /\ end[1] <= l
    BY <1>11, <2>1
  <2> QED  BY <2>3, <2>4 DEF MinAcknowledgement
<1>19. UnmarshalAcknowledgement(bytes) =
         IF Len(bytes) < MinAcknowledgement \/ Failed \in from[0] THEN Failed ELSE from[0]
  BY <1>12 DEF UnmarshalAcknowledgement, IsRead, ReadAt
<1> QED  BY <1>9, <1>10, <1>17, <1>18, <1>19

\* Two strings take their lengths and the byte before each.
LEMMA TwoStrings ==
  ASSUME NEW strings \in Seq(Seq(Byte)), Len(strings) = 2, MarshalBytes(strings) # Failed
  PROVE  Len(MarshalBytes(strings)) = 2 + Len(strings[1]) + Len(strings[2])
<1>1. PICK items : items = Items(strings)
  OBVIOUS
<1>2. strings # <<>>
  BY EmptySeq
<1>3. /\ MarshalBytes(strings) = FlattenSeq(items) /\ items \in Seq(Seq(Byte)) /\ Len(items) = 2
      /\ items # <<>>
      /\ \A i \in 1 .. 2 : Len(strings[i]) \in Nat /\ Len(items[i]) = 1 + Len(strings[i])
  BY <1>1, <1>2, ItemsRight
<1>4. PICK total : total = FlattenSeq(items)
  OBVIOUS
<1>5. PICK end : Holds(total, items, end)
  BY <1>3, <1>4, Flattened
<1>6. 1 \in 1 .. 2 /\ 2 \in 1 .. 2 /\ 1 - 1 = 0 /\ 2 - 1 = 1
  OBVIOUS
<1>7. end[0] = 0 /\ end[2] = Len(total) /\ end[1] = end[0] + Len(items[1]) /\ end[2] = end[1] + Len(items[2])
  BY <1>3, <1>5, <1>6 DEF Holds
<1>8. PICK x \in Nat, y \in Nat : x = Len(strings[1]) /\ y = Len(strings[2])
  BY <1>3
<1>9. Len(items[1]) = 1 + x /\ Len(items[2]) = 1 + y
  BY <1>3, <1>8
<1>10. Len(total) = 2 + x + y
  BY <1>7, <1>9
<1> QED  BY <1>3, <1>4, <1>8, <1>10

LEMMA FirstAndRest ==
  ASSUME NEW S, NEW s \in Seq(S), s # <<>>
  PROVE  <<s[1]>> \o Tail(s) = s
<1>1. PICK n \in Nat : n = Len(s)
  BY LenProperties
<1>2. n # 0 /\ s \in [1 .. n -> S]
  BY <1>1, EmptySeq, LenProperties
<1>3. PICK a : a = <<s[1]>>
  OBVIOUS
<1>4. PICK t : t = Tail(s)
  OBVIOUS
<1>5. a \in Seq(S) /\ Len(a) = 1 /\ a[1] = s[1]
  <2>1. s[1] \in S
    BY <1>1, <1>2
  <2> QED  BY <1>3, <2>1
<1>6. t \in Seq(S) /\ Len(t) = n - 1 /\ \A i \in 1 .. n - 1 : t[i] = s[i + 1]
  BY <1>1, <1>4, HeadTailProperties
<1>7. PICK u : u = a \o t
  OBVIOUS
<1>8. /\ u \in Seq(S) /\ Len(u) = Len(a) + Len(t)
      /\ \A j \in 1 .. Len(a) : u[j] = a[j]
      /\ \A j \in 1 .. Len(t) : u[Len(a) + j] = t[j]
  <2>1. a \in Seq(S) /\ t \in Seq(S)
    BY <1>5, <1>6
  <2> QED  BY <1>7, <2>1, ConcatParts
<1>9. Len(u) = n
  BY <1>5, <1>6, <1>8
<1>10. ASSUME NEW i \in 1 .. n PROVE u[i] = s[i]
  <2>1. CASE i = 1
    <3>1. 1 \in 1 .. 1
      OBVIOUS
    <3> QED  BY <1>5, <1>8, <2>1, <3>1
  <2>2. CASE i # 1
    <3>1. PICK j \in 1 .. n - 1 : j = i - 1
      BY <2>2
    <3>2. 1 + j = i /\ j + 1 = i
      BY <3>1
    <3>3. u[1 + j] = t[j]
      BY <1>5, <1>6, <1>8
    <3>4. t[j] = s[j + 1]
      BY <1>6
    <3> QED  BY <3>2, <3>3, <3>4
  <2> QED  BY <2>1, <2>2
<1>11. u = s
  <2>1. u \in [1 .. n -> S]
    BY <1>8, <1>9, LenProperties
  <2> QED  BY <1>2, <1>10, <2>1
<1> QED  BY <1>3, <1>4, <1>7, <1>11

\* What precedes and what follows a place in two sequences put together.
LEMMA PartsOf ==
  ASSUME NEW S, NEW a \in Seq(S), NEW b \in Seq(S)
  PROVE  /\ SubSeq(a \o b, 1, Len(a)) = a
         /\ SubSeq(a \o b, Len(a) + 1, Len(a \o b)) = b
<1>0. PICK n \in Nat : n = Len(a)
  BY LenProperties
<1>1. PICK u : u = a \o b
  OBVIOUS
<1>2. PICK m \in Nat : m = Len(b)
  BY LenProperties
<1>3. /\ u \in Seq(S) /\ Len(u) = n + m
      /\ \A j \in 1 .. n : u[j] = a[j]
      /\ \A j \in 1 .. m : u[n + j] = b[j]
  BY <1>0, <1>1, <1>2, ConcatParts
<1>4. SubSeq(u, 0 + 1, 0 + n) = a
  <2>1. \A j \in 1 .. n : u[0 + j] = a[j]
    BY <1>3
  <2>2. 0 + n <= Len(u)
    BY <1>3
  <2> QED  BY <1>0, <1>3, <2>1, <2>2, PartIs
<1>5. SubSeq(u, n + 1, n + m) = b
  <2>1. n + m <= Len(u)
    BY <1>3
  <2> QED  BY <1>2, <1>3, <2>1, PartIs
<1>6. SubSeq(u, 1, n) = a /\ SubSeq(u, n + 1, Len(u)) = b
  <2>1. 0 + 1 = 1 /\ 0 + n = n
    OBVIOUS
  <2> QED  BY <1>3, <1>4, <1>5, <2>1
<1> QED  BY <1>0, <1>1, <1>6

-----------------------------------------------------------------------------
(* Wire: headers and lengths *)

Methods == {"ecb", "gcm", "none"}

LEMMA LengthType ==
  ASSUME NEW method \in Methods, NEW n \in Nat
  PROVE  GetLength(method, n) \in Nat /\ GetLength(method, n) >= n
<1>1. BlockSize \in Nat \ {0} /\ NonceSize \in Nat /\ Overhead \in Nat
  BY CodecAssumption
<1>2. n % BlockSize \in 0 .. BlockSize - 1
  BY <1>1, SMT
<1> QED  BY <1>1, <1>2 DEF Methods, GetLength, GetLengthECB, GetLengthGCM, GetLengthEmpty

LEMMA EncryptSuccess ==
  ASSUME NEW method \in Methods, NEW data, NEW key, data.len \in Nat,
         Encrypt(method, data, key) # Failed
  PROVE  Encrypt(method, data, key) = Cipher(data, method, key, GetLength(method, data.len))
<1>1. BlockSize \in Nat \ {0} /\ NonceSize \in Nat /\ Overhead \in Nat
  BY CodecAssumption
<1>2. data.len % BlockSize \in 0 .. BlockSize - 1
  BY <1>1, SMT
<1>3. CASE method = "ecb"
  <2>1. data.len + PKCS5Padding(data.len) = GetLength(method, data.len)
    BY <1>1, <1>2, <1>3 DEF GetLength, GetLengthECB, PKCS5Padding
  <2> QED  BY <2>1, <1>3 DEF Encrypt, EncryptECB
<1>4. CASE method = "gcm"
  <2>1. NonceSize + data.len + Overhead = GetLength(method, data.len)
    BY <1>1, <1>4 DEF GetLength, GetLengthGCM
  <2> QED  BY <2>1, <1>4 DEF Encrypt, EncryptGCM
<1>5. CASE method = "none"
  BY <1>5 DEF Encrypt, EncryptEmpty, GetLength, GetLengthEmpty
<1> QED  BY <1>3, <1>4, <1>5 DEF Methods

\* The flags of a header can be told apart: they are different powers of two.
LEMMA FlagsApart ==
  ASSUME NEW e \in {0, 1}, NEW a \in {0, 4}, NEW r \in {0, 2}, NEW c \in {0, 8, 16, 32}
  PROVE  /\ Has(e + a + r + c, 1) <=> e = 1
         /\ Has(e + a + r + c, 2) <=> r = 2
         /\ Has(e + a + r + c, 4) <=> a = 4
         /\ Has(e + a + r + c, 8) <=> c = 8
         /\ Has(e + a + r + c, 16) <=> c = 16
         /\ Has(e + a + r + c, 32) <=> c = 32
BY DEF Has

LEMMA MarshalFlagsApart ==
  ASSUME NEW m, NEW data, m.error \in Nat, m.isACK \in BOOLEAN, data.cmp \in CompressionTypes
  PROVE  LET flags == MarshalFlags(m, data)
         IN  /\ Has(flags, FlagError) <=> m.error > 0
             /\ Has(flags, FlagRequest) <=> (m.error = 0 /\ m.payload.kind = "request")
             /\ Has(flags, FlagACK) <=> m.isACK
             /\ Has(flags, FlagCompression.lz4) <=> data.cmp = "lz4"
             /\ Has(flags, FlagCompression.lzo) <=> data.cmp = "lzo"
             /\ Has(flags, FlagCompression.zstd) <=> data.cmp = "zstd"
<1> DEFINE e == IF m.error > 0 THEN FlagError ELSE 0
           a == IF m.isACK THEN FlagACK ELSE 0
           r == IF m.error = 0 /\ m.payload.kind = "request" THEN FlagRequest ELSE 0
           c == FlagCompression[data.cmp]
<1>1. e \in {0, 1} /\ a \in {0, 4} /\ r \in {0, 2} /\ c \in {0, 8, 16, 32}
  BY DEF FlagError, FlagACK, FlagRequest, FlagCompression, CompressionTypes
<1>2. /\ e = 1 <=> m.error > 0
      /\ a = 4 <=> m.isACK
      /\ r = 2 <=> (m.error = 0 /\ m.payload.kind = "request")
  BY DEF FlagError, FlagACK, FlagRequest
<1>3. /\ c = 8 <=> data.cmp = "lz4"
      /\ c = 16 <=> data.cmp = "lzo"
      /\ c = 32 <=> data.cmp = "zstd"
  BY DEF FlagCompression, CompressionTypes
<1>4. MarshalFlags(m, data) = e + a + r + c
  BY DEF MarshalFlags
<1>5. /\ FlagError = 1 /\ FlagRequest = 2 /\ FlagACK = 4 /\ FlagCompression.lz4 = 8
      /\ FlagCompression.lzo = 16 /\ FlagCompression.zstd = 32
  BY DEF FlagError, FlagRequest, FlagACK, FlagCompression
<1> HIDE DEF e, a, r, c
<1> QED  BY <1>1, <1>2, <1>3, <1>4, <1>5, FlagsApart

-----------------------------------------------------------------------------
(* What a message becomes *)

\* data is what is encrypted of message m
IsMarshalled(m, data) ==
  /\ m \in Messages
  /\ data \in MarshalPayload(m, path.obfuscate) \ {Failed}

LEMMA MessageType ==
  ASSUME NEW m \in Messages
  PROVE  /\ m.type \in MessageTypes /\ m.isACK \in BOOLEAN /\ m.cmp \in CompressionTypes
         /\ m.error \in Nat /\ m.error \in Byte
         /\ m.type = "data" => m.error = 0
         /\ IsUserData(m) =>
              /\ m.payload.fields[1] \in Seq(Byte)
              /\ Len(m.payload.fields[1]) >= IpPacketMinLength
              /\ m.payload = Fields("packet", <<m.payload.fields[1]>>)
<1>1. Byte \subseteq Nat
  BY CodecAssumption DEF Byte
<1> QED  BY <1>1, WireAssumption DEF Valid

LEMMA PacketMarshalled ==
  ASSUME NEW m, NEW data, IsMarshalled(m, data), IsUserData(m)
  PROVE  data.plain = m.payload.fields[1] /\ data.cmp \in CompressionTypes
<1>1. m.error = 0 /\ m.type = "data" /\ m.cmp \in CompressionTypes
  BY MessageType DEF IsMarshalled, IsUserData
<1>2. data \in Compress(m.cmp, m.payload.fields[1])
  <2>1. ~(m.error > 0) /\ data \in MarshalPayload(m, path.obfuscate) /\ data # Failed
    BY <1>1 DEF IsMarshalled
  <2>2. m.payload.kind \in KindOf(m)
    BY <2>1 DEF MarshalPayload
  <2> QED  BY <1>1, <2>1, <2>2 DEF MarshalPayload, IsUserData
<1> DEFINE p == m.payload.fields[1]
<1>3. CASE m.cmp = "none"
  BY <1>2, <1>3 DEF Compress, Plain, CompressionTypes
<1>4. CASE m.cmp = "lz4"
  BY <1>2, <1>4 DEF Compress, CompressLZ4, Plain, Packed, CompressionTypes
<1>5. CASE m.cmp = "lzo"
  BY <1>2, <1>5 DEF Compress, CompressLZO, Plain, Packed, CompressionTypes
<1>6. CASE m.cmp = "zstd"
  BY <1>2, <1>6 DEF Compress, CompressZSTD, Packed, CompressionTypes
<1> QED  BY <1>1, <1>3, <1>4, <1>5, <1>6 DEF CompressionTypes

LEMMA OtherMarshalled ==
  ASSUME NEW m, NEW data, IsMarshalled(m, data), ~IsUserData(m)
  PROVE  /\ data.cmp = "none" /\ data.len = Len(data.plain)
         /\ m.error > 0 => data = Plain(<<m.error>>)
         /\ m.error = 0 /\ ~IsPayload(m) => data = Plain(<<>>)
<1>1. /\ m.error \in Nat /\ m.type \in MessageTypes /\ m.isACK \in BOOLEAN
      /\ m.type = "data" => m.error = 0
  BY MessageType DEF IsMarshalled
<1>2. CASE m.error > 0
  <2>1. data = Plain(<<m.error>>) /\ ~(m.error = 0)
    BY <1>1, <1>2 DEF IsMarshalled, MarshalPayload
  <2> QED  BY <2>1 DEF Plain
<1>3. CASE m.error = 0
  <2>1. m.payload.kind \in KindOf(m)
    BY <1>3 DEF IsMarshalled, MarshalPayload
  <2>2. CASE m.type \in {"authentication", "handshake"}
    <3>1. \E b : data = Plain(b)
      BY <1>3, <2>1, <2>2 DEF IsMarshalled, MarshalPayload
    <3> QED  BY <1>3, <2>2, <3>1 DEF Plain, IsPayload
  <2>3. CASE m.type = "data"
    <3>1. m.isACK
      BY <2>3, <1>1 DEF IsUserData
    <3>2. \E b : data = Plain(b)
      BY <1>3, <2>1, <2>3, <3>1 DEF IsMarshalled, MarshalPayload, IsUserData
    <3> QED  BY <1>3, <2>3, <3>2 DEF Plain, IsPayload
  <2>4. CASE m.type \in {"keepalive", "reset"}
    <3>1. data = Plain(<<>>)
      BY <1>3, <2>1, <2>4 DEF IsMarshalled, MarshalPayload, IsUserData
    <3> QED  BY <1>3, <3>1 DEF Plain
  <2> QED  BY <1>1, <2>2, <2>3, <2>4 DEF MessageTypes
<1> QED  BY <1>1, <1>2, <1>3

\* What the receiver reads in a header that it does not refuse.
LEMMA HeaderReadBack ==
  ASSUME NEW m, NEW data, IsMarshalled(m, data), NEW method,
         NEW h, h = UnmarshalHeader(MarshalHeader(m, data, method), method), h # Failed
  PROVE  LET r == AsMessage(h)
         IN  /\ r.type = m.type /\ r.id = m.id /\ r.session = m.session
             /\ r.isACK = m.isACK /\ r.cmp = data.cmp
             /\ r.isError <=> m.error > 0
             /\ r.isRequest <=> (m.error = 0 /\ m.payload.kind = "request")
             /\ r.len = MarshalHeader(m, data, method).len
             /\ r.isError \in BOOLEAN /\ r.isRequest \in BOOLEAN /\ r.payload = NoPayload
<1>1. m.error \in Nat /\ m.isACK \in BOOLEAN /\ data.cmp \in CompressionTypes
  BY MessageType, PacketMarshalled, OtherMarshalled DEF IsMarshalled, CompressionTypes
<1> DEFINE flags == MarshalFlags(m, data)
<1>2. /\ Has(flags, FlagError) <=> m.error > 0
      /\ Has(flags, FlagRequest) <=> (m.error = 0 /\ m.payload.kind = "request")
      /\ Has(flags, FlagACK) <=> m.isACK
      /\ Has(flags, FlagCompression.lz4) <=> data.cmp = "lz4"
      /\ Has(flags, FlagCompression.lzo) <=> data.cmp = "lzo"
      /\ Has(flags, FlagCompression.zstd) <=> data.cmp = "zstd"
  BY <1>1, MarshalFlagsApart
<1>3. h = [type |-> m.type, id |-> m.id, session |-> m.session,
           len |-> MarshalHeader(m, data, method).len,
           isError |-> Has(flags, FlagError), isRequest |-> Has(flags, FlagRequest),
           isACK |-> Has(flags, FlagACK),
           cmp |-> IF Has(flags, FlagCompression.lz4) THEN "lz4"
                   ELSE IF Has(flags, FlagCompression.lzo) THEN "lzo"
                   ELSE IF Has(flags, FlagCompression.zstd) THEN "zstd" ELSE "none"]
  BY DEF UnmarshalHeader, MarshalHeader
<1>4. Has(flags, FlagError) \in BOOLEAN /\ Has(flags, FlagRequest) \in BOOLEAN
      /\ Has(flags, FlagACK) \in BOOLEAN
  BY DEF Has
<1> HIDE DEF flags
<1>5. h.cmp = data.cmp
  BY <1>1, <1>2, <1>3 DEF CompressionTypes
<1>6. h.isACK = m.isACK
  BY <1>1, <1>2, <1>3, <1>4
<1> QED  BY <1>2, <1>3, <1>4, <1>5, <1>6 DEF AsMessage

\* What is read of the bytes of a message that has neither an error nor a packet.
Unmarshalled(m, bytes) ==
  CASE m.payload.kind = "request" -> UnmarshalRequest(bytes)
    [] m.payload.kind = "response" -> UnmarshalResponse(bytes)
    [] m.payload.kind = "key" -> UnmarshalHandshake(bytes)
    [] m.payload.kind = "acknowledgement" -> UnmarshalACK(bytes)

LEMMA PathType ==
  ASSUME path \in Paths
  PROVE  /\ path.method \in Methods /\ path.obfuscate \in BOOLEAN
         /\ path.proto \in {"tcp", "udp"} /\ path.to \in {"server", "client"}
         /\ HeaderLength \in Nat \ {0}
<1>1. path \in [proto : {"tcp", "udp"}, to : {"server", "client"}, method : Methods,
               cmp : CompressionTypes, obfuscate : BOOLEAN]
  BY WireAssumption DEF Methods
<1>2. HeaderSize \in Nat \ {0}
  BY CodecAssumption
<1> QED  BY <1>1, <1>2, LengthType DEF HeaderLength

LEMMA ErrorReadBack ==
  ASSUME NEW m \in Messages, m.error > 0
  PROVE  /\ UnmarshalError(<<m.error>>) = Fields("error", <<<<m.error>>>>)
         /\ UnmarshalError(<<m.error>>) # Failed
<1>1. m.error \in Byte
  BY MessageType
<1>2. PICK e : e = m.error
  OBVIOUS
<1>3. SubSeq(<<e>>, 1, 1) = <<e>>
  <2>1. <<e>> \in Seq({e}) /\ Len(<<e>>) = 1
    OBVIOUS
  <2> QED  BY <2>1, SubSeqFull
<1>4. <<e>> # <<>>
  OBVIOUS
<1>5. UnmarshalError(<<e>>) = Fields("error", <<<<e>>>>)
  BY <1>3, <1>4 DEF UnmarshalError
<1>6. <<<<e>>>> \in Seq(Seq(Byte))
  BY <1>1, <1>2
<1>7. Fields("error", <<<<e>>>>) \in [kind : {"none", "error"}, fields : Seq(Seq(Byte)), acks : {{}}]
  BY <1>6 DEF Fields, NoPayload
<1> QED  BY <1>2, <1>5, <1>7, FailedIsApart


-----------------------------------------------------------------------------
(* Wire: payloads are read back *)

\* What is added to bytes comes after them.
LEMMA FakeAfter ==
  ASSUME NEW bytes \in Seq(Byte), NEW obfuscate \in BOOLEAN, NEW b \in AddFakeData(obfuscate, bytes)
  PROVE  \E fake \in Seq(Byte) : b = bytes \o fake
<1>1. CASE obfuscate
  <2>1. \A fake \in FakeBytes : fake \in Seq(Byte)
    BY CodecAssumption
  <2> QED  BY <1>1, <2>1 DEF AddFakeData
<1>2. CASE ~obfuscate
  <2>1. b = bytes
    BY <1>2 DEF AddFakeData
  <2>2. <<>> \in Seq(Byte) /\ bytes \o <<>> = bytes
    BY ConcatEmptySeq
  <2> QED  BY <2>1, <2>2
<1> QED  BY <1>1, <1>2

LEMMA StringsNotFailed ==
  ASSUME NEW strings \in Seq(Seq(Byte)), NEW n \in Nat \ {0}, Len(strings) = n,
         MarshalBytes(strings) # Failed, NEW fake \in Seq(Byte)
  PROVE  /\ MarshalBytes(strings) \in Seq(Byte)
         /\ UnmarshalBytes(MarshalBytes(strings) \o fake, n) = strings
         /\ strings # Failed
<1>1. strings # <<>>
  BY EmptySeq
<1>2. strings # Failed
  BY FailedIsApart
<1> QED  BY <1>1, <1>2, StringsReadBack

\* What marshalled bytes hold of a message that is neither an error nor a packet.
LEMMA OtherBytes ==
  ASSUME NEW m \in Messages, m.error = 0, IsPayload(m), ~IsUserData(m), NEW obfuscate \in BOOLEAN,
         NEW data \in MarshalPayload(m, obfuscate) \ {Failed}
  PROVE  /\ m.payload.kind \in KindOf(m)
         /\ \/ /\ m.payload.kind = "acknowledgement"
               /\ data.plain \in MarshalAcknowledgement(m.payload.acks)
            \/ /\ m.payload.kind \in {"request", "response", "key"}
               /\ Strings(m.payload) # Failed
               /\ data.plain \in AddFakeData(obfuscate, Strings(m.payload))
<1>1. ~(m.error > 0) /\ m.payload.kind \in KindOf(m)
  BY DEF MarshalPayload
<1>2. m.type \in MessageTypes /\ m.isACK \in BOOLEAN
  BY MessageType
<1>3. CASE m.type \in {"authentication", "handshake"}
  <2>1. m.payload.kind \in {"request", "response", "key"}
    BY <1>1, <1>3 DEF KindOf
  <2>2. Strings(m.payload) # Failed
    BY <1>1, <1>3 DEF MarshalPayload
  <2>3. \E b \in AddFakeData(obfuscate, Strings(m.payload)) : data = Plain(b)
    BY <1>1, <1>3, <2>2 DEF MarshalPayload
  <2>4. data.plain \in AddFakeData(obfuscate, Strings(m.payload))
    BY <2>3 DEF Plain
  <2> QED  BY <1>1, <2>1, <2>2, <2>4
<1>4. CASE m.type = "data"
  <2>1. m.isACK
    BY <1>2, <1>4 DEF IsUserData
  <2>2. m.payload.kind = "acknowledgement"
    BY <1>1, <1>4, <2>1 DEF KindOf
  <2>3. \E b \in MarshalAcknowledgement(m.payload.acks) : data = Plain(b)
    BY <1>1, <1>4, <2>1 DEF MarshalPayload, IsUserData
  <2>4. data.plain \in MarshalAcknowledgement(m.payload.acks)
    BY <2>3 DEF Plain
  <2> QED  BY <1>1, <2>2, <2>4
<1> QED  BY <1>2, <1>3, <1>4 DEF MessageTypes, IsPayload

LEMMA ThreeParts ==
  ASSUME NEW a \in Seq(Byte), NEW b \in Seq(Byte), NEW c \in Seq(Byte)
  PROVE  (a \o b) \o c = a \o (b \o c)
BY ConcatAssociative

LEMMA RequestReadBack ==
  ASSUME NEW p, p = Fields("request", p.fields), p.fields \in Seq(Seq(Byte)),
         Len(p.fields) = RequestParams, Strings(p) # Failed, NEW fake \in Seq(Byte)
  PROVE  Strings(p) \in Seq(Byte) /\ UnmarshalRequest(Strings(p) \o fake) = p
<1>1. p.kind = "request"
  BY DEF Fields, NoPayload
<1>2. PICK strings \in Seq(Seq(Byte)) : strings = p.fields
  OBVIOUS
<1>3. Strings(p) = MarshalBytes(strings)
  BY <1>1, <1>2 DEF Strings
<1>4. RequestParams \in Nat \ {0} /\ Len(strings) = RequestParams
  BY <1>2 DEF RequestParams
<1>5. /\ MarshalBytes(strings) \in Seq(Byte) /\ strings # Failed
      /\ UnmarshalBytes(MarshalBytes(strings) \o fake, RequestParams) = strings
  BY <1>3, <1>4, StringsNotFailed
<1>6. UnmarshalRequest(MarshalBytes(strings) \o fake) = Fields("request", strings)
  BY <1>4, <1>5 DEF UnmarshalRequest
<1> QED  BY <1>2, <1>3, <1>5, <1>6

LEMMA KeyReadBack ==
  ASSUME NEW p, p = Fields("key", p.fields), p.fields \in Seq(Seq(Byte)),
         Len(p.fields) = 1, Strings(p) # Failed, NEW fake \in Seq(Byte)
  PROVE  Strings(p) \in Seq(Byte) /\ UnmarshalHandshake(Strings(p) \o fake) = p
<1>1. p.kind = "key"
  BY DEF Fields, NoPayload
<1>2. PICK strings \in Seq(Seq(Byte)) : strings = p.fields
  OBVIOUS
<1>3. Strings(p) = MarshalBytes(strings)
  BY <1>1, <1>2 DEF Strings
<1>4. Len(strings) = 1 /\ 1 \in Nat \ {0}
  BY <1>2
<1>5. /\ MarshalBytes(strings) \in Seq(Byte) /\ strings # Failed
      /\ UnmarshalBytes(MarshalBytes(strings) \o fake, 1) = strings
  BY <1>3, <1>4, StringsNotFailed
<1>6. UnmarshalHandshake(MarshalBytes(strings) \o fake) = Fields("key", strings)
  BY <1>4, <1>5 DEF UnmarshalHandshake
<1> QED  BY <1>2, <1>3, <1>5, <1>6

LEMMA ResponseReadBack ==
  ASSUME NEW p, p = Fields("response", p.fields), p.fields \in Seq(Seq(Byte)),
         Len(p.fields) = 1 + ResponseParams, Len(p.fields[1]) = 4,
         Len(p.fields[2]) >= 4, Len(p.fields[3]) >= 4,
         Strings(p) # Failed, NEW fake \in Seq(Byte)
  PROVE  Strings(p) \in Seq(Byte) /\ UnmarshalResponse(Strings(p) \o fake) = p
<1>1. p.kind = "response"
  BY DEF Fields, NoPayload
<1>2. PICK fields \in Seq(Seq(Byte)) : fields = p.fields
  OBVIOUS
<1>3. Len(fields) = 3 /\ fields # <<>> /\ ResponseParams = 2
  BY <1>2, EmptySeq DEF ResponseParams
<1>4. PICK strings : strings = Tail(fields)
  OBVIOUS
<1>5. /\ strings \in Seq(Seq(Byte)) /\ Len(strings) = 2
      /\ strings[1] = fields[2] /\ strings[2] = fields[3]
  <2>1. /\ strings \in Seq(Seq(Byte)) /\ Len(strings) = Len(fields) - 1
        /\ \A i \in 1 .. Len(strings) : strings[i] = fields[i + 1]
    BY <1>3, <1>4, HeadTailProperties
  <2>2. Len(strings) = 2
    BY <1>3, <2>1
  <2>3. 1 \in 1 .. 2 /\ 2 \in 1 .. 2 /\ 1 + 1 = 2 /\ 2 + 1 = 3
    OBVIOUS
  <2> QED  BY <2>1, <2>2, <2>3
<1>6. PICK id : id = fields[1]
  OBVIOUS
<1>7. id \in Seq(Byte) /\ Len(id) = 4
  <2>1. 1 \in 1 .. Len(fields)
    BY <1>3
  <2> QED  BY <1>2, <1>6, <2>1, ElementOfSeq
<1>8. PICK ips : ips = MarshalBytes(strings)
  OBVIOUS
<1>9. ips # Failed /\ Strings(p) = id \o ips
  BY <1>1, <1>2, <1>4, <1>6, <1>8 DEF Strings
<1>10. /\ ips \in Seq(Byte) /\ strings # Failed
       /\ UnmarshalBytes(ips \o fake, ResponseParams) = strings
  <2>1. 2 \in Nat \ {0}
    OBVIOUS
  <2> QED  BY <1>3, <1>5, <1>8, <1>9, <2>1, StringsNotFailed
<1>11. Len(ips) >= 10
  <2>1. Len(ips) = 2 + Len(strings[1]) + Len(strings[2])
    BY <1>5, <1>8, <1>9, TwoStrings
  <2>2. PICK x \in Nat, y \in Nat : x = Len(fields[2]) /\ y = Len(fields[3])
    <3>1. 2 \in 1 .. Len(fields) /\ 3 \in 1 .. Len(fields)
      BY <1>3
    <3>2. fields[2] \in Seq(Byte) /\ fields[3] \in Seq(Byte)
      BY <3>1, ElementOfSeq
    <3> QED  BY <3>2, LenProperties
  <2>3. x >= 4 /\ y >= 4
    BY <1>2, <2>2
  <2>4. Len(ips) = 2 + x + y
    BY <1>5, <2>1, <2>2
  <2> QED  BY <2>3, <2>4
<1>12. PICK rest : rest = ips \o fake
  OBVIOUS
<1>13. PICK bytes : bytes = id \o rest
  OBVIOUS
<1>14. rest \in Seq(Byte) /\ Len(rest) \in Nat /\ Len(rest) >= 10
  <2>1. Len(rest) = Len(ips) + Len(fake) /\ rest \in Seq(Byte)
    BY <1>10, <1>12, ConcatProperties
  <2>2. PICK x \in Nat, y \in Nat : x = Len(ips) /\ y = Len(fake)
    BY <1>10, LenProperties
  <2>3. x >= 10 /\ Len(rest) = x + y
    BY <1>11, <2>1, <2>2
  <2> QED  BY <2>1, <2>3
<1>15. bytes \in Seq(Byte) /\ Len(bytes) = 4 + Len(rest)
  <2>1. id \in Seq(Byte) /\ rest \in Seq(Byte)
    BY <1>7, <1>14
  <2>2. bytes \in Seq(Byte) /\ Len(bytes) = Len(id) + Len(rest)
    BY <1>13, <2>1, ConcatProperties
  <2> QED  BY <1>7, <2>2
<1>16. SubSeq(bytes, 1, 4) = id /\ SubSeq(bytes, 4 + 1, Len(bytes)) = rest
  <2>1. id \in Seq(Byte) /\ rest \in Seq(Byte)
    BY <1>7, <1>14
  <2>2. SubSeq(bytes, 1, Len(id)) = id /\ SubSeq(bytes, Len(id) + 1, Len(bytes)) = rest
    BY <1>13, <2>1, PartsOf
  <2> QED  BY <1>7, <2>2
<1>17. Strings(p) \in Seq(Byte) /\ Strings(p) \o fake = bytes
  <2>1. id \o ips \in Seq(Byte) /\ (id \o ips) \o fake = id \o (ips \o fake)
    <3>1. id \in Seq(Byte) /\ ips \in Seq(Byte)
      BY <1>7, <1>10
    <3>2. id \o ips \in Seq(Byte)
      BY <3>1, ConcatProperties, Zenon
    <3>3. (id \o ips) \o fake = id \o (ips \o fake)
      BY <3>1, ThreeParts
    <3> QED  BY <3>2, <3>3
  <2> QED  BY <1>9, <1>12, <1>13, <2>1
<1>18. UnmarshalResponse(bytes) = Fields("response", <<id>> \o strings)
  <2>1. ~(Len(bytes) < MinResponse)
    <3>1. PICK x \in Nat : x = Len(rest) /\ x >= 10
      BY <1>14
    <3>2. Len(bytes) = 4 + x
      BY <1>15, <3>1
    <3> QED  BY <3>1, <3>2 DEF MinResponse
  <2>2. 4 + 1 = 5
    OBVIOUS
  <2>3. UnmarshalBytes(SubSeq(bytes, 5, Len(bytes)), ResponseParams) = strings
    BY <1>10, <1>12, <1>16, <2>2
  <2>4. ~(Len(strings) # ResponseParams)
    BY <1>3, <1>5
  <2> QED  BY <1>10, <1>16, <2>1, <2>3, <2>4 DEF UnmarshalResponse
<1>19. <<id>> \o strings = fields
  BY <1>3, <1>4, <1>6, FirstAndRest
<1> QED  BY <1>2, <1>17, <1>18, <1>19

\* What is sent of an answer, a request, a key or an acknowledgement is read back.
LEMMA AllReadBack ==
  ASSUME NEW m \in Messages, m.error = 0, IsPayload(m), ~IsUserData(m),
         NEW obfuscate \in BOOLEAN, NEW data \in MarshalPayload(m, obfuscate) \ {Failed}
  PROVE  Unmarshalled(m, data.plain) = m.payload
<1>1. PICK p : p = m.payload
  OBVIOUS
<1>2. PICK bytes : bytes = data.plain
  OBVIOUS
<1>3. /\ p.kind \in KindOf(m)
      /\ \/ p.kind = "acknowledgement" /\ bytes \in MarshalAcknowledgement(p.acks)
         \/ /\ p.kind \in {"request", "response", "key"} /\ Strings(p) # Failed
            /\ bytes \in AddFakeData(obfuscate, Strings(p))
  BY <1>1, <1>2, OtherBytes
<1>4. /\ p.kind \in {"request", "response", "key"} =>
           p = Fields(p.kind, p.fields) /\ p.fields \in Seq(Seq(Byte))
      /\ p.kind = "request" => Len(p.fields) = RequestParams
      /\ p.kind = "response" =>
           /\ Len(p.fields) = 1 + ResponseParams
           /\ Len(p.fields[1]) = 4 /\ Len(p.fields[2]) >= 4 /\ Len(p.fields[3]) >= 4
      /\ p.kind = "key" => Len(p.fields) = 1
      /\ p.kind = "acknowledgement" =>
           /\ p = [NoPayload EXCEPT !.kind = "acknowledgement", !.acks = p.acks]
           /\ p.acks # {} /\ IsFiniteSet(p.acks) /\ p.acks \subseteq Nat \X Seq(Nat)
           /\ \A a \in p.acks :
                /\ FitsIn(a[1], 8) /\ Len(a[2]) \in 1 .. MaxUint8
                /\ \A j \in DOMAIN a[2] : FitsIn(a[2][j], 4)
  BY <1>1, <1>3, PayloadsWhole
<1>5. CASE p.kind = "acknowledgement"
  <2>1. Collected(p.acks)
    <3>1. \A a \in p.acks : a \in Nat \X Seq(Nat)
      BY <1>4, <1>5
    <3> QED  BY <1>4, <1>5, <3>1 DEF Collected, IsPair
  <2>2. Failed \notin p.acks /\ p.acks # Failed
    BY <1>1, FailedIsApart
  <2>3. UnmarshalAcknowledgement(bytes) = p.acks
    BY <1>3, <1>5, <2>1, <2>2, AcknowledgementReadBack
  <2>4. UnmarshalACK(bytes) = p
    BY <1>4, <1>5, <2>2, <2>3 DEF UnmarshalACK
  <2> QED  BY <1>1, <1>2, <1>5, <2>4 DEF Unmarshalled
<1>6. CASE p.kind \in {"request", "response", "key"}
  <2>1. Strings(p) # Failed /\ bytes \in AddFakeData(obfuscate, Strings(p))
    BY <1>3, <1>6
  <2>2. ASSUME NEW fake \in Seq(Byte)
        PROVE  Strings(p) \in Seq(Byte) /\ Unmarshalled(m, Strings(p) \o fake) = p
    <3>1. CASE p.kind = "request"
      <4>1. p = Fields("request", p.fields) /\ p.fields \in Seq(Seq(Byte)) /\ Len(p.fields) = RequestParams
        BY <1>4, <3>1
      <4>2. Strings(p) \in Seq(Byte) /\ UnmarshalRequest(Strings(p) \o fake) = p
        BY <2>1, <4>1, RequestReadBack
      <4> QED  BY <1>1, <3>1, <4>2 DEF Unmarshalled
    <3>2. CASE p.kind = "response"
      <4>1. /\ p = Fields("response", p.fields) /\ p.fields \in Seq(Seq(Byte))
            /\ Len(p.fields) = 1 + ResponseParams
            /\ Len(p.fields[1]) = 4 /\ Len(p.fields[2]) >= 4 /\ Len(p.fields[3]) >= 4
        BY <1>4, <3>2
      <4>2. Strings(p) \in Seq(Byte) /\ UnmarshalResponse(Strings(p) \o fake) = p
        BY <2>1, <4>1, ResponseReadBack
      <4> QED  BY <1>1, <3>2, <4>2 DEF Unmarshalled
    <3>3. CASE p.kind = "key"
      <4>1. p = Fields("key", p.fields) /\ p.fields \in Seq(Seq(Byte)) /\ Len(p.fields) = 1
        BY <1>4, <3>3
      <4>2. Strings(p) \in Seq(Byte) /\ UnmarshalHandshake(Strings(p) \o fake) = p
        BY <2>1, <4>1, KeyReadBack
      <4> QED  BY <1>1, <3>3, <4>2 DEF Unmarshalled
    <3> QED  BY <1>6, <3>1, <3>2, <3>3
  <2>3. PICK fake \in Seq(Byte) : bytes = Strings(p) \o fake
    <3>1. <<>> \in Seq(Byte)
      OBVIOUS
    <3>2. Strings(p) \in Seq(Byte)
      BY <2>2, <3>1
    <3> QED  BY <2>1, <3>2, FakeAfter
  <2> QED  BY <1>1, <1>2, <2>2, <2>3
<1> QED  BY <1>1, <1>2, <1>3, <1>5, <1>6

\* What was marshalled is unmarshalled to what was sent, with the flags of its header.
LEMMA PayloadReadBack ==
  ASSUME NEW m, path \in Paths, NEW data, IsMarshalled(m, data),
         IsPayload(m) \/ m.error > 0,
         NEW r, r.type = m.type, r.isACK = m.isACK, r.cmp = data.cmp,
         r.isError <=> m.error > 0,
         r.isRequest <=> (m.error = 0 /\ m.payload.kind = "request"), r.len # 0
  PROVE  /\ UnmarshalPayload(r, data) = SentAs(m) /\ SentAs(m) # Failed
         /\ IsUserData(m) => Decode(SentAs(m).fields[1])
<1>1. /\ m \in Messages /\ m.error \in Nat /\ m.type \in MessageTypes /\ m.isACK \in BOOLEAN
      /\ m.type = "data" => m.error = 0
  BY MessageType DEF IsMarshalled
<1>2. CASE m.error > 0
  <2>1. ~IsUserData(m)
    BY <1>1, <1>2 DEF IsUserData
  <2>2. data.plain = <<m.error>>
    BY <2>1, <1>2, OtherMarshalled DEF Plain
  <2>3. UnmarshalPayload(r, data) = UnmarshalError(<<m.error>>)
    BY <1>2, <2>2 DEF UnmarshalPayload
  <2>4. SentAs(m) = Fields("error", <<<<m.error>>>>)
    BY <1>2 DEF SentAs
  <2> QED  BY <1>1, <1>2, <2>1, <2>3, <2>4, ErrorReadBack
<1>3. CASE ~(m.error > 0) /\ IsUserData(m)
  <2>1. /\ data.plain = m.payload.fields[1]
        /\ m.payload.fields[1] \in Seq(Byte) /\ Len(m.payload.fields[1]) >= IpPacketMinLength
        /\ m.payload = Fields("packet", <<m.payload.fields[1]>>)
    BY <1>1, <1>3, PacketMarshalled, MessageType
  <2>2. m.payload # Failed /\ data.plain # Failed
    BY <1>1, <2>1, FailedIsApart
  <2>3. UnmarshalData(r, data) = m.payload
    BY <2>1, <2>2 DEF UnmarshalData, Decompress
  <2>4. UnmarshalPayload(r, data) = UnmarshalData(r, data)
    BY <1>3 DEF UnmarshalPayload, IsUserData
  <2>5. SentAs(m) = m.payload
    BY <1>3 DEF SentAs, IsUserData, IsPayload
  <2> QED  BY <2>1, <2>2, <2>3, <2>4, <2>5 DEF Decode
<1>4. CASE ~(m.error > 0) /\ ~IsUserData(m)
  <2>1. IsPayload(m) /\ m.error = 0
    BY <1>1, <1>4
  <2>2. path.obfuscate \in BOOLEAN
    BY PathType
  <2>3. Unmarshalled(m, data.plain) = m.payload
    BY <1>4, <2>1, <2>2, AllReadBack DEF IsMarshalled
  <2>4. SentAs(m) = m.payload /\ m.payload # Failed
    BY <1>1, <1>4, <2>1, FailedIsApart DEF SentAs
  <2>5. m.payload.kind \in KindOf(m)
    BY <1>4 DEF IsMarshalled, MarshalPayload
  <2>6. CASE m.type = "authentication"
    <3>1. m.payload.kind \in {"request", "response"}
      BY <2>5, <2>6 DEF KindOf
    <3>2. r.isRequest <=> m.payload.kind = "request"
      BY <2>1
    <3>3. UnmarshalPayload(r, data) = Unmarshalled(m, data.plain)
      BY <1>4, <2>6, <3>1, <3>2 DEF Unmarshalled, UnmarshalPayload, IsUserData
    <3> QED  BY <1>4, <2>3, <2>4, <3>3
  <2>7. CASE m.type = "handshake"
    <3>1. m.payload.kind = "key"
      BY <2>5, <2>7 DEF KindOf
    <3> QED  BY <1>4, <2>1, <2>3, <2>4, <2>7, <3>1 DEF Unmarshalled, UnmarshalPayload, IsUserData
  <2>8. CASE m.type = "data"
    <3>1. m.isACK
      BY <1>1, <1>4, <2>8 DEF IsUserData
    <3>2. m.payload.kind = "acknowledgement"
      BY <2>5, <2>8, <3>1 DEF KindOf
    <3> QED  BY <1>4, <2>1, <2>3, <2>4, <2>8, <3>1, <3>2 DEF Unmarshalled, UnmarshalPayload, IsUserData
  <2> QED  BY <1>1, <2>1, <2>6, <2>7, <2>8 DEF MessageTypes, IsPayload
<1> QED  BY <1>2, <1>3, <1>4

-----------------------------------------------------------------------------
(* Frames *)

\* The header announces the ciphertext, which was made of what the message became.
Sent(f) ==
  /\ f.msg \in Messages
  /\ f.payload.len \in Nat /\ f.header.len = f.payload.len
  /\ IsPayload(f.msg) \/ f.msg.error > 0 => f.payload.len > 0
  /\ f.payload.data.plain \in Seq(Byte) /\ f.payload.data.len \in Nat
  /\ \E data \in MarshalPayload(f.msg, path.obfuscate) \ {Failed} :
       /\ f.header = MarshalHeader(f.msg, data, path.method)
       /\ f.payload.len > 0 =>
            f.payload = Cipher(data, path.method, SenderKey(f.msg), f.payload.len)

LEMMA EncodedIsSent ==
  ASSUME path \in Paths, NEW m \in Messages, NEW emptyToo \in BOOLEAN,
         NEW f \in Encoded(m, emptyToo) \ {Failed}
  PROVE  Sent(f)
<1> DEFINE C(data) == IF data = Failed THEN Failed
                      ELSE IF data.len = 0 /\ ~emptyToo THEN NoCipher
                      ELSE Encrypt(path.method, data, SenderKey(m))
           F(data) == IF C(data) = Failed THEN Failed
                      ELSE [msg |-> m, header |-> MarshalHeader(m, data, path.method),
                            payload |-> C(data)]
<1>1. f \in {F(data) : data \in MarshalPayload(m, path.obfuscate)} /\ f # Failed
  BY DEF Encoded
<1>2. PICK data \in MarshalPayload(m, path.obfuscate) : f = F(data) /\ F(data) # Failed
  BY <1>1
<1>3. C(data) # Failed
  BY <1>2
<1>4. data # Failed
  BY <1>3
<1>5. IsMarshalled(m, data)
  BY <1>4 DEF IsMarshalled
<1>6. /\ data.plain \in Seq(Byte) /\ data.len \in Nat
      /\ IsPayload(m) => data.len > 0
      /\ GetLength(path.method, data.len) <= MaxUint16
  BY <1>4, LengthsFit
<1>7. /\ m.error \in Nat
      /\ m.type = "data" => m.error = 0
  BY MessageType
<1>8. IsPayload(m) \/ m.error > 0 => data.len > 0
  <2> SUFFICES ASSUME m.error > 0 PROVE data.len > 0
    BY <1>6
  <2>1. ~IsUserData(m)
    BY <1>7 DEF IsUserData
  <2>2. data = Plain(<<m.error>>)
    BY <1>5, <2>1, OtherMarshalled
  <2>3. PICK e : e = m.error
    OBVIOUS
  <2>4. Len(<<e>>) = 1
    OBVIOUS
  <2> QED  BY <2>2, <2>3, <2>4 DEF Plain
<1>9. /\ path.method \in Methods
      /\ GetLength(path.method, data.len) \in Nat /\ GetLength(path.method, data.len) >= data.len
  BY <1>6, PathType, LengthType
<1>10. ~(IsPayload(m) \/ m.error > 0) => data = Plain(<<>>) /\ data.len = 0
  <2> SUFFICES ASSUME ~IsPayload(m), ~(m.error > 0) PROVE data = Plain(<<>>) /\ data.len = 0
    OBVIOUS
  <2>1. ~IsUserData(m) /\ m.error = 0
    BY <1>7 DEF IsUserData, IsPayload
  <2> QED  BY <2>1, <1>5, OtherMarshalled DEF Plain
<1>11. MarshalHeader(m, data, path.method).len =
         IF m.error = 0 /\ ~IsPayload(m) THEN 0 ELSE GetLength(path.method, data.len)
  <2>1. MaxUint16 \in Nat
    BY CodecAssumption
  <2>2. PICK n \in Nat : n = GetLength(path.method, data.len)
    BY <1>9
  <2>3. n % (MaxUint16 + 1) = n
    BY <2>1, <2>2, <1>6, SMT
  <2> QED  BY <2>2, <2>3 DEF MarshalHeader
<1>12. f = [msg |-> m, header |-> MarshalHeader(m, data, path.method), payload |-> C(data)]
  BY <1>2
<1>13. CASE data.len = 0 /\ ~emptyToo
  <2>1. C(data) = Cipher(Plain(<<>>), "none", "none", 0)
    BY <1>4, <1>13 DEF NoCipher, EncryptEmpty, Plain
  <2>2. m.error = 0 /\ ~IsPayload(m)
    BY <1>13, <1>8, <1>7
  <2>3. MarshalHeader(m, data, path.method).len = 0
    BY <2>2, <1>11
  <2>4. Plain(<<>>).plain \in Seq(Byte) /\ Plain(<<>>).len \in Nat
    BY DEF Plain
  <2>5. f.payload = Cipher(Plain(<<>>), "none", "none", 0) /\ f.msg = m
        /\ f.header = MarshalHeader(m, data, path.method)
    BY <2>1, <1>12
  <2>6. f.payload.len = 0 /\ f.payload.data = Plain(<<>>)
    BY <2>5 DEF Cipher
  <2> QED  BY <1>4, <2>2, <2>3, <2>4, <2>5, <2>6 DEF Sent
<1>14. CASE ~(data.len = 0 /\ ~emptyToo)
  <2>1. C(data) = Encrypt(path.method, data, SenderKey(m))
    BY <1>4, <1>14
  <2>2. C(data) = Cipher(data, path.method, SenderKey(m), GetLength(path.method, data.len))
    BY <2>1, <1>3, <1>6, <1>9, EncryptSuccess
  <2>3. f.payload = Cipher(data, path.method, SenderKey(m), GetLength(path.method, data.len))
        /\ f.msg = m /\ f.header = MarshalHeader(m, data, path.method)
    BY <2>2, <1>12
  <2>4. f.payload.len = GetLength(path.method, data.len) /\ f.payload.data = data
    BY <2>3 DEF Cipher
  <2>5. MarshalHeader(m, data, path.method).len = GetLength(path.method, data.len)
    <3>1. CASE m.error = 0 /\ ~IsPayload(m)
      <4>1. data.len = 0
        BY <3>1, <1>10
      <4>2. path.method = "none"
        BY <4>1, <2>1, <1>3, <1>9 DEF Encrypt, EncryptECB, EncryptGCM, Methods
      <4>3. GetLength(path.method, data.len) = 0
        BY <4>1, <4>2 DEF GetLength, GetLengthEmpty
      <4> QED  BY <3>1, <4>3, <1>11
    <3>2. CASE ~(m.error = 0 /\ ~IsPayload(m))
      BY <3>2, <1>11
    <3> QED  BY <3>1, <3>2
  <2>6. IsPayload(m) \/ m.error > 0 => f.payload.len > 0
    BY <1>6, <1>8, <1>9, <2>4
  <2> QED  BY <1>4, <1>6, <1>9, <2>3, <2>4, <2>5, <2>6 DEF Sent
<1> QED  BY <1>13, <1>14

LEMMA EncodedMsg ==
  ASSUME NEW m, NEW emptyToo, NEW f \in Encoded(m, emptyToo) \ {Failed}
  PROVE  f.msg = m
BY DEF Encoded

LEMMA SentKept ==
  ASSUME NEW f, Sent(f), path' = path, keys' = keys
  PROVE  Sent(f)'
BY DEF Sent, SenderKey

-----------------------------------------------------------------------------
(* What is received *)

\* The header of a frame that is not refused says what was sent.
LEMMA HeaderRight ==
  ASSUME path \in Paths, NEW n, Sent(frames[n]), HeaderOf(n) # Failed,
         NEW r, r = AsMessage(HeaderOf(n))
  PROVE  LET m == frames[n].msg
         IN  \E data \in MarshalPayload(m, path.obfuscate) \ {Failed} :
               /\ IsMarshalled(m, data)
               /\ frames[n].header = MarshalHeader(m, data, path.method)
               /\ frames[n].payload.len > 0 =>
                    frames[n].payload = Cipher(data, path.method, SenderKey(m), frames[n].payload.len)
               /\ r.type = m.type /\ r.id = m.id /\ r.session = m.session
               /\ r.isACK = m.isACK /\ r.cmp = data.cmp
               /\ r.isError <=> m.error > 0
               /\ r.isRequest <=> (m.error = 0 /\ m.payload.kind = "request")
               /\ r.len = frames[n].payload.len
<1> DEFINE m == frames[n].msg
<1>1. PICK data \in MarshalPayload(m, path.obfuscate) \ {Failed} :
        /\ frames[n].header = MarshalHeader(m, data, path.method)
        /\ frames[n].payload.len > 0 =>
             frames[n].payload = Cipher(data, path.method, SenderKey(m), frames[n].payload.len)
  BY DEF Sent
<1>2. IsMarshalled(m, data)
  BY DEF IsMarshalled, Sent
<1>3. HeaderOf(n) = UnmarshalHeader(MarshalHeader(m, data, path.method), path.method)
  BY <1>1 DEF HeaderOf
<1>4. frames[n].header.len = frames[n].payload.len
  BY DEF Sent
<1> HIDE DEF m
<1>5. /\ r.type = m.type /\ r.id = m.id /\ r.session = m.session
      /\ r.isACK = m.isACK /\ r.cmp = data.cmp
      /\ r.isError <=> m.error > 0
      /\ r.isRequest <=> (m.error = 0 /\ m.payload.kind = "request")
      /\ r.len = MarshalHeader(m, data, path.method).len
  BY <1>2, <1>3, HeaderReadBack
<1>6. r.len = frames[n].payload.len
  BY <1>1, <1>4, <1>5
<1> QED  BY <1>1, <1>2, <1>5, <1>6 DEF m

LEMMA Deciphered ==
  ASSUME NEW method \in Methods, NEW data, NEW sender, NEW receiver, NEW n, n # 0,
         NEW d \in Decrypt(Cipher(data, method, sender, n), receiver)
  PROVE  d = data \/ (receiver # sender /\ (d = Failed \/ method = "ecb"))
<1> DEFINE c == Cipher(data, method, sender, n)
<1>1. c.len = n /\ c.data = data /\ c.method = method /\ c.key = sender
  BY DEF Cipher
<1> HIDE DEF c
<1>2. d \in Decrypt(c, receiver)
  BY DEF c
<1>3. CASE method = "ecb"
  BY <1>1, <1>2, <1>3 DEF Decrypt, DecryptECB
<1>4. CASE method = "gcm"
  BY <1>1, <1>2, <1>4 DEF Decrypt, DecryptGCM
<1>5. CASE method = "none"
  BY <1>1, <1>2, <1>5 DEF Decrypt, DecryptEmpty
<1> QED  BY <1>3, <1>4, <1>5 DEF Methods

LEMMA OutcomeMsg ==
  ASSUME NEW h, NEW what, NEW payload, NEW r, r = AsMessage(h)
  PROVE  LET o == Outcome(what, r, payload)
         IN  /\ o.what = what /\ o.msg.payload = payload
             /\ o.msg.type = r.type /\ o.msg.id = r.id /\ o.msg.session = r.session
             /\ o.msg.isACK = r.isACK /\ o.msg.cmp = r.cmp
BY DEF Outcome, AsMessage

LEMMA OpenedRight ==
  ASSUME path \in Paths, NEW n, Sent(frames[n]), HeaderOf(n) # Failed,
         NEW key, NEW o \in Opened(AsMessage(HeaderOf(n)), frames[n].payload, key)
  PROVE  LET m == frames[n].msg
             r == AsMessage(HeaderOf(n))
         IN  /\ o.what \in {"taken", "undecrypted", "malformed"}
             /\ o.msg.type = m.type /\ o.msg.id = m.id /\ o.msg.session = m.session
             /\ o.msg.isACK = m.isACK /\ o.msg.cmp = r.cmp
             /\ o.what = "taken" =>
                  o.msg.payload = SentAs(m) \/ (path.method = "ecb" /\ key # SenderKey(m))
             /\ o.what # "taken" => ~IsPayload(m) \/ key # SenderKey(m)
<1> DEFINE m == frames[n].msg
           r == AsMessage(HeaderOf(n))
           c == frames[n].payload
           O(d) == IF d = Failed THEN Outcome("undecrypted", r, NoPayload)
                   ELSE LET p == UnmarshalPayload(r, d)
                        IN  IF p = Failed THEN Outcome("malformed", r, NoPayload)
                            ELSE IF IsUserData(r) /\ ~Decode(p.fields[1]) THEN Outcome("malformed", r, p)
                            ELSE Outcome("taken", r, p)
<1>1. PICK data \in MarshalPayload(m, path.obfuscate) \ {Failed} :
        /\ IsMarshalled(m, data)
        /\ frames[n].header = MarshalHeader(m, data, path.method)
        /\ c.len > 0 => c = Cipher(data, path.method, SenderKey(m), c.len)
        /\ r.type = m.type /\ r.id = m.id /\ r.session = m.session
        /\ r.isACK = m.isACK /\ r.cmp = data.cmp
        /\ r.isError <=> m.error > 0
        /\ r.isRequest <=> (m.error = 0 /\ m.payload.kind = "request")
        /\ r.len = c.len
  BY HeaderRight
<1>2. c.len \in Nat /\ (IsPayload(m) \/ m.error > 0 => c.len > 0)
      /\ frames[n].header.len = c.len /\ path.method \in Methods
  BY PathType DEF Sent
<1>3. PICK d \in Decrypt(c, key) : o = O(d)
  BY DEF Opened
<1>4. \E what \in {"taken", "undecrypted", "malformed"} : \E payload : o = Outcome(what, r, payload)
  BY <1>3
<1>5. /\ o.what \in {"taken", "undecrypted", "malformed"}
      /\ o.msg.type = m.type /\ o.msg.id = m.id /\ o.msg.session = m.session
      /\ o.msg.isACK = m.isACK /\ o.msg.cmp = r.cmp
  <2> HIDE DEF r
  <2>1. r = AsMessage(HeaderOf(n))
    BY DEF r
  <2> QED  BY <1>1, <1>4, <2>1, OutcomeMsg
<1>6. CASE c.len = 0
  <2>1. ~IsPayload(m)
    BY <1>2, <1>6
  <2>2. d = Failed
    BY <1>6 DEF Decrypt
  <2>3. o.what = "undecrypted"
    BY <1>3, <2>2, OutcomeMsg
  <2> QED  BY <1>5, <2>1, <2>3
<1>7. CASE c.len > 0
  <2>1. d = data \/ (key # SenderKey(m) /\ (d = Failed \/ path.method = "ecb"))
    <3>1. c = Cipher(data, path.method, SenderKey(m), c.len) /\ c.len # 0
      BY <1>1, <1>2, <1>7
    <3> HIDE DEF c, m
    <3> QED  BY <1>2, <3>1, Deciphered
  <2>2. CASE d = data
    <3>1. d # Failed
      BY <1>1, <2>2
    <3>2. IsPayload(m) \/ m.error > 0
      <4> SUFFICES ASSUME ~IsPayload(m), ~(m.error > 0) PROVE FALSE
        OBVIOUS
      <4>1. m.error \in Nat
        BY MessageType DEF Sent
      <4>2. m.error = 0
        BY <4>1
      <4>3. MarshalHeader(m, data, path.method).len = 0
        BY <4>2 DEF MarshalHeader
      <4> QED  BY <1>1, <1>2, <1>7, <4>3
    <3>3. r.len # 0
      BY <1>1, <1>2, <1>7
    <3>4. /\ UnmarshalPayload(r, d) = SentAs(m) /\ SentAs(m) # Failed
          /\ IsUserData(m) => Decode(SentAs(m).fields[1])
      <4> HIDE DEF r, m, c
      <4> QED  BY <1>1, <2>2, <3>2, <3>3, PayloadReadBack
    <3>5. IsUserData(r) <=> IsUserData(m)
      BY <1>1 DEF IsUserData
    <3>6. o = Outcome("taken", r, SentAs(m))
      BY <1>3, <3>1, <3>4, <3>5
    <3>7. o.what = "taken" /\ o.msg.payload = SentAs(m)
      <4> HIDE DEF r, m, c
      <4>1. r = AsMessage(HeaderOf(n))
        BY DEF r
      <4> QED  BY <3>6, <4>1, OutcomeMsg
    <3> QED  BY <1>5, <3>7
  <2>3. CASE key # SenderKey(m) /\ d = Failed
    <3>1. o = Outcome("undecrypted", r, NoPayload)
      BY <1>3, <2>3
    <3>2. o.what = "undecrypted"
      BY <3>1, OutcomeMsg
    <3> QED  BY <1>5, <2>3, <3>2
  <2>4. CASE key # SenderKey(m) /\ path.method = "ecb"
    BY <1>5, <2>4
  <2> QED  BY <2>1, <2>2, <2>3, <2>4
<1> QED  BY <1>2, <1>6, <1>7

LEMMA ReceivedRight ==
  ASSUME path \in Paths, NEW n, Sent(frames[n]), HeaderOf(n) # Failed,
         NEW o \in Received(AsMessage(HeaderOf(n)), frames[n].payload)
  PROVE  ArrivedRight([f |-> n, what |-> o.what, msg |-> o.msg, sync |-> FALSE])
<1> DEFINE m == frames[n].msg
           r == AsMessage(HeaderOf(n))
           a == [f |-> n, what |-> o.what, msg |-> o.msg, sync |-> FALSE]
           key == IF IsUserData(m) THEN keys.userR ELSE keys.primaryR
<1>1. /\ r.type = m.type /\ r.id = m.id /\ r.session = m.session /\ r.isACK = m.isACK
      /\ IsUserData(r) <=> IsUserData(m)
      /\ IsPayload(r) <=> IsPayload(m)
      /\ m.error \in Nat
  <2>1. /\ r.type = m.type /\ r.id = m.id /\ r.session = m.session /\ r.isACK = m.isACK
    BY HeaderRight
  <2>2. m.error \in Nat
    BY MessageType DEF Sent
  <2> HIDE DEF r, m
  <2> QED  BY <2>1, <2>2 DEF IsUserData, IsPayload
<1>2. key # SenderKey(m) <=> WrongKey(m, FALSE)
  BY DEF WrongKey
<1>3. CASE o.what \in {"noEntry", "noKey"}
  <2>1. keys.userR \in {"absent", "nil"}
    <3> SUFFICES ASSUME ~(keys.userR \in {"absent", "nil"}) PROVE FALSE
      OBVIOUS
    <3>1. CASE ~IsPayload(r)
      <4>1. o = Outcome("taken", r, NoPayload)
        BY <3>1 DEF Received
      <4> QED  BY <4>1, <1>3, OutcomeMsg
    <3>2. CASE IsPayload(r)
      <4>1. \E k : o \in Opened(r, frames[n].payload, k)
        BY <3>2 DEF Received
      <4>2. o.what \in {"taken", "undecrypted", "malformed"}
        BY <4>1, OpenedRight
      <4> QED  BY <4>2, <1>3
    <3> QED  BY <3>1, <3>2
  <2> QED  BY <2>1, <1>3 DEF ArrivedRight
<1>4. CASE ~(IsUserData(r) /\ keys.userR \in {"absent", "nil"}) /\ ~IsPayload(r)
  <2>1. o = Outcome("taken", r, NoPayload)
    BY <1>4 DEF Received
  <2>2. /\ o.what = "taken" /\ o.msg.payload = NoPayload /\ o.msg.type = m.type
        /\ o.msg.id = m.id /\ o.msg.session = m.session /\ o.msg.isACK = m.isACK
    <3> HIDE DEF r, m
    <3>1. r = AsMessage(HeaderOf(n))
      BY DEF r
    <3> QED  BY <1>1, <2>1, <3>1, OutcomeMsg
  <2>3. NoPayload = SentAs(m) \/ m.error > 0
    BY <1>1, <1>4 DEF SentAs
  <2>4. SameMessage(m, o.msg)
    BY <1>1, <1>4, <2>2, <2>3 DEF SameMessage
  <2> QED  BY <2>2, <2>4 DEF ArrivedRight
<1>5. CASE ~(IsUserData(r) /\ keys.userR \in {"absent", "nil"}) /\ IsPayload(r)
  <2>1. o \in Opened(r, frames[n].payload, key)
    BY <1>1, <1>5 DEF Received
  <2>2. /\ o.what \in {"taken", "undecrypted", "malformed"}
        /\ o.msg.type = m.type /\ o.msg.id = m.id /\ o.msg.session = m.session
        /\ o.msg.isACK = m.isACK
        /\ o.what = "taken" =>
             o.msg.payload = SentAs(m) \/ (path.method = "ecb" /\ key # SenderKey(m))
        /\ o.what # "taken" => ~IsPayload(m) \/ key # SenderKey(m)
    BY <2>1, OpenedRight
  <2>3. a.f = n /\ a.what = o.what /\ a.msg = o.msg /\ a.sync = FALSE
    OBVIOUS
  <2>4. CASE o.what = "taken"
    <3>1. SameMessage(m, o.msg) \/ (path.method = "ecb" /\ WrongKey(m, FALSE))
      BY <1>2, <2>2, <2>4 DEF SameMessage
    <3> QED  BY <2>3, <2>4, <3>1 DEF ArrivedRight
  <2>5. CASE o.what \in {"undecrypted", "malformed"}
    <3>1. WrongKey(m, FALSE)
      BY <1>1, <1>2, <1>5, <2>2, <2>5
    <3> QED  BY <2>3, <2>5, <3>1 DEF ArrivedRight
  <2> QED  BY <2>2, <2>4, <2>5
<1>6. CASE IsUserData(r) /\ keys.userR \in {"absent", "nil"}
  <2>1. \E what \in {"noEntry", "noKey"} : o = Outcome(what, r, NoPayload)
    BY <1>6 DEF Received
  <2>2. o.what \in {"noEntry", "noKey"}
    BY <2>1, OutcomeMsg
  <2> QED  BY <1>3, <2>2
<1> QED  BY <1>4, <1>5, <1>6

LEMMA RepliedRight ==
  ASSUME path \in Paths, NEW n, Sent(frames[n]), HeaderOf(n) # Failed,
         NEW o \in Replied(AsMessage(HeaderOf(n)), frames[n].payload)
  PROVE  ArrivedRight([f |-> n, what |-> o.what, msg |-> o.msg, sync |-> TRUE])
<1> DEFINE m == frames[n].msg
           a == [f |-> n, what |-> o.what, msg |-> o.msg, sync |-> TRUE]
<1>1. keys.primaryR # SenderKey(m) <=> WrongKey(m, TRUE)
  BY DEF WrongKey
<1>2. /\ o.what \in {"taken", "undecrypted", "malformed"}
      /\ o.msg.type = m.type /\ o.msg.id = m.id /\ o.msg.session = m.session
      /\ o.msg.isACK = m.isACK
      /\ o.what = "taken" =>
           o.msg.payload = SentAs(m) \/ (path.method = "ecb" /\ keys.primaryR # SenderKey(m))
      /\ o.what # "taken" => ~IsPayload(m) \/ keys.primaryR # SenderKey(m)
  BY OpenedRight DEF Replied
<1>3. a.f = n /\ a.what = o.what /\ a.msg = o.msg /\ a.sync = TRUE
  OBVIOUS
<1>4. CASE o.what = "taken"
  <2>1. SameMessage(m, o.msg) \/ (path.method = "ecb" /\ WrongKey(m, TRUE))
    BY <1>1, <1>2, <1>4 DEF SameMessage
  <2> QED  BY <1>3, <1>4, <2>1 DEF ArrivedRight
<1>5. CASE o.what \in {"undecrypted", "malformed"}
  BY <1>1, <1>2, <1>3, <1>5 DEF ArrivedRight
<1> QED  BY <1>2, <1>4, <1>5

\* A header is refused for its key or its length; nothing else is wrong with it.
LEMMA RefusedRight ==
  ASSUME path \in Paths, NEW n, Sent(frames[n]), HeaderOf(n) = Failed
  PROVE  ArrivedRight([f |-> n, what |-> "refused"])
<1> DEFINE m == frames[n].msg
           h == frames[n].header
<1>1. PICK data : h = MarshalHeader(m, data, path.method)
  BY DEF Sent
<1>2. h.type = m.type /\ h.id = m.id /\ h.session = m.session /\ h.len \in Nat
  BY <1>1 DEF MarshalHeader, Sent
<1>3. m \in Messages /\ Valid(m.type)
  BY MessageType DEF Sent, Valid
<1> HIDE DEF m, h
<1>4. CASE ~(h.len > MaxEncryptedPayloadSize(path.method))
  <2>1. UnmarshalHeader(h, path.method) # Failed
    <3> DEFINE u == [type |-> h.type, id |-> h.id, session |-> h.session, len |-> h.len,
                     isError |-> Has(h.flags, FlagError), isRequest |-> Has(h.flags, FlagRequest),
                     isACK |-> Has(h.flags, FlagACK),
                     cmp |-> IF Has(h.flags, FlagCompression.lz4) THEN "lz4"
                             ELSE IF Has(h.flags, FlagCompression.lzo) THEN "lzo"
                             ELSE IF Has(h.flags, FlagCompression.zstd) THEN "zstd" ELSE "none"]
    <3>1. UnmarshalHeader(h, path.method) = u
      BY <1>2, <1>3, <1>4 DEF UnmarshalHeader
    <3>2. h.type \in MessageTypes /\ h.id \in {k.id : k \in Messages}
          /\ h.session \in {k.session : k \in Messages} /\ h.len \in Nat
      BY <1>2, <1>3 DEF Valid
    <3>3. u \in [type : MessageTypes, id : {k.id : k \in Messages},
                 session : {k.session : k \in Messages}, len : Nat, isError : BOOLEAN,
                 isRequest : BOOLEAN, isACK : BOOLEAN, cmp : CompressionTypes]
      BY <3>2 DEF Has, CompressionTypes
    <3> HIDE DEF u
    <3> QED  BY <3>1, <3>3, FailedIsApart
  <2>2. keys.primaryR # keys.primaryS
    BY <2>1 DEF HeaderOf, h
  <2> QED  BY <2>2 DEF ArrivedRight
<1>5. CASE h.len > MaxEncryptedPayloadSize(path.method)
  <2>1. TooLong(n)
    BY <1>5 DEF TooLong, h
  <2> QED  BY <2>1 DEF ArrivedRight
<1> QED  BY <1>4, <1>5

\* A packet that the merger keeps is the one that was sent, and when it is a slice of the
\* port's buffer, then of what the frame was made of.
LEMMA KeptRight ==
  ASSUME path \in Paths, NEW n, Sent(frames[n]), HeaderOf(n) # Failed,
         NEW o \in Received(AsMessage(HeaderOf(n)), frames[n].payload),
         o.what = "taken", IsUserData(o.msg)
  PROVE  LET m == frames[n].msg
             data == frames[n].payload.data
         IN  /\ IsUserData(m)
             /\ \/ o.msg.payload.fields[1] = m.payload.fields[1]
                \/ path.method = "ecb" /\ WrongKey(m, FALSE)
             /\ Aliases(o.msg) =>
                  /\ path.proto = "udp" /\ path.method = "none"
                  /\ data.cmp = "none" /\ data.plain = m.payload.fields[1]
<1> DEFINE m == frames[n].msg
           r == AsMessage(HeaderOf(n))
           c == frames[n].payload
<1>1. PICK data \in MarshalPayload(m, path.obfuscate) \ {Failed} :
        /\ IsMarshalled(m, data)
        /\ c.len > 0 => c = Cipher(data, path.method, SenderKey(m), c.len)
        /\ r.type = m.type /\ r.isACK = m.isACK /\ r.cmp = data.cmp
  BY HeaderRight
<1>2. o.what # "noEntry" /\ o.what # "noKey"
  OBVIOUS
<1>3. CASE ~IsUserData(r)
  <2>1. o = Outcome("taken", r, NoPayload) \/ \E key : o \in Opened(r, c, key)
    BY <1>3 DEF Received
  <2>2. CASE o = Outcome("taken", r, NoPayload)
    <3>1. o.msg.type = r.type /\ o.msg.isACK = r.isACK
      BY <2>2, OutcomeMsg
    <3> QED  BY <1>3, <3>1 DEF IsUserData
  <2>3. CASE \E key : o \in Opened(r, c, key)
    <3>1. PICK key, what, payload : o = Outcome(what, r, payload)
      BY <2>3 DEF Opened
    <3>2. o.msg.type = r.type /\ o.msg.isACK = r.isACK
      BY <3>1, OutcomeMsg
    <3> QED  BY <1>3, <3>2 DEF IsUserData
  <2> QED  BY <2>1, <2>2, <2>3
<1>4. CASE IsUserData(r)
  <2>1. IsUserData(m) /\ IsPayload(m) /\ IsPayload(r)
    BY <1>1, <1>4 DEF IsUserData, IsPayload
  <2>2. CASE keys.userR \in {"absent", "nil"}
    <3>1. \E what \in {"noEntry", "noKey"} : o = Outcome(what, r, NoPayload)
      BY <1>4, <2>2 DEF Received
    <3> QED  BY <1>2, <3>1, OutcomeMsg
  <2>3. CASE keys.userR \notin {"absent", "nil"}
    <3>1. o \in Opened(r, c, keys.userR)
      BY <1>4, <2>1, <2>3 DEF Received
    <3>2. /\ o.msg.payload = SentAs(m) \/ (path.method = "ecb" /\ keys.userR # SenderKey(m))
          /\ o.msg.cmp = r.cmp
      BY <2>1, <3>1, OpenedRight
    <3>3. SentAs(m) = m.payload
      <4>1. m.error = 0
        BY <2>1, MessageType DEF Sent, IsUserData
      <4> QED  BY <2>1, <4>1 DEF SentAs
    <3>4. c.len > 0
      BY <2>1 DEF Sent
    <3>5. c.data = data
      BY <1>1, <3>4 DEF Cipher
    <3>6. data.plain = m.payload.fields[1]
      BY <1>1, <2>1, PacketMarshalled
    <3>7. Aliases(o.msg) =>
            /\ path.proto = "udp" /\ path.method = "none"
            /\ data.cmp = "none"
      BY <1>1, <3>2 DEF Aliases, Over
    <3> QED  BY <2>1, <3>2, <3>3, <3>5, <3>6, <3>7 DEF WrongKey
  <2> QED  BY <2>2, <2>3
<1> QED  BY <1>3, <1>4

-----------------------------------------------------------------------------
(* Sequences *)

IsSequence(s) == s \in Seq({s[i] : i \in DOMAIN s})

LEMMA SeqIsSequence ==
  ASSUME NEW S, NEW s \in Seq(S)
  PROVE  IsSequence(s) /\ Len(s) \in Nat /\ DOMAIN s = 1 .. Len(s)
<1>1. Len(s) \in Nat /\ DOMAIN s = 1 .. Len(s) /\ s \in [1 .. Len(s) -> S]
  BY LenProperties
<1>2. s \in [1 .. Len(s) -> {s[i] : i \in DOMAIN s}]
  BY <1>1
<1> QED  BY <1>1, <1>2, SeqDef DEF IsSequence

LEMMA SequenceProperties ==
  ASSUME NEW s, IsSequence(s)
  PROVE  Len(s) \in Nat /\ DOMAIN s = 1 .. Len(s)
BY LenProperties DEF IsSequence

LEMMA AppendToSequence ==
  ASSUME NEW s, IsSequence(s), NEW e
  PROVE  /\ IsSequence(Append(s, e))
         /\ Len(Append(s, e)) = Len(s) + 1 /\ DOMAIN Append(s, e) = 1 .. Len(s) + 1
         /\ \A i \in 1 .. Len(s) : Append(s, e)[i] = s[i]
         /\ Append(s, e)[Len(s) + 1] = e
<1> DEFINE S == {s[i] : i \in DOMAIN s} \union {e}
<1>1. s \in Seq(S)
  BY SeqMonotonic DEF IsSequence
<1>2. Append(s, e) \in Seq(S) /\ Len(Append(s, e)) = Len(s) + 1
      /\ (\A i \in 1 .. Len(s) : Append(s, e)[i] = s[i]) /\ Append(s, e)[Len(s) + 1] = e
  BY <1>1, AppendProperties
<1> QED  BY <1>2, SeqIsSequence

LEMMA RemoveFromSequence ==
  ASSUME NEW s, IsSequence(s), NEW k \in DOMAIN s
  PROVE  /\ IsSequence(RemoveAt(s, k))
         /\ \A i \in DOMAIN RemoveAt(s, k) : \E j \in DOMAIN s : RemoveAt(s, k)[i] = s[j]
<1> DEFINE S == {s[i] : i \in DOMAIN s}
<1>1. s \in Seq(S) /\ Len(s) \in Nat /\ DOMAIN s = 1 .. Len(s)
  BY SequenceProperties DEF IsSequence
<1>2. SubSeq(s, 1, k - 1) \in Seq(S)
  BY <1>1, SubSeqProperties
<1>3. SubSeq(s, k + 1, Len(s)) \in Seq(S)
  BY <1>1, SubSeqProperties
<1>4. RemoveAt(s, k) \in Seq(S)
  BY <1>2, <1>3, ConcatProperties DEF RemoveAt
<1>5. ASSUME NEW i \in DOMAIN RemoveAt(s, k) PROVE RemoveAt(s, k)[i] \in S
  BY <1>4, LenProperties, ElementOfSeq
<1> QED  BY <1>4, <1>5, SeqIsSequence

-----------------------------------------------------------------------------
(* The invariant *)

Bytes == Nat \X Nat      \* <<frame, position>>

WireType ==
  /\ path \in Paths /\ nread \in Nat
  /\ IsSequence(frames) /\ stream \in Seq(Bytes)
  /\ IsSequence(handled) /\ IsSequence(held) /\ IsSequence(written)
  /\ reader = [at |-> reader.at, sync |-> reader.sync, header |-> reader.header,
               payload |-> reader.payload, msg |-> reader.msg, buf |-> reader.buf]
  /\ reader.sync \in BOOLEAN /\ (reader.sync => path.to = "client")
  /\ reader.buf \in Seq(Byte)
  /\ reader.header \in Seq(Bytes) /\ reader.payload \in Seq(Bytes)

FramesSent == \A f \in DOMAIN frames : Sent(frames[f])

FrameLength(f) == HeaderLength + frames[f].payload.len

\* begin[f] bytes come before frame f, and begin[Len(frames) + 1] are all there are.
Framing(begin) ==
  /\ begin[1] = 0 /\ begin[Len(frames) + 1] = Len(stream)
  /\ \A f \in DOMAIN frames :
       /\ begin[f + 1] = begin[f] + FrameLength(f) /\ begin[f + 1] <= Len(stream)
       /\ \A i \in 1 .. FrameLength(f) : stream[begin[f] + i] = <<f, i>>

\* The reader has read what comes before its frame, and what its buffers hold.
Position(begin) ==
  LET f == Len(handled) + 1
  IN  /\ \A i \in DOMAIN handled : handled[i].f = i
      /\ \A i \in DOMAIN reader.header : reader.header[i] = <<f, i>>
      /\ \A i \in DOMAIN reader.payload : reader.payload[i] = <<f, HeaderLength + i>>
      /\ reader.at \in {"header", "payload", "handle"} =>
           /\ Len(handled) <= Len(frames)
           /\ nread = begin[f] + Len(reader.header) + Len(reader.payload)
      /\ reader.at = "header" => Len(reader.header) < HeaderLength /\ reader.payload = <<>>
      /\ reader.at \in {"payload", "handle"} =>
           /\ f \in DOMAIN frames /\ Len(reader.header) = HeaderLength
           /\ HeaderOf(f) # Failed /\ reader.msg = AsMessage(HeaderOf(f))
      /\ reader.at = "payload" => Len(reader.payload) < frames[f].payload.len
      /\ reader.at = "handle" => Len(reader.payload) = frames[f].payload.len

Framed ==
  path.proto = "tcp" =>
    \E begin \in [1 .. Len(frames) + 1 -> Nat] : Framing(begin) /\ Position(begin)

HandledKnown == \A i \in DOMAIN handled : handled[i].f \in DOMAIN frames

\* What the merger keeps is the packet that was sent; in the port's buffer, while no
\* later datagram is read there.
HeldWhole(p) ==
  /\ p.of \in DOMAIN frames
  /\ LET m == frames[p.of].msg
     IN  \/ p.packet = m.payload.fields[1]
         \/ path.method = "ecb" /\ WrongKey(m, FALSE)
  /\ p.alias => /\ path.proto = "udp" /\ nread > 0
                /\ nread = 1 => SubSeq(reader.buf, 1, Len(p.packet)) = p.packet

WrittenWhole(w) ==
  /\ w.of \in DOMAIN frames
  /\ \/ w.packet = frames[w.of].msg.payload.fields[1]
     \/ path.method = "ecb" /\ WrongKey(frames[w.of].msg, FALSE)
     \/ w.alias /\ nread > 1

HeldRight == \A i \in DOMAIN held : HeldWhole(held[i])
WrittenRight == \A i \in DOMAIN written : WrittenWhole(written[i])

WireInv ==
  /\ WireType /\ FramesSent /\ Framed /\ HandledKnown /\ HeldRight /\ WrittenRight

LEMMA WireInvInit == WireInit => WireInv
<1> SUFFICES ASSUME WireInit PROVE WireInv
  OBVIOUS
<1>1. /\ <<>> \in Seq(Bytes) /\ <<>> \in Seq(Byte) /\ Len(<<>>) = 0
      /\ DOMAIN <<>> = {} /\ IsSequence(<<>>)
  <2>1. <<>> \in Seq(Bytes) /\ <<>> \in Seq(Byte) /\ Len(<<>>) = 0
    BY EmptySeq
  <2>2. IsSequence(<<>>) /\ DOMAIN <<>> = 1 .. Len(<<>>)
    BY <2>1, SeqIsSequence
  <2>3. DOMAIN <<>> = {}
    BY <2>1, <2>2
  <2> QED  BY <2>1, <2>2, <2>3
<1>2. WireType
  BY <1>1 DEF WireInit, WireType, Idle
<1>3. FramesSent /\ HandledKnown /\ HeldRight /\ WrittenRight
  BY <1>1 DEF WireInit, FramesSent, HandledKnown, HeldRight, WrittenRight
<1>4. Framed
  <2> DEFINE begin == [f \in 1 .. Len(frames) + 1 |-> 0]
  <2>1. begin \in [1 .. Len(frames) + 1 -> Nat] /\ begin[1] = 0 /\ begin[Len(frames) + 1] = 0
    BY <1>1 DEF WireInit
  <2>2. HeaderLength \in Nat \ {0}
    BY <1>2, PathType DEF WireType
  <2> HIDE DEF begin
  <2>3. Framing(begin)
    BY <1>1, <2>1 DEF Framing, WireInit
  <2>4. Position(begin)
    BY <1>1, <2>1, <2>2 DEF Position, WireInit, Idle
  <2> QED  BY <2>1, <2>3, <2>4 DEF Framed
<1> QED  BY <1>2, <1>3, <1>4 DEF WireInv

\* One more frame is written; what is known of the others stays.
LEMMA WriteKeeps ==
  ASSUME WireInv, NEW m \in Messages, NEW emptyToo \in BOOLEAN, Write(m, emptyToo)
  PROVE  WireInv'
<1>1. PICK f \in Encoded(m, emptyToo) \ {Failed} :
        /\ frames' = Append(frames, f)
        /\ stream' = IF path.proto = "tcp" THEN stream \o BytesOf(Len(frames) + 1, f) ELSE stream
  BY DEF Write
<1>2. UNCHANGED <<path, keys, nread, reader, handled, held, written>>
  BY DEF Write
<1>3. Sent(f) /\ f.msg = m /\ path \in Paths /\ HeaderLength \in Nat \ {0}
  BY EncodedIsSent, EncodedMsg, PathType DEF WireInv, WireType
<1>4. /\ IsSequence(frames) /\ Len(frames) \in Nat /\ DOMAIN frames = 1 .. Len(frames)
      /\ IsSequence(frames') /\ Len(frames') = Len(frames) + 1 /\ DOMAIN frames' = 1 .. Len(frames) + 1
      /\ \A i \in 1 .. Len(frames) : frames'[i] = frames[i]
      /\ frames'[Len(frames) + 1] = f
  BY <1>1, AppendToSequence, SequenceProperties DEF WireInv, WireType
<1>5. FramesSent'
  <2>1. \A i \in DOMAIN frames : Sent(frames[i])
    BY DEF WireInv, FramesSent
  <2>2. \A i \in DOMAIN frames' : frames'[i] = f \/ (i \in DOMAIN frames /\ frames'[i] = frames[i])
    BY <1>4
  <2> QED  BY <1>2, <1>3, <2>1, <2>2 DEF FramesSent, Sent, SenderKey
<1> DEFINE n == Len(frames) + 1
           new == BytesOf(n, f)
<1>6. f.payload.len \in Nat
  BY <1>3 DEF Sent
<1>7. /\ new \in Seq(Bytes) /\ Len(new) = HeaderLength + f.payload.len
      /\ \A i \in 1 .. HeaderLength + f.payload.len : new[i] = <<n, i>>
  BY <1>3, <1>4, <1>6 DEF BytesOf, Bytes
<1>8. stream \in Seq(Bytes) /\ Len(stream) \in Nat
  BY LenProperties DEF WireInv, WireType
<1> HIDE DEF new
<1>9. WireType'
  BY <1>1, <1>2, <1>4, <1>7, <1>8, ConcatProperties DEF WireInv, WireType, new
<1>10. Framed'
  <2> SUFFICES ASSUME path.proto = "tcp" PROVE Framed'
    BY <1>2 DEF Framed
  <2>1. stream' = stream \o new /\ Len(stream') = Len(stream) + Len(new)
    BY <1>1, <1>7, <1>8, ConcatProperties DEF new
  <2>2. /\ \A k \in 1 .. Len(stream) : stream'[k] = stream[k]
        /\ \A i \in 1 .. Len(new) : stream'[Len(stream) + i] = new[i]
    <3>1. \A k \in 1 .. Len(stream) + Len(new) : stream'[k] =
            IF k <= Len(stream) THEN stream[k] ELSE new[k - Len(stream)]
      BY <2>1, <1>7, <1>8, ConcatProperties
    <3>2. Len(new) \in Nat
      BY <1>3, <1>6, <1>7
    <3> QED  BY <1>8, <3>1, <3>2
  <2>3. PICK begin \in [1 .. Len(frames) + 1 -> Nat] : Framing(begin) /\ Position(begin)
    BY DEF WireInv, Framed
  <2> DEFINE longer == [k \in 1 .. Len(frames') + 1 |->
                        IF k <= n THEN begin[k] ELSE Len(stream')]
  <2>0. /\ longer \in [1 .. Len(frames') + 1 -> Nat]
        /\ longer[n + 1] = Len(stream')
        /\ \A k \in 1 .. n : longer[k] = begin[k]
    BY <1>3, <1>4, <1>6, <1>7, <1>8, <2>1
  <2> HIDE DEF longer
  <2>4. PICK next : /\ next \in [1 .. Len(frames') + 1 -> Nat]
                    /\ next[n + 1] = Len(stream')
                    /\ \A k \in 1 .. n : next[k] = begin[k]
    BY <2>0
  <2>5. Framing(next)'
    <3>1. begin[n] = Len(stream) /\ begin[1] = 0
      BY <2>3 DEF Framing
    <3>2. next[1] = 0 /\ next[Len(frames') + 1] = Len(stream')
      BY <1>4, <2>4, <3>1
    <3>3. ASSUME NEW k \in DOMAIN frames'
          PROVE  /\ next[k + 1] = next[k] + FrameLength(k)' /\ next[k + 1] <= Len(stream')
                 /\ \A i \in 1 .. FrameLength(k)' : stream'[next[k] + i] = <<k, i>>
      <4>1. HeaderLength' = HeaderLength
        BY <1>2 DEF HeaderLength
      <4>2. CASE k \in 1 .. Len(frames)
        <5>1. FrameLength(k)' = FrameLength(k) /\ FrameLength(k) \in Nat
          <6>1. Sent(frames[k])
            BY <1>4, <4>2 DEF WireInv, FramesSent
          <6> QED  BY <6>1, <1>3, <1>4, <4>1, <4>2 DEF FrameLength, Sent
        <5>2. /\ begin[k + 1] = begin[k] + FrameLength(k) /\ begin[k + 1] <= Len(stream)
              /\ \A i \in 1 .. FrameLength(k) : stream[begin[k] + i] = <<k, i>>
          BY <1>4, <2>3, <4>2 DEF Framing
        <5>3. next[k] = begin[k] /\ next[k + 1] = begin[k + 1] /\ begin[k] \in Nat
          BY <1>4, <2>4, <4>2
        <5>4. ASSUME NEW i \in 1 .. FrameLength(k)
              PROVE  stream'[next[k] + i] = <<k, i>>
          <6>1. begin[k] + i \in 1 .. Len(stream)
            BY <5>1, <5>2, <5>3, <1>8
          <6>2. stream[begin[k] + i] = <<k, i>>
            BY <5>2
          <6> QED  BY <2>2, <5>3, <6>1, <6>2
        <5>5. Len(stream) <= Len(stream')
          BY <1>3, <1>6, <1>7, <1>8, <2>1
        <5>6. next[k + 1] <= Len(stream')
          <6>1. begin[k + 1] \in Nat /\ Len(stream') \in Nat
            BY <1>3, <1>6, <1>7, <1>8, <2>1, <2>3, <1>4, <4>2
          <6> QED  BY <5>2, <5>3, <5>5, <6>1, <1>8
        <5> QED  BY <5>1, <5>2, <5>3, <5>4, <5>6
      <4>3. CASE k = n
        <5>1. FrameLength(k)' = HeaderLength + f.payload.len
          BY <1>4, <4>1, <4>3 DEF FrameLength
        <5>2. next[k] = Len(stream) /\ next[k + 1] = Len(stream')
          BY <1>4, <2>4, <3>1, <4>3
        <5>3. Len(stream') = Len(stream) + FrameLength(k)'
          BY <1>7, <2>1, <5>1
        <5>4. \A i \in 1 .. FrameLength(k)' : stream'[next[k] + i] = <<k, i>>
          BY <1>7, <2>2, <5>1, <5>2, <4>3
        <5>5. Len(stream') \in Nat
          BY <1>3, <1>6, <1>8, <5>1, <5>3
        <5> QED  BY <5>2, <5>3, <5>4, <5>5
      <4>4. k \in 1 .. Len(frames) \/ k = n
        BY <1>4
      <4> QED  BY <4>2, <4>3, <4>4
    <3> QED  BY <3>2, <3>3 DEF Framing
  <2>6. Position(next)'
    <3>1. HeaderLength' = HeaderLength /\ handled' = handled /\ reader' = reader /\ nread' = nread
      BY <1>2 DEF HeaderLength
    <3>2. Len(handled) \in Nat
      BY SequenceProperties DEF WireInv, WireType
    <3>0. PICK k : k = Len(handled) + 1
      OBVIOUS
    <3>3. k \in DOMAIN frames => k \in DOMAIN frames' /\ frames'[k] = frames[k] /\ HeaderOf(k)' = HeaderOf(k)
      BY <1>2, <1>4 DEF HeaderOf
    <3>4. Len(handled) <= Len(frames) => Len(handled) <= Len(frames') /\ next[k] = begin[k]
      BY <1>4, <2>4, <3>0, <3>2
    <3>5. /\ \A i \in DOMAIN handled : handled[i].f = i
          /\ \A i \in DOMAIN reader.header : reader.header[i] = <<k, i>>
          /\ \A i \in DOMAIN reader.payload : reader.payload[i] = <<k, HeaderLength + i>>
          /\ reader.at \in {"header", "payload", "handle"} =>
               /\ Len(handled) <= Len(frames)
               /\ nread = begin[k] + Len(reader.header) + Len(reader.payload)
          /\ reader.at = "header" => Len(reader.header) < HeaderLength /\ reader.payload = <<>>
          /\ reader.at \in {"payload", "handle"} =>
               /\ k \in DOMAIN frames /\ Len(reader.header) = HeaderLength
               /\ HeaderOf(k) # Failed /\ reader.msg = AsMessage(HeaderOf(k))
          /\ reader.at = "payload" => Len(reader.payload) < frames[k].payload.len
          /\ reader.at = "handle" => Len(reader.payload) = frames[k].payload.len
      BY <2>3, <3>0 DEF Position
    <3> QED
      <4>1. /\ \A i \in DOMAIN handled' : handled'[i].f = i
            /\ \A i \in DOMAIN reader'.header : reader'.header[i] = <<k, i>>
            /\ \A i \in DOMAIN reader'.payload : reader'.payload[i] = <<k, HeaderLength' + i>>
        BY <3>1, <3>5
      <4>2. reader'.at \in {"header", "payload", "handle"} =>
              /\ Len(handled') <= Len(frames')
              /\ nread' = next[k] + Len(reader'.header) + Len(reader'.payload)
        BY <3>1, <3>4, <3>5
      <4>3. /\ reader'.at = "header" => Len(reader'.header) < HeaderLength' /\ reader'.payload = <<>>
            /\ reader'.at \in {"payload", "handle"} =>
                 /\ k \in DOMAIN frames' /\ Len(reader'.header) = HeaderLength'
                 /\ HeaderOf(k)' # Failed /\ reader'.msg = AsMessage(HeaderOf(k))'
            /\ reader'.at = "payload" => Len(reader'.payload) < frames'[k].payload.len
            /\ reader'.at = "handle" => Len(reader'.payload) = frames'[k].payload.len
        BY <3>1, <3>3, <3>5
      <4>4. k = Len(handled') + 1
        BY <3>0, <3>1
      <4> QED  BY <4>1, <4>2, <4>3, <4>4 DEF Position, AsMessage
  <2> QED  BY <2>4, <2>5, <2>6 DEF Framed
<1>11. HandledKnown'
  BY <1>2, <1>4 DEF WireInv, HandledKnown
<1>12. HeldRight' /\ WrittenRight'
  BY <1>2, <1>4 DEF WireInv, HeldRight, WrittenRight, HeldWhole, WrittenWhole, WrongKey, SenderKey
<1> QED  BY <1>5, <1>9, <1>10, <1>11, <1>12 DEF WireInv

LEMMA FramesStay ==
  ASSUME FramesSent, UNCHANGED <<path, keys, frames, stream>>
  PROVE  FramesSent' /\ \A begin : Framing(begin) => Framing(begin)'
<1>1. FramesSent'
  BY DEF FramesSent, Sent, SenderKey
<1>2. ASSUME NEW begin, Framing(begin) PROVE Framing(begin)'
  BY <1>2 DEF Framing, FrameLength, HeaderLength
<1> QED  BY <1>1, <1>2

LEMMA Arithmetic ==
  ASSUME NEW a \in Nat, NEW b \in Nat
  PROVE  /\ a + b \in Nat
         /\ \A c \in Nat : c + (a + b) = c + a + b
OBVIOUS

\* The bytes that a read gives are the next ones of the frame the reader is in.
LEMMA PieceRight ==
  ASSUME WireInv, path.proto = "tcp",
         NEW begin \in [1 .. Len(frames) + 1 -> Nat], Framing(begin), Position(begin),
         reader.at \in {"header", "payload"}, Available > 0,
         NEW room \in Nat \ {0}, NEW n \in Pieces(room)
  PROVE  LET f == Len(handled) + 1
             k == Len(reader.header) + Len(reader.payload)
         IN  /\ f \in DOMAIN frames /\ k \in Nat /\ n \in 1 .. room /\ nread + n <= Len(stream)
             /\ nread = begin[f] + k
             /\ Piece(n) \in Seq(Bytes) /\ Len(Piece(n)) = n
             /\ k + room <= FrameLength(f) =>
                  \A j \in 1 .. n : Piece(n)[j] = <<f, k + j>>
<1>1. /\ Len(handled) \in Nat /\ Len(frames) \in Nat /\ DOMAIN frames = 1 .. Len(frames)
      /\ stream \in Seq(Bytes) /\ Len(stream) \in Nat /\ nread \in Nat
      /\ Len(reader.header) \in Nat /\ Len(reader.payload) \in Nat
  BY SequenceProperties, LenProperties DEF WireInv, WireType
<1>2. PICK f : f = Len(handled) + 1
  OBVIOUS
<1>3. PICK k \in Nat : k = Len(reader.header) + Len(reader.payload)
  <2>1. PICK a \in Nat, b \in Nat : a = Len(reader.header) /\ b = Len(reader.payload)
    BY <1>1
  <2>2. a + b \in Nat
    OBVIOUS
  <2> QED  BY <2>1, <2>2, Zenon
<1>4. f \in Nat /\ Len(handled) <= Len(frames) /\ nread = begin[f] + Len(reader.header) + Len(reader.payload)
  BY <1>1, <1>2 DEF Position
<1>5. f \in 1 .. Len(frames) + 1 /\ begin[f] \in Nat
  BY <1>1, <1>2, <1>4
<1>6. nread = begin[f] + k
  <2>1. PICK a \in Nat, b \in Nat, x \in Nat :
          a = Len(reader.header) /\ b = Len(reader.payload) /\ x = begin[f]
    BY <1>1, <1>5
  <2>2. x + (a + b) = x + a + b
    OBVIOUS
  <2> QED  BY <1>3, <1>4, <2>1, <2>2, Zenon
<1>7. nread < Len(stream)
  BY <1>1 DEF Available
<1>8. f # Len(frames) + 1
  <2>1. begin[Len(frames) + 1] = Len(stream)
    BY DEF Framing
  <2>2. PICK b \in Nat : b = begin[f]
    BY <1>5
  <2>3. nread = b + k /\ k \in Nat
    BY <1>3, <1>6, <2>2, Zenon
  <2>4. b <= nread
    BY <2>2, <2>3
  <2> QED  BY <1>1, <1>7, <2>1, <2>2, <2>4
<1>9. f \in DOMAIN frames
  BY <1>1, <1>5, <1>8
<1>10. n \in 1 .. room /\ nread + n <= Len(stream)
  <2>1. PieceSize \in Nat \ {0}
    BY WireAssumption
  <2>2. PICK a \in Nat \ {0} : a = Len(stream) - nread
    BY <1>1, <1>7
  <2>3. n \in {AtMost(room, a), AtMost(PieceSize, AtMost(room, a))}
    BY <2>2 DEF Pieces, Available
  <2>4. n \in 1 .. room /\ n <= a
    BY <2>1, <2>3 DEF AtMost
  <2> QED  BY <1>1, <2>2, <2>4
<1>11. \A i \in nread + 1 .. nread + n : stream[i] \in Bytes
  BY <1>1, <1>10, ElementOfSeq
<1>12. /\ Piece(n) \in Seq(Bytes) /\ Len(Piece(n)) = n
       /\ \A j \in 1 .. n : Piece(n)[j] = stream[nread + j]
  <2>1. nread + 1 \in Int /\ nread + n \in Int /\ nread + 1 <= nread + n
    BY <1>1, <1>10
  <2>2. PICK lo \in Int, hi \in Int : lo = nread + 1 /\ hi = nread + n
    BY <2>1
  <2>3. lo <= hi /\ hi - lo + 1 = n /\ \A j \in 1 .. n : lo + j - 1 = nread + j
    BY <1>1, <1>10, <2>2
  <2>4. Piece(n) = SubSeq(stream, lo, hi)
    BY <2>2 DEF Piece
  <2>5. /\ SubSeq(stream, lo, hi) \in Seq(Bytes)
        /\ Len(SubSeq(stream, lo, hi)) = IF lo <= hi THEN hi - lo + 1 ELSE 0
        /\ \A j \in 1 .. hi - lo + 1 : SubSeq(stream, lo, hi)[j] = stream[lo + j - 1]
    <3>1. \A i \in lo .. hi : stream[i] \in Bytes
      BY <1>11, <2>2
    <3> QED  BY <1>1, <3>1, SubSeqProperties
  <2> QED  BY <2>3, <2>4, <2>5
<1>13. ASSUME k + room <= FrameLength(f), NEW j \in 1 .. n
       PROVE  Piece(n)[j] = <<f, k + j>>
  <2>1. Sent(frames[f]) /\ HeaderLength \in Nat
    BY <1>9, PathType DEF WireInv, WireType, FramesSent
  <2>2. FrameLength(f) \in Nat
    BY <2>1 DEF FrameLength, Sent
  <2>3. k + j \in 1 .. FrameLength(f)
    BY <1>10, <1>13, <2>2
  <2>4. stream[begin[f] + (k + j)] = <<f, k + j>>
    BY <1>9, <2>3 DEF Framing
  <2>5. nread + j = begin[f] + (k + j)
    BY <1>1, <1>5, <1>6
  <2> QED  BY <1>12, <2>4, <2>5
<1> QED  BY <1>2, <1>3, <1>6, <1>9, <1>10, <1>12, <1>13

LEMMA RoomLeft ==
  ASSUME NEW a \in Nat, NEW b \in Nat, a < b
  PROVE  b - a \in Nat \ {0} /\ a + (b - a) = b
OBVIOUS

LEMMA WithinRoom ==
  ASSUME NEW k \in Nat, NEW room \in Nat, NEW n \in 1 .. room
  PROVE  k + n \in Nat \ {0} /\ k + n <= k + room
OBVIOUS

LEMMA BeyondFirst ==
  ASSUME NEW a \in Nat, NEW b \in Nat, NEW i \in 1 .. a + b, i > a
  PROVE  i - a \in 1 .. b
OBVIOUS

\* Bytes of a frame, and the ones that follow them.
LEMMA JoinedRight ==
  ASSUME NEW s \in Seq(Bytes), NEW t \in Seq(Bytes), NEW f, NEW o \in Nat,
         \A i \in DOMAIN s : s[i] = <<f, o + i>>,
         \A j \in 1 .. Len(t) : t[j] = <<f, o + (Len(s) + j)>>
  PROVE  /\ s \o t \in Seq(Bytes) /\ Len(s \o t) = Len(s) + Len(t)
         /\ \A i \in DOMAIN (s \o t) : (s \o t)[i] = <<f, o + i>>
<1>1. PICK a \in Nat, b \in Nat : a = Len(s) /\ b = Len(t)
  BY LenProperties
<1>2. DOMAIN s = 1 .. a
  BY <1>1, LenProperties
<1>3. /\ s \o t \in Seq(Bytes) /\ Len(s \o t) = a + b
      /\ \A i \in 1 .. a + b : (s \o t)[i] = IF i <= a THEN s[i] ELSE t[i - a]
  BY <1>1, ConcatProperties
<1>4. DOMAIN (s \o t) = 1 .. a + b
  BY <1>3, LenProperties
<1>5. ASSUME NEW i \in 1 .. a + b PROVE (s \o t)[i] = <<f, o + i>>
  <2>0. i \in Nat /\ i >= 1 /\ i <= a + b
    BY <1>1
  <2>1. CASE i <= a
    <3>1. i \in DOMAIN s
      BY <1>2, <2>0, <2>1
    <3>2. (s \o t)[i] = s[i]
      BY <1>3, <2>1
    <3> QED  BY <3>1, <3>2
  <2>2. CASE i > a
    <3>1. PICK j \in 1 .. b : j = i - a
      BY <2>2, BeyondFirst
    <3>2. (s \o t)[i] = t[j]
      BY <1>3, <2>2, <3>1
    <3>3. t[j] = <<f, o + (a + j)>>
      BY <1>1, <3>1
    <3>4. a + j = i
      BY <3>1
    <3> QED  BY <3>2, <3>3, <3>4
  <2> QED  BY <1>1, <2>0, <2>1, <2>2
<1> QED  BY <1>1, <1>3, <1>4, <1>5

LEMMA WholeRight ==
  ASSUME NEW s \in Seq(Bytes), NEW f, NEW o \in Nat, NEW n \in Nat, Len(s) = n,
         \A i \in DOMAIN s : s[i] = <<f, o + i>>
  PROVE  Whole(s, f, o + 1, o + n)
<1>1. s \in [1 .. n -> Bytes] /\ DOMAIN s = 1 .. n
  BY LenProperties
<1>2. o + n - (o + 1) + 1 = n /\ \A i \in 1 .. n : o + 1 + i - 1 = o + i
  OBVIOUS
<1>3. s = [i \in 1 .. n |-> <<f, o + 1 + i - 1>>]
  BY <1>1, <1>2
<1> QED  BY <1>2, <1>3 DEF Whole

\* Over TCP no packet waits in a buffer that is read into again.
LEMMA HeldStays ==
  ASSUME WireInv, path.proto = "tcp", UNCHANGED <<path, keys, frames, held, written>>,
         nread' \in Nat, nread' >= nread
  PROVE  HeldRight' /\ WrittenRight'
<1>1. nread \in Nat
  BY DEF WireInv, WireType
<1>2. \A i \in DOMAIN held : HeldWhole(held[i]) /\ ~held[i].alias
  BY DEF WireInv, HeldRight, HeldWhole
<1>3. HeldRight'
  BY <1>2 DEF HeldRight, HeldWhole, WrongKey, SenderKey
<1>4. \A i \in DOMAIN written : WrittenWhole(written[i])
  BY DEF WireInv, WrittenRight
<1>5. nread > 1 => nread' > 1
  BY <1>1
<1>6. WrittenRight'
  BY <1>4, <1>5 DEF WrittenRight, WrittenWhole, WrongKey, SenderKey
<1> QED  BY <1>3, <1>6

LEMMA ReadHeaderTCPKeeps ==
  ASSUME WireInv, ReadHeaderTCP
  PROVE  /\ WireInv'
         /\ \/ handled' = handled
            \/ \E f \in DOMAIN frames :
                 /\ HeaderOf(f) = Failed
                 /\ handled' = Append(handled, [f |-> f, what |-> "refused"])
<1>1. /\ path.proto = "tcp" /\ reader.at = "header" /\ Available > 0
      /\ UNCHANGED <<path, keys, frames, stream, held, written>>
  BY DEF ReadHeaderTCP, Readable
<1>2. PICK n, bytes, h :
        /\ n \in Pieces(HeaderLength - Len(reader.header))
        /\ bytes = reader.header \o Piece(n) /\ h = HeaderRead(bytes)
        /\ nread' = nread + n
        /\ IF Len(bytes) < HeaderLength
           THEN reader' = [reader EXCEPT !.header = bytes] /\ UNCHANGED handled
           ELSE IF h = Failed
           THEN /\ reader' = Refused
                /\ handled' = Append(handled, [f |-> bytes[1][1], what |-> "refused"])
           ELSE /\ reader' = [reader EXCEPT !.header = bytes, !.msg = AsMessage(h),
                                !.at = IF h.len > 0 THEN "payload" ELSE "handle"]
                /\ UNCHANGED handled
  <2>1. PICK n \in Pieces(HeaderLength - Len(reader.header)) :
          LET bytes == reader.header \o Piece(n)
              h == HeaderRead(bytes)
          IN  /\ nread' = nread + n
              /\ IF Len(bytes) < HeaderLength
                 THEN reader' = [reader EXCEPT !.header = bytes] /\ UNCHANGED handled
                 ELSE IF h = Failed
                 THEN /\ reader' = Refused
                      /\ handled' = Append(handled, [f |-> bytes[1][1], what |-> "refused"])
                 ELSE /\ reader' = [reader EXCEPT !.header = bytes, !.msg = AsMessage(h),
                                      !.at = IF h.len > 0 THEN "payload" ELSE "handle"]
                      /\ UNCHANGED handled
    BY DEF ReadHeaderTCP
  <2>2. PICK bytes : bytes = reader.header \o Piece(n)
    OBVIOUS
  <2>3. PICK h : h = HeaderRead(bytes)
    OBVIOUS
  <2> QED  BY <2>1, <2>2, <2>3
<1>3. PICK begin \in [1 .. Len(frames) + 1 -> Nat] : Framing(begin) /\ Position(begin)
  BY <1>1 DEF WireInv, Framed
<1>4. /\ IsSequence(handled) /\ Len(handled) \in Nat /\ DOMAIN handled = 1 .. Len(handled)
      /\ IsSequence(frames) /\ Len(frames) \in Nat
      /\ HeaderLength \in Nat \ {0} /\ nread \in Nat /\ path \in Paths
      /\ reader.header \in Seq(Bytes) /\ Len(reader.header) \in Nat
  BY SequenceProperties, LenProperties, PathType DEF WireInv, WireType
<1>5. Len(reader.header) < HeaderLength /\ reader.payload = <<>> /\ Len(reader.payload) = 0
  BY <1>1, <1>3, EmptySeq DEF Position
<1>6. PICK room \in Nat \ {0} :
        /\ room = HeaderLength - Len(reader.header)
        /\ Len(reader.header) + room = HeaderLength
  <2>1. PICK a \in Nat, b \in Nat : a = Len(reader.header) /\ b = HeaderLength /\ a < b
    BY <1>4, <1>5
  <2> QED  BY <2>1, RoomLeft
<1>7. PICK f : f = Len(handled) + 1
  OBVIOUS
<1>8. PICK k \in Nat : k = Len(reader.header)
  BY <1>4
<1>9. k = Len(reader.header) + Len(reader.payload)
  BY <1>5, <1>8
<1>10. /\ f \in DOMAIN frames /\ n \in 1 .. room /\ nread + n <= Len(stream)
       /\ nread = begin[f] + k
       /\ Piece(n) \in Seq(Bytes) /\ Len(Piece(n)) = n
       /\ k + room <= FrameLength(f) =>
            \A j \in 1 .. n : Piece(n)[j] = <<f, k + j>>
  BY <1>1, <1>2, <1>3, <1>6, <1>7, <1>9, PieceRight
<1>11. Sent(frames[f])
  BY <1>10 DEF WireInv, FramesSent
<1>12. k + room <= FrameLength(f)
  <2>1. frames[f].payload.len \in Nat
    BY <1>11 DEF Sent
  <2>2. k + room = HeaderLength
    BY <1>6, <1>8
  <2> QED  BY <1>4, <2>1, <2>2 DEF FrameLength
<1>13. /\ bytes \in Seq(Bytes) /\ Len(bytes) = k + n /\ Len(bytes) \in Nat \ {0}
       /\ Len(bytes) <= HeaderLength
       /\ \A i \in DOMAIN bytes : bytes[i] = <<f, i>>
  <2>1. \A i \in DOMAIN reader.header : reader.header[i] = <<f, i>>
    BY <1>3, <1>7 DEF Position
  <2>2. \A i \in DOMAIN reader.header : reader.header[i] = <<f, 0 + i>>
    BY <1>4, <2>1, LenProperties
  <2>3. \A j \in 1 .. Len(Piece(n)) : Piece(n)[j] = <<f, 0 + (Len(reader.header) + j)>>
    BY <1>8, <1>10, <1>12
  <2>4. /\ bytes \in Seq(Bytes) /\ Len(bytes) = Len(reader.header) + Len(Piece(n))
        /\ \A i \in DOMAIN bytes : bytes[i] = <<f, 0 + i>>
    <3>1. bytes = reader.header \o Piece(n)
      BY <1>2
    <3>2. reader.header \in Seq(Bytes) /\ Piece(n) \in Seq(Bytes)
      BY <1>4, <1>10
    <3>3. PICK s \in Seq(Bytes), t \in Seq(Bytes), o \in Nat :
            s = reader.header /\ t = Piece(n) /\ o = 0
      BY <3>2
    <3>4. /\ \A i \in DOMAIN s : s[i] = <<f, o + i>>
          /\ \A j \in 1 .. Len(t) : t[j] = <<f, o + (Len(s) + j)>>
      BY <2>2, <2>3, <3>3
    <3>5. /\ s \o t \in Seq(Bytes) /\ Len(s \o t) = Len(s) + Len(t)
          /\ \A i \in DOMAIN (s \o t) : (s \o t)[i] = <<f, o + i>>
      BY <3>4, JoinedRight
    <3> QED  BY <3>1, <3>3, <3>5
  <2>5. DOMAIN bytes = 1 .. Len(bytes)
    BY <2>4, LenProperties
  <2>6. Len(bytes) = k + n
    BY <1>8, <1>10, <2>4
  <2>7. k + n \in Nat \ {0} /\ k + n <= HeaderLength
    <3>1. k + room = HeaderLength
      BY <1>6, <1>8
    <3> QED  BY <1>10, <3>1, WithinRoom
  <2>8. \A i \in DOMAIN bytes : bytes[i] = <<f, i>>
    BY <2>4, <2>5, <2>6, <2>7
  <2> QED  BY <2>4, <2>6, <2>7, <2>8
<1>14. bytes[1][1] = f /\ DOMAIN bytes = 1 .. Len(bytes)
  <2>1. DOMAIN bytes = 1 .. Len(bytes)
    BY <1>13, LenProperties
  <2> QED  BY <1>13, <2>1
<1>15. PICK read \in Nat : read = begin[f]
  BY <1>3, <1>4, <1>10, SequenceProperties
<1>16. nread' = read + Len(bytes) /\ nread' \in Nat /\ nread' >= nread
  <2>1. nread' = nread + n /\ nread = read + k
    BY <1>2, <1>10, <1>15
  <2>2. n \in Nat /\ read + (k + n) = read + k + n /\ Len(bytes) = k + n
    BY <1>10, <1>13, Arithmetic
  <2>3. nread' = read + Len(bytes)
    BY <2>1, <2>2
  <2> QED  BY <1>4, <1>13, <2>1, <2>2, <2>3
<1>17. HeldRight' /\ WrittenRight' /\ FramesSent' /\ Framing(begin)' /\ HeaderLength' = HeaderLength
  BY <1>1, <1>3, <1>16, HeldStays, FramesStay DEF WireInv, HeaderLength
<1>18. \A i \in DOMAIN handled : handled[i].f = i
  BY <1>3 DEF Position
<1>19. CASE Len(bytes) < HeaderLength
  <2>1. reader' = [reader EXCEPT !.header = bytes] /\ handled' = handled
    BY <1>2, <1>19
  <2>2. WireType'
    BY <1>1, <1>13, <1>16, <2>1 DEF WireInv, WireType
  <2>3. /\ reader'.at = "header" /\ reader'.header = bytes /\ reader'.payload = <<>>
    BY <1>1, <1>5, <2>1 DEF WireInv, WireType
  <2>4. Position(begin)'
    <3>1. f = Len(handled') + 1
      BY <1>7, <2>1
    <3>2. Len(handled') <= Len(frames')
      BY <1>1, <1>4, <1>7, <1>10, <2>1, SequenceProperties
    <3>3. Len(bytes) < HeaderLength'
      BY <1>17, <1>19
    <3>4. nread' = begin[f] + Len(reader'.header) + Len(reader'.payload)
      <4>1. Len(reader'.header) = Len(bytes) /\ Len(reader'.payload) = 0
        BY <1>5, <2>3
      <4>2. read + Len(bytes) = read + Len(bytes) + 0
        BY <1>13
      <4> QED  BY <1>15, <1>16, <4>1, <4>2
    <3>5. \A i \in DOMAIN reader'.payload : reader'.payload[i] = <<f, HeaderLength' + i>>
      BY <2>3
    <3> QED  BY <1>13, <1>18, <2>1, <2>3, <3>1, <3>2, <3>3, <3>4, <3>5 DEF Position
  <2>5. Framed' /\ HandledKnown'
    BY <1>1, <1>3, <1>17, <2>1, <2>4 DEF Framed, WireInv, HandledKnown
  <2> QED  BY <1>17, <2>1, <2>2, <2>5 DEF WireInv
<1>20. ASSUME ~(Len(bytes) < HeaderLength)
       PROVE  Len(bytes) = HeaderLength /\ h = HeaderOf(f) /\ Whole(bytes, f, 1, HeaderLength)
  <2>1. Len(bytes) = HeaderLength
    BY <1>4, <1>13, <1>20
  <2>2. Whole(bytes, f, 0 + 1, 0 + HeaderLength)
    <3>1. \A i \in DOMAIN bytes : bytes[i] = <<f, 0 + i>>
      BY <1>13, <1>14
    <3> QED  BY <1>4, <1>13, <2>1, <3>1, WholeRight
  <2>3. 0 + 1 = 1 /\ 0 + HeaderLength = HeaderLength
    BY <1>4
  <2>4. Whole(bytes, f, 1, HeaderLength)
    BY <2>2, <2>3
  <2> QED  BY <1>2, <1>14, <2>1, <2>4 DEF HeaderRead
<1>21. CASE ~(Len(bytes) < HeaderLength) /\ h = Failed
  <2>1. reader' = Refused /\ handled' = Append(handled, [f |-> f, what |-> "refused"])
    BY <1>2, <1>14, <1>21
  <2>2. /\ reader' = [at |-> reader'.at, sync |-> FALSE, header |-> <<>>, payload |-> <<>>,
                     msg |-> NoHeader, buf |-> <<>>]
        /\ reader'.at \in {"panicked", "ended"}
    BY <2>1 DEF Refused, Idle
  <2>3. /\ IsSequence(handled') /\ Len(handled') = f /\ DOMAIN handled' = 1 .. f
        /\ \A i \in DOMAIN handled' : handled'[i].f = i
    <3>0. PICK e : e = [f |-> f, what |-> "refused"]
      OBVIOUS
    <3>1. e = [f |-> f, what |-> "refused"] /\ e.f = f
      BY <3>0
    <3>2. /\ IsSequence(handled') /\ Len(handled') = f /\ DOMAIN handled' = 1 .. f
          /\ \A i \in 1 .. Len(handled) : handled'[i] = handled[i]
          /\ handled'[f] = e
      BY <1>4, <1>7, <2>1, <3>1, AppendToSequence
    <3>3. ASSUME NEW i \in 1 .. f PROVE handled'[i].f = i
      <4>1. i \in 1 .. Len(handled) \/ i = f
        BY <1>4, <1>7
      <4> QED  BY <1>4, <1>18, <3>1, <3>2, <4>1
    <3> QED  BY <3>2, <3>3
  <2>4. WireType'
    <3>1. /\ reader' = [at |-> reader'.at, sync |-> reader'.sync, header |-> reader'.header,
                       payload |-> reader'.payload, msg |-> reader'.msg, buf |-> reader'.buf]
          /\ reader'.sync = FALSE /\ reader'.header = <<>> /\ reader'.payload = <<>>
          /\ reader'.buf = <<>>
      BY <2>2
    <3> QED  BY <1>1, <1>16, <2>3, <3>1, EmptySeq DEF WireInv, WireType
  <2>5. Position(begin)'
    BY <2>2, <2>3 DEF Position
  <2>6. Framed'
    BY <1>1, <1>3, <1>17, <2>5 DEF Framed
  <2>7. HandledKnown'
    <3>1. ASSUME NEW i \in DOMAIN handled' PROVE handled'[i].f \in DOMAIN frames'
      <4>1. DOMAIN frames' = 1 .. Len(frames) /\ f \in 1 .. Len(frames)
        BY <1>1, <1>4, <1>10, SequenceProperties
      <4> QED  BY <1>4, <1>7, <2>3, <4>1
    <3> QED  BY <3>1 DEF HandledKnown
  <2> QED  BY <1>10, <1>17, <1>20, <1>21, <2>1, <2>4, <2>6, <2>7 DEF WireInv
<1>22. CASE ~(Len(bytes) < HeaderLength) /\ h # Failed
  <2>1. /\ reader' = [reader EXCEPT !.header = bytes, !.msg = AsMessage(h),
                       !.at = IF h.len > 0 THEN "payload" ELSE "handle"]
        /\ handled' = handled
    BY <1>2, <1>22
  <2>2. /\ reader'.header = bytes /\ reader'.payload = <<>> /\ reader'.msg = AsMessage(h)
        /\ reader'.at = IF h.len > 0 THEN "payload" ELSE "handle"
    BY <1>5, <2>1 DEF WireInv, WireType
  <2>3. WireType'
    BY <1>1, <1>13, <1>16, <2>1 DEF WireInv, WireType
  <2>4. h.len = frames[f].payload.len /\ frames[f].payload.len \in Nat
    <3>1. AsMessage(h).len = frames[f].payload.len
      BY <1>4, <1>11, <1>20, <1>22, HeaderRight
    <3> QED  BY <1>11, <3>1 DEF AsMessage, Sent
  <2>5. HeaderOf(f)' = HeaderOf(f)
    BY <1>1 DEF HeaderOf
  <2>6. Position(begin)'
    <3>1. f = Len(handled') + 1
      BY <1>7, <2>1
    <3>2. Len(handled') <= Len(frames')
      BY <1>1, <1>4, <1>7, <1>10, <2>1, SequenceProperties
    <3>3. Len(bytes) = HeaderLength'
      BY <1>17, <1>20, <1>22
    <3>4. nread' = begin[f] + Len(reader'.header) + Len(reader'.payload)
      <4>1. Len(reader'.header) = Len(bytes) /\ Len(reader'.payload) = 0
        BY <1>5, <2>2
      <4>2. read + Len(bytes) = read + Len(bytes) + 0
        BY <1>13
      <4> QED  BY <1>15, <1>16, <4>1, <4>2
    <3>5. \A i \in DOMAIN reader'.payload : reader'.payload[i] = <<f, HeaderLength' + i>>
      BY <2>2
    <3>6. /\ reader'.at = "payload" => Len(reader'.payload) < frames'[f].payload.len
          /\ reader'.at = "handle" => Len(reader'.payload) = frames'[f].payload.len
          /\ reader'.at # "header"
      <4>1. Len(reader'.payload) = 0
        BY <1>5, <2>2
      <4> QED  BY <1>1, <2>2, <2>4, <4>1
    <3>7. /\ HeaderOf(f)' # Failed /\ reader'.msg = AsMessage(HeaderOf(f)')
          /\ f \in DOMAIN frames'
      BY <1>1, <1>10, <1>20, <1>22, <2>2, <2>5
    <3>8. \A i \in DOMAIN handled' : handled'[i].f = i
      BY <1>18, <2>1
    <3>9. \A i \in DOMAIN reader'.header : reader'.header[i] = <<f, i>>
      BY <1>13, <2>2
    <3> QED  BY <2>2, <3>1, <3>2, <3>3, <3>4, <3>5, <3>6, <3>7, <3>8, <3>9 DEF Position, AsMessage
  <2>7. Framed' /\ HandledKnown'
    BY <1>1, <1>3, <1>17, <2>1, <2>6 DEF Framed, WireInv, HandledKnown
  <2> QED  BY <1>17, <2>1, <2>3, <2>7 DEF WireInv
<1> QED  BY <1>19, <1>21, <1>22

LEMMA ReadPayloadTCPKeeps ==
  ASSUME WireInv, ReadPayloadTCP
  PROVE  WireInv'
<1>1. /\ path.proto = "tcp" /\ reader.at = "payload" /\ Available > 0
      /\ UNCHANGED <<path, keys, frames, stream, handled, held, written>>
  BY DEF ReadPayloadTCP, Readable
<1>2. PICK n, bytes :
        /\ n \in Pieces(reader.msg.len - Len(reader.payload))
        /\ bytes = reader.payload \o Piece(n)
        /\ nread' = nread + n
        /\ reader' = [reader EXCEPT !.payload = bytes,
                        !.at = IF Len(bytes) < reader.msg.len THEN "payload" ELSE "handle"]
  BY DEF ReadPayloadTCP
<1>3. PICK begin \in [1 .. Len(frames) + 1 -> Nat] : Framing(begin) /\ Position(begin)
  BY <1>1 DEF WireInv, Framed
<1>4. /\ Len(handled) \in Nat /\ IsSequence(frames) /\ Len(frames) \in Nat
      /\ HeaderLength \in Nat \ {0} /\ nread \in Nat /\ path \in Paths
      /\ reader.header \in Seq(Bytes) /\ reader.payload \in Seq(Bytes)
      /\ Len(reader.payload) \in Nat
  BY SequenceProperties, LenProperties, PathType DEF WireInv, WireType
<1>5. PICK f : f = Len(handled) + 1
  OBVIOUS
<1>6. /\ f \in DOMAIN frames /\ Len(reader.header) = HeaderLength
      /\ HeaderOf(f) # Failed /\ reader.msg = AsMessage(HeaderOf(f))
      /\ Len(reader.payload) < frames[f].payload.len
      /\ \A i \in DOMAIN reader.header : reader.header[i] = <<f, i>>
      /\ \A i \in DOMAIN reader.payload : reader.payload[i] = <<f, HeaderLength + i>>
      /\ \A i \in DOMAIN handled : handled[i].f = i
      /\ Len(handled) <= Len(frames)
  BY <1>1, <1>3, <1>5 DEF Position
<1>7. Sent(frames[f])
  BY <1>6 DEF WireInv, FramesSent
<1>8. PICK len \in Nat : len = frames[f].payload.len /\ reader.msg.len = len
  <2>1. frames[f].payload.len \in Nat
    BY <1>7 DEF Sent
  <2>2. reader.msg.len = frames[f].payload.len
    BY <1>4, <1>6, <1>7, HeaderRight
  <2> QED  BY <2>1, <2>2
<1>9. PICK had \in Nat : had = Len(reader.payload) /\ had < len
  BY <1>4, <1>6, <1>8
<1>10. PICK room \in Nat \ {0} : room = len - had /\ had + room = len
  BY <1>9, RoomLeft
<1>11. PICK k \in Nat : k = HeaderLength + had
  <2>1. HeaderLength + had \in Nat
    BY <1>4
  <2> QED  BY <2>1
<1>12. PICK piece : piece = Piece(n)
  OBVIOUS
<1>13. /\ n \in 1 .. room /\ nread + n <= Len(stream)
       /\ nread = begin[f] + k
       /\ piece \in Seq(Bytes) /\ Len(piece) = n
       /\ k + room <= FrameLength(f) =>
            \A j \in 1 .. n : piece[j] = <<f, k + j>>
  <2>1. k = Len(reader.header) + Len(reader.payload)
    BY <1>6, <1>9, <1>11
  <2>2. n \in Pieces(room)
    BY <1>2, <1>8, <1>9, <1>10
  <2> QED  BY <1>1, <1>3, <1>5, <1>12, <2>1, <2>2, PieceRight
<1>14. k + room <= FrameLength(f)
  <2>1. FrameLength(f) = HeaderLength + len
    BY <1>8 DEF FrameLength
  <2>2. HeaderLength + had + room = HeaderLength + (had + room)
    BY <1>4, Arithmetic
  <2>3. k + room = FrameLength(f)
    BY <1>10, <1>11, <2>1, <2>2
  <2>4. HeaderLength + len \in Nat
    BY <1>4
  <2> QED  BY <2>1, <2>3, <2>4
<1>15. /\ bytes \in Seq(Bytes) /\ Len(bytes) = had + n /\ Len(bytes) \in Nat
       /\ Len(bytes) <= len
       /\ \A i \in DOMAIN bytes : bytes[i] = <<f, HeaderLength + i>>
  <2>1. PICK s \in Seq(Bytes), o \in Nat : s = reader.payload /\ o = HeaderLength
    BY <1>4
  <2>2. \A i \in DOMAIN s : s[i] = <<f, o + i>>
    BY <1>6, <2>1
  <2>3. ASSUME NEW j \in 1 .. Len(piece) PROVE piece[j] = <<f, o + (Len(s) + j)>>
    <3>1. piece[j] = <<f, k + j>> /\ j \in Nat
      BY <1>13, <1>14
    <3>2. o + (had + j) = o + had + j
      BY <3>1, Arithmetic
    <3> QED  BY <1>9, <1>11, <2>1, <3>1, <3>2
  <2>4. piece \in Seq(Bytes)
    BY <1>13
  <2>5. /\ s \o piece \in Seq(Bytes) /\ Len(s \o piece) = Len(s) + Len(piece)
        /\ \A i \in DOMAIN (s \o piece) : (s \o piece)[i] = <<f, o + i>>
    BY <2>2, <2>3, <2>4, JoinedRight
  <2>6. bytes = s \o piece /\ Len(s) + Len(piece) = had + n
    BY <1>2, <1>9, <1>12, <1>13, <2>1
  <2>7. had + n \in Nat /\ had + n <= len
    BY <1>10, <1>13, WithinRoom
  <2> QED  BY <2>1, <2>5, <2>6, <2>7
<1>16. PICK read \in Nat : read = begin[f]
  BY <1>3, <1>4, <1>6, SequenceProperties
<1>17. nread' = read + HeaderLength + Len(bytes) /\ nread' \in Nat /\ nread' >= nread
  <2>1. nread' = read + k + n /\ nread = read + k /\ n \in Nat
    BY <1>2, <1>13, <1>16
  <2>2. k + n = HeaderLength + Len(bytes)
    BY <1>4, <1>11, <1>15, <2>1, Arithmetic
  <2>3. read + k + n = read + (k + n)
    BY <2>1, Arithmetic
  <2>4. read + (HeaderLength + Len(bytes)) = read + HeaderLength + Len(bytes)
    BY <1>4, <1>15, Arithmetic
  <2> QED  BY <1>4, <2>1, <2>2, <2>3, <2>4
<1>18. HeldRight' /\ WrittenRight' /\ FramesSent' /\ Framing(begin)' /\ HeaderLength' = HeaderLength
  BY <1>1, <1>3, <1>17, HeldStays, FramesStay DEF WireInv, HeaderLength
<1>19. WireType'
  BY <1>1, <1>2, <1>15, <1>17 DEF WireInv, WireType
<1>20. /\ reader'.header = reader.header /\ reader'.payload = bytes /\ reader'.msg = reader.msg
       /\ reader'.at = IF Len(bytes) < len THEN "payload" ELSE "handle"
  BY <1>2, <1>8 DEF WireInv, WireType
<1>21. Position(begin)'
  <2>1. f = Len(handled') + 1 /\ Len(handled') <= Len(frames')
    BY <1>1, <1>5, <1>6
  <2>2. /\ \A i \in DOMAIN handled' : handled'[i].f = i
        /\ \A i \in DOMAIN reader'.header : reader'.header[i] = <<f, i>>
        /\ \A i \in DOMAIN reader'.payload : reader'.payload[i] = <<f, HeaderLength' + i>>
    BY <1>1, <1>6, <1>15, <1>18, <1>20
  <2>3. nread' = begin[f] + Len(reader'.header) + Len(reader'.payload)
    BY <1>6, <1>16, <1>17, <1>20
  <2>4. HeaderOf(f)' = HeaderOf(f) /\ frames'[f] = frames[f]
    BY <1>1 DEF HeaderOf
  <2>5. /\ f \in DOMAIN frames' /\ Len(reader'.header) = HeaderLength'
        /\ HeaderOf(f)' # Failed /\ reader'.msg = AsMessage(HeaderOf(f)')
    BY <1>1, <1>6, <1>18, <1>20, <2>4
  <2>6. /\ reader'.at = "payload" => Len(reader'.payload) < frames'[f].payload.len
        /\ reader'.at = "handle" => Len(reader'.payload) = frames'[f].payload.len
        /\ reader'.at # "header"
    BY <1>8, <1>15, <1>20, <2>4
  <2> QED  BY <2>1, <2>2, <2>3, <2>5, <2>6 DEF Position, AsMessage
<1>22. Framed' /\ HandledKnown'
  BY <1>1, <1>3, <1>18, <1>21 DEF Framed, WireInv, HandledKnown
<1> QED  BY <1>18, <1>19, <1>22 DEF WireInv

\* What Kept adds of frame n.
KeptOf(p, n) ==
  /\ p.of = n
  /\ \/ p.packet = frames[n].msg.payload.fields[1]
     \/ path.method = "ecb" /\ WrongKey(frames[n].msg, FALSE)
  /\ p.alias =>
       /\ Over("udp", "server") /\ path.method = "none"
       /\ frames[n].payload.data.cmp = "none" /\ frames[n].payload.data.plain = p.packet

LEMMA KeptGrows ==
  ASSUME WireInv, NEW n \in DOMAIN frames, HeaderOf(n) # Failed,
         NEW o \in Received(AsMessage(HeaderOf(n)), frames[n].payload)
  PROVE  /\ IsSequence(Kept(n, o))
         /\ \A i \in DOMAIN Kept(n, o) :
              \/ \E j \in DOMAIN held : Kept(n, o)[i] = held[j]
              \/ KeptOf(Kept(n, o)[i], n)
<1>1. IsSequence(held) /\ path \in Paths /\ Sent(frames[n])
  BY DEF WireInv, WireType, FramesSent
<1>2. CASE ~(o.what = "taken" /\ IsUserData(o.msg))
  <2>1. Kept(n, o) = held
    BY <1>2 DEF Kept
  <2> QED  BY <1>1, <2>1
<1>3. CASE o.what = "taken" /\ IsUserData(o.msg)
  <2>1. PICK p : p = [of |-> n, packet |-> o.msg.payload.fields[1], alias |-> Aliases(o.msg)]
    OBVIOUS
  <2>2. p.of = n /\ p.packet = o.msg.payload.fields[1] /\ (p.alias <=> Aliases(o.msg))
    BY <2>1
  <2>3. Kept(n, o) = Append(held, p)
    BY <1>3, <2>1 DEF Kept
  <2>4. /\ \/ o.msg.payload.fields[1] = frames[n].msg.payload.fields[1]
           \/ path.method = "ecb" /\ WrongKey(frames[n].msg, FALSE)
        /\ Aliases(o.msg) =>
             /\ path.method = "none" /\ frames[n].payload.data.cmp = "none"
             /\ frames[n].payload.data.plain = frames[n].msg.payload.fields[1]
    BY <1>1, <1>3, KeptRight
  <2>5. Aliases(o.msg) => Over("udp", "server")
    BY DEF Aliases
  <2>6. KeptOf(p, n)
    BY <2>2, <2>4, <2>5 DEF KeptOf
  <2>7. /\ IsSequence(Append(held, p)) /\ DOMAIN Append(held, p) = 1 .. Len(held) + 1
        /\ \A i \in 1 .. Len(held) : Append(held, p)[i] = held[i]
        /\ Append(held, p)[Len(held) + 1] = p
        /\ Len(held) \in Nat /\ DOMAIN held = 1 .. Len(held)
    BY <1>1, AppendToSequence, SequenceProperties
  <2>8. \A i \in 1 .. Len(held) + 1 : i \in 1 .. Len(held) \/ i = Len(held) + 1
    BY <2>7
  <2> QED  BY <2>3, <2>6, <2>7, <2>8
<1> QED  BY <1>2, <1>3

LEMMA HandledGrows ==
  ASSUME WireInv, NEW e, e.f \in DOMAIN frames, frames' = frames,
         handled' = Append(handled, e)
  PROVE  /\ IsSequence(handled') /\ HandledKnown'
         /\ Len(handled) \in Nat /\ Len(handled') = Len(handled) + 1
         /\ DOMAIN handled' = 1 .. Len(handled) + 1
         /\ \A i \in DOMAIN handled : i \in DOMAIN handled' /\ handled'[i] = handled[i]
         /\ handled'[Len(handled) + 1] = e
         /\ \A i \in DOMAIN handled' : i \in DOMAIN handled \/ i = Len(handled) + 1
<1>1. /\ IsSequence(handled) /\ Len(handled) \in Nat /\ DOMAIN handled = 1 .. Len(handled)
      /\ \A i \in DOMAIN handled : handled[i].f \in DOMAIN frames
  BY SequenceProperties DEF WireInv, WireType, HandledKnown
<1>2. /\ IsSequence(handled') /\ Len(handled') = Len(handled) + 1
      /\ DOMAIN handled' = 1 .. Len(handled) + 1
      /\ \A i \in 1 .. Len(handled) : handled'[i] = handled[i]
      /\ handled'[Len(handled) + 1] = e
  BY <1>1, AppendToSequence
<1>3. /\ \A i \in 1 .. Len(handled) : i \in 1 .. Len(handled) + 1
      /\ \A i \in 1 .. Len(handled) + 1 : i \in 1 .. Len(handled) \/ i = Len(handled) + 1
  BY <1>1
<1>4. HandledKnown'
  BY <1>1, <1>2, <1>3 DEF HandledKnown
<1> QED  BY <1>1, <1>2, <1>3, <1>4

LEMMA HandleTCPKeeps ==
  ASSUME WireInv, HandleTCP
  PROVE  /\ WireInv'
         /\ \E f \in DOMAIN frames :
              /\ HeaderOf(f) # Failed
              /\ \E o \in IF reader.sync THEN Replied(AsMessage(HeaderOf(f)), frames[f].payload)
                          ELSE Received(AsMessage(HeaderOf(f)), frames[f].payload) :
                   handled' = Append(handled, [f |-> f, what |-> o.what, msg |-> o.msg,
                                               sync |-> reader.sync])
<1>1. /\ path.proto = "tcp" /\ reader.at = "handle"
      /\ UNCHANGED <<path, keys, frames, stream, nread, written>>
  BY DEF HandleTCP
<1>2. PICK begin \in [1 .. Len(frames) + 1 -> Nat] : Framing(begin) /\ Position(begin)
  BY <1>1 DEF WireInv, Framed
<1>3. /\ Len(handled) \in Nat /\ IsSequence(frames) /\ Len(frames) \in Nat
      /\ DOMAIN frames = 1 .. Len(frames)
      /\ HeaderLength \in Nat \ {0} /\ nread \in Nat /\ path \in Paths
      /\ reader.header \in Seq(Bytes) /\ reader.payload \in Seq(Bytes)
      /\ DOMAIN reader.header = 1 .. Len(reader.header)
  BY SequenceProperties, LenProperties, PathType DEF WireInv, WireType
<1>4. PICK f : f = Len(handled) + 1
  OBVIOUS
<1>5. /\ f \in DOMAIN frames /\ Len(reader.header) = HeaderLength
      /\ HeaderOf(f) # Failed /\ reader.msg = AsMessage(HeaderOf(f))
      /\ Len(reader.payload) = frames[f].payload.len
      /\ \A i \in DOMAIN reader.header : reader.header[i] = <<f, i>>
      /\ \A i \in DOMAIN reader.payload : reader.payload[i] = <<f, HeaderLength + i>>
      /\ \A i \in DOMAIN handled : handled[i].f = i
      /\ nread = begin[f] + Len(reader.header) + Len(reader.payload)
  BY <1>1, <1>2, <1>4 DEF Position
<1>6. reader.header[1][1] = f
  <2>1. 1 \in DOMAIN reader.header
    BY <1>3, <1>5
  <2>2. reader.header[1] = <<f, 1>>
    BY <1>5, <2>1
  <2> QED  BY <2>2
<1>7. Sent(frames[f])
  BY <1>5 DEF WireInv, FramesSent
<1>8. PayloadRead(f) = frames[f].payload
  <2>1. PICK len \in Nat : len = frames[f].payload.len
    BY <1>7 DEF Sent
  <2>2. PICK o \in Nat : o = HeaderLength
    BY <1>3
  <2>3. Whole(reader.payload, f, o + 1, o + len)
    BY <1>3, <1>5, <2>1, <2>2, WholeRight
  <2> QED  BY <2>1, <2>2, <2>3 DEF PayloadRead
<1>8a. PICK g : g = reader.header[1][1]
  OBVIOUS
<1>8b. PICK o \in IF reader.sync THEN Replied(reader.msg, PayloadRead(g))
                  ELSE Received(reader.msg, PayloadRead(g)), accepted \in BOOLEAN :
         /\ reader' = IF ~accepted \/ o.what = "noEntry" \/ (reader.sync /\ ~IsReply(o))
                      THEN [Idle(FALSE) EXCEPT !.at = "ended"] ELSE Idle(FALSE)
         /\ handled' = Append(handled, [f |-> g, what |-> o.what, msg |-> o.msg,
                                     sync |-> reader.sync])
         /\ held' = IF accepted /\ ~reader.sync THEN Kept(g, o) ELSE held
  BY <1>8a DEF HandleTCP
<1>8c. g = f /\ PayloadRead(g) = frames[f].payload
  BY <1>6, <1>8, <1>8a
<1>9. /\ o \in IF reader.sync THEN Replied(reader.msg, frames[f].payload)
               ELSE Received(reader.msg, frames[f].payload)
      /\ reader' = IF ~accepted \/ o.what = "noEntry" \/ (reader.sync /\ ~IsReply(o))
                   THEN [Idle(FALSE) EXCEPT !.at = "ended"] ELSE Idle(FALSE)
      /\ handled' = Append(handled, [f |-> f, what |-> o.what, msg |-> o.msg,
                                  sync |-> reader.sync])
      /\ held' = IF accepted /\ ~reader.sync THEN Kept(f, o) ELSE held
  BY <1>8b, <1>8c
<1>10. /\ reader' = [at |-> reader'.at, sync |-> reader'.sync, header |-> <<>>, payload |-> <<>>,
                     msg |-> NoHeader, buf |-> <<>>]
       /\ reader'.sync = FALSE /\ reader'.at \in {"header", "ended"}
  BY <1>9 DEF Idle
<1>11. /\ reader'.header = <<>> /\ reader'.payload = <<>> /\ reader'.buf = <<>>
       /\ reader'.at \notin {"payload", "handle"}
  BY <1>10
<1>12. PICK e : handled' = Append(handled, e) /\ e.f = f
  <2>1. PICK e : e = [f |-> f, what |-> o.what, msg |-> o.msg, sync |-> reader.sync]
    OBVIOUS
  <2>2. e.f = f
    BY <2>1
  <2> QED  BY <1>9, <2>1, <2>2
<1>13. /\ IsSequence(handled') /\ HandledKnown' /\ Len(handled') = f
       /\ \A i \in DOMAIN handled : handled'[i] = handled[i]
       /\ handled'[f] = e
       /\ \A i \in DOMAIN handled' : i \in DOMAIN handled \/ i = f
  BY <1>1, <1>4, <1>5, <1>12, HandledGrows
<1>14. /\ IsSequence(held')
       /\ \A i \in DOMAIN held' : (\E j \in DOMAIN held : held'[i] = held[j]) \/ KeptOf(held'[i], f)
  <2>1. CASE accepted /\ ~reader.sync
    <3>1. o \in Received(AsMessage(HeaderOf(f)), frames[f].payload) /\ held' = Kept(f, o)
      BY <1>5, <1>9, <2>1
    <3> QED  BY <1>5, <3>1, KeptGrows
  <2>2. CASE ~(accepted /\ ~reader.sync)
    BY <1>9, <2>2 DEF WireInv, WireType
  <2> QED  BY <2>1, <2>2
<1>15. FramesSent' /\ Framing(begin)' /\ HeaderLength' = HeaderLength
  BY <1>1, <1>2, FramesStay DEF WireInv, HeaderLength
<1>16. WireType'
  BY <1>1, <1>10, <1>11, <1>13, <1>14, EmptySeq DEF WireInv, WireType
<1>17. HeldRight'
  <2>1. ASSUME NEW i \in DOMAIN held' PROVE HeldWhole(held[i])'
    <3>1. PICK p : p = held'[i]
      OBVIOUS
    <3>2. CASE \E j \in DOMAIN held : p = held[j]
      <4>1. HeldWhole(p) /\ ~p.alias
        BY <1>1, <3>2 DEF WireInv, HeldRight, HeldWhole
      <4> QED  BY <1>1, <3>1, <4>1 DEF HeldWhole, WrongKey, SenderKey
    <3>3. CASE KeptOf(p, f)
      <4>1. ~p.alias
        BY <1>1, <3>3 DEF KeptOf, Over
      <4> QED  BY <1>1, <1>5, <3>1, <3>3, <4>1 DEF HeldWhole, KeptOf, WrongKey, SenderKey
    <3> QED  BY <1>14, <3>1, <3>2, <3>3
  <2> QED  BY <2>1 DEF HeldRight
<1>18. WrittenRight'
  BY <1>1 DEF WireInv, WrittenRight, WrittenWhole, WrongKey, SenderKey
<1>19. Position(begin)'
  <2>1. PICK next : next = Len(handled') + 1
    OBVIOUS
  <2>2. \A i \in DOMAIN handled' : handled'[i].f = i
    BY <1>5, <1>12, <1>13
  <2>3. Len(handled') <= Len(frames')
    BY <1>1, <1>3, <1>5, <1>13
  <2>4. nread' = begin[next] + Len(reader'.header) + Len(reader'.payload)
    <3>1. begin[f + 1] = begin[f] + FrameLength(f)
      BY <1>2, <1>5 DEF Framing
    <3>2. PICK a \in Nat, len \in Nat : a = begin[f] /\ len = frames[f].payload.len
      BY <1>2, <1>3, <1>5, <1>7 DEF Sent
    <3>3. nread = a + HeaderLength + len /\ begin[f + 1] = a + (HeaderLength + len)
      BY <1>5, <3>1, <3>2 DEF FrameLength
    <3>4. nread = begin[f + 1]
      BY <1>3, <3>3, Arithmetic
    <3>5. next = f + 1 /\ Len(reader'.header) = 0 /\ Len(reader'.payload) = 0
      BY <1>11, <1>13, <2>1, EmptySeq
    <3>6. nread' = nread /\ nread = nread + 0 + 0
      BY <1>1, <1>3
    <3> QED  BY <3>4, <3>5, <3>6
  <2>5. reader'.at = "header" => Len(reader'.header) < HeaderLength' /\ reader'.payload = <<>>
    BY <1>3, <1>11, <1>15, EmptySeq
  <2> QED  BY <1>11, <2>1, <2>2, <2>3, <2>4, <2>5 DEF Position
<1>20. Framed'
  BY <1>1, <1>2, <1>15, <1>19 DEF Framed
<1>21. WireInv'
  BY <1>13, <1>15, <1>16, <1>17, <1>18, <1>20 DEF WireInv
<1> QED  BY <1>5, <1>9, <1>21

LEMMA FramedStays ==
  ASSUME WireInv, UNCHANGED <<path, keys, frames, stream, nread, handled>>,
         NEW at \in {reader.at, "ended", "spins"}, reader' = [reader EXCEPT !.at = at]
  PROVE  Framed'
<1> SUFFICES ASSUME path.proto = "tcp" PROVE Framed'
  BY DEF Framed
<1>1. reader' = [at |-> at, sync |-> reader.sync, header |-> reader.header,
                 payload |-> reader.payload, msg |-> reader.msg, buf |-> reader.buf]
  BY DEF WireInv, WireType
<1>2. PICK begin \in [1 .. Len(frames) + 1 -> Nat] : Framing(begin) /\ Position(begin)
  BY DEF WireInv, Framed
<1>3. Framing(begin)' /\ HeaderLength' = HeaderLength
  BY <1>2, FramesStay DEF WireInv, HeaderLength
<1>4. Position(begin)'
  <2>1. PICK f : f = Len(handled) + 1
    OBVIOUS
  <2>2. HeaderOf(f)' = HeaderOf(f)
    BY DEF HeaderOf
  <2> QED  BY <1>1, <1>2, <1>3, <2>1, <2>2 DEF Position, AsMessage
<1> QED  BY <1>2, <1>3, <1>4 DEF Framed

\* Nothing of what is known depends on who closed the socket.
LEMMA LinkKeeps ==
  ASSUME WireInv, UNCHANGED <<path, keys, frames, stream, nread, handled, held, written>>,
         reader' = reader \/ \E at \in {"ended", "spins"} : reader' = [reader EXCEPT !.at = at]
  PROVE  WireInv'
<1>1. PICK at \in {reader.at, "ended", "spins"} : reader' = [reader EXCEPT !.at = at]
  BY DEF WireInv, WireType
<1>2. reader' = [at |-> at, sync |-> reader.sync, header |-> reader.header,
                 payload |-> reader.payload, msg |-> reader.msg, buf |-> reader.buf]
  BY <1>1 DEF WireInv, WireType
<1>3. WireType'
  BY <1>2 DEF WireInv, WireType
<1>4. FramesSent' /\ HandledKnown' /\ Framed'
  BY <1>1, FramesStay, FramedStays DEF WireInv, HandledKnown
<1>5. HeldRight' /\ WrittenRight'
  BY <1>2 DEF WireInv, HeldRight, WrittenRight, HeldWhole, WrittenWhole, WrongKey, SenderKey
<1> QED  BY <1>3, <1>4, <1>5 DEF WireInv

-----------------------------------------------------------------------------
(* Datagrams *)

\* A frame was read, and what was kept of it is in the buffer when it is in a buffer.
LEMMA DatagramKeeps ==
  ASSUME WireInv, path.proto = "udp", UNCHANGED <<path, keys, frames, stream, written>>,
         nread' = nread + 1, NEW f \in DOMAIN frames, NEW e, e.f = f,
         handled' = Append(handled, e),
         reader' = [at |-> reader'.at, sync |-> reader'.sync, header |-> reader'.header,
                    payload |-> reader'.payload, msg |-> reader'.msg, buf |-> reader'.buf],
         reader'.sync \in BOOLEAN, reader'.sync => path.to = "client", reader'.buf \in Seq(Byte),
         reader'.header \in Seq(Bytes), reader'.payload \in Seq(Bytes),
         \/ held' = held
         \/ /\ HeaderOf(f) # Failed
            /\ \E o \in Received(AsMessage(HeaderOf(f)), frames[f].payload) : held' = Kept(f, o),
         \A p : KeptOf(p, f) /\ p.alias => SubSeq(reader'.buf, 1, Len(p.packet)) = p.packet
  PROVE  WireInv'
<1>1. nread \in Nat /\ nread' \in Nat /\ nread' > 0 /\ (nread > 0 => nread' > 1)
  BY DEF WireInv, WireType
<1>2. IsSequence(handled') /\ HandledKnown'
  BY HandledGrows
<1>3. /\ IsSequence(held')
      /\ \A i \in DOMAIN held' : (\E j \in DOMAIN held : held'[i] = held[j]) \/ KeptOf(held'[i], f)
  <2>1. CASE held' = held
    BY <2>1 DEF WireInv, WireType
  <2>2. CASE HeaderOf(f) # Failed
             /\ \E o \in Received(AsMessage(HeaderOf(f)), frames[f].payload) : held' = Kept(f, o)
    BY <2>2, KeptGrows
  <2> QED  BY <2>1, <2>2
<1>4. WireType'
  BY <1>1, <1>2, <1>3 DEF WireInv, WireType
<1>5. FramesSent'
  BY FramesStay DEF WireInv
<1>6. Framed'
  BY DEF Framed
<1>7. HeldRight'
  <2>1. ASSUME NEW i \in DOMAIN held' PROVE HeldWhole(held[i])'
    <3>1. PICK p : p = held'[i]
      OBVIOUS
    <3>2. CASE \E j \in DOMAIN held : p = held[j]
      <4>1. HeldWhole(p)
        BY <3>2 DEF WireInv, HeldRight
      <4>2. p.alias => nread' > 1
        BY <1>1, <4>1 DEF HeldWhole
      <4> QED  BY <1>1, <3>1, <4>1, <4>2 DEF HeldWhole, WrongKey, SenderKey
    <3>3. CASE KeptOf(p, f)
      <4>1. p.alias => SubSeq(reader'.buf, 1, Len(p.packet)) = p.packet
        BY <3>3
      <4> QED  BY <1>1, <3>1, <3>3, <4>1 DEF HeldWhole, KeptOf, WrongKey, SenderKey
    <3> QED  BY <1>3, <3>1, <3>2, <3>3
  <2> QED  BY <2>1 DEF HeldRight
<1>8. WrittenRight'
  <2>1. nread > 1 => nread' > 1
    BY <1>1
  <2> QED  BY <2>1 DEF WireInv, WrittenRight, WrittenWhole, WrongKey, SenderKey
<1> QED  BY <1>2, <1>4, <1>5, <1>6, <1>7, <1>8 DEF WireInv

LEMMA ReceiveUDPClientKeeps ==
  ASSUME WireInv, NEW f \in DOMAIN frames, ReceiveUDPClient(f)
  PROVE  WireInv'
<1>1. /\ path.proto = "udp" /\ path.to = "client" /\ nread' = nread + 1
      /\ UNCHANGED <<path, keys, frames, stream, written>>
  BY DEF ReceiveUDPClient
<1>2. ASSUME NEW p, KeptOf(p, f) PROVE ~p.alias
  BY <1>1, <1>2 DEF KeptOf, Over
<1>3. CASE HeaderOf(f) = Failed
  <2>1. /\ reader' = Refused /\ held' = held
        /\ handled' = Append(handled, [f |-> f, what |-> "refused"])
    BY <1>3 DEF ReceiveUDPClient
  <2>2. PICK e : e = [f |-> f, what |-> "refused"]
    OBVIOUS
  <2>3. e.f = f
    BY <2>2
  <2>4. /\ reader' = [at |-> reader'.at, sync |-> reader'.sync, header |-> reader'.header,
                      payload |-> reader'.payload, msg |-> reader'.msg, buf |-> reader'.buf]
        /\ reader'.sync = FALSE /\ reader'.buf = <<>>
        /\ reader'.header = <<>> /\ reader'.payload = <<>>
    BY <2>1 DEF Refused, Idle
  <2> QED  BY <1>1, <1>2, <2>1, <2>2, <2>3, <2>4, EmptySeq, DatagramKeeps
<1>4. CASE HeaderOf(f) # Failed
  <2>1. PICK o \in IF reader.sync THEN Replied(AsMessage(HeaderOf(f)), frames[f].payload)
                   ELSE Received(AsMessage(HeaderOf(f)), frames[f].payload),
            accepted \in BOOLEAN :
          /\ reader' = IF \/ ~accepted /\ EndsOnError(o.msg)
                          \/ o.what = "noEntry"
                          \/ reader.sync /\ ~IsReply(o)
                       THEN [Idle(FALSE) EXCEPT !.at = "ended"] ELSE Idle(FALSE)
          /\ handled' = Append(handled, [f |-> f, what |-> o.what, msg |-> o.msg,
                                      sync |-> reader.sync])
          /\ held' = IF accepted /\ ~reader.sync THEN Kept(f, o) ELSE held
    BY <1>4 DEF ReceiveUDPClient
  <2>2. PICK e : e = [f |-> f, what |-> o.what, msg |-> o.msg, sync |-> reader.sync]
    OBVIOUS
  <2>3. e.f = f
    BY <2>2
  <2>4. /\ reader' = [at |-> reader'.at, sync |-> reader'.sync, header |-> reader'.header,
                      payload |-> reader'.payload, msg |-> reader'.msg, buf |-> reader'.buf]
        /\ reader'.sync = FALSE /\ reader'.buf = <<>>
        /\ reader'.header = <<>> /\ reader'.payload = <<>>
    BY <2>1 DEF Idle
  <2>5. \/ held' = held
        \/ \E x \in Received(AsMessage(HeaderOf(f)), frames[f].payload) : held' = Kept(f, x)
    BY <2>1
  <2> QED  BY <1>1, <1>2, <1>4, <2>1, <2>2, <2>3, <2>4, <2>5, EmptySeq, DatagramKeeps
<1> QED  BY <1>3, <1>4

LEMMA FirstOfJoined ==
  ASSUME NEW S, NEW s \in Seq(S), NEW t \in Seq(S)
  PROVE  SubSeq(s \o t, 1, Len(s)) = s
<1>1. PICK a \in Nat, b \in Nat : a = Len(s) /\ b = Len(t)
  BY LenProperties
<1>2. PICK c \in Seq(S) : c = s \o t
  BY ConcatProperties
<1>3. Len(c) = a + b /\ \A i \in 1 .. a : c[i] = s[i]
  <2>1. Len(c) = a + b /\ \A i \in 1 .. a + b : c[i] = IF i <= a THEN s[i] ELSE t[i - a]
    BY <1>1, <1>2, ConcatProperties
  <2>2. \A i \in 1 .. a : i \in 1 .. a + b /\ i <= a
    OBVIOUS
  <2> QED  BY <2>1, <2>2
<1>4. s \in [1 .. a -> S] /\ DOMAIN s = 1 .. a
  BY <1>1, LenProperties
<1>5. \A i \in 1 .. a : c[i] \in S
  BY <1>3, <1>4
<1>6. PICK u : u = SubSeq(c, 1, a)
  OBVIOUS
<1>7. /\ u \in Seq(S) /\ Len(u) = IF 1 <= a THEN a - 1 + 1 ELSE 0
      /\ \A i \in 1 .. a - 1 + 1 : u[i] = c[1 + i - 1]
  BY <1>5, <1>6, SubSeqProperties
<1>8. Len(u) = a /\ a - 1 + 1 = a /\ \A i \in 1 .. a : 1 + i - 1 = i
  BY <1>7
<1>9. u \in [1 .. a -> S] /\ \A i \in 1 .. a : u[i] = s[i]
  BY <1>3, <1>7, <1>8, LenProperties
<1>10. u = s
  BY <1>4, <1>9
<1> QED  BY <1>1, <1>2, <1>6, <1>10

LEMMA OverwrittenRight ==
  ASSUME WireInv, NEW f \in DOMAIN frames
  PROVE  /\ Overwritten(f) \in Seq(Byte)
         /\ \A p : KeptOf(p, f) /\ p.alias => SubSeq(Overwritten(f), 1, Len(p.packet)) = p.packet
<1>1. Sent(frames[f]) /\ reader.buf \in Seq(Byte)
  BY DEF WireInv, WireType, FramesSent
<1>2. CASE path.method # "none"
  BY <1>2, EmptySeq DEF Overwritten, KeptOf
<1>3. CASE path.method = "none"
  <2>1. PICK data : data = frames[f].payload.data
    OBVIOUS
  <2>2. PICK bytes : bytes = IF data.cmp = "none" THEN data.plain ELSE [i \in 1 .. data.len |-> 0]
    OBVIOUS
  <2>3. PICK rest : rest = SubSeq(reader.buf, Len(bytes) + 1, Len(reader.buf))
    OBVIOUS
  <2>4. Overwritten(f) = bytes \o rest
    BY <1>3, <2>1, <2>2, <2>3 DEF Overwritten
  <2>5. bytes \in Seq(Byte)
    <3>1. data.plain \in Seq(Byte) /\ data.len \in Nat
      BY <1>1, <2>1 DEF Sent
    <3>2. 0 \in Byte
      BY CodecAssumption DEF Byte
    <3>3. [i \in 1 .. data.len |-> 0] \in Seq(Byte)
      BY <3>1, <3>2
    <3> QED  BY <2>2, <3>1, <3>3
  <2>6. rest \in Seq(Byte)
    <3>1. PICK lo \in Int, hi \in Int : lo = Len(bytes) + 1 /\ hi = Len(reader.buf) /\ lo >= 1
      BY <1>1, <2>5, LenProperties
    <3>2. \A i \in lo .. hi : reader.buf[i] \in Byte
      BY <1>1, <3>1, ElementOfSeq
    <3> QED  BY <2>3, <3>1, <3>2, SubSeqProperties
  <2>7. Overwritten(f) \in Seq(Byte)
    BY <2>4, <2>5, <2>6, ConcatProperties
  <2>8. ASSUME NEW p, KeptOf(p, f), p.alias
        PROVE  SubSeq(Overwritten(f), 1, Len(p.packet)) = p.packet
    <3>1. bytes = p.packet
      BY <2>1, <2>2, <2>8 DEF KeptOf
    <3> QED  BY <2>4, <2>5, <2>6, <3>1, FirstOfJoined
  <2> QED  BY <2>7, <2>8
<1> QED  BY <1>2, <1>3

LEMMA ReceiveUDPServerKeeps ==
  ASSUME WireInv, NEW f \in DOMAIN frames, ReceiveUDPServer(f)
  PROVE  WireInv'
<1>1. /\ path.proto = "udp" /\ nread' = nread + 1
      /\ UNCHANGED <<path, keys, frames, stream, written>>
  BY DEF ReceiveUDPServer
<1>2. PICK buf \in Seq(Byte) :
        /\ buf = Overwritten(f)
        /\ \A p : KeptOf(p, f) /\ p.alias => SubSeq(buf, 1, Len(p.packet)) = p.packet
  BY OverwrittenRight
<1>3. PICK at : reader' = [reader EXCEPT !.buf = buf, !.at = at]
  <2>2. CASE HeaderOf(f) = Failed
    <3>1. reader' = [reader EXCEPT !.buf = buf]
      BY <1>2, <2>2 DEF ReceiveUDPServer
    <3> QED  BY <3>1 DEF WireInv, WireType
  <2>3. CASE HeaderOf(f) # Failed
    BY <1>2, <2>3 DEF ReceiveUDPServer
  <2> QED  BY <2>2, <2>3
<1>4. /\ reader' = [at |-> reader'.at, sync |-> reader'.sync, header |-> reader'.header,
                    payload |-> reader'.payload, msg |-> reader'.msg, buf |-> reader'.buf]
      /\ reader'.sync \in BOOLEAN /\ (reader'.sync => path.to = "client") /\ reader'.buf = buf
      /\ reader'.header \in Seq(Bytes) /\ reader'.payload \in Seq(Bytes)
  BY <1>3 DEF WireInv, WireType
<1>5. PICK e : handled' = Append(handled, e) /\ e.f = f
  <2>1. CASE HeaderOf(f) = Failed
    <3>1. PICK e : e = [f |-> f, what |-> "refused"]
      OBVIOUS
    <3>2. handled' = Append(handled, e) /\ e.f = f
      BY <2>1, <3>1 DEF ReceiveUDPServer
    <3> QED  BY <3>2
  <2>2. CASE HeaderOf(f) # Failed
    <3>1. PICK o : handled' = Append(handled, [f |-> f, what |-> o.what, msg |-> o.msg,
                                               sync |-> reader.sync])
      BY <2>2 DEF ReceiveUDPServer
    <3>2. PICK e : e = [f |-> f, what |-> o.what, msg |-> o.msg, sync |-> reader.sync]
      OBVIOUS
    <3>3. handled' = Append(handled, e) /\ e.f = f
      BY <3>1, <3>2
    <3> QED  BY <3>3
  <2> QED  BY <2>1, <2>2
<1>6. \/ held' = held
      \/ /\ HeaderOf(f) # Failed
         /\ \E o \in Received(AsMessage(HeaderOf(f)), frames[f].payload) : held' = Kept(f, o)
  BY DEF ReceiveUDPServer
<1> QED  BY <1>1, <1>2, <1>4, <1>5, <1>6, DatagramKeeps

LEMMA WriteInterfaceKeeps ==
  ASSUME WireInv, NEW i \in DOMAIN held, WriteInterface(i)
  PROVE  WireInv'
<1>1. /\ UNCHANGED <<path, keys, frames, stream, link, nread, reader, handled>>
      /\ held' = RemoveAt(held, i)
  BY DEF WriteInterface
<1>2. PICK p : p = held[i]
  OBVIOUS
<1>3. PICK w : w = [of |-> p.of, alias |-> p.alias, packet |-> Now(p)]
  OBVIOUS
<1>4. w.of = p.of /\ w.alias = p.alias /\ w.packet = Now(p)
  BY <1>3
<1>5. written' = Append(written, w)
  BY <1>2, <1>3 DEF WriteInterface
<1>6. /\ IsSequence(held') /\ \A k \in DOMAIN held' : \E j \in DOMAIN held : held'[k] = held[j]
      /\ IsSequence(written') /\ DOMAIN written' = 1 .. Len(written) + 1
      /\ \A k \in 1 .. Len(written) : written'[k] = written[k]
      /\ written'[Len(written) + 1] = w
      /\ Len(written) \in Nat /\ DOMAIN written = 1 .. Len(written)
  BY <1>1, <1>5, AppendToSequence, RemoveFromSequence, SequenceProperties DEF WireInv, WireType
<1>7. HeldWhole(p)
  BY <1>2 DEF WireInv, HeldRight
<1>8. WrittenWhole(w)
  <2>1. CASE ~p.alias
    BY <1>4, <1>7, <2>1 DEF HeldWhole, WrittenWhole, Now
  <2>2. CASE p.alias /\ nread = 1
    <3>1. Now(p) = p.packet
      BY <1>7, <2>2 DEF HeldWhole, Now
    <3> QED  BY <1>4, <1>7, <3>1 DEF HeldWhole, WrittenWhole
  <2>3. CASE p.alias /\ nread # 1
    <3>1. nread > 1
      BY <1>7, <2>3 DEF HeldWhole, WireInv, WireType
    <3> QED  BY <1>4, <1>7, <2>3, <3>1 DEF HeldWhole, WrittenWhole
  <2> QED  BY <2>1, <2>2, <2>3
<1>9. WireType'
  BY <1>1, <1>6 DEF WireInv, WireType
<1>10. FramesSent' /\ HandledKnown' /\ Framed'
  <2>1. reader' = [reader EXCEPT !.at = reader.at]
    BY <1>1 DEF WireInv, WireType
  <2> QED  BY <1>1, <2>1, FramesStay, FramedStays DEF WireInv, HandledKnown
<1>11. HeldRight'
  BY <1>1, <1>6 DEF WireInv, HeldRight, HeldWhole, WrongKey, SenderKey
<1>12. WrittenRight'
  <2>1. ASSUME NEW k \in DOMAIN written' PROVE WrittenWhole(written[k])'
    <3>1. k \in 1 .. Len(written) \/ k = Len(written) + 1
      BY <1>6
    <3>2. PICK x : x = written'[k] /\ WrittenWhole(x)
      BY <1>6, <1>8, <3>1 DEF WireInv, WrittenRight
    <3> QED  BY <1>1, <3>2 DEF WrittenWhole, WrongKey, SenderKey
  <2> QED  BY <2>1 DEF WrittenRight
<1> QED  BY <1>9, <1>10, <1>11, <1>12 DEF WireInv

LEMMA ASends ==
  ASSUME \/ \E m \in ToServer :
             \/ ClientSendSyncTCP(m) \/ ClientSendAsyncTCP(m)
             \/ ClientSendSyncUDP(m) \/ ClientSendAsyncUDP(m) \/ ClientSendKeepalive(m)
         \/ \E m \in ToClient : ServerSendTCP(m) \/ ServerSendUDP(m) \/ ServerSendKeepalive(m)
  PROVE  \E m \in Messages, emptyToo \in BOOLEAN : Write(m, emptyToo)
BY DEF Messages, ClientSendSyncTCP, ClientSendAsyncTCP, ClientSendSyncUDP, ClientSendAsyncUDP,
       ClientSendKeepalive, ServerSendTCP, ServerSendUDP, ServerSendKeepalive

LEMMA WireInvStep == WireInv /\ [WireNext]_wireVars => WireInv'
<1> SUFFICES ASSUME WireInv, [WireNext]_wireVars PROVE WireInv'
  OBVIOUS
<1>1. CASE \E m \in Messages, emptyToo \in BOOLEAN : Write(m, emptyToo)
  BY <1>1, WriteKeeps
<1>2. CASE ReadHeaderTCP
  BY <1>2, ReadHeaderTCPKeeps
<1>3. CASE ReadPayloadTCP
  BY <1>3, ReadPayloadTCPKeeps
<1>4. CASE HandleTCP
  BY <1>4, HandleTCPKeeps
<1>5. CASE \E side \in {"peer", "local"} : Close(side)
  BY <1>5, LinkKeeps DEF Close
<1>6. CASE Deadline
  BY <1>6, LinkKeeps DEF Deadline
<1>7. CASE ReadFailsTCP
  BY <1>7, LinkKeeps DEF ReadFailsTCP
<1>8. CASE \E f \in DOMAIN frames : ReceiveUDPClient(f) \/ ReceiveUDPServer(f)
  BY <1>8, ReceiveUDPClientKeeps, ReceiveUDPServerKeeps
<1>9. CASE ReadFailsUDP
  BY <1>9, LinkKeeps DEF ReadFailsUDP
<1>10. CASE \E i \in DOMAIN held : WriteInterface(i)
  BY <1>10, WriteInterfaceKeeps
<1>11. CASE UNCHANGED wireVars
  BY <1>11, LinkKeeps DEF wireVars
<1> QED
  BY <1>1, <1>2, <1>3, <1>4, <1>5, <1>6, <1>7, <1>8, <1>9, <1>10, <1>11, ASends
  DEF WireNext

LEMMA WireInvAlways == WireSpec => []WireInv
BY WireInvInit, WireInvStep, PTL DEF WireSpec

\* However readTCP's reads cut the stream, what it takes for header and payload are those
\* of the message it is at: nothing of the next one, nothing left of the one before.
THEOREM WireFramedRight == WireSpec => []FramedRight
<1>1. WireInv => FramedRight
  BY DEF WireInv, Framed, Position, FramedRight
<1> QED  BY <1>1, WireInvAlways, PTL

\* commandData writes to the tunnel interface the packet the sender read from its own, but
\* for ECB under a wrong key and a buffer that receiverUDP has read into since.
THEOREM WireIntact == WireSpec => []Intact
<1>1. WireInv => Intact
  BY DEF WireInv, WrittenRight, WrittenWhole, Intact
<1> QED  BY <1>1, WireInvAlways, PTL

-----------------------------------------------------------------------------
(* Every message arrives as it was sent *)

LEMMA ArrivedStays ==
  ASSUME WireInv, NEW r, r.f \in DOMAIN frames, ArrivedRight(r), UNCHANGED <<path, keys>>,
         \A i \in DOMAIN frames : frames'[i] = frames[i]
  PROVE  ArrivedRight(r)'
BY DEF ArrivedRight, TooLong, WrongKey, SenderKey

\* A message that is handled comes last, and is one that arrived right.
LEMMA RoundTripGrows ==
  ASSUME WireInv, RoundTrip, UNCHANGED <<path, keys, frames>>, NEW e, e.f \in DOMAIN frames,
         handled' = Append(handled, e), ArrivedRight(e)
  PROVE  RoundTrip'
<1>1. ASSUME NEW i \in DOMAIN handled' PROVE ArrivedRight(handled[i])'
  <2>1. PICK r : r = handled'[i]
    OBVIOUS
  <2>2. i \in DOMAIN handled \/ i = Len(handled) + 1
    BY HandledGrows
  <2>3. r.f \in DOMAIN frames /\ ArrivedRight(r)
    BY <2>1, <2>2, HandledGrows DEF WireInv, HandledKnown, RoundTrip
  <2>4. ArrivedRight(r)'
    BY <2>3, ArrivedStays
  <2> QED  BY <2>1, <2>4 DEF ArrivedRight, TooLong, WrongKey, SenderKey, SameMessage
<1> QED  BY <1>1 DEF RoundTrip

LEMMA RoundTripStays ==
  ASSUME WireInv, WireInv', RoundTrip, UNCHANGED <<path, keys, handled>>,
         \A i \in DOMAIN frames : frames'[i] = frames[i]
  PROVE  RoundTrip'
<1>1. ASSUME NEW i \in DOMAIN handled' PROVE ArrivedRight(handled[i])'
  <2>1. PICK r : r = handled[i]
    OBVIOUS
  <2>2. r.f \in DOMAIN frames /\ ArrivedRight(r)
    BY <2>1 DEF WireInv, HandledKnown, RoundTrip
  <2>3. ArrivedRight(r)'
    BY <2>2, ArrivedStays
  <2> QED  BY <2>1, <2>3 DEF ArrivedRight, TooLong, WrongKey, SenderKey, SameMessage
<1> QED  BY <1>1 DEF RoundTrip

LEMMA OutcomeRight ==
  ASSUME WireInv, NEW f \in DOMAIN frames, HeaderOf(f) # Failed, NEW sync \in BOOLEAN,
         NEW o \in IF sync THEN Replied(AsMessage(HeaderOf(f)), frames[f].payload)
                   ELSE Received(AsMessage(HeaderOf(f)), frames[f].payload)
  PROVE  ArrivedRight([f |-> f, what |-> o.what, msg |-> o.msg, sync |-> sync])
<1>1. path \in Paths /\ Sent(frames[f])
  BY DEF WireInv, WireType, FramesSent
<1>2. CASE sync
  BY <1>1, <1>2, RepliedRight
<1>3. CASE ~sync
  BY <1>1, <1>3, ReceivedRight
<1> QED  BY <1>2, <1>3

LEMMA RoundTripStep ==
  ASSUME WireInv, WireInv', RoundTrip, [WireNext]_wireVars
  PROVE  RoundTrip'
<1>1. path \in Paths /\ FramesSent
  BY DEF WireInv, WireType
<1>2. ASSUME UNCHANGED <<path, keys, frames, handled>> PROVE RoundTrip'
  BY <1>2, RoundTripStays
<1>3. ASSUME NEW f \in DOMAIN frames, HeaderOf(f) = Failed, UNCHANGED <<path, keys, frames>>,
             handled' = Append(handled, [f |-> f, what |-> "refused"])
      PROVE  RoundTrip'
  <2>1. PICK e : e = [f |-> f, what |-> "refused"]
    OBVIOUS
  <2>2. e.f = f
    BY <2>1
  <2>3. ArrivedRight(e)
    BY <1>1, <1>3, <2>1, RefusedRight DEF FramesSent
  <2> QED  BY <1>3, <2>1, <2>2, <2>3, RoundTripGrows
<1>4. ASSUME NEW f \in DOMAIN frames, HeaderOf(f) # Failed, UNCHANGED <<path, keys, frames>>,
             NEW sync \in BOOLEAN,
             NEW o \in IF sync THEN Replied(AsMessage(HeaderOf(f)), frames[f].payload)
                       ELSE Received(AsMessage(HeaderOf(f)), frames[f].payload),
             handled' = Append(handled, [f |-> f, what |-> o.what, msg |-> o.msg, sync |-> sync])
      PROVE  RoundTrip'
  <2>1. PICK e : e = [f |-> f, what |-> o.what, msg |-> o.msg, sync |-> sync]
    OBVIOUS
  <2>2. e.f = f
    BY <2>1
  <2>3. ArrivedRight(e)
    <3>1. ArrivedRight([f |-> f, what |-> o.what, msg |-> o.msg, sync |-> sync])
      BY <1>4, OutcomeRight
    <3> QED  BY <2>1, <3>1
  <2>4. handled' = Append(handled, e) /\ UNCHANGED <<path, keys, frames>>
    BY <1>4, <2>1
  <2> QED  BY <2>2, <2>3, <2>4, RoundTripGrows
<1>5. CASE \E m \in Messages, emptyToo \in BOOLEAN : Write(m, emptyToo)
  <2>1. PICK f : frames' = Append(frames, f) /\ UNCHANGED <<path, keys, handled>>
    BY <1>5 DEF Write
  <2>2. \A i \in DOMAIN frames : frames'[i] = frames[i]
    BY <2>1, AppendToSequence, SequenceProperties DEF WireInv, WireType
  <2> QED  BY <2>1, <2>2, RoundTripStays
<1>6. CASE ReadHeaderTCP
  <2>1. UNCHANGED <<path, keys, frames>>
    BY <1>6 DEF ReadHeaderTCP
  <2> QED  BY <1>2, <1>3, <1>6, <2>1, ReadHeaderTCPKeeps
<1>7. CASE HandleTCP
  <2>1. UNCHANGED <<path, keys, frames>> /\ reader.sync \in BOOLEAN
    BY <1>7 DEF HandleTCP, WireInv, WireType
  <2> QED  BY <1>4, <1>7, <2>1, HandleTCPKeeps
<1>8. CASE \E f \in DOMAIN frames : ReceiveUDPClient(f)
  <2>1. PICK f \in DOMAIN frames : ReceiveUDPClient(f)
    BY <1>8
  <2>2. UNCHANGED <<path, keys, frames>> /\ reader.sync \in BOOLEAN
    BY <2>1 DEF ReceiveUDPClient, WireInv, WireType
  <2>3. CASE HeaderOf(f) = Failed
    BY <1>3, <2>1, <2>2, <2>3 DEF ReceiveUDPClient
  <2>4. CASE HeaderOf(f) # Failed
    <3>1. PICK o \in IF reader.sync THEN Replied(AsMessage(HeaderOf(f)), frames[f].payload)
                     ELSE Received(AsMessage(HeaderOf(f)), frames[f].payload) :
            handled' = Append(handled, [f |-> f, what |-> o.what, msg |-> o.msg,
                                        sync |-> reader.sync])
      BY <2>1, <2>4 DEF ReceiveUDPClient
    <3> QED  BY <1>4, <2>2, <2>4, <3>1
  <2> QED  BY <2>3, <2>4
<1>9. CASE \E f \in DOMAIN frames : ReceiveUDPServer(f)
  <2>1. PICK f \in DOMAIN frames : ReceiveUDPServer(f)
    BY <1>9
  <2>2. UNCHANGED <<path, keys, frames>>
    BY <2>1 DEF ReceiveUDPServer
  <2>3. CASE HeaderOf(f) = Failed
    BY <1>3, <2>1, <2>2, <2>3 DEF ReceiveUDPServer
  <2>4. CASE HeaderOf(f) # Failed
    <3>1. PICK o \in Received(AsMessage(HeaderOf(f)), frames[f].payload) :
            handled' = Append(handled, [f |-> f, what |-> o.what, msg |-> o.msg,
                                        sync |-> reader.sync])
      BY <2>1, <2>4 DEF ReceiveUDPServer
    <3>2. ~reader.sync
      BY <2>1 DEF ReceiveUDPServer, WireInv, WireType
    <3>3. /\ o \in IF FALSE THEN Replied(AsMessage(HeaderOf(f)), frames[f].payload)
                   ELSE Received(AsMessage(HeaderOf(f)), frames[f].payload)
          /\ handled' = Append(handled, [f |-> f, what |-> o.what, msg |-> o.msg, sync |-> FALSE])
      <4>1. reader.sync = FALSE
        BY <3>2 DEF WireInv, WireType
      <4> QED  BY <3>1, <4>1
    <3> QED  BY <1>4, <2>2, <2>4, <3>3
  <2> QED  BY <2>3, <2>4
<1>10. CASE UNCHANGED <<path, keys, frames, handled>>
  BY <1>2, <1>10
<1>11. \/ \E m \in Messages, emptyToo \in BOOLEAN : Write(m, emptyToo)
       \/ ReadHeaderTCP \/ HandleTCP
       \/ \E f \in DOMAIN frames : ReceiveUDPClient(f) \/ ReceiveUDPServer(f)
       \/ UNCHANGED <<path, keys, frames, handled>>
  <2>1. ASSUME \/ ReadPayloadTCP \/ (\E side \in {"peer", "local"} : Close(side)) \/ Deadline
               \/ ReadFailsTCP \/ ReadFailsUDP \/ (\E i \in DOMAIN held : WriteInterface(i))
               \/ UNCHANGED wireVars
        PROVE  UNCHANGED <<path, keys, frames, handled>>
    BY <2>1 DEF ReadPayloadTCP, Close, Deadline, ReadFailsTCP, ReadFailsUDP, WriteInterface, wireVars
  <2> QED  BY <2>1, ASends DEF WireNext
<1> QED  BY <1>5, <1>6, <1>7, <1>8, <1>9, <1>10, <1>11

\* What Marshal and Encrypt made of a message, Decrypt and Unmarshal undo: it arrives as it
\* was sent, or the keys differ, the packet grew beyond what a header may announce, or
\* something without a payload was taken for a reply.
THEOREM WireRoundTrip == WireSpec => []RoundTrip
<1>1. WireInit => RoundTrip
  BY DEF WireInit, RoundTrip
<1>2. WireInv /\ WireInv' /\ RoundTrip /\ [WireNext]_wireVars => RoundTrip'
  BY RoundTripStep
<1> QED  BY <1>1, <1>2, WireInvAlways, PTL DEF WireSpec
===============================================================================
