----------------------------- MODULE TunnelProofs -----------------------------
(***************************************************************************)
(* Proofs about one end of the tunnel interface, for every value of the    *)
(* constants: the numbers of an endpoint start again only when the other   *)
(* end has forgotten the last one.                                         *)
(***************************************************************************)
EXTENDS Tunnel, TLAPS

Message == [packet : Packets, id : Nat]

\* A message has a number of its endpoint not above the last one.
Counted(m) ==
  LET e == SocketEndpoint(m.packet)
  IN  Known(e) /\ m.id <= endpointsMap[e].id

\* An endpoint was numbered at most that many seconds ago.
Within(e, seconds) == endpointsMap[e].age <= seconds

\* A message that was read and not yet sent: its endpoint was numbered this second.
Unsent(m) == Counted(m) /\ Within(SocketEndpoint(m.packet), 0)

OwnType ==
  /\ side \in {"client", "server"}
  /\ listener.at = "send" => listener.msg \in Message
  /\ receiver \in Seq(Message)
  /\ DOMAIN loop = Threads
  /\ \A t \in Threads : loop[t].at = "busy" => loop[t].msg \in Message
  /\ device = "none" => listener.at = "off" /\ \A t \in Threads : loop[t].at = "off"

NumberType ==
  /\ endpointsMap \in [Endpoints -> {None} \union [id : Nat, age : Nat]]
  /\ sinceCheck \in 0 .. StreamCheckInterval - 1
  /\ stream \in [Endpoints -> {None} \union [last : Nat, age : 0 .. StreamTTL]]
  /\ flight \subseteq [packet : Packets, id : Nat, age : 0 .. MaxDelay]

\* While a loop is left to send what was read, time does not pass.
UnsentFresh ==
  ~AllEnded =>
    /\ listener.at = "send" => Unsent(listener.msg)
    /\ \A i \in DOMAIN receiver : Unsent(receiver[i])
    /\ \A t \in Threads : loop[t].at = "busy" => Unsent(loop[t].msg)

\* A message under way was numbered no longer ago than it was sent.
FlightFresh == \A m \in flight : Counted(m) /\ Within(SocketEndpoint(m.packet), m.age)

\* A stream came to life, last, by a message that was at most MaxDelay seconds under
\* way; one that is at the end of its life waits for the ticker.
StreamFresh ==
  \A e \in Endpoints : stream[e] # None =>
    /\ Known(e) /\ stream[e].last <= endpointsMap[e].id
    /\ Within(e, MaxDelay + stream[e].age + (IF stream[e].age = StreamTTL THEN sinceCheck ELSE 0))

TunnelInv == OwnType /\ NumberType /\ UnsentFresh /\ FlightFresh /\ StreamFresh

-----------------------------------------------------------------------------
(* Operators *)

LEMMA MaxOfTwo ==
  ASSUME NEW a \in Nat, NEW b \in Nat
  PROVE  Max({a, b}) \in {a, b} /\ Max({a, b}) >= a /\ Max({a, b}) >= b
<1>1. \E x \in {a, b} : \A y \in {a, b} : x >= y
  <2>1. CASE a >= b
    BY <2>1
  <2>2. CASE b >= a
    BY <2>2
  <2> QED  BY <2>1, <2>2
<1> QED  BY <1>1 DEF Max

LEMMA MinOfTwo ==
  ASSUME NEW a \in Nat, NEW b \in Nat
  PROVE  Min({a, b}) = IF a <= b THEN a ELSE b
<1>1. \E x \in {a, b} : \A y \in {a, b} : x =< y
  <2>1. CASE a <= b
    BY <2>1
  <2>2. CASE b <= a
    BY <2>2
  <2> QED  BY <2>1, <2>2
<1> QED  BY <1>1 DEF Min

\* The decoders of the two programs agree.
LEMMA DecodersAgree ==
  ASSUME side \in {"client", "server"}, NEW p \in Packets
  PROVE  IfaceEndpoint(p) = SocketEndpoint(p) /\ SocketEndpoint(p) \in Endpoints
BY DEF IfaceEndpoint, SocketEndpoint, Endpoints

-----------------------------------------------------------------------------
(* The initial states, and each step *)

LEMMA TunnelInit == Init => TunnelInv
<1> SUFFICES ASSUME Init PROVE TunnelInv
  OBVIOUS
<1> USE DEF Init
<1>1. OwnType
  BY DEF OwnType, Reading, Waiting
<1>2. NumberType
  BY DEF NumberType
<1>3. UnsentFresh
  BY DEF UnsentFresh, Reading, Waiting
<1>4. FlightFresh /\ StreamFresh
  BY DEF FlightFresh, StreamFresh
<1> QED  BY <1>1, <1>2, <1>3, <1>4 DEF TunnelInv

\* What an action of this end leaves alone when it does not number.
LEMMA NumberingUnchanged ==
  ASSUME TunnelInv, UNCHANGED <<side, endpointsMap, peer>>
  PROVE  NumberType' /\ FlightFresh' /\ StreamFresh' /\ \A m : Unsent(m)' <=> Unsent(m)
BY DEF TunnelInv, peer, NumberType, FlightFresh, StreamFresh, Unsent, Counted, Within, Known,
       SocketEndpoint

LEMMA CreateKeeps ==
  ASSUME TunnelInv, Create \/ CreateFails
  PROVE  TunnelInv'
<1>1. UNCHANGED <<side, receiver, numbering, peer>> /\ device = "none" /\ device' # "none"
      /\ loop' = [t \in Threads |-> Waiting] /\ listener'.at # "send"
  BY DEF TunnelInv, OwnType, Create, CreateFails, Reading
<1>2. OwnType'
  BY <1>1 DEF TunnelInv, OwnType, Waiting
<1>3. NumberType' /\ FlightFresh' /\ StreamFresh' /\ \A m : Unsent(m)' <=> Unsent(m)
  BY <1>1, NumberingUnchanged DEF numbering
<1>4. ~AllEnded
  BY <1>1, TunnelAssumption DEF TunnelInv, OwnType, AllEnded, TunnelAssumption
<1>5. UnsentFresh'
  BY <1>1, <1>3, <1>4 DEF TunnelInv, UnsentFresh, Waiting
<1> QED  BY <1>2, <1>3, <1>5 DEF TunnelInv

LEMMA StillKeeps ==
  ASSUME TunnelInv,
         CloseInterface \/ ReadFails \/ Close \/ (\E p \in Packets : ReadMalformed(p))
  PROVE  TunnelInv'
<1>1. UNCHANGED <<side, loop, receiver, endpointsMap, peer>>
      /\ (device # "none" => device' # "none")
      /\ (listener' = listener \/ (listener'.at # "send" /\ listener.at # "off"))
  BY DEF CloseInterface, ReadFails, Close, ReadMalformed, own, numbering, Reading
<1>2. OwnType'
  BY <1>1 DEF TunnelInv, OwnType, CloseInterface, ReadFails, Close, ReadMalformed, own
<1>3. NumberType' /\ FlightFresh' /\ StreamFresh' /\ \A m : Unsent(m)' <=> Unsent(m)
  BY <1>1, NumberingUnchanged
<1>4. UnsentFresh'
  BY <1>1, <1>3 DEF TunnelInv, UnsentFresh, AllEnded
<1> QED  BY <1>2, <1>3, <1>4 DEF TunnelInv

\* Numbering an endpoint makes nothing older, and no number smaller.
LEMMA ReadKeeps ==
  ASSUME TunnelInv, NEW p \in Packets, Read(p)
  PROVE  TunnelInv'
<1>1. PICK e \in Endpoints : e = IfaceEndpoint(p) /\ e = SocketEndpoint(p)
  BY DecodersAgree DEF TunnelInv, OwnType
<1>2. PICK n \in Nat : n = NextID(e) /\ (Known(e) => endpointsMap[e].id <= n)
  BY <1>1 DEF TunnelInv, NumberType, NextID, Known
<1> DEFINE msg == [packet |-> p, id |-> n]
           new == [id |-> n, age |-> 0]
<1>3. /\ listener'.at = "send" /\ listener'.msg = msg /\ msg \in Message
      /\ UNCHANGED <<side, device, loop, receiver, peer>> /\ device # "none"
  BY <1>1, <1>2 DEF Read, Message
<1>4. endpointsMap' = [endpointsMap EXCEPT ![e] = new] /\ new # None
      /\ new \in [id : Nat, age : Nat]
  BY <1>1, <1>2, TunnelAssumption DEF Read, TunnelAssumption
<1> HIDE DEF msg, new
<1>5. OwnType'
  BY <1>3 DEF TunnelInv, OwnType
<1>6. NumberType'
  BY <1>1, <1>3, <1>4 DEF TunnelInv, NumberType, peer
<1>7. \A f \in Endpoints : Known(f) =>
        /\ Known(f)' /\ endpointsMap'[f].id >= endpointsMap[f].id
        /\ endpointsMap'[f].age <= endpointsMap[f].age
  BY <1>1, <1>2, <1>4 DEF TunnelInv, NumberType, Known, new
<1>8. \A q \in Packets : SocketEndpoint(q)' = SocketEndpoint(q) /\ SocketEndpoint(q) \in Endpoints
  BY <1>3, DecodersAgree DEF SocketEndpoint, TunnelInv, OwnType
<1>9. \A m \in Message : Unsent(m) => Unsent(m)'
  BY <1>6, <1>7, <1>8 DEF TunnelInv, NumberType, Unsent, Counted, Within, Known, Message
<1>10. Unsent(msg)'
  <2>1. endpointsMap'[e] = new /\ new.id = n /\ new.age = 0 /\ msg.id = n /\ msg.packet = p
    BY <1>4 DEF TunnelInv, NumberType, new, msg
  <2> QED  BY <1>1, <1>4, <1>8, <2>1 DEF Unsent, Counted, Within, Known
<1>11. UnsentFresh'
  <2>1. \A i \in DOMAIN receiver : receiver[i] \in Message
    BY DEF TunnelInv, OwnType
  <2> QED  BY <1>3, <1>9, <1>10, <2>1 DEF TunnelInv, OwnType, UnsentFresh, AllEnded
<1>12. FlightFresh'
  BY <1>3, <1>6, <1>7, <1>8 DEF TunnelInv, NumberType, FlightFresh, Counted, Within, peer, Known
<1>13. StreamFresh'
  BY <1>3, <1>6, <1>7, TunnelAssumption
  DEF TunnelInv, NumberType, StreamFresh, Within, peer, Known, TunnelAssumption
<1> QED  BY <1>5, <1>6, <1>11, <1>12, <1>13 DEF TunnelInv

\* An endpoint that is forgotten has no message anywhere and no stream: its stream
\* would be forgotten already.
LEMMA SendKeeps ==
  ASSUME TunnelInv, Send
  PROVE  TunnelInv'
<1>1. /\ listener.at = "send" /\ listener'.at = "read"
      /\ receiver' = Append(receiver, listener.msg)
      /\ UNCHANGED <<side, device, loop, peer>>
  BY DEF Send, Reading
<1>2. OwnType'
  BY <1>1 DEF TunnelInv, OwnType
<1>3. \/ endpointsMap' = endpointsMap
      \/ endpointsMap' = [e \in Endpoints |-> IF e \in Expired THEN None ELSE endpointsMap[e]]
  BY DEF Send
<1>4. NumberType'
  BY <1>1, <1>3 DEF TunnelInv, NumberType, peer
<1>5. ASSUME NEW e \in Endpoints, Known(e), Within(e, EndpointTTL)
      PROVE  endpointsMap'[e] = endpointsMap[e]
  <2>1. e \notin Expired
    BY <1>5, TunnelAssumption
    DEF Expired, Within, TunnelInv, NumberType, Known, EndpointTTL, TunnelAssumption
  <2> QED  BY <1>3, <2>1
<1>6. \A q \in Packets : SocketEndpoint(q)' = SocketEndpoint(q) /\ SocketEndpoint(q) \in Endpoints
  BY <1>1, DecodersAgree DEF SocketEndpoint, TunnelInv, OwnType
<1>7. 0 <= EndpointTTL /\ MaxDelay <= EndpointTTL
      /\ \A a \in 0 .. StreamTTL :
           MaxDelay + a + (IF a = StreamTTL THEN sinceCheck ELSE 0) <= EndpointTTL
  BY TunnelAssumption DEF TunnelInv, NumberType, EndpointTTL, TunnelAssumption
<1>8. \A m \in Message : Unsent(m) => Unsent(m)'
  <2> SUFFICES ASSUME NEW m \in Message, Unsent(m) PROVE Unsent(m)'
    OBVIOUS
  <2> DEFINE e == SocketEndpoint(m.packet)
  <2>1. e \in Endpoints /\ e' = e /\ Known(e) /\ Within(e, EndpointTTL)
    BY <1>6, <1>7 DEF Message, Unsent, Counted, Within, TunnelInv, NumberType, Known
  <2> QED  BY <1>5, <2>1 DEF Unsent, Counted, Within, Known
<1>9. UnsentFresh'
  <2> SUFFICES ASSUME ~AllEnded PROVE UnsentFresh'
    BY <1>1 DEF UnsentFresh, AllEnded
  <2>1. DOMAIN receiver' = DOMAIN receiver \union {Len(receiver) + 1}
        /\ \A i \in DOMAIN receiver : receiver'[i] = receiver[i]
        /\ receiver'[Len(receiver) + 1] = listener.msg
    BY <1>1 DEF TunnelInv, OwnType
  <2>2. \A i \in DOMAIN receiver : receiver[i] \in Message
    BY DEF TunnelInv, OwnType
  <2> QED  BY <1>1, <1>8, <2>1, <2>2 DEF TunnelInv, OwnType, UnsentFresh, AllEnded
<1>10. FlightFresh'
  <2> SUFFICES ASSUME NEW m \in flight
               PROVE  Counted(m)' /\ Within(SocketEndpoint(m.packet), m.age)'
    BY <1>1 DEF FlightFresh, peer
  <2> DEFINE e == SocketEndpoint(m.packet)
  <2>1. e \in Endpoints /\ e' = e /\ Known(e) /\ Within(e, EndpointTTL) /\ Within(e, m.age)
        /\ m.id <= endpointsMap[e].id
    <3>1. m.packet \in Packets /\ m.age \in 0 .. MaxDelay
      BY DEF TunnelInv, NumberType
    <3>2. Counted(m) /\ Within(e, m.age)
      BY DEF TunnelInv, FlightFresh
    <3>3. MaxDelay \in Nat /\ EndpointTTL \in Nat
      BY TunnelAssumption DEF TunnelAssumption, EndpointTTL
    <3> QED  BY <1>6, <1>7, <3>1, <3>2, <3>3 DEF Counted, Within, TunnelInv, NumberType, Known
  <2> QED  BY <1>5, <2>1 DEF Counted, Within, Known
<1>11. StreamFresh'
  <2> SUFFICES ASSUME NEW e \in Endpoints, stream[e] # None
               PROVE  /\ Known(e)' /\ stream[e].last <= endpointsMap'[e].id
                      /\ Within(e, MaxDelay + stream[e].age
                                     + (IF stream[e].age = StreamTTL THEN sinceCheck ELSE 0))'
    BY <1>1 DEF StreamFresh, peer
  <2> DEFINE s == MaxDelay + stream[e].age + (IF stream[e].age = StreamTTL THEN sinceCheck ELSE 0)
  <2>1. Known(e) /\ stream[e].last <= endpointsMap[e].id /\ Within(e, s)
    BY DEF TunnelInv, StreamFresh
  <2>2. s <= EndpointTTL /\ s \in Nat /\ EndpointTTL \in Nat
    BY <1>7, TunnelAssumption DEF TunnelInv, NumberType, TunnelAssumption, EndpointTTL
  <2>3. Within(e, EndpointTTL)
    <3> HIDE DEF s
    <3> QED  BY <2>1, <2>2 DEF Within, TunnelInv, NumberType, Known
  <2>4. s' = s
    BY <1>1 DEF peer
  <2>5. Within(e, s)'
    <3> HIDE DEF s
    <3> QED  BY <1>5, <2>1, <2>3, <2>4 DEF Within
  <2> QED  BY <1>1, <1>5, <2>1, <2>3, <2>5 DEF Known, peer
<1> QED  BY <1>2, <1>4, <1>9, <1>10, <1>11 DEF TunnelInv

LEMMA TakeKeeps ==
  ASSUME TunnelInv, NEW t \in Threads, Take(t)
  PROVE  TunnelInv'
<1>1. /\ loop' = [loop EXCEPT ![t] = [at |-> "busy", msg |-> Head(receiver)]]
      /\ receiver' = Tail(receiver) /\ receiver # <<>> /\ loop[t].at = "idle"
      /\ UNCHANGED <<side, device, listener, endpointsMap, peer>>
  BY DEF Take, numbering
<1>2. /\ Head(receiver) = receiver[1] /\ 1 \in DOMAIN receiver /\ Head(receiver) \in Message
      /\ Tail(receiver) \in Seq(Message)
      /\ \A i \in DOMAIN Tail(receiver) :
           i + 1 \in DOMAIN receiver /\ Tail(receiver)[i] = receiver[i + 1]
  BY <1>1 DEF TunnelInv, OwnType
<1>3. device # "none" /\ ~AllEnded
  BY <1>1 DEF TunnelInv, OwnType, AllEnded
<1>4. OwnType'
  BY <1>1, <1>2, <1>3 DEF TunnelInv, OwnType
<1>5. NumberType' /\ FlightFresh' /\ StreamFresh' /\ \A m : Unsent(m)' <=> Unsent(m)
  BY <1>1, NumberingUnchanged
<1>6. UnsentFresh'
  BY <1>1, <1>2, <1>3, <1>5 DEF TunnelInv, OwnType, UnsentFresh
<1> QED  BY <1>4, <1>5, <1>6 DEF TunnelInv

\* A loop that has done with its message: nothing is owed more than before.
LEMMA BecomesKeeps ==
  ASSUME TunnelInv, NEW t \in Threads, NEW place \in {"idle", "ended"}, Becomes(t, place),
         loop[t].at # "off", loop[t].at # "ended"
  PROVE  OwnType' /\ UnsentFresh' /\ UNCHANGED <<side, endpointsMap>>
<1>1. /\ loop' = [loop EXCEPT ![t] = [at |-> place, msg |-> None]]
      /\ UNCHANGED <<side, device, listener, receiver, endpointsMap>>
  <2>1. [Waiting EXCEPT !.at = place] = [at |-> place, msg |-> None]
    BY DEF Waiting
  <2> QED  BY <2>1 DEF Becomes, numbering
<1>2. OwnType'
  BY <1>1 DEF TunnelInv, OwnType
<1>3. ~AllEnded /\ \A m : Unsent(m)' <=> Unsent(m)
  BY <1>1 DEF AllEnded, Unsent, Counted, Within, Known, SocketEndpoint
<1>4. UnsentFresh'
  BY <1>1, <1>3 DEF TunnelInv, OwnType, UnsentFresh
<1> QED  BY <1>1, <1>2, <1>4

LEMMA DropKeeps ==
  ASSUME TunnelInv, NEW t \in Threads, Drop(t) \/ Fail(t) \/ End(t)
  PROVE  TunnelInv'
<1>1. \E place \in {"idle", "ended"} : Becomes(t, place)
  BY DEF Drop, Fail, End
<1>2. loop[t].at # "off" /\ loop[t].at # "ended" /\ UNCHANGED peer
  BY DEF Drop, Fail, End
<1>3. OwnType' /\ UnsentFresh' /\ UNCHANGED <<side, endpointsMap>>
  BY <1>1, <1>2, BecomesKeeps
<1>4. NumberType' /\ FlightFresh' /\ StreamFresh'
  BY <1>2, <1>3, NumberingUnchanged
<1> QED  BY <1>3, <1>4 DEF TunnelInv

LEMMA TransmitKeeps ==
  ASSUME TunnelInv, NEW t \in Threads, Transmit(t)
  PROVE  TunnelInv'
<1>1. PICK m \in Message : m = loop[t].msg /\ Unsent(m)
  BY DEF Transmit, TunnelInv, OwnType, UnsentFresh, AllEnded
<1> DEFINE sent == [packet |-> m.packet, id |-> m.id, age |-> 0]
<1>2. /\ loop[t].at = "busy" /\ flight' = flight \union {sent} /\ Becomes(t, "idle")
      /\ UNCHANGED <<stream, sinceCheck>>
  BY <1>1 DEF Transmit
<1>3. OwnType' /\ UnsentFresh' /\ UNCHANGED <<side, endpointsMap>>
  BY <1>2, BecomesKeeps
<1>4. sent \in [packet : Packets, id : Nat, age : 0 .. MaxDelay]
  BY <1>1, TunnelAssumption DEF Message, TunnelAssumption
<1>5. NumberType'
  BY <1>2, <1>3, <1>4 DEF TunnelInv, NumberType
<1>6. FlightFresh'
  <2>1. Counted(sent)' /\ Within(SocketEndpoint(sent.packet), sent.age)'
    BY <1>3, <1>1 DEF Unsent, Counted, Within, Known, SocketEndpoint
  <2>2. \A n \in flight : Counted(n)' /\ Within(SocketEndpoint(n.packet), n.age)'
    BY <1>3 DEF TunnelInv, FlightFresh, Counted, Within, Known, SocketEndpoint
  <2> HIDE DEF sent
  <2> QED  BY <1>2, <2>1, <2>2 DEF FlightFresh
<1>7. StreamFresh'
  BY <1>2, <1>3 DEF TunnelInv, StreamFresh, Within, Known
<1> QED  BY <1>3, <1>5, <1>6, <1>7 DEF TunnelInv

\* What arrives gives its stream at most the number its endpoint has.
LEMMA ArriveKeeps ==
  ASSUME TunnelInv, NEW m \in flight, Arrive(m)
  PROVE  TunnelInv'
<1>1. PICK e \in Endpoints : e = SocketEndpoint(m.packet)
  BY DecodersAgree DEF TunnelInv, OwnType, NumberType
<1>2. PICK last \in Nat : /\ last = IF stream[e] = None THEN 0 ELSE stream[e].last
                          /\ Known(e) => last <= endpointsMap[e].id
  BY <1>1 DEF TunnelInv, NumberType, StreamFresh, Known
<1>3. m.id \in Nat /\ m.age \in 0 .. MaxDelay /\ Counted(m) /\ Within(e, m.age)
  BY <1>1 DEF TunnelInv, NumberType, FlightFresh
<1>4. PICK top \in Nat : top = Max({last, m.id}) /\ top \in {last, m.id}
  BY <1>3, MaxOfTwo
<1> DEFINE new == [last |-> top, age |-> 0]
<1>5. /\ stream' = [stream EXCEPT ![e] = new]
      /\ UNCHANGED <<own, endpointsMap, flight, sinceCheck>>
  BY <1>1, <1>2, <1>4 DEF Arrive, numbering
<1>6. OwnType' /\ UnsentFresh' /\ FlightFresh'
  BY <1>5 DEF TunnelInv, own, OwnType, UnsentFresh, AllEnded, FlightFresh, Unsent, Counted,
     Within, Known, SocketEndpoint
<1>7. new \in [last : Nat, age : 0 .. StreamTTL]
  BY TunnelAssumption DEF TunnelAssumption
<1>8. NumberType'
  <2> HIDE DEF new
  <2> QED  BY <1>5, <1>7 DEF TunnelInv, NumberType
<1>9. Known(e) /\ top <= endpointsMap[e].id /\ Within(e, MaxDelay)
  BY <1>1, <1>2, <1>3, <1>4, TunnelAssumption
  DEF Counted, Within, TunnelInv, NumberType, Known, TunnelAssumption
<1>10. StreamFresh'
  <2> SUFFICES ASSUME NEW f \in Endpoints, stream'[f] # None
               PROVE  /\ Known(f) /\ stream'[f].last <= endpointsMap[f].id
                      /\ Within(f, MaxDelay + stream'[f].age
                                     + (IF stream'[f].age = StreamTTL THEN sinceCheck ELSE 0))
    BY <1>5 DEF StreamFresh, Within, Known
  <2>1. CASE f = e
    <3>1. stream'[f].last = top /\ stream'[f].age = 0 /\ StreamTTL # 0 /\ MaxDelay \in Nat
      BY <1>5, <2>1, TunnelAssumption DEF TunnelInv, NumberType, TunnelAssumption
    <3> QED  BY <1>9, <2>1, <3>1
  <2>2. CASE f # e
    BY <1>5, <2>2 DEF TunnelInv, NumberType, StreamFresh
  <2> QED  BY <2>1, <2>2
<1> QED  BY <1>6, <1>8, <1>10 DEF TunnelInv

\* A second: everything that has an age grows older by one, but what is at its bound.
LEMMA SecondKeeps ==
  ASSUME TunnelInv, Second
  PROVE  TunnelInv'
<1> DEFINE checks == sinceCheck + 1 = StreamCheckInterval
           Older(r, top) == IF r = None THEN None ELSE [r EXCEPT !.age = Min({@ + 1, top})]
<1>1. /\ Quiet
      /\ sinceCheck' = IF checks THEN 0 ELSE sinceCheck + 1
      /\ flight' = {[m EXCEPT !.age = @ + 1] : m \in {m \in flight : m.age < MaxDelay}}
      /\ endpointsMap' = [e \in Endpoints |-> Older(endpointsMap[e], EndpointTTL + 1)]
      /\ stream' = [e \in Endpoints |->
           LET r == Older(stream[e], StreamTTL)
           IN  IF r # None /\ checks /\ r.age >= StreamTTL THEN None ELSE r]
      /\ UNCHANGED own
  BY DEF Second
<1>2. StreamTTL \in Nat /\ StreamTTL # 0 /\ MaxDelay \in Nat /\ EndpointTTL \in Nat
  BY TunnelAssumption DEF TunnelAssumption, EndpointTTL
<1>3. OwnType'
  BY <1>1 DEF TunnelInv, OwnType, own
<1>4. UnsentFresh'
  BY <1>1 DEF own, UnsentFresh, AllEnded, Quiet
<1>5. ASSUME NEW e \in Endpoints
      PROVE  /\ endpointsMap'[e] \in {None} \union [id : Nat, age : Nat]
             /\ Known(e) => /\ Known(e)' /\ endpointsMap'[e].id = endpointsMap[e].id
                            /\ endpointsMap'[e].age <= endpointsMap[e].age + 1
  <2>1. CASE ~Known(e)
    BY <1>1, <2>1 DEF Known
  <2>2. CASE Known(e)
    <3>1. endpointsMap[e] \in [id : Nat, age : Nat]
      BY <2>2 DEF TunnelInv, NumberType, Known
    <3>2. PICK a \in Nat : a = Min({endpointsMap[e].age + 1, EndpointTTL + 1})
                           /\ a <= endpointsMap[e].age + 1
      BY <1>2, <3>1, MinOfTwo
    <3>3. endpointsMap'[e] = [endpointsMap[e] EXCEPT !.age = a]
      BY <1>1, <2>2, <3>2 DEF Known
    <3>4. endpointsMap'[e] \in [id : Nat, age : Nat]
      BY <3>1, <3>2, <3>3
    <3> QED  BY <3>1, <3>2, <3>3, <3>4, TunnelAssumption DEF Known, TunnelAssumption
  <2> QED  BY <2>1, <2>2
<1>6. ASSUME NEW e \in Endpoints, stream'[e] # None
      PROVE  /\ stream[e] # None /\ stream[e] \in [last : Nat, age : 0 .. StreamTTL]
             /\ stream'[e] \in [last : Nat, age : 0 .. StreamTTL]
             /\ stream'[e].last = stream[e].last
             /\ stream'[e].age = IF stream[e].age = StreamTTL THEN StreamTTL
                                 ELSE stream[e].age + 1
             /\ checks => stream'[e].age # StreamTTL
  <2>1. stream[e] # None /\ stream[e] \in [last : Nat, age : 0 .. StreamTTL]
    BY <1>1, <1>6 DEF TunnelInv, NumberType
  <2>2. PICK b \in Nat : b = stream[e].age /\ b <= StreamTTL
    BY <1>2, <2>1
  <2>3. PICK a \in Nat : /\ a = Min({stream[e].age + 1, StreamTTL})
                         /\ a = IF b = StreamTTL THEN StreamTTL ELSE b + 1
    BY <1>2, <2>2, MinOfTwo
  <2>4. a \in 0 .. StreamTTL
    BY <1>2, <2>2, <2>3
  <2>5. stream'[e] = [stream[e] EXCEPT !.age = a] /\ (checks => ~(a >= StreamTTL))
    <3> DEFINE r == [stream[e] EXCEPT !.age = a]
    <3>1. r.age = a
      BY <2>1
    <3>2. stream'[e] = IF r # None /\ checks /\ r.age >= StreamTTL THEN None ELSE r
      BY <1>1, <2>1, <2>3
    <3> HIDE DEF r, checks
    <3>3. stream'[e] = r /\ ~(checks /\ r.age >= StreamTTL)
      BY <1>6, <3>2
    <3> QED  BY <3>1, <3>3 DEF r
  <2>6. stream'[e] = [last |-> stream[e].last, age |-> a]
    BY <2>1, <2>5
  <2> QED  BY <2>1, <2>3, <2>4, <2>5, <2>2, <2>6, <1>2
<1>7. \A m \in flight' : \E n \in flight :
        /\ n.age < MaxDelay /\ m.packet = n.packet /\ m.id = n.id /\ m.age = n.age + 1
        /\ m \in [packet : Packets, id : Nat, age : 0 .. MaxDelay]
  BY <1>1, <1>2 DEF TunnelInv, NumberType
<1>8. NumberType'
  <2>1. sinceCheck' \in 0 .. StreamCheckInterval - 1
    BY <1>1, TunnelAssumption DEF TunnelInv, NumberType, TunnelAssumption
  <2>2. endpointsMap' \in [Endpoints -> {None} \union [id : Nat, age : Nat]]
    BY <1>1, <1>5
  <2>3. stream' \in [Endpoints -> {None} \union [last : Nat, age : 0 .. StreamTTL]]
    BY <1>1, <1>6
  <2> QED  BY <1>7, <2>1, <2>2, <2>3 DEF NumberType
<1>9. FlightFresh'
  <2> SUFFICES ASSUME NEW m \in flight'
               PROVE  (Counted(m) /\ Within(SocketEndpoint(m.packet), m.age))'
    BY DEF FlightFresh
  <2>1. PICK n \in flight : m.packet = n.packet /\ m.id = n.id /\ m.age = n.age + 1
                            /\ n.packet \in Packets /\ n.id \in Nat /\ n.age \in Nat
    BY <1>7, <1>2 DEF TunnelInv, NumberType
  <2>2. PICK e \in Endpoints : e = SocketEndpoint(m.packet) /\ e = SocketEndpoint(m.packet)'
    BY <1>1, <2>1, DecodersAgree DEF TunnelInv, OwnType, SocketEndpoint, own
  <2>3. Known(e) /\ n.id <= endpointsMap[e].id /\ endpointsMap[e].age <= n.age
    BY <2>1, <2>2 DEF TunnelInv, FlightFresh, Counted, Within
  <2>4. endpointsMap[e].age \in Nat /\ endpointsMap'[e].age \in Nat
    BY <1>5, <2>3, <1>8 DEF TunnelInv, NumberType, Known
  <2> QED  BY <1>5, <2>1, <2>2, <2>3, <2>4 DEF Counted, Within
<1>10. StreamFresh'
  <2> SUFFICES ASSUME NEW e \in Endpoints, stream'[e] # None
               PROVE  (/\ Known(e) /\ stream[e].last <= endpointsMap[e].id
                       /\ Within(e, MaxDelay + stream[e].age
                                      + (IF stream[e].age = StreamTTL THEN sinceCheck ELSE 0)))'
    BY DEF StreamFresh
  <2>1. /\ Known(e) /\ stream[e].last <= endpointsMap[e].id
        /\ endpointsMap[e].age <= MaxDelay + stream[e].age
                                    + (IF stream[e].age = StreamTTL THEN sinceCheck ELSE 0)
    BY <1>6 DEF TunnelInv, StreamFresh, Within
  <2>2. /\ endpointsMap[e].age \in Nat /\ endpointsMap'[e].age \in Nat
        /\ sinceCheck \in Nat /\ sinceCheck' \in Nat /\ stream'[e].age \in Nat
    BY <1>5, <1>6, <1>2, <2>1, <1>8, TunnelAssumption
    DEF TunnelInv, NumberType, Known, TunnelAssumption
  <2>3. endpointsMap'[e].age <= MaxDelay + stream'[e].age
                                  + (IF stream'[e].age = StreamTTL THEN sinceCheck' ELSE 0)
    <3> HIDE DEF checks
    <3>1. endpointsMap'[e].age <= endpointsMap[e].age + 1
      BY <1>5, <2>1
    <3>2. stream'[e].age = StreamTTL => sinceCheck' = sinceCheck + 1
      BY <1>1, <1>6
    <3>3. stream[e].age \in Nat
          /\ stream'[e].age = IF stream[e].age = StreamTTL THEN StreamTTL ELSE stream[e].age + 1
      BY <1>2, <1>6
    <3> QED  BY <1>2, <2>1, <2>2, <3>1, <3>2, <3>3
  <2> QED  BY <1>5, <1>6, <2>1, <2>3 DEF Within
<1> QED  BY <1>3, <1>4, <1>8, <1>9, <1>10 DEF TunnelInv

LEMMA TunnelStep == TunnelInv /\ [Next]_vars => TunnelInv'
<1> SUFFICES ASSUME TunnelInv, [Next]_vars PROVE TunnelInv'
  OBVIOUS
<1>1. CASE UNCHANGED vars
  BY <1>1 DEF vars, own, numbering, peer, TunnelInv, OwnType, NumberType, UnsentFresh,
     FlightFresh, StreamFresh, AllEnded, Unsent, Counted, Within, Known, SocketEndpoint
<1>2. CASE Next
  BY <1>2, CreateKeeps, StillKeeps, ReadKeeps, SendKeeps, TakeKeeps, TransmitKeeps, DropKeeps,
     ArriveKeeps, SecondKeeps DEF Next
<1> QED  BY <1>1, <1>2

-----------------------------------------------------------------------------
(* The theorems *)

\* What was numbered and not sent is of this second; what is under way and what keeps a
\* stream alive was numbered no longer ago than its own age and the longest way allow.
THEOREM TunnelInvariant == Spec => []TunnelInv
BY TunnelInit, TunnelStep, PTL DEF Spec

\* The numbers of an endpoint start again at 1 only when the stream of the other end is
\* gone: whatever is lost, late or repeated, however many endpoints there are.
THEOREM TunnelNumbersFresh == Spec => []NumbersFresh
<1>1. TunnelInv => NumbersFresh
  BY DEF TunnelInv, StreamFresh, NumbersFresh
<1> QED  BY <1>1, TunnelInvariant, PTL
===============================================================================
