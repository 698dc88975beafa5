-------------------------------- MODULE Tunnel --------------------------------
(***************************************************************************)
(* One end of the tunnel interface (adapter/wiface/iface.go and pool.go,   *)
(* business/entity/iface.go, the interface loops of client.interface.go    *)
(* and server.interfaces.go, adapter/packet/decoder.go): a goroutine reads *)
(* packets from the device, numbers those of each endpoint and hands them  *)
(* through a channel to NumberOfHandlerThreads goroutines that send them.  *)
(*                                                                         *)
(* The other end is there for the numbers: its merger has a stream for     *)
(* each endpoint, which forgets its last number after StreamTTL seconds of *)
(* silence, while this end forgets an endpoint after EndpointTTL seconds.  *)
(* A second is long: time passes when nobody here has anything to do.      *)
(***************************************************************************)
EXTENDS Integers, Sequences, FiniteSets, FiniteSetsExt

CONSTANTS
  Packets,             (* what the kernel writes to the device                 *)
  Threads,             (* NumberOfHandlerThreads of them                       *)
  Capacity,            (* of Receiver: ten for each of them in the code        *)
  InitialEndpoints,    (* 100 in the code                                      *)
  IncrementEndpoints,  (* 10 in the code                                       *)
  StreamTTL, StreamCheckInterval,
  MaxDelay,            (* seconds a packet, sent again or not, can be under way *)
  MaxPackets,          (* bound: packets read                                  *)
  None

EndpointTTL == 2 * StreamTTL

\* the defaults: a packet is sent again for 30 seconds (retry.maxTimout), streams
\* are looked at every 60 seconds and end after 300
ASSUME TunnelAssumption ==
  /\ \A p \in Packets :
       /\ {"length", "version", "ihl", "total", "src", "dst"} \subseteq DOMAIN p
       /\ p.ihl \in 0 .. 15
  /\ Threads # {} /\ Capacity \in Nat \ {0}
  /\ InitialEndpoints \in Nat \ {0} /\ IncrementEndpoints \in Nat \ {0}
  /\ StreamTTL \in Nat \ {0} /\ StreamCheckInterval \in Nat \ {0} /\ MaxDelay \in Nat
  /\ StreamCheckInterval + MaxDelay <= StreamTTL
  /\ MaxPackets \in Nat
  /\ None \notin [id : Nat, age : Nat] \union [last : Nat, age : Nat]

VARIABLES
  side,              (* which end this is: "client" or "server"                *)
  device,            (* the TUN device                                         *)
  cancelled,         (* the context of the interface loops                     *)
  listener,          (* the goroutine that reads, and the message it holds     *)
  receiver,          (* the channel to the loops                               *)
  receiverClosed,
  isDown,            (* the commands of interfaceDown were run                 *)
  loop,              (* thread -> its interface loop, and the message it has   *)
  endpointsMap, endpointsMapLen, maxEndpoints,
  packets,           (* packets read                                           *)
  \* the other end
  flight,            (* messages under way: packet, number, age                *)
  stream,            (* endpoint -> last number, seconds since a message       *)
  sinceCheck         (* seconds since its ticker went off                      *)

own == <<side, device, cancelled, listener, receiver, receiverClosed, isDown, loop>>
numbering == <<endpointsMap, endpointsMapLen, maxEndpoints, packets>>
peer == <<flight, stream, sinceCheck>>
vars == <<own, numbering, peer>>

-----------------------------------------------------------------------------
(* The packet decoder *)

Malformed(p) ==
  \/ p.length < 20
  \/ p.version \notin {4, 6}
  \/ p.version = 4 /\ (p.ihl < 5 \/ 4 * p.ihl > p.total)
  \/ p.version = 6 /\ p.length < 40

\* The hash of an address and of its family, taken to be one to one.
EndpointOf(p, address) == <<p.version, IF address = "source" THEN p.src ELSE p.dst>>

\* What the interface numbers by, and what the socket of the other end takes a
\* stream by: there are four decoders, and those of the two programs must agree.
IfaceEndpoint(p) == EndpointOf(p, IF side = "client" THEN "destination" ELSE "source")
SocketEndpoint(p) == EndpointOf(p, IF side = "server" THEN "source" ELSE "destination")

Endpoints == {EndpointOf(p, a) : p \in Packets, a \in {"source", "destination"}}

-----------------------------------------------------------------------------

Reading == [at |-> "read", msg |-> None]
Waiting == [at |-> "idle", msg |-> None]

Init ==
  /\ side \in {"client", "server"}
  /\ device = "none" /\ cancelled = FALSE
  /\ listener = [Reading EXCEPT !.at = "off"]
  /\ receiver = <<>> /\ receiverClosed = FALSE /\ isDown = FALSE
  /\ loop = [t \in Threads |-> [Waiting EXCEPT !.at = "off"]]
  /\ endpointsMap = [e \in Endpoints |-> None]
  /\ endpointsMapLen = 0 /\ maxEndpoints = InitialEndpoints
  /\ packets = 0
  /\ flight = {} /\ stream = [e \in Endpoints |-> None]
  /\ sinceCheck \in 0 .. StreamCheckInterval - 1

-----------------------------------------------------------------------------
(* createInterface: the loops are started before the device is made *)

Create ==
  /\ device = "none"
  /\ device' = "open"
  /\ loop' = [t \in Threads |-> Waiting]
  /\ listener' = Reading
  /\ UNCHANGED <<side, cancelled, receiver, receiverClosed, isDown, numbering, peer>>

\* No device, no default route, or a command of interfaceUp that is no template:
\* nobody keeps the context of the loops, nor the device if it was made.
CreateFails ==
  /\ device = "none"
  /\ device' = "lost"
  /\ loop' = [t \in Threads |-> Waiting]
  /\ UNCHANGED <<side, cancelled, listener, receiver, receiverClosed, isDown, numbering, peer>>

\* Interface.Close, of closeInterface or dropSession: Cancel and Handler.Close
CloseInterface ==
  /\ device = "open"
  /\ device' = "closed" /\ cancelled' = TRUE
  /\ UNCHANGED <<side, listener, receiver, receiverClosed, isDown, loop, numbering, peer>>

-----------------------------------------------------------------------------
(* listen *)

Known(e) == endpointsMap[e] # None
Used == {e \in Endpoints : Known(e)}

\* getMessageID
NextID(e) == IF Known(e) THEN endpointsMap[e].id + 1 ELSE 1

ReadMalformed(p) ==
  /\ listener.at = "read" /\ device = "open" /\ packets < MaxPackets
  /\ Malformed(p)
  /\ packets' = packets + 1
  /\ UNCHANGED <<own, endpointsMap, endpointsMapLen, maxEndpoints, peer>>

Read(p) ==
  /\ listener.at = "read" /\ device = "open" /\ packets < MaxPackets
  /\ ~Malformed(p)
  /\ LET e == IfaceEndpoint(p)
     IN  /\ listener' = [at |-> "send", msg |-> [packet |-> p, id |-> NextID(e)]]
         /\ endpointsMap' = [endpointsMap EXCEPT ![e] = [id |-> NextID(e), age |-> 0]]
         /\ endpointsMapLen' = IF Known(e) THEN endpointsMapLen ELSE endpointsMapLen + 1
  /\ packets' = packets + 1
  /\ UNCHANGED <<side, device, cancelled, receiver, receiverClosed, isDown, loop,
                 maxEndpoints, peer>>

\* mutant: an endpoint is forgotten as soon as its stream may be
ExpiredWithStream == {e \in Used : endpointsMap[e].age >= StreamTTL}

Expired == {e \in Used : endpointsMap[e].age > EndpointTTL}

LimitAfter(deleted) ==
  IF deleted = 0 THEN maxEndpoints + IncrementEndpoints
  ELSE IF maxEndpoints - deleted <= InitialEndpoints THEN InitialEndpoints
  ELSE IF maxEndpoints - IncrementEndpoints >= InitialEndpoints
       THEN maxEndpoints - IncrementEndpoints
  ELSE maxEndpoints - 1

HasRoom == Len(receiver) < Capacity

\* The message goes to the loops, then endpoints are forgotten if there are many.
Send ==
  /\ listener.at = "send" /\ HasRoom
  /\ receiver' = Append(receiver, listener.msg)
  /\ listener' = Reading
  /\ IF endpointsMapLen >= maxEndpoints
     THEN /\ endpointsMap' = [e \in Endpoints |-> IF e \in Expired THEN None ELSE endpointsMap[e]]
          /\ endpointsMapLen' = endpointsMapLen - Cardinality(Expired)
          /\ maxEndpoints' = LimitAfter(Cardinality(Expired))
     ELSE UNCHANGED <<endpointsMap, endpointsMapLen, maxEndpoints>>
  /\ UNCHANGED <<side, device, cancelled, receiverClosed, isDown, loop, packets, peer>>

\* The device is closed, or a read from it fails.
ReadFails ==
  /\ listener.at = "read" /\ device \in {"open", "closed"}
  /\ listener' = [Reading EXCEPT !.at = "close"]
  /\ UNCHANGED <<side, device, cancelled, receiver, receiverClosed, isDown, loop,
                 numbering, peer>>

\* mutant: nothing is done for a device that is there
CloseInverted ==
  /\ listener.at = "close"
  /\ listener' = [Reading EXCEPT !.at = "ended"]
  /\ UNCHANGED <<side, device, cancelled, receiver, receiverClosed, isDown, loop, numbering,
                 peer>>

\* Iface.Close, deferred
Close ==
  /\ listener.at = "close"
  /\ isDown' = TRUE /\ receiverClosed' = TRUE
  /\ listener' = [Reading EXCEPT !.at = "ended"]
  /\ UNCHANGED <<side, device, cancelled, receiver, loop, numbering, peer>>

-----------------------------------------------------------------------------
(* interfaceLoop and interfaceReceiver *)

Take(t) ==
  /\ loop[t].at = "idle" /\ receiver # <<>>
  /\ loop' = [loop EXCEPT ![t] = [at |-> "busy", msg |-> Head(receiver)]]
  /\ receiver' = Tail(receiver)
  /\ UNCHANGED <<side, device, cancelled, listener, receiverClosed, isDown, numbering, peer>>

Becomes(t, place) ==
  /\ loop' = [loop EXCEPT ![t] = [Waiting EXCEPT !.at = place]]
  /\ UNCHANGED <<side, device, cancelled, listener, receiver, receiverClosed, isDown, numbering>>

Transmit(t) ==
  /\ loop[t].at = "busy"
  /\ flight' = flight \union {[packet |-> loop[t].msg.packet, id |-> loop[t].msg.id, age |-> 0]}
  /\ Becomes(t, "idle")
  /\ UNCHANGED <<stream, sinceCheck>>

\* The packet is dropped: the client is not connected or SendAsync fails; the
\* server has no interface or no connection for it.
Drop(t) ==
  /\ loop[t].at = "busy"
  /\ Becomes(t, "idle")
  /\ UNCHANGED peer

\* The loop ends with the packet: the client is connected and has no connection;
\* Send of the server fails.
Fail(t) ==
  /\ loop[t].at = "busy"
  /\ Becomes(t, "ended")
  /\ UNCHANGED peer

MayEnd == cancelled \/ (receiverClosed /\ receiver = <<>>)

End(t) ==
  /\ loop[t].at = "idle" /\ MayEnd
  /\ Becomes(t, "ended")
  /\ UNCHANGED peer

-----------------------------------------------------------------------------
(* The other end, and time *)

\* The stream of an endpoint starts with what comes first; what is not newer than
\* the last number is discarded, and the stream lives on all the same.
Arrive(m) ==
  /\ m \in flight
  /\ LET e == SocketEndpoint(m.packet)
         last == IF stream[e] = None THEN 0 ELSE stream[e].last
     IN  stream' = [stream EXCEPT ![e] = [last |-> Max({last, m.id}), age |-> 0]]
  /\ UNCHANGED <<own, numbering, flight, sinceCheck>>

AllEnded == \A t \in Threads : loop[t].at = "ended"

Quiet ==
  \/ AllEnded
  \/ /\ listener.at # "send" /\ receiver = <<>>
     /\ \A t \in Threads : loop[t].at # "busy"

\* A second passes; the ticker of the streams goes off every StreamCheckInterval.
Second ==
  /\ Quiet
  /\ LET checks == sinceCheck + 1 = StreamCheckInterval
         Older(r, top) == IF r = None THEN None ELSE [r EXCEPT !.age = Min({@ + 1, top})]
     IN  /\ sinceCheck' = IF checks THEN 0 ELSE sinceCheck + 1
         /\ flight' = {[m EXCEPT !.age = @ + 1] : m \in {m \in flight : m.age < MaxDelay}}
         /\ endpointsMap' = [e \in Endpoints |-> Older(endpointsMap[e], EndpointTTL + 1)]
         /\ stream' = [e \in Endpoints |->
              LET r == Older(stream[e], StreamTTL)
              IN  IF r # None /\ checks /\ r.age >= StreamTTL THEN None ELSE r]
  /\ UNCHANGED <<own, endpointsMapLen, maxEndpoints, packets>>

-----------------------------------------------------------------------------

ListenerStep == Send \/ (device = "closed" /\ ReadFails) \/ Close
LoopStep(t) == Take(t) \/ Transmit(t) \/ Drop(t) \/ Fail(t) \/ End(t)

Next ==
  \/ Create \/ CreateFails \/ CloseInterface
  \/ \E p \in Packets : Read(p) \/ ReadMalformed(p)
  \/ Send \/ ReadFails \/ Close
  \/ \E t \in Threads : Take(t) \/ Transmit(t) \/ Drop(t) \/ Fail(t) \/ End(t)
  \/ \E m \in flight : Arrive(m)
  \/ Second

Spec == Init /\ [][Next]_vars

\* Goroutines run, and a read from a closed device returns.  A loop that finds both
\* a message and the end of its context takes either.
FairSpec == Spec /\ WF_vars(ListenerStep) /\ \A t \in Threads : WF_vars(LoopStep(t))

-----------------------------------------------------------------------------
(* Properties *)

\* The numbers of an endpoint start again at 1 only when the other end has forgotten
\* the last one: otherwise every packet would count as a repetition, and each would
\* keep the stream that discards it alive.
NumbersFresh ==
  \A e \in Endpoints :
    stream[e] # None => Known(e) /\ stream[e].last <= endpointsMap[e].id

\* Closing the interface runs the commands of interfaceDown and ends the loops,
\* unless the reader waits on a full channel: the loops end by their context, and
\* nobody takes what it wants to send.
CloseEnds ==
  (device = "closed") ~> (AllEnded /\ (isDown \/ (listener.at = "send" /\ ~HasRoom)))
===============================================================================
