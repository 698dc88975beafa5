-------------------------------- MODULE Link --------------------------------
(***************************************************************************)
(* One direction of a UDP connection: the sender keeps a copy of every     *)
(* data message and sends it again until it is acknowledged or too old     *)
(* (adapter/retry/retry.go); the receiver collects the identifiers of what *)
(* came in and sends them back in batches (adapter/ack/ack.go,             *)
(* business/entity/ack.go).  Between the two is a network that loses,      *)
(* repeats and reorders: what was sent can come in at any later time, once *)
(* or more often, or never.                                                *)
(*                                                                         *)
(* A message object comes from a pool (business/entity/pool.go) when its   *)
(* packet is read from the tunnel interface and goes back to the pool when *)
(* its timer goroutine ends.  Identifiers are numbers a connection uses    *)
(* once; keepalives are left out.                                          *)
(***************************************************************************)
EXTENDS Integers, Sequences, FiniteSets, SequencesExt

CONSTANTS
  MaxMsg,            (* messages 1 .. MaxMsg are sent                          *)
  Endpoint,          (* message -> endpoint of its packet                      *)
  Slots,             (* objects of MessagePool                                 *)
  MaxAttempts,       (* resends that fit in MaxTimeout                         *)
  MaxSize,           (* GetMaxAcknowledgementSize: bytes of one acknowledgement *)
  MaxUint8,          (* its count of identifiers is one byte an endpoint       *)
  SenderChSize       (* capacity of senderCh                                   *)

Messages == 1 .. MaxMsg
Zero == 0            \* the identifier of a message object after Reset

EndpointSize == 9    \* acknowledgementEndpointSize
IDSize == 4

ASSUME LinkAssumption ==
  /\ MaxMsg \in Nat /\ MaxAttempts \in Nat
  /\ DOMAIN Endpoint = Messages
  /\ Slots # {}
  /\ MaxSize \in Nat /\ MaxSize >= EndpointSize + IDSize
  /\ MaxUint8 \in Nat \ {0}
  /\ SenderChSize \in Nat \ {0}

VARIABLES
  \* the sender
  stage,             (* message -> what its goroutine does                     *)
  slot,              (* message -> its object                                  *)
  content,           (* object -> the message it holds                         *)
  pool,              (* objects in the pool                                    *)
  messages,          (* keys of the map Ack looks identifiers up in            *)
  timer,             (* message -> its time.Timer                              *)
  stop,              (* messages whose stop channel was signalled              *)
  attempts,          (* message -> times it was sent again                     *)
  done,              (* ctx.Done: Retry.Stop was called                        *)
  \* the network
  data,              (* messages that were sent                                *)
  acks,              (* acknowledgements that were sent: sets of messages      *)
  \* the receiver
  senderCh,          (* identifiers on their way to the accumulator            *)
  ackIDs,            (* what the accumulator has collected                     *)
  \* what happened so far, for the properties
  late,              (* message -> resends after its acknowledgement           *)
  struck             (* messages whose key another goroutine deleted           *)

senderVars == <<stage, slot, content, pool, messages, timer, stop, attempts, done, late, struck>>
receiverVars == <<senderCh, ackIDs>>
vars == <<senderVars, data, acks, receiverVars>>

NoAcks == [ids |-> <<>>, size |-> 0]

Init ==
  /\ stage = [m \in Messages |-> "none"]
  /\ slot = [m \in Messages |-> CHOOSE s \in Slots : TRUE]
  /\ content = [s \in Slots |-> Zero]
  /\ pool = Slots
  /\ messages = {}
  /\ timer = [m \in Messages |-> "off"]
  /\ stop = {}
  /\ attempts = [m \in Messages |-> 0]
  /\ done = FALSE
  /\ data = {} /\ acks = {}
  /\ senderCh = <<>> /\ ackIDs = NoAcks
  /\ late = [m \in Messages |-> 0]
  /\ struck = {}

-----------------------------------------------------------------------------
(* Sending: the interface goroutine takes an object for the next packet,   *)
(* a handler goroutine writes it to the socket, then tells Retry.          *)

Read(m) ==
  /\ stage[m] = "none"
  /\ \A n \in Messages : n < m => stage[n] # "none"
  /\ \E s \in pool :
       /\ pool' = pool \ {s}
       /\ slot' = [slot EXCEPT ![m] = s]
       /\ content' = [content EXCEPT ![s] = m]
  /\ stage' = [stage EXCEPT ![m] = "queued"]
  /\ UNCHANGED <<messages, timer, stop, attempts, done, late, struck, data, acks, receiverVars>>

\* mutant: the object goes back to the pool once the packet is written
\* (adapter/server/tcp.go has that line commented out)
SendPuts(m) ==
  /\ stage[m] = "queued"
  /\ data' = data \union {content[slot[m]]}
  /\ pool' = pool \union {slot[m]}
  /\ stage' = [stage EXCEPT ![m] = "sent"]
  /\ UNCHANGED <<slot, content, messages, timer, stop, attempts, done, late, struck,
                 acks, receiverVars>>

Send(m) ==
  /\ stage[m] = "queued"
  /\ data' = data \union {content[slot[m]]}
  /\ stage' = [stage EXCEPT ![m] = "sent"]
  /\ UNCHANGED <<slot, content, pool, messages, timer, stop, attempts, done, late, struck,
                 acks, receiverVars>>

\* The socket or an encoder fails: Retry is not told, the object is dropped.
SendFails(m) ==
  /\ stage[m] = "queued"
  /\ stage' = [stage EXCEPT ![m] = "gone"]
  /\ UNCHANGED <<slot, content, pool, messages, timer, stop, attempts, done, late, struck,
                 data, acks, receiverVars>>

Push(m) ==
  /\ stage[m] = "sent"
  /\ messages' = messages \union {m}
  /\ timer' = [timer EXCEPT ![m] = "armed"]
  /\ stage' = [stage EXCEPT ![m] = "wait"]
  /\ UNCHANGED <<slot, content, pool, stop, attempts, done, late, struck, data, acks, receiverVars>>

-----------------------------------------------------------------------------
(* timer(): the goroutine of a message *)

\* The timer runs out.  It does so after seconds, the goroutine takes a signal
\* at once: not while the goroutine has one to take.
Fire(m) ==
  /\ stage[m] = "wait" /\ m \notin stop /\ ~done
  /\ timer[m] = "armed"
  /\ timer' = [timer EXCEPT ![m] = "fired"]
  /\ UNCHANGED <<stage, slot, content, pool, messages, stop, attempts, done, late, struck,
                 data, acks, receiverVars>>

\* mutant: timer.Reset is forgotten
TimerAfterResendOff == "off"

\* mutant: timer.Reset(0)
TimerAfterResendAtOnce == "fired"

TimerAfterResend == "armed"

BeforeMaxTimeout(m) == attempts[m] < MaxAttempts

Resend(m) ==
  /\ stage[m] = "wait" /\ timer[m] = "fired"
  /\ BeforeMaxTimeout(m)
  /\ data' = data \union {content[slot[m]]}
  /\ attempts' = [attempts EXCEPT ![m] = @ + 1]
  /\ timer' = [timer EXCEPT ![m] = TimerAfterResend]
  /\ late' = IF m \in stop THEN [late EXCEPT ![m] = @ + 1] ELSE late
  /\ UNCHANGED <<stage, slot, content, pool, messages, stop, done, struck, acks, receiverVars>>

\* MaxTimeout has passed since Push, or stop, or ctx.Done
MayLeave(m) ==
  \/ timer[m] = "fired"
  \/ m \in stop
  \/ done

Leave(m) ==
  /\ stage[m] = "wait" /\ MayLeave(m)
  /\ stage' = [stage EXCEPT ![m] = "leaving"]
  /\ timer' = [timer EXCEPT ![m] = "off"]       \* nobody looks at it again, nor at
  /\ attempts' = [attempts EXCEPT ![m] = 0]
  /\ stop' = stop \ {m}
  /\ UNCHANGED <<slot, content, pool, messages, done, late, struck, data, acks, receiverVars>>

\* The deferred call puts the object back first, ...
Put(m) ==
  /\ stage[m] = "leaving"
  /\ content' = [content EXCEPT ![slot[m]] = Zero]
  /\ pool' = pool \union {slot[m]}
  /\ stage' = [stage EXCEPT ![m] = "put"]
  /\ UNCHANGED <<slot, messages, timer, stop, attempts, done, late, struck, data, acks, receiverVars>>

\* ... then deletes the key the object has now: none, or that of the message that took
\* the object from the pool in between.
Delete(m) ==
  /\ stage[m] = "put"
  /\ messages' = messages \ {content[slot[m]]}
  /\ struck' = struck \union ({content[slot[m]]} \ {Zero, m})
  /\ stage' = [stage EXCEPT ![m] = "gone"]
  /\ UNCHANGED <<slot, content, pool, timer, stop, attempts, done, late, data, acks, receiverVars>>

-----------------------------------------------------------------------------
(* Ack(): an acknowledgement comes in, once or more often, or is lost. *)

\* mutant: the goroutine is not told
SignalledNot(ids) == {}

Signalled(ids) == {m \in ids \intersect messages : stage[m] = "wait"}

Ack(ids) ==
  /\ ids \in acks
  /\ messages' = messages \ ids
  /\ timer' = [m \in Messages |->
                 IF m \in Signalled(ids) /\ timer[m] = "armed" THEN "off" ELSE timer[m]]
  /\ stop' = stop \union Signalled(ids)
  /\ UNCHANGED <<stage, slot, content, pool, attempts, done, late, struck, data, acks, receiverVars>>

Stop ==
  /\ ~done
  /\ done' = TRUE
  /\ UNCHANGED <<stage, slot, content, pool, messages, timer, stop, attempts, late, struck,
                 data, acks, receiverVars>>

-----------------------------------------------------------------------------
(* The receiver: every data message, a repeated one too, is acknowledged.  *)

Receive(m) ==
  /\ m \in data
  /\ Len(senderCh) < SenderChSize
  /\ senderCh' = Append(senderCh, m)
  /\ UNCHANGED <<senderVars, data, acks, ackIDs>>

\* MessageAcknowledgement.Push
OfEndpoint(a, m) == {i \in DOMAIN a.ids : Endpoint[a.ids[i]] = Endpoint[m]}

Grown(a, m) == a.size + IDSize + (IF OfEndpoint(a, m) = {} THEN EndpointSize ELSE 0)

\* mutant: the endpoint's own bytes are not counted
HasRoomForID(a, m) ==
  /\ a.size + IDSize <= MaxSize
  /\ Cardinality(OfEndpoint(a, m)) < MaxUint8

HasRoom(a, m) ==
  /\ Grown(a, m) <= MaxSize
  /\ Cardinality(OfEndpoint(a, m)) < MaxUint8

Added(a, m) == [ids |-> Append(a.ids, m), size |-> Grown(a, m)]

\* mutant: the identifier that did not fit is forgotten
AfterFullDropped(m) == NoAcks

\* what is collected after a batch went out because m did not fit
AfterFull(m) == IF HasRoom(NoAcks, m) THEN Added(NoAcks, m) ELSE NoAcks

\* sendACK: nothing goes out when nothing was collected
Transmitted(a) == IF a.size = 0 THEN acks ELSE acks \union {ToSet(a.ids)}

\* The accumulator takes an identifier; elapsed: the part of the RTO has passed
\* since the first one.
Accumulate(elapsed) ==
  /\ senderCh # <<>>
  /\ senderCh' = Tail(senderCh)
  /\ LET m == Head(senderCh)
         a == IF HasRoom(ackIDs, m) THEN Added(ackIDs, m) ELSE ackIDs
         sends == elapsed \/ ~HasRoom(ackIDs, m)
     IN  /\ acks' = IF sends THEN Transmitted(a) ELSE acks
         /\ ackIDs' = IF ~sends THEN a
                      ELSE IF HasRoom(ackIDs, m) THEN NoAcks ELSE AfterFull(m)
  /\ UNCHANGED <<senderVars, data>>

\* Nothing came for the part of the RTO.
Flush ==
  /\ senderCh = <<>> /\ ackIDs # NoAcks
  /\ acks' = Transmitted(ackIDs)
  /\ ackIDs' = NoAcks
  /\ UNCHANGED <<senderVars, data, senderCh>>

-----------------------------------------------------------------------------

TimerStep(m) == Fire(m) \/ Resend(m) \/ Leave(m) \/ Put(m) \/ Delete(m)

Next ==
  \/ \E m \in Messages : Read(m) \/ Send(m) \/ SendFails(m) \/ Push(m)
  \/ \E m \in Messages : Fire(m) \/ Resend(m) \/ Leave(m) \/ Put(m) \/ Delete(m)
  \/ \E ids \in SUBSET Messages : Ack(ids)
  \/ Stop
  \/ \E m \in Messages : Receive(m)
  \/ Accumulate(FALSE)
  \/ Accumulate(TRUE)
  \/ Flush

Spec == Init /\ [][Next]_vars

\* Timers run out, goroutines run, and the accumulator's waiting time passes:
\* a batch that waits goes out by one of the two.
Fairness ==
  /\ \A m \in Messages : WF_vars(Send(m)) /\ WF_vars(Push(m)) /\ WF_vars(TimerStep(m))
  /\ WF_vars(Accumulate(FALSE) \/ Accumulate(TRUE))
  /\ SF_vars(Accumulate(TRUE) \/ Flush)

FairSpec == Spec /\ Fairness

-----------------------------------------------------------------------------
(* Properties *)

\* messages whose goroutines still use their object
Using == {m \in Messages : stage[m] \in {"queued", "sent", "wait", "leaving"}}

\* An object serves one message at a time, which it holds until its goroutine
\* is done: what is sent again is what was sent.
SlotsApart ==
  \A m \in Using :
    /\ content[slot[m]] = m
    /\ slot[m] \notin pool
    /\ \A n \in Using : slot[n] = slot[m] => n = m

\* A message that waits for its acknowledgement is in the map Ack looks in,
\* unless a goroutine on its way out deleted a key that was not its own.
EntryKept ==
  \A m \in Messages :
    stage[m] = "wait" /\ m \notin stop => m \in messages \/ m \in struck

\* Once its acknowledgement came in, a message goes out at most once more: when
\* the timer had run out and select takes it first.
OneLateResend == \A m \in Messages : late[m] <= 1

Fits(a) ==
  /\ a.size = EndpointSize * Cardinality({Endpoint[m] : m \in ToSet(a.ids)})
              + IDSize * Len(a.ids)
  /\ a.size <= MaxSize
  /\ \A m \in ToSet(a.ids) : Cardinality(OfEndpoint(a, m)) <= MaxUint8

\* The size kept while identifiers are collected is what MarshalAcknowledgement
\* writes, and a batch fits: its bytes in a packet, and the identifiers of an
\* endpoint in the byte that counts them.
AckFits == Fits(ackIDs)

\* Every message sent is settled, by an acknowledgement, by MaxTimeout or by
\* Stop, and its goroutine ends.
EverySettled == \A m \in Messages : (stage[m] = "queued") ~> (stage[m] = "gone")

\* Every identifier handed to the accumulator leaves in an acknowledgement:
\* none is forgotten when a batch is full.
ReceivedIsAcked ==
  \A m \in Messages : (m \in ToSet(senderCh)) ~> (\E ids \in acks : m \in ids)
=============================================================================
