------------------------------ MODULE LinkProofs ------------------------------
(***************************************************************************)
(* Proofs about one direction of a UDP connection, for every value of the  *)
(* constants: acknowledgements fit their packet, an object of the pool     *)
(* serves one message at a time, a message that waits can be acknowledged, *)
(* and goes out at most once after it was.                                 *)
(***************************************************************************)
EXTENDS Link, FiniteSetTheorems, TLAPS

EndpointsOf(S) == {Endpoint[m] : m \in S}

\* What a collection of acknowledgements is, between two identifiers.
AckInv(a) == a \in [ids : Seq(Messages), size : Nat] /\ Fits(a)

\* The type of what the steps of one message's goroutine look at.
GoroutineType ==
  /\ stage \in [Messages -> {"none", "queued", "sent", "wait", "leaving", "put", "gone"}]
  /\ slot \in [Messages -> Slots]
  /\ content \in [Slots -> Messages \union {Zero}]
  /\ timer \in [Messages -> {"off", "armed", "fired"}]
  /\ attempts \in [Messages -> 0 .. MaxAttempts]
  /\ late \in [Messages -> Nat]

\* Why a message goes out once more at most: a signalled goroutine whose timer
\* has not fired resends no more, and the one resend after the signal arms it.
LateOnce ==
  \A m \in Messages :
    /\ late[m] <= 1
    /\ stage[m] \in {"none", "queued", "sent"} => late[m] = 0
    /\ stage[m] = "wait" /\ m \notin stop => late[m] = 0
    /\ stage[m] = "wait" /\ late[m] = 1 => timer[m] # "fired"

GoroutineInv == GoroutineType /\ pool \subseteq Slots /\ SlotsApart /\ EntryKept /\ LateOnce

ReceiverInv == senderCh \in Seq(Messages) /\ AckInv(ackIDs)

LinkInv == GoroutineInv /\ ReceiverInv

-----------------------------------------------------------------------------
(* Collecting identifiers *)

LEMMA EndpointsFinite ==
  ASSUME NEW S \in SUBSET Messages
  PROVE  IsFiniteSet(EndpointsOf(S))
<1> DEFINE T == EndpointsOf(Messages)
           f == [m \in Messages |-> Endpoint[m]]
<1>1. IsFiniteSet(Messages)
  BY FS_Interval, LinkAssumption DEF Messages, LinkAssumption
<1>2. f \in Surjection(Messages, T)
  BY DEF Surjection, EndpointsOf
<1>3. IsFiniteSet(T)
  <2> HIDE DEF f, T
  <2> QED  BY <1>1, <1>2, FS_Surjection
<1>4. EndpointsOf(S) \in SUBSET T
  BY DEF EndpointsOf
<1> HIDE DEF T
<1> QED  BY <1>3, <1>4, FS_Subset

LEMMA NoAcksFit == AckInv(NoAcks)
<1>1. NoAcks \in [ids : Seq(Messages), size : Nat]
  BY DEF NoAcks
<1>2. ToSet(NoAcks.ids) = {} /\ Len(NoAcks.ids) = 0 /\ NoAcks.size = 0
  BY DEF NoAcks, ToSet
<1>3. {Endpoint[m] : m \in ToSet(NoAcks.ids)} = {}
  BY <1>2
<1>4. Cardinality({}) = 0
  BY FS_EmptySet
<1>5. MaxSize \in Nat
  BY LinkAssumption DEF LinkAssumption
<1>6. Fits(NoAcks)
  <2>1. Cardinality({Endpoint[m] : m \in ToSet(NoAcks.ids)}) = 0
    BY <1>3, <1>4
  <2>2. NoAcks.size = EndpointSize * 0 + IDSize * Len(NoAcks.ids)
    BY <1>2 DEF EndpointSize, IDSize
  <2> QED  BY <2>1, <2>2, <1>2, <1>5 DEF Fits
<1> QED  BY <1>1, <1>6 DEF AckInv

LEMMA AddedFits ==
  ASSUME NEW a, AckInv(a), NEW m \in Messages, HasRoom(a, m)
  PROVE  AckInv(Added(a, m))
<1> DEFINE b == Added(a, m)
           E == EndpointsOf(ToSet(a.ids))
           n == Len(a.ids)
<1>1. /\ a.ids \in Seq(Messages) /\ a.size \in Nat
      /\ b.ids = Append(a.ids, m) /\ b.size = Grown(a, m)
      /\ b = [ids |-> b.ids, size |-> b.size]
  BY DEF AckInv, Added
<1>2. /\ b.ids \in Seq(Messages) /\ Len(b.ids) = n + 1 /\ n \in Nat
      /\ DOMAIN a.ids = 1 .. n /\ DOMAIN b.ids = 1 .. n + 1
      /\ \A i \in 1 .. n : b.ids[i] = a.ids[i]
      /\ b.ids[n + 1] = m
  BY <1>1
<1>3. ToSet(b.ids) = ToSet(a.ids) \union {m} /\ ToSet(a.ids) \subseteq Messages
  BY <1>1, <1>2 DEF ToSet
<1>4. EndpointsOf(ToSet(b.ids)) = E \union {Endpoint[m]}
  BY <1>3 DEF EndpointsOf
<1>5. OfEndpoint(a, m) = {} <=> Endpoint[m] \notin E
  BY DEF OfEndpoint, EndpointsOf, ToSet
<1>6. IsFiniteSet(E) /\ Cardinality(E) \in Nat
  BY <1>3, EndpointsFinite, FS_CardinalityType
<1>7. Cardinality(E \union {Endpoint[m]}) =
        IF Endpoint[m] \in E THEN Cardinality(E) ELSE Cardinality(E) + 1
  <2> HIDE DEF E
  <2> QED  BY <1>6, FS_AddElement
<1>8. a.size = EndpointSize * Cardinality(E) + IDSize * n
  BY DEF AckInv, Fits, EndpointsOf
<1>9. b.size = EndpointSize * Cardinality(EndpointsOf(ToSet(b.ids))) + IDSize * Len(b.ids)
  <2> HIDE DEF E, n, b
  <2>1. b.size = a.size + IDSize + (IF Endpoint[m] \in E THEN 0 ELSE EndpointSize)
    BY <1>1, <1>5 DEF Grown
  <2> QED  BY <2>1, <1>2, <1>4, <1>6, <1>7, <1>8 DEF EndpointSize, IDSize
<1>10. b.size <= MaxSize /\ b.size \in Nat
  BY <1>1 DEF HasRoom, Grown, EndpointSize, IDSize
<1>11. ASSUME NEW x \in ToSet(b.ids)
       PROVE  Cardinality(OfEndpoint(b, x)) <= MaxUint8
  <2>1. CASE Endpoint[x] = Endpoint[m]
    <3>1. OfEndpoint(b, x) = OfEndpoint(a, m) \union {n + 1}
      BY <1>2, <2>1 DEF OfEndpoint
    <3>2. n + 1 \notin OfEndpoint(a, m) /\ OfEndpoint(a, m) \in SUBSET (1 .. n)
      BY <1>2 DEF OfEndpoint
    <3>3. IsFiniteSet(OfEndpoint(a, m))
      <4>1. IsFiniteSet(1 .. n)
        BY <1>2, FS_Interval
      <4> QED  BY <4>1, <3>2, FS_Subset
    <3>4. Cardinality(OfEndpoint(b, x)) = Cardinality(OfEndpoint(a, m)) + 1
      BY <3>1, <3>2, <3>3, FS_AddElement
    <3>5. Cardinality(OfEndpoint(a, m)) < MaxUint8 /\ Cardinality(OfEndpoint(a, m)) \in Nat
      BY <3>3, FS_CardinalityType DEF HasRoom
    <3> QED  BY <3>4, <3>5, LinkAssumption DEF LinkAssumption
  <2>2. CASE Endpoint[x] # Endpoint[m]
    <3>1. OfEndpoint(b, x) = OfEndpoint(a, x) /\ x \in ToSet(a.ids)
      BY <1>2, <1>3, <2>2 DEF OfEndpoint
    <3> QED  BY <3>1 DEF AckInv, Fits
  <2> QED  BY <2>1, <2>2
<1>12. b \in [ids : Seq(Messages), size : Nat]
  BY <1>1, <1>2, <1>10
<1> HIDE DEF b
<1>13. Fits(b)
  BY <1>9, <1>10, <1>11 DEF Fits, EndpointsOf
<1> QED  BY <1>12, <1>13 DEF AckInv, b

LEMMA AfterFullFits ==
  ASSUME NEW m \in Messages
  PROVE  AckInv(AfterFull(m))
BY NoAcksFit, AddedFits DEF AfterFull

LEMMA ReceiverStep ==
  ASSUME ReceiverInv, [Next]_vars
  PROVE  ReceiverInv'
<1> USE DEF ReceiverInv
<1>1. ASSUME NEW m \in Messages, Receive(m)
      PROVE  ReceiverInv'
  <2>1. senderCh' = Append(senderCh, m) /\ ackIDs' = ackIDs
    BY <1>1 DEF Receive
  <2>2. senderCh' \in Seq(Messages)
    BY <2>1
  <2> QED  BY <2>1, <2>2 DEF AckInv, Fits, OfEndpoint
<1>2. ASSUME NEW elapsed \in BOOLEAN, Accumulate(elapsed)
      PROVE  ReceiverInv'
  <2> DEFINE m == Head(senderCh)
  <2>1. senderCh' \in Seq(Messages) /\ m \in Messages
    BY <1>2 DEF Accumulate, ReceiverInv
  <2>2. /\ AckInv(ackIDs) /\ AckInv(NoAcks) /\ AckInv(AfterFull(m))
        /\ HasRoom(ackIDs, m) => AckInv(Added(ackIDs, m))
    BY <2>1, NoAcksFit, AfterFullFits, AddedFits DEF ReceiverInv
  <2>3. \/ ackIDs' \in {ackIDs, NoAcks, AfterFull(m)}
        \/ /\ HasRoom(ackIDs, m)
           /\ ackIDs' = Added(ackIDs, m)
    BY <1>2 DEF Accumulate
  <2>4. \A a : ackIDs' = a /\ AckInv(a) => AckInv(ackIDs)'
    BY DEF AckInv, Fits, OfEndpoint
  <2> HIDE DEF m
  <2>5. AckInv(ackIDs)'
    BY <2>2, <2>3, <2>4
  <2> QED  BY <2>1, <2>5 DEF ReceiverInv
<1>3. CASE Flush
  <2>1. ackIDs' = NoAcks /\ senderCh' = senderCh
    BY <1>3 DEF Flush
  <2> QED  BY <2>1, NoAcksFit DEF ReceiverInv, AckInv, Fits, OfEndpoint
<1>4. CASE UNCHANGED receiverVars
  BY <1>4 DEF receiverVars, ReceiverInv, AckInv, Fits, OfEndpoint
<1>5. \/ \E m \in Messages : Receive(m)
      \/ \E elapsed \in BOOLEAN : Accumulate(elapsed)
      \/ Flush
      \/ UNCHANGED receiverVars
  BY DEF Next, vars, Read, Send, SendFails, Push, Fire, Resend, Leave, Put, Delete,
         Ack, Stop
<1> QED  BY <1>1, <1>2, <1>3, <1>4, <1>5
-----------------------------------------------------------------------------
(* Goroutines, objects and keys: one step an action of the sender *)

LEMMA GoroutineInit == Init => GoroutineInv
<1> SUFFICES ASSUME Init PROVE GoroutineInv
  OBVIOUS
<1>1. (CHOOSE s \in Slots : TRUE) \in Slots
  BY LinkAssumption DEF LinkAssumption
<1>2. GoroutineType
  BY <1>1, LinkAssumption DEF Init, GoroutineType, Zero, LinkAssumption
<1>3. SlotsApart /\ EntryKept /\ LateOnce
  BY DEF Init, SlotsApart, Using, EntryKept, LateOnce
<1> QED  BY <1>2, <1>3 DEF Init, GoroutineInv

LEMMA ReadKeeps ==
  ASSUME GoroutineInv, NEW m \in Messages, Read(m)
  PROVE  GoroutineInv'
<1> USE DEF GoroutineInv, Zero
<1>1. GoroutineType' /\ pool' \subseteq Slots
  BY LinkAssumption DEF Read, GoroutineType, LinkAssumption
<1>2. SlotsApart'
  BY DEF Read, GoroutineType, SlotsApart, Using
<1>3. EntryKept'
  BY DEF Read, GoroutineType, EntryKept
<1>4. LateOnce'
  BY DEF Read, GoroutineType, LateOnce
<1> QED  BY <1>1, <1>2, <1>3, <1>4

LEMMA SendKeeps ==
  ASSUME GoroutineInv, NEW m \in Messages, Send(m)
  PROVE  GoroutineInv'
<1> USE DEF GoroutineInv, Zero
<1>1. GoroutineType' /\ pool' \subseteq Slots
  BY LinkAssumption DEF Send, GoroutineType, LinkAssumption
<1>2. SlotsApart'
  BY DEF Send, GoroutineType, SlotsApart, Using
<1>3. EntryKept'
  BY DEF Send, GoroutineType, EntryKept
<1>4. LateOnce'
  BY DEF Send, GoroutineType, LateOnce
<1> QED  BY <1>1, <1>2, <1>3, <1>4

LEMMA SendFailsKeeps ==
  ASSUME GoroutineInv, NEW m \in Messages, SendFails(m)
  PROVE  GoroutineInv'
<1> USE DEF GoroutineInv, Zero
<1>1. GoroutineType' /\ pool' \subseteq Slots
  BY LinkAssumption DEF SendFails, GoroutineType, LinkAssumption
<1>2. SlotsApart'
  BY DEF SendFails, GoroutineType, SlotsApart, Using
<1>3. EntryKept'
  BY DEF SendFails, GoroutineType, EntryKept
<1>4. LateOnce'
  BY DEF SendFails, GoroutineType, LateOnce
<1> QED  BY <1>1, <1>2, <1>3, <1>4

LEMMA PushKeeps ==
  ASSUME GoroutineInv, NEW m \in Messages, Push(m)
  PROVE  GoroutineInv'
<1> USE DEF GoroutineInv, Zero
<1>1. GoroutineType' /\ pool' \subseteq Slots
  BY LinkAssumption DEF Push, GoroutineType, LinkAssumption
<1>2. SlotsApart'
  BY DEF Push, GoroutineType, SlotsApart, Using
<1>3. EntryKept'
  BY DEF Push, GoroutineType, EntryKept
<1>4. LateOnce'
  BY DEF Push, GoroutineType, LateOnce
<1> QED  BY <1>1, <1>2, <1>3, <1>4

LEMMA FireKeeps ==
  ASSUME GoroutineInv, NEW m \in Messages, Fire(m)
  PROVE  GoroutineInv'
<1> USE DEF GoroutineInv, Zero
<1>1. GoroutineType' /\ pool' \subseteq Slots
  BY LinkAssumption DEF Fire, GoroutineType, LinkAssumption
<1>2. SlotsApart'
  BY DEF Fire, GoroutineType, SlotsApart, Using
<1>3. EntryKept'
  BY DEF Fire, GoroutineType, EntryKept
<1>4. LateOnce'
  BY DEF Fire, GoroutineType, LateOnce
<1> QED  BY <1>1, <1>2, <1>3, <1>4

LEMMA ResendKeeps ==
  ASSUME GoroutineInv, NEW m \in Messages, Resend(m)
  PROVE  GoroutineInv'
<1> USE DEF GoroutineInv, Zero
<1>1. GoroutineType' /\ pool' \subseteq Slots
  BY LinkAssumption DEF Resend, BeforeMaxTimeout, TimerAfterResend, GoroutineType, LinkAssumption
<1>2. SlotsApart'
  BY DEF Resend, BeforeMaxTimeout, TimerAfterResend, GoroutineType, SlotsApart, Using
<1>3. EntryKept'
  BY DEF Resend, BeforeMaxTimeout, TimerAfterResend, GoroutineType, EntryKept
<1>4. LateOnce'
  BY DEF Resend, BeforeMaxTimeout, TimerAfterResend, GoroutineType, LateOnce
<1> QED  BY <1>1, <1>2, <1>3, <1>4

LEMMA LeaveKeeps ==
  ASSUME GoroutineInv, NEW m \in Messages, Leave(m)
  PROVE  GoroutineInv'
<1> USE DEF GoroutineInv, Zero
<1>1. GoroutineType' /\ pool' \subseteq Slots
  BY LinkAssumption DEF Leave, MayLeave, GoroutineType, LinkAssumption
<1>2. SlotsApart'
  BY DEF Leave, MayLeave, GoroutineType, SlotsApart, Using
<1>3. EntryKept'
  BY DEF Leave, MayLeave, GoroutineType, EntryKept
<1>4. LateOnce'
  BY DEF Leave, MayLeave, GoroutineType, LateOnce
<1> QED  BY <1>1, <1>2, <1>3, <1>4

LEMMA PutKeeps ==
  ASSUME GoroutineInv, NEW m \in Messages, Put(m)
  PROVE  GoroutineInv'
<1> USE DEF GoroutineInv, Zero
<1>1. GoroutineType' /\ pool' \subseteq Slots
  BY LinkAssumption DEF Put, GoroutineType, LinkAssumption
<1>2. SlotsApart'
  BY DEF Put, GoroutineType, SlotsApart, Using
<1>3. EntryKept'
  BY DEF Put, GoroutineType, EntryKept
<1>4. LateOnce'
  BY DEF Put, GoroutineType, LateOnce
<1> QED  BY <1>1, <1>2, <1>3, <1>4

LEMMA DeleteKeeps ==
  ASSUME GoroutineInv, NEW m \in Messages, Delete(m)
  PROVE  GoroutineInv'
<1> USE DEF GoroutineInv, Zero
<1>1. GoroutineType' /\ pool' \subseteq Slots
  BY LinkAssumption DEF Delete, GoroutineType, LinkAssumption
<1>2. SlotsApart'
  BY DEF Delete, GoroutineType, SlotsApart, Using
<1>3. EntryKept'
  <2>1. Zero \notin Messages
    BY LinkAssumption DEF Messages, LinkAssumption
  <2> QED  BY <2>1 DEF Delete, GoroutineType, EntryKept
<1>4. LateOnce'
  BY DEF Delete, GoroutineType, LateOnce
<1> QED  BY <1>1, <1>2, <1>3, <1>4

LEMMA AckKeeps ==
  ASSUME GoroutineInv, NEW ids \in SUBSET Messages, Ack(ids)
  PROVE  GoroutineInv'
<1> USE DEF GoroutineInv, Zero
<1>1. GoroutineType' /\ pool' \subseteq Slots
  BY LinkAssumption DEF Ack, Signalled, GoroutineType, LinkAssumption
<1>2. SlotsApart'
  BY DEF Ack, Signalled, GoroutineType, SlotsApart, Using
<1>3. EntryKept'
  BY DEF Ack, Signalled, GoroutineType, EntryKept
<1>4. LateOnce'
  BY DEF Ack, Signalled, GoroutineType, LateOnce
<1> QED  BY <1>1, <1>2, <1>3, <1>4

LEMMA StopKeeps ==
  ASSUME GoroutineInv, Stop
  PROVE  GoroutineInv'
<1> USE DEF GoroutineInv, Zero
<1>1. GoroutineType' /\ pool' \subseteq Slots
  BY LinkAssumption DEF Stop, GoroutineType, LinkAssumption
<1>2. SlotsApart'
  BY DEF Stop, GoroutineType, SlotsApart, Using
<1>3. EntryKept'
  BY DEF Stop, GoroutineType, EntryKept
<1>4. LateOnce'
  BY DEF Stop, GoroutineType, LateOnce
<1> QED  BY <1>1, <1>2, <1>3, <1>4

LEMMA GoroutineStep ==
  ASSUME GoroutineInv, [Next]_vars
  PROVE  GoroutineInv'
<1>1. CASE UNCHANGED <<stage, slot, content, pool, messages, timer, stop, attempts, late, struck>>
  BY <1>1 DEF GoroutineInv, GoroutineType, SlotsApart, Using, EntryKept, LateOnce
<1>2. \/ \E m \in Messages :
           \/ Read(m) \/ Send(m) \/ SendFails(m) \/ Push(m)
           \/ Fire(m) \/ Resend(m) \/ Leave(m) \/ Put(m) \/ Delete(m)
      \/ \E ids \in SUBSET Messages : Ack(ids)
      \/ Stop
      \/ UNCHANGED <<stage, slot, content, pool, messages, timer, stop, attempts, late, struck>>
  BY DEF Next, vars, senderVars, Receive, Accumulate, Flush
<1> QED
  BY <1>1, <1>2, ReadKeeps, SendKeeps, SendFailsKeeps, PushKeeps, FireKeeps, ResendKeeps,
     LeaveKeeps, PutKeeps, DeleteKeeps, AckKeeps, StopKeeps

-----------------------------------------------------------------------------
(* The theorems *)

\* Objects, keys and acknowledgements are as GoroutineInv and ReceiverInv say,
\* whatever the network does.
THEOREM LinkInvariant == Spec => []LinkInv
<1>1. Init => LinkInv
  <2>1. ASSUME Init PROVE ReceiverInv
    <3>1. ackIDs = NoAcks /\ senderCh = <<>>
      BY <2>1 DEF Init
    <3> QED  BY <3>1, NoAcksFit DEF ReceiverInv
  <2> QED  BY <2>1, GoroutineInit DEF LinkInv
<1>2. LinkInv /\ [Next]_vars => LinkInv'
  BY GoroutineStep, ReceiverStep DEF LinkInv
<1> QED  BY <1>1, <1>2, PTL DEF Spec

\* An object of MessagePool serves one message at a time, until the goroutine
\* of that message puts it back: what is sent again is what was sent.
THEOREM LinkSlotsApart == Spec => []SlotsApart
<1>1. LinkInv => SlotsApart
  BY DEF LinkInv, GoroutineInv
<1> QED  BY <1>1, LinkInvariant, PTL

\* A message that waits can be acknowledged: Ack finds its key, but where the
\* goroutine of an earlier user of its object deleted it.
THEOREM LinkEntryKept == Spec => []EntryKept
<1>1. LinkInv => EntryKept
  BY DEF LinkInv, GoroutineInv
<1> QED  BY <1>1, LinkInvariant, PTL

\* After its acknowledgement came in, a message goes out at most once more.
THEOREM LinkOneLateResend == Spec => []OneLateResend
<1>1. LinkInv => OneLateResend
  BY DEF LinkInv, GoroutineInv, LateOnce, OneLateResend
<1> QED  BY <1>1, LinkInvariant, PTL

\* An acknowledgement is never larger than its packet, nor names more messages
\* of an endpoint than its count can say, for every order of identifiers.
THEOREM LinkAckFits == Spec => []AckFits
<1>1. LinkInv => AckFits
  BY DEF LinkInv, ReceiverInv, AckInv, AckFits
<1> QED  BY <1>1, LinkInvariant, PTL
===============================================================================
