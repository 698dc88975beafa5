------------------------------- MODULE Stream -------------------------------
(***************************************************************************)
(* One stream of the merger: the goroutine that puts the messages of one   *)
(* endpoint back in order (adapter/merger/stream.v1.go, stream.v2.go), fed *)
(* by a network that repeats, reorders and delays the peer's messages.     *)
(*                                                                         *)
(* V1 (one goroutine a session, a waiting list an endpoint) and V2 (one    *)
(* goroutine an endpoint) treat a message alike but for the first one.     *)
(***************************************************************************)
EXTENDS WaitingList, FiniteSets

CONSTANTS
  ThreadingBy,   (* "session" = V1, "endpoint" = V2                         *)
  Window,        (* bound: only the last Window messages sent still travel   *)
  MaxTime        (* bound: the last second of the clock                      *)

ASSUME StreamAssumption ==
  /\ ThreadingBy \in {"session", "endpoint"}
  /\ Window \in Nat \ {0}
  /\ MaxTime \in Nat \ {0}

VARIABLES
  wl,            (* the waiting list                                         *)
  now,           (* time.Now().Unix()                                        *)
  fatal,         (* log.Fatalf was called: the process is gone               *)
  sent,          (* the peer has sent messages 1 .. sent                     *)
  \* what happened so far, for the properties
  arrived,       (* messages that came in                                    *)
  delivered,     (* messages handed to the receiver, in order                *)
  forced,        (* those of them a reset handed over                        *)
  lost,          (* messages discarded that were never delivered nor waiting *)
  since          (* waiting message -> when it was pushed                    *)

vars == <<wl, now, fatal, sent, arrived, delivered, forced, lost, since>>

waiting == ToSet(wl.data)

Init ==
  /\ wl = NewWaitingList
  /\ now = 1
  /\ fatal = FALSE
  /\ sent = 0
  /\ arrived = {}
  /\ delivered = <<>>
  /\ forced = {}
  /\ lost = {}
  /\ since = <<>>

-----------------------------------------------------------------------------
(* The peer, the clock and the network *)

\* The peer's interface numbers the next packet of the endpoint.
Emit ==
  /\ sent < MaxMsg
  /\ sent' = sent + 1
  /\ UNCHANGED <<wl, now, fatal, arrived, delivered, forced, lost, since>>

Tick ==
  /\ now < MaxTime
  /\ now' = now + 1
  /\ UNCHANGED <<wl, fatal, sent, arrived, delivered, forced, lost, since>>

\* A message sent, and not too long ago, may come in: late, or once more.
Arrives(m) ==
  /\ ~fatal
  /\ m <= sent /\ m > sent - Window
  /\ arrived' = arrived \union {m}
  /\ UNCHANGED <<now, sent>>

-----------------------------------------------------------------------------
(* The body of the loop *)

\* mutants: a message already sent is let in; 0 after MaxUint32 is not
IsDuplicateWaiting(w, m) == Exists(w, m)
IsDuplicateAtWrap(w, m) == w.lastID >= ID(m) \/ Exists(w, m)

IsDuplicate(w, m) ==
  \/ w.lastID >= ID(m) /\ w.lastID < MaxUint32
  \/ Exists(w, m)

\* isThisFirstMessage(): V2 starts with whatever comes first, V1 with 1.
StartsStream(w, m) ==
  ~w.firstSent /\ (ThreadingBy = "endpoint" \/ ID(m) = 1)

\* mutant: any later message counts as the next
FollowsLastAtAll(w, m) ==
  w.firstSent /\ (ID(m) >= Succ(w.lastID) \/ ID(m) = 0)

FollowsLast(w, m) ==
  w.firstSent /\ (ID(m) = Succ(w.lastID) \/ ID(m) = 0)

\* pop(req), or else req is the next one or the first one
SentAtOnce(w, m) == CanPop(w) \/ StartsStream(w, m) \/ FollowsLast(w, m)

Duplicate(m) ==
  /\ Arrives(m)
  /\ IsDuplicate(wl, m)
  /\ lost' = IF m \in ToSet(delivered) \union waiting THEN lost
             ELSE lost \union {m}
  /\ UNCHANGED <<wl, fatal, delivered, forced, since>>

\* pop(req) sends req and then the head of the list, whatever it is after req;
\* send(req) and pop(nil) send the head only when it follows req.
Deliver(m) ==
  /\ Arrives(m)
  /\ ~IsDuplicate(wl, m)
  /\ SentAtOnce(wl, m)
  /\ LET w == Send(wl, m)
         popping == CanPop(wl)
         run == IF popping THEN Run(w) ELSE PoppedRun(w)
     IN  /\ wl' = IF popping THEN PopRun(w) ELSE Popped(w)
         /\ delivered' = delivered \o <<m>> \o run
         /\ since' = Restrict(since, DOMAIN since \ ToSet(run))
  /\ UNCHANGED <<fatal, forced, lost>>

Hold(m) ==
  /\ Arrives(m)
  /\ ~IsDuplicate(wl, m)
  /\ ~SentAtOnce(wl, m)
  /\ IF PushFails(wl, m)
     THEN /\ fatal' = TRUE
          /\ UNCHANGED <<wl, delivered, forced, since>>
     ELSE LET w == Push(wl, m, now)
              expired == LimitExceeded(w, now)
          IN  /\ wl' = IF expired THEN Reset(w) ELSE w
              /\ delivered' = IF expired THEN delivered \o w.data ELSE delivered
              /\ forced' = IF expired THEN forced \union ToSet(w.data) ELSE forced
              /\ since' = IF expired THEN <<>>
                          ELSE [k \in DOMAIN since \union {m} |->
                                  IF k = m THEN now ELSE since[k]]
              /\ UNCHANGED fatal
  /\ UNCHANGED lost

Receive(m) == Duplicate(m) \/ Deliver(m) \/ Hold(m)

Next ==
  \/ Emit
  \/ Tick
  \/ \E m \in Messages : Duplicate(m)
  \/ \E m \in Messages : Deliver(m)
  \/ \E m \in Messages : Hold(m)

Spec == Init /\ [][Next]_vars

\* The peer keeps sending, and retransmits each message until it arrives.
Fairness ==
  /\ WF_vars(Emit)
  /\ \A m \in Messages : WF_vars(Receive(m))

FairSpec == Spec /\ Fairness

-----------------------------------------------------------------------------
(* Properties *)

LastDelivered == IF delivered = <<>> THEN 0 ELSE Last(delivered)

\* What the list keeps about its messages agrees whatever push, pop and reset
\* did: the slice is sorted by identifier (push inserts by uint32 distance) and
\* idsMap, the duplicate test, holds exactly its identifiers.
ListConsistent ==
  /\ Sorted(wl.data)
  /\ wl.idsMap = {ID(m) : m \in waiting}

\* Between two messages the head of the list is never ready to go: pop(req)
\* would send req before it, out of order.
HeadNotReady == ~CanPop(wl)

\* push never fails to find a place, so the stream never ends the process.
NeverFatal == ~fatal

\* The stream implements the promise of OrderedDelivery: increasing order, no
\* repetition, no invention (while identifiers do not wrap).
OD == INSTANCE OrderedDelivery WITH received <- arrived
Ordered == OD!Spec

\* What the receiver misses has a reason.  A message that came in is discarded
\* unseen only if a reset already handed over a later one, or (V2) the stream
\* started with a later one, or its identifier is one of those after the wrap,
\* small again; and the stream leaves a hole in the numbering only where a reset
\* gave up on the missing messages.
LossExplained ==
  /\ \A m \in lost :
       \/ \E f \in forced : m < f
       \/ m > MaxUint32
       \/ ThreadingBy = "endpoint" /\ delivered # <<>> /\ m < delivered[1]
  /\ \A i \in 1 .. Len(delivered) - 1 :
       delivered[i + 1] # delivered[i] + 1 => delivered[i + 1] \in forced

\* The message after the last one delivered goes out the moment it comes in,
\* across the wrap of the identifier too.
NextAtOnce ==
  [][\A m \in Messages \ arrived :
       Receive(m) /\ delivered # <<>> /\ m = LastDelivered + 1
         => m \in ToSet(delivered')]_vars

\* A message waits only while one the stream still expects, after the last it
\* delivered, has not come in (while identifiers do not wrap).
HeldForGap ==
  \A m \in waiting :
    \E k \in Messages : LastDelivered < k /\ k < m /\ k \notin arrived

\* Holding back one more message leaves nothing that has waited for the TTL, though
\* firstMessageTs is not renewed when a run leaves the list in part, nor by reset.
HeldInTime ==
  [][\A m \in Messages :
       Hold(m) => \A k \in waiting' : now - since'[k] < WaitingListMaxTTL]_vars

\* What is held back has a reason: a gap, and not for too long; and dataSize, which
\* the size limit looks at, is the sum of what waits.
WaitsForReason ==
  [](HeldForGap /\ wl.dataSize = SizeOf(waiting)) /\ HeldInTime

\* Nothing the peer sends is forgotten: every message ends up delivered or, for
\* one of the reasons of LossExplained, discarded.
EverySettled ==
  \A m \in Messages : <>(m \in ToSet(delivered) \union lost)
==============================================================================
