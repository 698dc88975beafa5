------------------------------- MODULE Merger -------------------------------
(***************************************************************************)
(* The merger that runs one goroutine an endpoint (adapter/merger/         *)
(* merger.v2.go): connections push messages into the channel of their      *)
(* stream, sessions are created and deleted, and a ticker ends the streams *)
(* that fell silent.  What a stream does with a message is module Stream;  *)
(* here a message taken from the channel is consumed.                      *)
(*                                                                         *)
(* Messages that are not merged (IsStreamMerge) go to the receiver without *)
(* touching any of this state.                                             *)
(***************************************************************************)
EXTENDS Integers, Sequences, FiniteSets

CONSTANTS
  Sessions,          (* session identifiers                                    *)
  Endpoints,         (* endpoints of their packets                             *)
  Pushers,           (* goroutines that call Push, one a connection            *)
  Channels,          (* channels that can ever be made                         *)
  ChanSize,          (* initialMessageCount                                    *)
  StreamCheck,       (* StreamCheckInterval and StreamTTL are both set         *)
  MaxCreate,         (* bound: times one session identifier is created         *)
  MaxPush,           (* bound: messages one goroutine pushes                   *)
  None

ASSUME MergerAssumption ==
  /\ ChanSize \in Nat \ {0}
  /\ StreamCheck \in BOOLEAN
  /\ MaxCreate \in Nat /\ MaxPush \in Nat
  /\ None \notin Channels

Keys == Sessions \X Endpoints
Messages == [from : Pushers, n : Nat, key : Keys]
NilMessage == None

ASSUME NoneIsApart == None \notin Keys /\ None \notin Messages

VARIABLES
  sessions,          (* session -> is it in the map                            *)
  created,           (* session -> how often it was: its current context       *)
  locking,           (* callers of CreateStream, DeleteStream that wait        *)
  pusher,            (* goroutine -> where it is in Push, with what            *)
  streams,           (* the sync.Map: key -> channel                           *)
  channel,           (* channel -> its buffer, and its stream goroutine        *)
  checker,           (* the ticker goroutine: keys to visit, channel in hand   *)
  panicked,          (* who sent on a closed channel and ended the process     *)
  consumed           (* messages the streams took                              *)

vars == <<sessions, created, locking, pusher, streams, channel, checker, panicked, consumed>>

\* run: "free" never made; "live" in its loop; "left" the loop; "gone" from the
\* map; "closed" its channel and ended.  idle: StreamTTL has passed since the
\* last message.
FreeChannel == [key |-> None, ctx |-> 0, buf |-> <<>>, run |-> "free", idle |-> TRUE, why |-> "none"]

Init ==
  /\ sessions = [s \in Sessions |-> FALSE]
  /\ created = [s \in Sessions |-> 0]
  /\ locking = {}
  /\ pusher = [p \in Pushers |-> [at |-> "out", n |-> 0, key |-> None, ch |-> None]]
  /\ streams = [k \in Keys |-> None]
  /\ channel = [c \in Channels |-> FreeChannel]
  /\ checker = [todo |-> {}, ch |-> None]
  /\ panicked = "nobody"
  /\ consumed = {}

Running == panicked = "nobody"

\* goroutines that hold sessionsMux.RLock
Readers == {p \in Pushers : pusher[p].at # "out"}

\* mutant: DeleteStream forgets cancel()
CancelledNever(c) == FALSE

\* the context a stream was started with is done
Cancelled(c) ==
  /\ channel[c].key # None
  /\ LET s == channel[c].key[1]
     IN  ~sessions[s] \/ created[s] # channel[c].ctx

-----------------------------------------------------------------------------
(* CreateStream, DeleteStream: under sessionsMux.Lock.  Who waits for the  *)
(* lock keeps later readers out.                                           *)

CallCreate(s) ==
  /\ Running
  /\ created[s] < MaxCreate
  /\ locking' = locking \union {<<"create", s>>}
  /\ UNCHANGED <<sessions, created, pusher, streams, channel, checker, panicked, consumed>>

CallDelete(s) ==
  /\ Running
  /\ sessions[s]
  /\ locking' = locking \union {<<"delete", s>>}
  /\ UNCHANGED <<sessions, created, pusher, streams, channel, checker, panicked, consumed>>

\* mutant: RLock where Lock is needed
WriterMayEnterAnyTime(call) == Running /\ call \in locking

WriterMayEnter(call) == Running /\ call \in locking /\ Readers = {}

CreateStream(s) ==
  /\ WriterMayEnter(<<"create", s>>)
  /\ locking' = locking \ {<<"create", s>>}
  /\ sessions' = [sessions EXCEPT ![s] = TRUE]
  /\ created' = [created EXCEPT ![s] = IF sessions[s] THEN @ ELSE @ + 1]
  /\ UNCHANGED <<pusher, streams, channel, checker, panicked, consumed>>

DeleteStream(s) ==
  /\ WriterMayEnter(<<"delete", s>>)
  /\ locking' = locking \ {<<"delete", s>>}
  /\ sessions' = [sessions EXCEPT ![s] = FALSE]
  /\ UNCHANGED <<created, pusher, streams, channel, checker, panicked, consumed>>

-----------------------------------------------------------------------------
(* Push: RLock; LoadOrStore and go stream; send; RUnlock *)

\* mutant: no RUnlock on the way out
EnterKeepsLock(p, k) ==
  /\ Running
  /\ pusher[p].at = "out" /\ pusher[p].n < MaxPush
  /\ locking = {}
  /\ pusher' = [pusher EXCEPT ![p].at = IF sessions[k[1]] THEN "load" ELSE "error",
                              ![p].n = @ + 1,
                              ![p].key = k]
  /\ UNCHANGED <<sessions, created, locking, streams, channel, checker, panicked, consumed>>

\* RLock and the lookup: without the session, RUnlock and ErrSessionNotExists.
Enter(p, k) ==
  /\ Running
  /\ pusher[p].at = "out" /\ pusher[p].n < MaxPush
  /\ locking = {}
  /\ pusher' = [pusher EXCEPT ![p].at = IF sessions[k[1]] THEN "load" ELSE "out",
                              ![p].n = @ + 1,
                              ![p].key = k]
  /\ UNCHANGED <<sessions, created, locking, streams, channel, checker, panicked, consumed>>

\* mutant: the stream is not started
NewChannelOnly(k) ==
  [key |-> k, ctx |-> created[k[1]], buf |-> <<>>, run |-> "stopped", idle |-> TRUE, why |-> "none"]

NewChannel(k) ==
  [key |-> k, ctx |-> created[k[1]], buf |-> <<>>, run |-> "live", idle |-> TRUE, why |-> "none"]

\* make(chan *message, initialMessageCount)
FreshChannel == CHOOSE c \in Channels : channel[c].run = "free"

\* mutant: Load, then Store, with nothing that makes them one step
AnyTimeStored(p) == TRUE

NothingStored(p) == streams[pusher[p].key] = None

\* LoadOrStore of a channel just made; the one who stored it starts the stream.
Store(p) ==
  /\ Running
  /\ pusher[p].at = "load"
  /\ NothingStored(p)
  /\ \E c \in Channels : channel[c].run = "free"
  /\ streams' = [streams EXCEPT ![pusher[p].key] = FreshChannel]
  /\ channel' = [channel EXCEPT ![FreshChannel] = NewChannel(pusher[p].key)]
  /\ pusher' = [pusher EXCEPT ![p].at = "send", ![p].ch = FreshChannel]
  /\ UNCHANGED <<sessions, created, locking, checker, panicked, consumed>>

Load(p) ==
  /\ Running
  /\ pusher[p].at = "load"
  /\ streams[pusher[p].key] # None
  /\ pusher' = [pusher EXCEPT ![p].at = "send", ![p].ch = streams[pusher[p].key]]
  /\ UNCHANGED <<sessions, created, locking, streams, channel, checker, panicked, consumed>>

\* ch <- v waits while the channel is full ...
CanSend(c) == channel[c].run # "closed" /\ Len(channel[c].buf) < ChanSize
Sent(c, v) == [channel EXCEPT ![c].buf = Append(@, v)]

\* send and RUnlock
Send(p) ==
  /\ Running
  /\ pusher[p].at = "send"
  /\ CanSend(pusher[p].ch)
  /\ channel' = Sent(pusher[p].ch,
                     [from |-> p, n |-> pusher[p].n, key |-> pusher[p].key])
  /\ pusher' = [pusher EXCEPT ![p].at = "out", ![p].ch = None]
  /\ UNCHANGED <<sessions, created, locking, streams, checker, panicked, consumed>>

\* ... and panics once it is closed.
SendPanics(p) ==
  /\ Running
  /\ pusher[p].at = "send" /\ channel[pusher[p].ch].run = "closed"
  /\ panicked' = "pusher"
  /\ UNCHANGED <<sessions, created, locking, pusher, streams, channel, checker, consumed>>

-----------------------------------------------------------------------------
(* The goroutine of a stream (stream.v2.go) *)

\* A message comes out of the channel.
Take(c) ==
  /\ Running
  /\ channel[c].run = "live" /\ channel[c].buf # <<>>
  /\ Head(channel[c].buf) # NilMessage
  /\ consumed' = consumed \union {Head(channel[c].buf)}
  /\ channel' = [channel EXCEPT ![c].buf = Tail(@), ![c].idle = FALSE]
  /\ UNCHANGED <<sessions, created, locking, pusher, streams, checker, panicked>>

\* The ticker's nil: the stream ends when it was silent for StreamTTL, which is
\* also so before its first message (lastMessageTs is still zero).
TakeNil(c) ==
  /\ Running
  /\ channel[c].run = "live" /\ channel[c].buf # <<>>
  /\ Head(channel[c].buf) = NilMessage
  /\ channel' = [channel EXCEPT ![c].buf = Tail(@),
                                ![c].run = IF channel[c].idle THEN "left" ELSE "live",
                                ![c].why = IF channel[c].idle THEN "ttl" ELSE @]
  /\ UNCHANGED <<sessions, created, locking, pusher, streams, checker, panicked, consumed>>

\* ctx.Done()
TakeDone(c) ==
  /\ Running
  /\ channel[c].run = "live" /\ Cancelled(c)
  /\ channel' = [channel EXCEPT ![c].run = "left", ![c].why = "cancel"]
  /\ UNCHANGED <<sessions, created, locking, pusher, streams, checker, panicked, consumed>>

\* the deferred function: streams.Delete(key), then close(ch)
Leave(c) ==
  /\ Running
  /\ channel[c].run = "left"
  /\ streams' = [streams EXCEPT ![channel[c].key] = None]
  /\ channel' = [channel EXCEPT ![c].run = "gone"]
  /\ UNCHANGED <<sessions, created, locking, pusher, checker, panicked, consumed>>

Close(c) ==
  /\ Running
  /\ channel[c].run = "gone"
  /\ channel' = [channel EXCEPT ![c].run = "closed"]
  /\ UNCHANGED <<sessions, created, locking, pusher, streams, checker, panicked, consumed>>

\* StreamTTL passes without a message.
Silence(c) ==
  /\ Running
  /\ StreamCheck
  /\ channel[c].run = "live" /\ ~channel[c].idle
  /\ channel' = [channel EXCEPT ![c].idle = TRUE]
  /\ UNCHANGED <<sessions, created, locking, pusher, streams, checker, panicked, consumed>>

-----------------------------------------------------------------------------
(* streamChecker: at each tick, nil to every channel in the map *)

Tick ==
  /\ Running
  /\ StreamCheck
  /\ checker = [todo |-> {}, ch |-> None]
  /\ \E k \in Keys : streams[k] # None
  /\ checker' = [checker EXCEPT !.todo = {k \in Keys : streams[k] # None}]
  /\ UNCHANGED <<sessions, created, locking, pusher, streams, channel, panicked, consumed>>

\* Range comes to the next key, and reads what is there now.
Visit(k) ==
  /\ Running
  /\ k \in checker.todo /\ checker.ch = None
  /\ checker' = [todo |-> checker.todo \ {k}, ch |-> streams[k]]
  /\ UNCHANGED <<sessions, created, locking, pusher, streams, channel, panicked, consumed>>

SendNil ==
  /\ Running
  /\ checker.ch # None /\ CanSend(checker.ch)
  /\ channel' = Sent(checker.ch, NilMessage)
  /\ checker' = [checker EXCEPT !.ch = None]
  /\ UNCHANGED <<sessions, created, locking, pusher, streams, panicked, consumed>>

SendNilPanics ==
  /\ Running
  /\ checker.ch # None /\ channel[checker.ch].run = "closed"
  /\ panicked' = "checker"
  /\ UNCHANGED <<sessions, created, locking, pusher, streams, channel, checker, consumed>>

-----------------------------------------------------------------------------

PushStep(p) == Store(p) \/ Load(p) \/ Send(p) \/ SendPanics(p)
StreamStep(c) == Take(c) \/ TakeNil(c) \/ TakeDone(c) \/ Leave(c) \/ Close(c)
CheckerStep == (\E k \in Keys : Visit(k)) \/ SendNil \/ SendNilPanics

Next ==
  \/ \E s \in Sessions : CallCreate(s) \/ CallDelete(s) \/ CreateStream(s) \/ DeleteStream(s)
  \/ \E p \in Pushers, k \in Keys : Enter(p, k)
  \/ \E p \in Pushers : Store(p) \/ Load(p) \/ Send(p) \/ SendPanics(p)
  \/ \E c \in Channels : Take(c) \/ TakeNil(c) \/ TakeDone(c) \/ Leave(c) \/ Close(c)
  \/ \E c \in Channels : Silence(c)
  \/ Tick
  \/ \E k \in Keys : Visit(k)
  \/ SendNil \/ SendNilPanics

Spec == Init /\ [][Next]_vars

\* What a stream does with a message may end in commandData of the server, which
\* needs connMux; dropSession holds it from before it calls DeleteStream until it
\* returns.  (In the client nobody does: a stream there waits for nobody.)
HandlerIsFree == \A s \in Sessions : <<"delete", s>> \notin locking

\* Goroutines that can run do; nothing makes connections push.  A channel takes
\* its waiting senders in the order they came, and select chooses at random
\* among the cases that are ready.  A stream goes on unless its handler waits.
Fairness ==
  /\ \A p \in Pushers : SF_vars(PushStep(p))
  /\ \A c \in Channels :
       WF_vars(HandlerIsFree /\ StreamStep(c)) /\ WF_vars(HandlerIsFree /\ TakeDone(c))
  /\ \A s \in Sessions : WF_vars(CreateStream(s)) /\ WF_vars(DeleteStream(s))
  /\ WF_vars(CheckerStep)

FairSpec == Spec /\ Fairness

-----------------------------------------------------------------------------
(* Properties *)

InBuffer(c) == {channel[c].buf[i] : i \in DOMAIN channel[c].buf}

\* Every stream goroutine still in its loop is the one the map names for its
\* key, and the map names no other: Delete(key) removes its own entry, and a
\* key never has two streams that take its messages.
StreamsMatch ==
  /\ \A c \in Channels :
       channel[c].run \in {"live", "left"} => streams[channel[c].key] = c
  /\ \A k \in Keys : streams[k] # None =>
       /\ channel[streams[k]].run \in {"live", "left"}
       /\ channel[streams[k]].key = k

\* Without the ticker, and when no session identifier comes back, nobody sends
\* on a closed channel: Push holds the lock from the lookup to the send, and a
\* stream only ends after DeleteStream had the lock to itself.
NeverOnClosed == panicked = "nobody"

\* A Push that panics had loaded the channel of a stream that StreamTTL ended,
\* or of an earlier life of its session.
PushPanicExplained ==
  panicked = "pusher" =>
    \E p \in Pushers :
      LET c == pusher[p].ch
      IN  /\ pusher[p].at = "send" /\ channel[c].run = "closed"
          /\ channel[c].why = "ttl" \/ created[channel[c].key[1]] > channel[c].ctx

\* What one connection pushes for an endpoint is taken in the order it was
\* pushed, though streams end and new ones start for the same key.
PushOrderKept ==
  [][\A m \in consumed' \ consumed : \A o \in consumed :
       o.from = m.from /\ o.key = m.key => o.n < m.n]_vars

\* Everyone waits for everyone: DeleteStream, with connMux held, for a Push that has
\* the read lock; the Push for a stream whose channel is full; the stream for connMux.
Embraced ==
  \E p \in Pushers, s \in Sessions :
    /\ <<"delete", s>> \in locking
    /\ pusher[p].at = "send"
    /\ channel[pusher[p].ch].run # "closed" /\ ~CanSend(pusher[p].ch)

\* A message that Push accepted is taken by the stream, unless its session was
\* deleted first, the stream had fallen silent, or the process is gone or embraced.
PushedIsTaken ==
  \/ \A c \in Channels, p \in Pushers, n \in 1 .. MaxPush, k \in Keys :
       LET m == [from |-> p, n |-> n, key |-> k]
       IN  m \in InBuffer(c) ~>
             m \in consumed \/ ~sessions[k[1]] \/ channel[c].why = "ttl" \/ ~Running
  \/ <>[]Embraced

\* Once a session is deleted its streams end and leave the map, unless the delete
\* of another session is in the embrace.
DeletedStreamsEnd ==
  \/ \A c \in Channels, k \in Keys :
       (channel[c].run = "live" /\ channel[c].key = k /\ ~sessions[k[1]])
         ~> (channel[c].run = "closed" \/ sessions[k[1]] \/ ~Running)
  \/ <>[]Embraced

\* CreateStream and DeleteStream get the lock, though pushers may wait for room
\* in a channel while they hold it: only the embrace keeps it from them.
LockIsGranted ==
  \/ \A call \in {"create", "delete"} \X Sessions :
       (call \in locking) ~> (call \notin locking \/ ~Running)
  \/ <>[]Embraced
=============================================================================
