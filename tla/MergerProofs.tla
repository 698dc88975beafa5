----------------------------- MODULE MergerProofs -----------------------------
(***************************************************************************)
(* Proofs about the merger, for every set of sessions, endpoints,          *)
(* goroutines and channels, and every channel size.                        *)
(*                                                                         *)
(* NeverOnClosed is not inductive.  MergerInv adds what a goroutine in the *)
(* middle of Push knows (Pushing), what ended a stream (Ended), and that   *)
(* the map and the stream goroutines agree (StreamsMatch).                 *)
(* PushInv, for PushOrderKept, adds what the buffers hold and what each    *)
(* goroutine has pushed.                                                   *)
(***************************************************************************)
EXTENDS Merger, TLAPS

\* who holds RLock found the session, and the channel it loaded is its key's
Pushing ==
  \A p \in Pushers :
    /\ pusher[p].at # "out" => /\ pusher[p].at \in {"load", "send"}
                               /\ pusher[p].key \in Keys
                               /\ sessions[pusher[p].key[1]]
    /\ pusher[p].at = "send" => /\ pusher[p].ch \in Channels
                                /\ channel[pusher[p].ch].run # "free"
                                /\ channel[pusher[p].ch].key = pusher[p].key

\* a stream belongs to a life of its session that has begun
Made ==
  \A c \in Channels :
    channel[c].run # "free" =>
      /\ channel[c].key \in Keys
      /\ channel[c].ctx \in Nat \ {0}
      /\ channel[c].ctx <= created[channel[c].key[1]]

\* it leaves its loop only by StreamTTL or after its session was deleted
Ended ==
  \A c \in Channels :
    channel[c].run \in {"left", "gone", "closed"} =>
      \/ channel[c].why = "ttl"
      \/ ~sessions[channel[c].key[1]]
      \/ channel[c].ctx < created[channel[c].key[1]]

\* the parts of TypeOK the argument needs
Shape ==
  /\ sessions \in [Sessions -> BOOLEAN]
  /\ created \in [Sessions -> Nat]
  /\ \A s \in Sessions : sessions[s] => created[s] # 0
  /\ DOMAIN pusher = Pushers
  /\ \A p \in Pushers : pusher[p] = [at |-> pusher[p].at, n |-> pusher[p].n,
                                     key |-> pusher[p].key, ch |-> pusher[p].ch]
  /\ streams \in [Keys -> Channels \union {None}]
  /\ DOMAIN channel = Channels
  /\ \A c \in Channels :
       channel[c] = [key |-> channel[c].key, ctx |-> channel[c].ctx,
                     buf |-> channel[c].buf, run |-> channel[c].run,
                     idle |-> channel[c].idle, why |-> channel[c].why]
  /\ \A c \in Channels :
       channel[c].run \in {"free", "live", "left", "gone", "closed"}

MergerInv ==
  /\ Shape /\ StreamsMatch /\ Pushing /\ Made /\ Ended /\ PushPanicExplained

-----------------------------------------------------------------------------

LEMMA MergerInit == Init => MergerInv
<1> SUFFICES ASSUME Init PROVE MergerInv
  OBVIOUS
<1> USE DEF Init
<1>1. Shape
  BY DEF Shape, FreeChannel
<1>2. StreamsMatch
  BY DEF StreamsMatch, FreeChannel
<1>3. Pushing /\ Made /\ Ended
  BY DEF Pushing, Made, Ended, FreeChannel
<1>4. PushPanicExplained
  BY DEF PushPanicExplained
<1>5. QED
  BY <1>1, <1>2, <1>3, <1>4 DEF MergerInv

(* The lock: neither caller changes a session under a pusher's feet. *)
LEMMA WriterStep ==
  ASSUME MergerInv, NEW s \in Sessions, CreateStream(s) \/ DeleteStream(s)
  PROVE  MergerInv'
<1>1. /\ \A p \in Pushers : pusher[p].at = "out"
      /\ UNCHANGED <<pusher, streams, channel, panicked>>
      /\ Running
  BY DEF CreateStream, DeleteStream, WriterMayEnter, Readers
<1>2. /\ sessions' \in [Sessions -> BOOLEAN] /\ created' \in [Sessions -> Nat]
      /\ \A t \in Sessions : created[t] <= created'[t]
      /\ \A t \in Sessions : sessions'[t] => sessions[t] \/ created[t] < created'[t]
      /\ \A t \in Sessions : sessions'[t] => created'[t] # 0
  <2>1. sessions \in [Sessions -> BOOLEAN] /\ created \in [Sessions -> Nat]
        /\ \A t \in Sessions : sessions[t] => created[t] # 0
    BY DEF MergerInv, Shape
  <2>2. CASE CreateStream(s)
    BY <2>1, <2>2 DEF CreateStream
  <2>3. CASE DeleteStream(s)
    BY <2>1, <2>3 DEF DeleteStream
  <2>4. QED
    BY <2>2, <2>3
<1>3. Shape'
  BY <1>1, <1>2 DEF MergerInv, Shape
<1>4. StreamsMatch' /\ Pushing' /\ PushPanicExplained'
  BY <1>1 DEF MergerInv, StreamsMatch, Pushing, PushPanicExplained, Running
<1>5. ASSUME NEW c \in Channels, channel[c].run # "free"
      PROVE  channel[c].key[1] \in Sessions /\ channel[c].ctx \in Nat \ {0}
             /\ channel[c].ctx <= created[channel[c].key[1]]
  BY <1>5 DEF MergerInv, Made, Keys
<1>6. Made'
  BY <1>1, <1>2, <1>5 DEF MergerInv, Made, Shape
<1>7. Ended'
  BY <1>1, <1>2, <1>5 DEF MergerInv, Ended, Shape
<1>8. QED
  BY <1>3, <1>4, <1>6, <1>7 DEF MergerInv

(* A step that only moves messages, or lets a pusher go. *)
LEMMA SameStreams ==
  ASSUME MergerInv, Running, UNCHANGED <<sessions, created, streams, panicked>>,
         DOMAIN channel' = Channels, DOMAIN pusher' = Pushers,
         \A c \in Channels :
           /\ channel'[c].key = channel[c].key /\ channel'[c].ctx = channel[c].ctx
           /\ channel'[c].run = channel[c].run /\ channel'[c].why = channel[c].why
           /\ channel'[c] = [key |-> channel'[c].key, ctx |-> channel'[c].ctx,
                             buf |-> channel'[c].buf, run |-> channel'[c].run,
                             idle |-> channel'[c].idle, why |-> channel'[c].why],
         \A p \in Pushers :
           /\ pusher'[p] = [at |-> pusher'[p].at, n |-> pusher'[p].n,
                            key |-> pusher'[p].key, ch |-> pusher'[p].ch]
           /\ pusher'[p] = pusher[p] \/ pusher'[p].at = "out"
  PROVE  MergerInv'
<1>1. Shape'
  BY DEF MergerInv, Shape
<1>2. StreamsMatch'
  <2>1. \A k \in Keys : streams[k] # None => streams[k] \in Channels
    BY DEF MergerInv, Shape
  <2>2. QED
    BY <2>1 DEF MergerInv, StreamsMatch
<1>3. Pushing'
  <2>1. ASSUME NEW p \in Pushers, pusher'[p].at # "out"
        PROVE  pusher'[p] = pusher[p]
    BY <2>1
  <2>2. ASSUME NEW p \in Pushers
        PROVE  /\ pusher'[p].at # "out" => /\ pusher'[p].at \in {"load", "send"}
                                           /\ pusher'[p].key \in Keys
                                           /\ sessions'[pusher'[p].key[1]]
               /\ pusher'[p].at = "send" => /\ pusher'[p].ch \in Channels
                                            /\ channel'[pusher'[p].ch].run # "free"
                                            /\ channel'[pusher'[p].ch].key = pusher'[p].key
    BY <2>1, <2>2 DEF MergerInv, Pushing
  <2>3. QED
    BY <2>2 DEF Pushing
<1>4. Made' /\ Ended'
  BY DEF MergerInv, Made, Ended
<1>5. PushPanicExplained'
  BY DEF Running, PushPanicExplained
<1>6. QED
  BY <1>1, <1>2, <1>3, <1>4, <1>5 DEF MergerInv

LEMMA EnterStep ==
  ASSUME MergerInv, NEW p \in Pushers, NEW k \in Keys, Enter(p, k)
  PROVE  MergerInv'
<1>1. /\ Running /\ UNCHANGED <<sessions, created, streams, channel, panicked>>
      /\ pusher' = [pusher EXCEPT ![p].at = IF sessions[k[1]] THEN "load" ELSE "out",
                                  ![p].n = @ + 1,
                                  ![p].key = k]
  BY DEF Enter
<1>2. /\ DOMAIN pusher' = Pushers
      /\ \A q \in Pushers : q # p => pusher'[q] = pusher[q]
      /\ pusher'[p].at = (IF sessions[k[1]] THEN "load" ELSE "out")
      /\ pusher'[p].key = k
      /\ pusher'[p] = [at |-> pusher'[p].at, n |-> pusher'[p].n,
                       key |-> pusher'[p].key, ch |-> pusher'[p].ch]
  <2>1. /\ DOMAIN pusher = Pushers
        /\ pusher[p] = [at |-> pusher[p].at, n |-> pusher[p].n,
                        key |-> pusher[p].key, ch |-> pusher[p].ch]
    BY DEF MergerInv, Shape
  <2>2. QED
    BY <1>1, <2>1
<1>3. Shape'
  BY <1>1, <1>2 DEF MergerInv, Shape
<1>4. Pushing'
  <2>1. ASSUME NEW q \in Pushers, q # p
        PROVE  /\ pusher'[q].at # "out" => /\ pusher'[q].at \in {"load", "send"}
                                           /\ pusher'[q].key \in Keys
                                           /\ sessions'[pusher'[q].key[1]]
               /\ pusher'[q].at = "send" => /\ pusher'[q].ch \in Channels
                                            /\ channel'[pusher'[q].ch].run # "free"
                                            /\ channel'[pusher'[q].ch].key = pusher'[q].key
    BY <1>1, <1>2, <2>1 DEF MergerInv, Pushing
  <2>2. /\ pusher'[p].at # "out" => /\ pusher'[p].at = "load"
                                    /\ pusher'[p].key \in Keys
                                    /\ sessions'[pusher'[p].key[1]]
        /\ pusher'[p].at # "send"
    <3>1. CASE sessions[k[1]]
      BY <1>1, <1>2, <3>1
    <3>2. CASE ~sessions[k[1]]
      BY <1>2, <3>2
    <3>3. QED
      BY <3>1, <3>2
  <2>3. QED
    BY <2>1, <2>2 DEF Pushing
<1>5. StreamsMatch' /\ Made' /\ Ended'
  BY <1>1 DEF MergerInv, StreamsMatch, Made, Ended
<1>6. PushPanicExplained'
  BY <1>1 DEF Running, PushPanicExplained
<1>7. QED
  BY <1>3, <1>4, <1>5, <1>6 DEF MergerInv

LEMMA StoreStep ==
  ASSUME MergerInv, NEW p \in Pushers, Store(p)
  PROVE  MergerInv'
<1> DEFINE c == FreshChannel
           k == pusher[p].key
<1>1. /\ Running /\ UNCHANGED <<sessions, created, panicked>>
      /\ pusher[p].at = "load" /\ streams[k] = None
      /\ streams' = [streams EXCEPT ![k] = c]
      /\ channel' = [channel EXCEPT ![c] = NewChannel(k)]
      /\ pusher' = [pusher EXCEPT ![p].at = "send", ![p].ch = c]
  BY DEF Store, NothingStored
<1>2. c \in Channels /\ channel[c].run = "free"
  BY DEF Store, FreshChannel
<1>3. k \in Keys /\ sessions[k[1]] /\ k[1] \in Sessions
  BY <1>1 DEF MergerInv, Pushing, Keys
<1> HIDE DEF c, k
<1>4. /\ NewChannel(k).key = k /\ NewChannel(k).ctx = created[k[1]]
      /\ NewChannel(k).run = "live"
      /\ NewChannel(k) = [key |-> NewChannel(k).key, ctx |-> NewChannel(k).ctx,
                          buf |-> NewChannel(k).buf, run |-> NewChannel(k).run,
                          idle |-> NewChannel(k).idle, why |-> NewChannel(k).why]
  <2>1. NewChannel(k) = [key |-> k, ctx |-> created[k[1]], buf |-> <<>>,
                         run |-> "live", idle |-> TRUE, why |-> "none"]
    BY DEF NewChannel
  <2>2. QED
    BY <2>1
<1>5. /\ DOMAIN channel' = Channels /\ channel'[c] = NewChannel(k)
      /\ \A d \in Channels : d # c => channel'[d] = channel[d]
  BY <1>1, <1>2 DEF MergerInv, Shape
<1>6. /\ DOMAIN pusher' = Pushers
      /\ \A q \in Pushers : q # p => pusher'[q] = pusher[q]
      /\ pusher'[p].at = "send" /\ pusher'[p].key = k /\ pusher'[p].ch = c
      /\ pusher'[p] = [at |-> pusher'[p].at, n |-> pusher'[p].n,
                       key |-> pusher'[p].key, ch |-> pusher'[p].ch]
  <2>1. /\ DOMAIN pusher = Pushers
        /\ pusher[p] = [at |-> pusher[p].at, n |-> pusher[p].n,
                        key |-> pusher[p].key, ch |-> pusher[p].ch]
    BY DEF MergerInv, Shape
  <2>2. QED
    BY <1>1, <2>1 DEF k
<1>7. /\ streams' \in [Keys -> Channels \union {None}] /\ streams'[k] = c
      /\ \A l \in Keys : l # k => streams'[l] = streams[l]
  BY <1>1, <1>2, <1>3 DEF MergerInv, Shape
<1>8. Shape'
  <2>1. \A d \in Channels :
          /\ channel'[d] = [key |-> channel'[d].key, ctx |-> channel'[d].ctx,
                            buf |-> channel'[d].buf, run |-> channel'[d].run,
                            idle |-> channel'[d].idle, why |-> channel'[d].why]
          /\ channel'[d].run \in {"free", "live", "left", "gone", "closed"}
    BY <1>4, <1>5 DEF MergerInv, Shape
  <2>2. \A q \in Pushers :
          pusher'[q] = [at |-> pusher'[q].at, n |-> pusher'[q].n,
                        key |-> pusher'[q].key, ch |-> pusher'[q].ch]
    BY <1>6 DEF MergerInv, Shape
  <2>3. QED
    BY <1>1, <1>5, <1>6, <1>7, <2>1, <2>2 DEF MergerInv, Shape
<1>9. StreamsMatch'
  <2>1. ASSUME NEW d \in Channels, channel'[d].run \in {"live", "left"}
        PROVE  streams'[channel'[d].key] = d
    <3>1. CASE d = c
      BY <1>4, <1>5, <1>7, <3>1
    <3>2. CASE d # c
      <4>1. channel'[d] = channel[d] /\ channel[d].key \in Keys
            /\ streams[channel[d].key] = d
        BY <1>5, <2>1, <3>2 DEF MergerInv, StreamsMatch, Made
      <4>2. d # None /\ channel[d].key # k
        BY <1>1, <4>1, MergerAssumption
      <4>3. QED
        BY <1>7, <4>1, <4>2
    <3>3. QED
      BY <3>1, <3>2
  <2>2. ASSUME NEW l \in Keys, streams'[l] # None
        PROVE  channel'[streams'[l]].run \in {"live", "left"} /\ channel'[streams'[l]].key = l
    <3>1. CASE l = k
      BY <1>4, <1>5, <1>7, <3>1
    <3>2. CASE l # k
      <4>1. streams'[l] = streams[l] /\ streams[l] \in Channels
            /\ channel[streams[l]].run \in {"live", "left"} /\ channel[streams[l]].key = l
        BY <1>7, <2>2, <3>2 DEF MergerInv, StreamsMatch, Shape
      <4>2. streams[l] # c
        BY <1>2, <4>1
      <4>3. QED
        BY <1>5, <4>1, <4>2
    <3>3. QED
      BY <3>1, <3>2
  <2>3. QED
    BY <2>1, <2>2 DEF StreamsMatch
<1>10. Pushing'
  <2>1. ASSUME NEW q \in Pushers, q # p
        PROVE  /\ pusher'[q].at # "out" => /\ pusher'[q].at \in {"load", "send"}
                                           /\ pusher'[q].key \in Keys
                                           /\ sessions'[pusher'[q].key[1]]
               /\ pusher'[q].at = "send" => /\ pusher'[q].ch \in Channels
                                            /\ channel'[pusher'[q].ch].run # "free"
                                            /\ channel'[pusher'[q].ch].key = pusher'[q].key
    BY <1>1, <1>2, <1>5, <1>6, <2>1 DEF MergerInv, Pushing
  <2>2. QED
    BY <1>1, <1>2, <1>3, <1>4, <1>5, <1>6, <2>1 DEF Pushing
<1>11. Made'
  <2>1. created[k[1]] \in Nat \ {0}
    BY <1>3 DEF MergerInv, Shape
  <2>2. ASSUME NEW d \in Channels, channel'[d].run # "free"
        PROVE  /\ channel'[d].key \in Keys
               /\ channel'[d].ctx \in Nat \ {0}
               /\ channel'[d].ctx <= created'[channel'[d].key[1]]
    <3>1. CASE d = c
      BY <1>1, <1>3, <1>4, <1>5, <2>1, <3>1
    <3>2. CASE d # c
      BY <1>1, <1>5, <2>2, <3>2 DEF MergerInv, Made
    <3>3. QED
      BY <3>1, <3>2
  <2>3. QED
    BY <2>2 DEF Made
<1>12. Ended'
  BY <1>1, <1>4, <1>5 DEF MergerInv, Ended
<1>13. PushPanicExplained'
  BY <1>1 DEF Running, PushPanicExplained
<1>14. QED
  BY <1>8, <1>9, <1>10, <1>11, <1>12, <1>13 DEF MergerInv

LEMMA LoadStep ==
  ASSUME MergerInv, NEW p \in Pushers, Load(p)
  PROVE  MergerInv'
<1> DEFINE k == pusher[p].key
<1>1. /\ Running /\ UNCHANGED <<sessions, created, streams, channel, panicked>>
      /\ pusher[p].at = "load" /\ streams[k] # None
      /\ pusher' = [pusher EXCEPT ![p].at = "send", ![p].ch = streams[k]]
  BY DEF Load
<1>2. k \in Keys /\ sessions[k[1]]
  BY <1>1 DEF MergerInv, Pushing
<1>3. /\ streams[k] \in Channels /\ channel[streams[k]].run # "free"
      /\ channel[streams[k]].key = k
  BY <1>1, <1>2 DEF MergerInv, StreamsMatch, Shape
<1> HIDE DEF k
<1>4. /\ DOMAIN pusher' = Pushers
      /\ \A q \in Pushers : q # p => pusher'[q] = pusher[q]
      /\ pusher'[p].at = "send" /\ pusher'[p].key = k /\ pusher'[p].ch = streams[k]
      /\ pusher'[p] = [at |-> pusher'[p].at, n |-> pusher'[p].n,
                       key |-> pusher'[p].key, ch |-> pusher'[p].ch]
  <2>1. /\ DOMAIN pusher = Pushers
        /\ pusher[p] = [at |-> pusher[p].at, n |-> pusher[p].n,
                        key |-> pusher[p].key, ch |-> pusher[p].ch]
    BY DEF MergerInv, Shape
  <2>2. QED
    BY <1>1, <2>1 DEF k
<1>5. Shape'
  BY <1>1, <1>4 DEF MergerInv, Shape
<1>6. Pushing'
  <2>1. ASSUME NEW q \in Pushers, q # p
        PROVE  /\ pusher'[q].at # "out" => /\ pusher'[q].at \in {"load", "send"}
                                           /\ pusher'[q].key \in Keys
                                           /\ sessions'[pusher'[q].key[1]]
               /\ pusher'[q].at = "send" => /\ pusher'[q].ch \in Channels
                                            /\ channel'[pusher'[q].ch].run # "free"
                                            /\ channel'[pusher'[q].ch].key = pusher'[q].key
    BY <1>1, <1>4, <2>1 DEF MergerInv, Pushing
  <2>2. QED
    BY <1>1, <1>2, <1>3, <1>4, <2>1 DEF Pushing
<1>7. StreamsMatch' /\ Made' /\ Ended'
  BY <1>1 DEF MergerInv, StreamsMatch, Made, Ended
<1>8. PushPanicExplained'
  BY <1>1 DEF Running, PushPanicExplained
<1>9. QED
  BY <1>5, <1>6, <1>7, <1>8 DEF MergerInv

(* A stream leaves its loop: StreamTTL, or its session is gone. *)
LEMMA LeavesLoop ==
  ASSUME MergerInv, Running, NEW c \in Channels, channel[c].run = "live",
         UNCHANGED <<sessions, created, pusher, streams, panicked>>,
         DOMAIN channel' = Channels,
         \A d \in Channels : d # c => channel'[d] = channel[d],
         channel'[c].key = channel[c].key, channel'[c].ctx = channel[c].ctx,
         channel'[c].run = "left",
         channel'[c] = [key |-> channel'[c].key, ctx |-> channel'[c].ctx,
                        buf |-> channel'[c].buf, run |-> channel'[c].run,
                        idle |-> channel'[c].idle, why |-> channel'[c].why],
         channel'[c].why = "ttl" \/ Cancelled(c)
  PROVE  MergerInv'
<1>1. Shape'
  BY DEF MergerInv, Shape
<1>2. StreamsMatch'
  <2>1. \A k \in Keys : streams[k] # None => streams[k] \in Channels
    BY DEF MergerInv, Shape
  <2>2. \A d \in Channels : channel'[d].key = channel[d].key
    OBVIOUS
  <2>3. \A d \in Channels : channel'[d].run \in {"live", "left"}
                              <=> channel[d].run \in {"live", "left"}
    OBVIOUS
  <2>4. QED
    BY <2>1, <2>2, <2>3 DEF MergerInv, StreamsMatch
<1>3. Pushing'
  BY DEF MergerInv, Pushing
<1>4. Made'
  BY DEF MergerInv, Made
<1>5. Ended'
  <2>1. /\ channel[c].key[1] \in Sessions /\ channel[c].ctx \in Nat
        /\ created[channel[c].key[1]] \in Nat
        /\ channel[c].ctx <= created[channel[c].key[1]]
    BY DEF MergerInv, Made, Shape, Keys
  <2>2. \/ channel'[c].why = "ttl" \/ ~sessions[channel[c].key[1]]
        \/ channel[c].ctx < created[channel[c].key[1]]
    BY <2>1 DEF Cancelled
  <2>3. QED
    BY <2>2 DEF MergerInv, Ended
<1>6. PushPanicExplained'
  BY DEF Running, PushPanicExplained
<1>7. QED
  BY <1>1, <1>2, <1>3, <1>4, <1>5, <1>6 DEF MergerInv

(* What the stream goroutine writes into the record of its channel. *)
LEMMA ChannelFields ==
  ASSUME NEW r, NEW w, NEW b, NEW i, NEW u, NEW y,
         r = [key |-> r.key, ctx |-> r.ctx, buf |-> r.buf,
              run |-> r.run, idle |-> r.idle, why |-> r.why],
         \/ w = [r EXCEPT !.buf = b, !.idle = i]
         \/ w = [r EXCEPT !.buf = b, !.run = u, !.why = y]
         \/ w = [r EXCEPT !.run = u, !.why = y]
         \/ w = [r EXCEPT !.idle = i]
  PROVE  /\ w.key = r.key /\ w.ctx = r.ctx
         /\ w = [key |-> w.key, ctx |-> w.ctx, buf |-> w.buf,
              run |-> w.run, idle |-> w.idle, why |-> w.why]
<1>1. CASE w = [r EXCEPT !.buf = b, !.idle = i]
  <2>1. w.key = r.key /\ w.ctx = r.ctx
    BY <1>1
  <2>2. w = [key |-> w.key, ctx |-> w.ctx, buf |-> w.buf,
              run |-> w.run, idle |-> w.idle, why |-> w.why]
    BY <1>1
  <2>3. QED
    BY <2>1, <2>2
<1>2. CASE w = [r EXCEPT !.buf = b, !.run = u, !.why = y]
  <2>1. w.key = r.key /\ w.ctx = r.ctx
    BY <1>2
  <2>2. w = [key |-> w.key, ctx |-> w.ctx, buf |-> w.buf,
              run |-> w.run, idle |-> w.idle, why |-> w.why]
    BY <1>2
  <2>3. QED
    BY <2>1, <2>2
<1>3. CASE w = [r EXCEPT !.run = u, !.why = y]
  <2>1. w.key = r.key /\ w.ctx = r.ctx
    BY <1>3
  <2>2. w = [key |-> w.key, ctx |-> w.ctx, buf |-> w.buf,
              run |-> w.run, idle |-> w.idle, why |-> w.why]
    BY <1>3
  <2>3. QED
    BY <2>1, <2>2
<1>4. CASE w = [r EXCEPT !.idle = i]
  <2>1. w.key = r.key /\ w.ctx = r.ctx
    BY <1>4
  <2>2. w = [key |-> w.key, ctx |-> w.ctx, buf |-> w.buf,
              run |-> w.run, idle |-> w.idle, why |-> w.why]
    BY <1>4
  <2>3. QED
    BY <2>1, <2>2
<1>5. QED
  BY <1>1, <1>2, <1>3, <1>4

LEMMA TakeStep ==
  ASSUME MergerInv, NEW c \in Channels, Take(c) \/ TakeNil(c) \/ TakeDone(c) \/ Silence(c)
  PROVE  MergerInv'
<1>1. Running /\ UNCHANGED <<sessions, created, pusher, streams, panicked>>
      /\ channel[c].run = "live"
  BY DEF Take, TakeNil, TakeDone, Silence
<1>2. /\ DOMAIN channel = Channels
      /\ \A d \in Channels :
           channel[d] = [key |-> channel[d].key, ctx |-> channel[d].ctx,
                         buf |-> channel[d].buf, run |-> channel[d].run,
                         idle |-> channel[d].idle, why |-> channel[d].why]
      /\ DOMAIN pusher = Pushers
      /\ \A p \in Pushers : pusher[p] = [at |-> pusher[p].at, n |-> pusher[p].n,
                                         key |-> pusher[p].key, ch |-> pusher[p].ch]
  BY DEF MergerInv, Shape
<1>3. /\ DOMAIN channel' = Channels
      /\ \A d \in Channels : d # c => channel'[d] = channel[d]
      /\ channel'[c].key = channel[c].key /\ channel'[c].ctx = channel[c].ctx
      /\ channel'[c] = [key |-> channel'[c].key, ctx |-> channel'[c].ctx,
                        buf |-> channel'[c].buf, run |-> channel'[c].run,
                        idle |-> channel'[c].idle, why |-> channel'[c].why]
      /\ \/ channel'[c].run = "live" /\ channel'[c].why = channel[c].why
         \/ channel'[c].run = "left" /\ (channel'[c].why = "ttl" \/ Cancelled(c))
  <2> DEFINE r == channel[c]
             u == channel'[c]
  <2>1. /\ r = [key |-> r.key, ctx |-> r.ctx, buf |-> r.buf,
                  run |-> r.run, idle |-> r.idle, why |-> r.why]
        /\ r.run = "live"
    BY <1>1, <1>2
  <2>2. CASE Take(c)
    <3>1. /\ DOMAIN channel' = Channels
          /\ \A d \in Channels : d # c => channel'[d] = channel[d]
          /\ u = [r EXCEPT !.buf = Tail(channel[c].buf), !.idle = FALSE]
      BY <1>2, <2>2 DEF Take
    <3> HIDE DEF r, u
    <3>2. /\ u.key = r.key /\ u.ctx = r.ctx
          /\ u = [key |-> u.key, ctx |-> u.ctx, buf |-> u.buf,
                  run |-> u.run, idle |-> u.idle, why |-> u.why]
      BY <2>1, <3>1, ChannelFields
    <3>3. QED
      BY <2>1, <3>1, <3>2 DEF r, u
  <2>3. CASE TakeNil(c)
    <3>1. /\ DOMAIN channel' = Channels
          /\ \A d \in Channels : d # c => channel'[d] = channel[d]
          /\ u = [r EXCEPT !.buf = Tail(channel[c].buf),
                        !.run = IF r.idle THEN "left" ELSE "live",
                        !.why = IF r.idle THEN "ttl" ELSE r.why]
      BY <1>2, <2>3 DEF TakeNil
    <3> HIDE DEF r, u
    <3>2. /\ u.key = r.key /\ u.ctx = r.ctx
          /\ u = [key |-> u.key, ctx |-> u.ctx, buf |-> u.buf,
                  run |-> u.run, idle |-> u.idle, why |-> u.why]
      BY <2>1, <3>1, ChannelFields
    <3>3. QED
      BY <2>1, <3>1, <3>2 DEF r, u
  <2>4. CASE TakeDone(c)
    <3>1. /\ DOMAIN channel' = Channels
          /\ \A d \in Channels : d # c => channel'[d] = channel[d]
          /\ u = [r EXCEPT !.run = "left", !.why = "cancel"]
      BY <1>2, <2>4 DEF TakeDone
    <3> HIDE DEF r, u
    <3>2. /\ u.key = r.key /\ u.ctx = r.ctx
          /\ u = [key |-> u.key, ctx |-> u.ctx, buf |-> u.buf,
                  run |-> u.run, idle |-> u.idle, why |-> u.why]
      BY <2>1, <3>1, ChannelFields
    <3>3. Cancelled(c)
      BY <2>4 DEF TakeDone
    <3>4. QED
      BY <2>1, <3>1, <3>2, <3>3 DEF r, u
  <2>5. CASE Silence(c)
    <3>1. /\ DOMAIN channel' = Channels
          /\ \A d \in Channels : d # c => channel'[d] = channel[d]
          /\ u = [r EXCEPT !.idle = TRUE]
      BY <1>2, <2>5 DEF Silence
    <3> HIDE DEF r, u
    <3>2. /\ u.key = r.key /\ u.ctx = r.ctx
          /\ u = [key |-> u.key, ctx |-> u.ctx, buf |-> u.buf,
                  run |-> u.run, idle |-> u.idle, why |-> u.why]
      BY <2>1, <3>1, ChannelFields
    <3>3. QED
      BY <2>1, <3>1, <3>2 DEF r, u
  <2>6. QED
    BY <2>2, <2>3, <2>4, <2>5
<1>4. CASE channel'[c].run = "live" /\ channel'[c].why = channel[c].why
  <2>1. \A d \in Channels :
          /\ channel'[d].key = channel[d].key /\ channel'[d].ctx = channel[d].ctx
          /\ channel'[d].run = channel[d].run /\ channel'[d].why = channel[d].why
          /\ channel'[d] = [key |-> channel'[d].key, ctx |-> channel'[d].ctx,
                            buf |-> channel'[d].buf, run |-> channel'[d].run,
                            idle |-> channel'[d].idle, why |-> channel'[d].why]
    BY <1>1, <1>2, <1>3, <1>4
  <2>2. QED
    BY <1>1, <1>2, <1>3, <2>1, SameStreams
<1>5. CASE channel'[c].run = "left" /\ (channel'[c].why = "ttl" \/ Cancelled(c))
  BY <1>1, <1>3, <1>5, LeavesLoop
<1>6. QED
  BY <1>3, <1>4, <1>5

(* The deferred function of the stream goroutine. *)
LEMMA LeaveStep ==
  ASSUME MergerInv, NEW c \in Channels, Leave(c)
  PROVE  MergerInv'
<1> DEFINE k == channel[c].key
<1>1. /\ Running /\ UNCHANGED <<sessions, created, pusher, panicked>>
      /\ channel[c].run = "left"
      /\ streams' = [streams EXCEPT ![k] = None]
      /\ channel' = [channel EXCEPT ![c].run = "gone"]
  BY DEF Leave
<1>2. k \in Keys /\ streams[k] = c
  BY <1>1 DEF MergerInv, Made, StreamsMatch
<1>3. /\ DOMAIN channel' = Channels
      /\ \A d \in Channels : d # c => channel'[d] = channel[d]
      /\ channel'[c].key = k /\ channel'[c].ctx = channel[c].ctx
      /\ channel'[c].run = "gone" /\ channel'[c].why = channel[c].why
      /\ channel'[c] = [key |-> channel'[c].key, ctx |-> channel'[c].ctx,
                        buf |-> channel'[c].buf, run |-> channel'[c].run,
                        idle |-> channel'[c].idle, why |-> channel'[c].why]
  <2>1. /\ DOMAIN channel = Channels
        /\ channel[c] = [key |-> channel[c].key, ctx |-> channel[c].ctx,
                         buf |-> channel[c].buf, run |-> channel[c].run,
                         idle |-> channel[c].idle, why |-> channel[c].why]
    BY DEF MergerInv, Shape
  <2>2. QED
    BY <1>1, <2>1
<1>4. /\ streams' \in [Keys -> Channels \union {None}] /\ streams'[k] = None
      /\ \A l \in Keys : l # k => streams'[l] = streams[l]
  BY <1>1, <1>2 DEF MergerInv, Shape
<1> HIDE DEF k
<1>5. Shape'
  BY <1>1, <1>3, <1>4 DEF MergerInv, Shape
<1>6. StreamsMatch'
  <2>1. ASSUME NEW d \in Channels, channel'[d].run \in {"live", "left"}
        PROVE  streams'[channel'[d].key] = d
    <3>1. d # c /\ channel'[d] = channel[d]
      BY <1>3, <2>1
    <3>2. channel[d].key \in Keys /\ streams[channel[d].key] = d
      BY <2>1, <3>1 DEF MergerInv, Made, StreamsMatch
    <3>3. QED
      BY <1>2, <1>4, <3>1, <3>2
  <2>2. ASSUME NEW l \in Keys, streams'[l] # None
        PROVE  channel'[streams'[l]].run \in {"live", "left"} /\ channel'[streams'[l]].key = l
    <3>1. l # k /\ streams'[l] = streams[l]
      BY <1>4, <2>2
    <3>2. /\ streams[l] \in Channels
          /\ channel[streams[l]].run \in {"live", "left"} /\ channel[streams[l]].key = l
      BY <2>2, <3>1 DEF MergerInv, StreamsMatch, Shape
    <3>3. streams[l] # c
      BY <3>1, <3>2 DEF k
    <3>4. QED
      BY <1>3, <3>1, <3>2, <3>3
  <2>3. QED
    BY <2>1, <2>2 DEF StreamsMatch
<1>7. Pushing'
  <2>1. \A d \in Channels : channel'[d].run = "free" => channel[d].run = "free"
    BY <1>3
  <2>2. \A d \in Channels : channel'[d].key = channel[d].key
    BY <1>3 DEF k
  <2>3. QED
    BY <1>1, <2>1, <2>2 DEF MergerInv, Pushing
<1>8. Made' /\ Ended'
  BY <1>1, <1>3 DEF MergerInv, Made, Ended, k
<1>9. PushPanicExplained'
  BY <1>1 DEF Running, PushPanicExplained
<1>10. QED
  BY <1>5, <1>6, <1>7, <1>8, <1>9 DEF MergerInv

LEMMA CloseStep ==
  ASSUME MergerInv, NEW c \in Channels, Close(c)
  PROVE  MergerInv'
<1>1. /\ Running /\ UNCHANGED <<sessions, created, pusher, streams, panicked>>
      /\ channel[c].run = "gone"
      /\ channel' = [channel EXCEPT ![c].run = "closed"]
  BY DEF Close
<1>2. /\ DOMAIN channel' = Channels
      /\ \A d \in Channels : d # c => channel'[d] = channel[d]
      /\ channel'[c].key = channel[c].key /\ channel'[c].ctx = channel[c].ctx
      /\ channel'[c].run = "closed" /\ channel'[c].why = channel[c].why
      /\ channel'[c] = [key |-> channel'[c].key, ctx |-> channel'[c].ctx,
                        buf |-> channel'[c].buf, run |-> channel'[c].run,
                        idle |-> channel'[c].idle, why |-> channel'[c].why]
  <2>1. /\ DOMAIN channel = Channels
        /\ channel[c] = [key |-> channel[c].key, ctx |-> channel[c].ctx,
                         buf |-> channel[c].buf, run |-> channel[c].run,
                         idle |-> channel[c].idle, why |-> channel[c].why]
    BY DEF MergerInv, Shape
  <2>2. QED
    BY <1>1, <2>1
<1>3. Shape'
  BY <1>1, <1>2 DEF MergerInv, Shape
<1>4. StreamsMatch'
  <2>1. \A k \in Keys : streams[k] # None => streams[k] \in Channels
    BY DEF MergerInv, Shape
  <2>2. \A d \in Channels : channel'[d].key = channel[d].key
    BY <1>2
  <2>3. \A d \in Channels : channel'[d].run \in {"live", "left"}
                              <=> channel[d].run \in {"live", "left"}
    BY <1>1, <1>2
  <2>4. QED
    BY <1>1, <2>1, <2>2, <2>3 DEF MergerInv, StreamsMatch
<1>5. Pushing'
  <2>1. \A d \in Channels : channel'[d].run = "free" => channel[d].run = "free"
    BY <1>2
  <2>2. \A d \in Channels : channel'[d].key = channel[d].key
    BY <1>2
  <2>3. QED
    BY <1>1, <2>1, <2>2 DEF MergerInv, Pushing
<1>6. Made' /\ Ended'
  BY <1>1, <1>2 DEF MergerInv, Made, Ended
<1>7. PushPanicExplained'
  BY <1>1 DEF Running, PushPanicExplained
<1>8. QED
  BY <1>3, <1>4, <1>5, <1>6, <1>7 DEF MergerInv

(* A channel a pusher loaded was closed: why is in Ended, and the pusher's  *)
(* session is still in the map.                                            *)
LEMMA SendPanicsStep ==
  ASSUME MergerInv, NEW p \in Pushers, SendPanics(p)
  PROVE  MergerInv'
<1> DEFINE c == pusher[p].ch
<1>1. /\ UNCHANGED <<sessions, created, pusher, streams, channel>>
      /\ pusher[p].at = "send" /\ channel[c].run = "closed"
  BY DEF SendPanics
<1>2. /\ c \in Channels /\ channel[c].key = pusher[p].key
      /\ sessions[channel[c].key[1]]
  BY <1>1 DEF MergerInv, Pushing
<1>3. /\ channel[c].key[1] \in Sessions /\ channel[c].ctx \in Nat
      /\ created[channel[c].key[1]] \in Nat
  BY <1>1, <1>2 DEF MergerInv, Made, Shape, Keys
<1>4. channel[c].why = "ttl" \/ created[channel[c].key[1]] > channel[c].ctx
  <2>1. channel[c].why = "ttl" \/ channel[c].ctx < created[channel[c].key[1]]
    BY <1>1, <1>2 DEF MergerInv, Ended
  <2>2. QED
    BY <1>3, <2>1
<1>5. PushPanicExplained'
  BY <1>1, <1>4 DEF PushPanicExplained
<1>6. Shape' /\ StreamsMatch' /\ Pushing' /\ Made' /\ Ended'
  BY <1>1 DEF MergerInv, Shape, StreamsMatch, Pushing, Made, Ended
<1>7. QED
  BY <1>5, <1>6 DEF MergerInv

(* A message into a channel changes nothing else of it. *)
LEMMA BufferOnly ==
  ASSUME MergerInv, NEW c, NEW b, channel' = [channel EXCEPT ![c].buf = b]
  PROVE  /\ DOMAIN channel' = Channels
         /\ \A d \in Channels :
                 /\ channel'[d].key = channel[d].key /\ channel'[d].ctx = channel[d].ctx
                 /\ channel'[d].run = channel[d].run /\ channel'[d].why = channel[d].why
                 /\ channel'[d] = [key |-> channel'[d].key, ctx |-> channel'[d].ctx,
                                buf |-> channel'[d].buf, run |-> channel'[d].run,
                                idle |-> channel'[d].idle, why |-> channel'[d].why]
<1>1. DOMAIN channel = Channels /\ DOMAIN channel' = Channels
  BY DEF MergerInv, Shape
<1>2. ASSUME NEW d \in Channels
      PROVE  /\ channel'[d].key = channel[d].key /\ channel'[d].ctx = channel[d].ctx
             /\ channel'[d].run = channel[d].run /\ channel'[d].why = channel[d].why
             /\ channel'[d] = [key |-> channel'[d].key, ctx |-> channel'[d].ctx,
                               buf |-> channel'[d].buf, run |-> channel'[d].run,
                               idle |-> channel'[d].idle, why |-> channel'[d].why]
  <2> DEFINE r == channel[d]
             w == channel'[d]
  <2>1. r = [key |-> r.key, ctx |-> r.ctx, buf |-> r.buf,
             run |-> r.run, idle |-> r.idle, why |-> r.why]
    BY DEF MergerInv, Shape
  <2>2. w = r \/ w = [r EXCEPT !.buf = b]
    BY <1>1
  <2> HIDE DEF r, w
  <2>3. w.key = r.key /\ w.ctx = r.ctx /\ w.run = r.run /\ w.why = r.why
    BY <2>1, <2>2
  <2>4. w = [key |-> w.key, ctx |-> w.ctx, buf |-> w.buf,
             run |-> w.run, idle |-> w.idle, why |-> w.why]
    BY <2>1, <2>2
  <2>5. QED
    BY <2>3, <2>4 DEF r, w
<1>3. QED
  BY <1>1, <1>2

LEMMA SendStep ==
  ASSUME MergerInv, NEW p \in Pushers, Send(p)
  PROVE  MergerInv'
<1> DEFINE c == pusher[p].ch
           m == [from |-> p, n |-> pusher[p].n, key |-> pusher[p].key]
<1>1. /\ Running /\ UNCHANGED <<sessions, created, streams, panicked>>
      /\ channel' = [channel EXCEPT ![c].buf = Append(@, m)]
      /\ pusher' = [pusher EXCEPT ![p].at = "out", ![p].ch = None]
  BY DEF Send, Sent
<1>2. /\ DOMAIN channel' = Channels
      /\ \A d \in Channels :
           /\ channel'[d].key = channel[d].key /\ channel'[d].ctx = channel[d].ctx
           /\ channel'[d].run = channel[d].run /\ channel'[d].why = channel[d].why
           /\ channel'[d] = [key |-> channel'[d].key, ctx |-> channel'[d].ctx,
                             buf |-> channel'[d].buf, run |-> channel'[d].run,
                             idle |-> channel'[d].idle, why |-> channel'[d].why]
  BY <1>1, BufferOnly
<1>3. /\ DOMAIN pusher' = Pushers
      /\ \A q \in Pushers : q # p => pusher'[q] = pusher[q]
      /\ pusher'[p].at = "out"
      /\ pusher'[p] = [at |-> pusher'[p].at, n |-> pusher'[p].n,
                       key |-> pusher'[p].key, ch |-> pusher'[p].ch]
  <2>1. /\ DOMAIN pusher = Pushers
        /\ pusher[p] = [at |-> pusher[p].at, n |-> pusher[p].n,
                        key |-> pusher[p].key, ch |-> pusher[p].ch]
    BY DEF MergerInv, Shape
  <2>2. QED
    BY <1>1, <2>1
<1>4. \A q \in Pushers :
        /\ pusher'[q] = [at |-> pusher'[q].at, n |-> pusher'[q].n,
                         key |-> pusher'[q].key, ch |-> pusher'[q].ch]
        /\ pusher'[q] = pusher[q] \/ pusher'[q].at = "out"
  BY <1>3 DEF MergerInv, Shape
<1>5. QED
  BY <1>1, <1>2, <1>3, <1>4, SameStreams

(* Steps that touch no stream: calls, the ticker. *)
LEMMA OtherStep ==
  ASSUME MergerInv,
         \/ \E s \in Sessions : CallCreate(s) \/ CallDelete(s)
         \/ Tick \/ (\E k \in Keys : Visit(k)) \/ SendNil
  PROVE  MergerInv'
<1>1. /\ Running /\ UNCHANGED <<sessions, created, pusher, streams, panicked>>
      /\ \/ UNCHANGED channel
         \/ channel' = [channel EXCEPT ![checker.ch].buf = Append(@, NilMessage)]
  BY DEF CallCreate, CallDelete, Tick, Visit, SendNil, Sent
<1>2. /\ DOMAIN channel' = Channels
      /\ \A d \in Channels :
           /\ channel'[d].key = channel[d].key /\ channel'[d].ctx = channel[d].ctx
           /\ channel'[d].run = channel[d].run /\ channel'[d].why = channel[d].why
           /\ channel'[d] = [key |-> channel'[d].key, ctx |-> channel'[d].ctx,
                             buf |-> channel'[d].buf, run |-> channel'[d].run,
                             idle |-> channel'[d].idle, why |-> channel'[d].why]
  <2>1. CASE UNCHANGED channel
    BY <2>1 DEF MergerInv, Shape
  <2>2. CASE channel' = [channel EXCEPT ![checker.ch].buf = Append(@, NilMessage)]
    BY <2>2, BufferOnly
  <2>3. QED
    BY <1>1, <2>1, <2>2
<1>3. /\ DOMAIN pusher' = Pushers
      /\ \A q \in Pushers :
           /\ pusher'[q] = [at |-> pusher'[q].at, n |-> pusher'[q].n,
                            key |-> pusher'[q].key, ch |-> pusher'[q].ch]
           /\ pusher'[q] = pusher[q] \/ pusher'[q].at = "out"
  BY <1>1 DEF MergerInv, Shape
<1>4. QED
  BY <1>1, <1>2, <1>3, SameStreams

LEMMA NilPanicsStep ==
  ASSUME MergerInv, SendNilPanics
  PROVE  MergerInv'
BY DEF SendNilPanics, MergerInv, Shape, StreamsMatch, Pushing, Made, Ended, PushPanicExplained

LEMMA MergerStep == MergerInv /\ [Next]_vars => MergerInv'
<1> SUFFICES ASSUME MergerInv, [Next]_vars PROVE MergerInv'
  OBVIOUS
<1>1. CASE UNCHANGED vars
  BY <1>1 DEF vars, MergerInv, Shape, StreamsMatch, Pushing, Made, Ended, PushPanicExplained
<1>2. ASSUME NEW s \in Sessions,
             CallCreate(s) \/ CallDelete(s) \/ CreateStream(s) \/ DeleteStream(s)
      PROVE  MergerInv'
  BY <1>2, WriterStep, OtherStep
<1>3. ASSUME NEW p \in Pushers, NEW k \in Keys, Enter(p, k)
      PROVE  MergerInv'
  BY <1>3, EnterStep
<1>4. ASSUME NEW p \in Pushers, Store(p) \/ Load(p) \/ Send(p) \/ SendPanics(p)
      PROVE  MergerInv'
  BY <1>4, StoreStep, LoadStep, SendStep, SendPanicsStep
<1>5. ASSUME NEW c \in Channels,
             Take(c) \/ TakeNil(c) \/ TakeDone(c) \/ Leave(c) \/ Close(c) \/ Silence(c)
      PROVE  MergerInv'
  BY <1>5, TakeStep, LeaveStep, CloseStep
<1>6. CASE Tick \/ (\E k \in Keys : Visit(k)) \/ SendNil
  BY <1>6, OtherStep
<1>7. CASE SendNilPanics
  BY <1>7, NilPanicsStep
<1>8. QED
  BY <1>1, <1>2, <1>3, <1>4, <1>5, <1>6, <1>7 DEF Next

THEOREM MergerInvariant == Spec => []MergerInv
<1>1. MergerInv /\ [Next]_vars => MergerInv'
  BY MergerStep
<1>2. QED
  BY MergerInit, <1>1, PTL DEF Spec

(* The map and the stream goroutines agree, whoever creates, deletes,      *)
(* pushes and ticks (StreamsMatch): merger.v2.go, stream.v2.go.            *)
THEOREM MergerStreamsMatch == Spec => []StreamsMatch
<1>1. MergerInv => StreamsMatch
  BY DEF MergerInv
<1>2. QED
  BY <1>1, MergerInvariant, PTL

(* A Push panics only on a stream that StreamTTL ended, or one of an       *)
(* earlier life of the session (PushPanicExplained).                       *)
THEOREM MergerPushPanics == Spec => []PushPanicExplained
<1>1. MergerInv => PushPanicExplained
  BY DEF MergerInv
<1>2. QED
  BY <1>1, MergerInvariant, PTL

-----------------------------------------------------------------------------
(* The ticker off, and no identifier used twice: what production has when   *)
(* streamCheckInterval is 0, session identifiers being random.             *)

Apart ==
  /\ checker = [todo |-> {}, ch |-> None]
  /\ \A s \in Sessions : /\ created[s] <= MaxCreate
                         /\ <<"create", s>> \in locking => created[s] < MaxCreate
  /\ \A p \in Pushers : pusher[p].n \in Nat

NoTTL ==
  \A c \in Channels : channel[c].buf \in Seq(Messages) /\ channel[c].why # "ttl"

QuietInv == MergerInv /\ Apart /\ NoTTL /\ NeverOnClosed

LEMMA QuietInit == Init => QuietInv
<1> SUFFICES ASSUME Init PROVE QuietInv
  OBVIOUS
<1>1. MergerInv
  BY MergerInit
<1>2. Apart
  BY MergerAssumption DEF Init, Apart
<1>3. NoTTL
  <2>1. \A c \in Channels : channel[c] = FreeChannel
    BY DEF Init
  <2>2. FreeChannel.buf = <<>> /\ FreeChannel.why = "none"
    BY DEF FreeChannel
  <2>3. <<>> \in Seq(Messages)
    OBVIOUS
  <2>4. QED
    BY <2>1, <2>2, <2>3 DEF NoTTL
<1>4. NeverOnClosed
  BY DEF Init, NeverOnClosed
<1>5. QED
  BY <1>1, <1>2, <1>3, <1>4 DEF QuietInv

(* Pushing: the session of a loaded channel is there.  Ended, NoTTL: then   *)
(* a later life of it would have begun.                                    *)
LEMMA QuietNoPanic ==
  ASSUME QuietInv, MaxCreate <= 1
  PROVE  ~SendNilPanics /\ \A p \in Pushers : ~SendPanics(p)
<1>1. ~SendNilPanics
  BY DEF QuietInv, Apart, SendNilPanics
<1>2. ASSUME NEW p \in Pushers, SendPanics(p)
      PROVE  FALSE
  <2> DEFINE c == pusher[p].ch
  <2>1. pusher[p].at = "send" /\ channel[c].run = "closed"
    BY <1>2 DEF SendPanics
  <2>2. /\ c \in Channels /\ channel[c].key = pusher[p].key
        /\ sessions[channel[c].key[1]]
    BY <2>1 DEF QuietInv, MergerInv, Pushing
  <2>3. channel[c].ctx < created[channel[c].key[1]]
    BY <2>1, <2>2 DEF QuietInv, MergerInv, Ended, NoTTL
  <2>4. /\ channel[c].key[1] \in Sessions /\ channel[c].ctx \in Nat \ {0}
        /\ created[channel[c].key[1]] \in Nat
        /\ created[channel[c].key[1]] <= MaxCreate
    BY <2>1, <2>2 DEF QuietInv, MergerInv, Made, Shape, Keys, Apart
  <2>5. QED
    BY <2>3, <2>4, MergerAssumption
<1>3. QED
  BY <1>1, <1>2

LEMMA QuietApart ==
  ASSUME QuietInv, ~StreamCheck, Next
  PROVE  Apart'
<1>1. checker' = [todo |-> {}, ch |-> None]
  BY DEF QuietInv, Apart, Next, CallCreate, CallDelete, CreateStream, DeleteStream, Enter,
         Store, Load, Send, SendPanics, Take, TakeNil, TakeDone, Leave, Close, Silence,
         Tick, Visit, SendNil, SendNilPanics
<1>2. ASSUME NEW s \in Sessions
      PROVE  /\ created'[s] <= MaxCreate
             /\ <<"create", s>> \in locking' => created'[s] < MaxCreate
  <2>1. /\ created \in [Sessions -> Nat] /\ MaxCreate \in Nat
        /\ \A t \in Sessions : /\ created[t] <= MaxCreate
                               /\ <<"create", t>> \in locking => created[t] < MaxCreate
    BY MergerAssumption DEF QuietInv, MergerInv, Shape, Apart
  <2>2. CASE UNCHANGED <<created, locking>>
    BY <2>1, <2>2
  <2>3. ASSUME NEW t \in Sessions, CallCreate(t)
      PROVE  /\ created'[s] <= MaxCreate
             /\ <<"create", s>> \in locking' => created'[s] < MaxCreate
    BY <2>1, <2>3 DEF CallCreate
  <2>4. ASSUME NEW t \in Sessions, CallDelete(t)
      PROVE  /\ created'[s] <= MaxCreate
             /\ <<"create", s>> \in locking' => created'[s] < MaxCreate
    BY <2>1, <2>4 DEF CallDelete
  <2>5. ASSUME NEW t \in Sessions, CreateStream(t)
      PROVE  /\ created'[s] <= MaxCreate
             /\ <<"create", s>> \in locking' => created'[s] < MaxCreate
    <3>1. created[t] < MaxCreate
      BY <2>1, <2>5 DEF CreateStream, WriterMayEnter
    <3>2. CASE s = t
      BY <2>1, <2>5, <3>1, <3>2 DEF CreateStream
    <3>3. CASE s # t
      BY <2>1, <2>5, <3>3 DEF CreateStream
    <3>4. QED
      BY <3>2, <3>3
  <2>6. ASSUME NEW t \in Sessions, DeleteStream(t)
      PROVE  /\ created'[s] <= MaxCreate
             /\ <<"create", s>> \in locking' => created'[s] < MaxCreate
    BY <2>1, <2>6 DEF DeleteStream
  <2>7. QED
    BY <2>2, <2>3, <2>4, <2>5, <2>6
       DEF Next, Enter, Store, Load, Send, SendPanics, Take, TakeNil, TakeDone, Leave,
           Close, Silence, Tick, Visit, SendNil, SendNilPanics
<1>3. ASSUME NEW q \in Pushers
      PROVE  pusher'[q].n \in Nat
  <2>1. /\ DOMAIN pusher = Pushers
        /\ pusher[q] = [at |-> pusher[q].at, n |-> pusher[q].n,
                        key |-> pusher[q].key, ch |-> pusher[q].ch]
        /\ pusher[q].n \in Nat
    BY DEF QuietInv, MergerInv, Shape, Apart
  <2>2. CASE UNCHANGED pusher
    BY <2>1, <2>2
  <2>3. ASSUME NEW p \in Pushers, NEW k \in Keys, Enter(p, k) PROVE pusher'[q].n \in Nat
    BY <2>1, <2>3 DEF Enter
  <2>4. ASSUME NEW p \in Pushers, Store(p) \/ Load(p) \/ Send(p) PROVE pusher'[q].n \in Nat
    <3>1. CASE p = q
      BY <2>1, <2>4, <3>1 DEF Store, Load, Send
    <3>2. CASE p # q
      BY <2>1, <2>4, <3>2 DEF Store, Load, Send
    <3>3. QED
      BY <3>1, <3>2
  <2>5. QED
    BY <2>2, <2>3, <2>4
       DEF Next, CallCreate, CallDelete, CreateStream, DeleteStream, SendPanics, Take,
           TakeNil, TakeDone, Leave, Close, Silence, Tick, Visit, SendNil, SendNilPanics
<1>4. QED
  BY <1>1, <1>2, <1>3 DEF Apart

LEMMA QuietNoTTL ==
  ASSUME QuietInv, ~StreamCheck, Next
  PROVE  NoTTL'
<1>1. /\ DOMAIN channel = Channels
      /\ \A d \in Channels : channel[d].buf \in Seq(Messages) /\ channel[d].why # "ttl"
  BY DEF QuietInv, MergerInv, Shape, NoTTL
<1>2. CASE UNCHANGED channel
  BY <1>1, <1>2 DEF NoTTL
<1>3. ASSUME NEW p \in Pushers, Store(p)
      PROVE  NoTTL'
  <2>1. FreshChannel \in Channels
    BY <1>3 DEF Store, FreshChannel
  <2>2. channel' = [channel EXCEPT ![FreshChannel] = NewChannel(pusher[p].key)]
    BY <1>3 DEF Store
  <2>3. /\ NewChannel(pusher[p].key).buf \in Seq(Messages)
        /\ NewChannel(pusher[p].key).why # "ttl"
    BY DEF NewChannel
  <2>4. QED
    BY <1>1, <2>1, <2>2, <2>3 DEF NoTTL
<1>4. ASSUME NEW p \in Pushers, Send(p)
      PROVE  NoTTL'
  <2> DEFINE c == pusher[p].ch
             m == [from |-> p, n |-> pusher[p].n, key |-> pusher[p].key]
             b == Append(channel[c].buf, m)
  <2>1. channel' = [channel EXCEPT ![c].buf = b]
    BY <1>4 DEF Send, Sent
  <2>2. m \in Messages /\ c \in Channels
    BY <1>4 DEF Send, QuietInv, MergerInv, Pushing, Apart, Messages
  <2> HIDE DEF c, m
  <2>3. b \in Seq(Messages)
    BY <1>1, <2>2
  <2> HIDE DEF b
  <2>4. ASSUME NEW d \in Channels
        PROVE  channel'[d].buf \in Seq(Messages) /\ channel'[d].why # "ttl"
    <3>1. channel'[d].why = channel[d].why
      BY <2>1, BufferOnly DEF QuietInv
    <3>2. channel'[d].buf \in Seq(Messages)
      <4>1. channel[d] = [key |-> channel[d].key, ctx |-> channel[d].ctx,
                          buf |-> channel[d].buf, run |-> channel[d].run,
                          idle |-> channel[d].idle, why |-> channel[d].why]
        BY DEF QuietInv, MergerInv, Shape
      <4>2. CASE d = c
        BY <1>1, <2>1, <2>3, <4>1, <4>2
      <4>3. CASE d # c
        BY <1>1, <2>1, <4>3
      <4>4. QED
        BY <4>2, <4>3
    <3>3. QED
      BY <1>1, <3>1, <3>2
  <2>5. QED
    BY <2>4 DEF NoTTL
<1>5. ASSUME NEW c \in Channels,
             Take(c) \/ TakeNil(c) \/ TakeDone(c) \/ Leave(c) \/ Close(c) \/ Silence(c)
      PROVE  NoTTL'
  <2>1. ~TakeNil(c)
    <3>1. ASSUME channel[c].buf # <<>>
          PROVE  Head(channel[c].buf) \in Messages
      BY <1>1, <3>1
    <3>2. QED
      BY <3>1, NoneIsApart DEF TakeNil, NilMessage
  <2>2. channel[c].buf # <<>> => Tail(channel[c].buf) \in Seq(Messages)
    BY <1>1
  <2>3. channel[c] = [key |-> channel[c].key, ctx |-> channel[c].ctx,
                      buf |-> channel[c].buf, run |-> channel[c].run,
                      idle |-> channel[c].idle, why |-> channel[c].why]
    BY DEF QuietInv, MergerInv, Shape
  <2>4. \A d \in Channels : d # c => channel'[d] = channel[d]
    BY <1>1, <1>5, <2>1 DEF Take, TakeDone, Leave, Close, Silence
  <2>5. channel'[c].buf \in Seq(Messages)
    BY <1>1, <1>5, <2>1, <2>2, <2>3 DEF Take, TakeDone, Leave, Close, Silence
  <2>6. channel'[c].why # "ttl"
    BY <1>1, <1>5, <2>1, <2>3 DEF Take, TakeDone, Leave, Close, Silence
  <2>7. QED
    BY <1>1, <2>4, <2>5, <2>6 DEF NoTTL
<1>6. CASE SendNil
  BY <1>6 DEF SendNil, QuietInv, Apart
<1>7. QED
  BY <1>2, <1>3, <1>4, <1>5, <1>6
     DEF Next, CallCreate, CallDelete, CreateStream, DeleteStream, Enter, Load, SendPanics,
         Tick, Visit, SendNilPanics

LEMMA QuietStep ==
  ASSUME ~StreamCheck, MaxCreate <= 1
  PROVE  QuietInv /\ [Next]_vars => QuietInv'
<1> SUFFICES ASSUME QuietInv, [Next]_vars PROVE QuietInv'
  OBVIOUS
<1>1. MergerInv'
  BY MergerStep DEF QuietInv
<1>2. CASE UNCHANGED vars
  BY <1>1, <1>2 DEF vars, QuietInv, Apart, NoTTL, NeverOnClosed
<1>3. CASE Next
  <2>1. NeverOnClosed'
    BY <1>3, QuietNoPanic
       DEF Next, QuietInv, NeverOnClosed, CallCreate, CallDelete, CreateStream, DeleteStream,
           Enter, Store, Load, Send, Take, TakeNil, TakeDone, Leave, Close, Silence, Tick,
           Visit, SendNil
  <2>2. QED
    BY <1>1, <1>3, <2>1, QuietApart, QuietNoTTL DEF QuietInv
<1>4. QED
  BY <1>2, <1>3

(* With the ticker off, and no session identifier used again, nobody sends *)
(* on a closed channel (NeverOnClosed): merger.v2.go holds sessionsMux from *)
(* the lookup of the session to the send, whatever the channels' size and   *)
(* however many connections push.                                          *)
THEOREM MergerNeverOnClosed ==
  ASSUME ~StreamCheck, MaxCreate <= 1
  PROVE  Spec => []NeverOnClosed
<1>1. QuietInv /\ [Next]_vars => QuietInv'
  BY QuietStep
<1>2. QuietInv => NeverOnClosed
  BY DEF QuietInv
<1>3. QED
  BY QuietInit, <1>1, <1>2, PTL DEF Spec

-----------------------------------------------------------------------------
(* The order of what one connection pushes                                 *)

\* buffer b of the stream of key k: its own messages, each sender's in order
Waits(b, k) ==
  /\ b \in Seq(Messages \union {NilMessage})
  /\ \A i \in 1 .. Len(b) : b[i] # NilMessage => b[i].key = k
  /\ \A i, j \in 1 .. Len(b) :
       i < j /\ b[i] # NilMessage /\ b[j] # NilMessage /\ b[i].from = b[j].from
         => b[i].n < b[j].n

\* P: where the goroutines are; who pushed m has gone past it, or is not in Push
Pushed(m, P) ==
  /\ m.n <= P[m.from].n
  /\ P[m.from].at # "out" => m.n < P[m.from].n

\* what waits for key k comes after what was taken of it already
AfterTaken(b, k, taken) ==
  \A i \in 1 .. Len(b) : \A o \in taken :
    b[i] # NilMessage /\ o.from = b[i].from /\ o.key = k => o.n < b[i].n

PushInv ==
  /\ \A p \in Pushers : pusher[p].n \in Nat
  /\ \A c \in Channels :
       channel[c].run # "free" =>
         /\ Waits(channel[c].buf, channel[c].key)
         /\ \A i \in 1 .. Len(channel[c].buf) :
              channel[c].buf[i] # NilMessage => Pushed(channel[c].buf[i], pusher)
  /\ consumed \subseteq Messages /\ \A m \in consumed : Pushed(m, pusher)
  /\ \A c \in Channels :
       channel[c].run = "live" => AfterTaken(channel[c].buf, channel[c].key, consumed)

LEMMA WaitsAppend ==
  ASSUME NEW k \in Keys, NEW b, Waits(b, k), NEW x,
         \/ x = NilMessage
         \/ /\ x \in Messages /\ x.key = k
            /\ \A i \in 1 .. Len(b) : b[i] # NilMessage /\ b[i].from = x.from => b[i].n < x.n
  PROVE  /\ Waits(Append(b, x), k)
         /\ Len(b) \in Nat /\ Len(Append(b, x)) = Len(b) + 1
         /\ \A i \in 1 .. Len(b) : Append(b, x)[i] = b[i]
         /\ Append(b, x)[Len(b) + 1] = x
<1> DEFINE T == Messages \union {NilMessage}
<1>1. b \in Seq(T) /\ x \in T
  BY DEF Waits
<1> HIDE DEF T
<1>2. PICK a : a = Append(b, x)
  OBVIOUS
<1>3. /\ a \in Seq(T) /\ Len(b) \in Nat /\ Len(a) = Len(b) + 1
      /\ \A i \in 1 .. Len(b) : a[i] = b[i]
      /\ a[Len(b) + 1] = x
  BY <1>1, <1>2
<1>4. \A i \in 1 .. Len(a) : i \in 1 .. Len(b) \/ i = Len(b) + 1
  BY <1>3
<1>5. \A i \in 1 .. Len(a) : a[i] # NilMessage => a[i].key = k
  BY <1>3, <1>4 DEF Waits
<1>6. ASSUME NEW i \in 1 .. Len(a), NEW j \in 1 .. Len(a), i < j,
             a[i] # NilMessage, a[j] # NilMessage, a[i].from = a[j].from
      PROVE  a[i].n < a[j].n
  <2>1. i \in 1 .. Len(b) /\ a[i] = b[i]
    BY <1>3, <1>4, <1>6
  <2>2. CASE j \in 1 .. Len(b)
    BY <1>3, <1>6, <2>1, <2>2 DEF Waits
  <2>3. CASE j = Len(b) + 1
    BY <1>3, <1>6, <2>1, <2>3
  <2> QED  BY <1>4, <2>2, <2>3
<1>7. Waits(a, k)
  BY <1>3, <1>5, <1>6 DEF Waits, T
<1> QED  BY <1>2, <1>3, <1>7

LEMMA WaitsTail ==
  ASSUME NEW k \in Keys, NEW b, Waits(b, k), b # <<>>
  PROVE  /\ Waits(Tail(b), k)
         /\ Head(b) = b[1] /\ 1 \in 1 .. Len(b)
         /\ \A i \in 1 .. Len(Tail(b)) : /\ i + 1 \in 1 .. Len(b) /\ 1 < i + 1
                                         /\ Tail(b)[i] = b[i + 1]
<1> DEFINE T == Messages \union {NilMessage}
<1>1. b \in Seq(T)
  BY DEF Waits
<1> HIDE DEF T
<1>2. PICK t : t = Tail(b)
  OBVIOUS
<1>3. /\ t \in Seq(T) /\ Len(t) = Len(b) - 1 /\ Len(b) \in Nat /\ Len(b) # 0
      /\ \A i \in 1 .. Len(t) : t[i] = b[i + 1]
  BY <1>1, <1>2
<1>4. Head(b) = b[1]
  BY <1>1
<1>5. \A i \in 1 .. Len(t) : i + 1 \in 1 .. Len(b) /\ 1 < i + 1
  BY <1>3
<1>6. \A i \in 1 .. Len(t) : t[i] # NilMessage => t[i].key = k
  BY <1>3, <1>5 DEF Waits
<1>7. ASSUME NEW i \in 1 .. Len(t), NEW j \in 1 .. Len(t), i < j,
             t[i] # NilMessage, t[j] # NilMessage, t[i].from = t[j].from
      PROVE  t[i].n < t[j].n
  BY <1>3, <1>5, <1>7 DEF Waits
<1>8. Waits(t, k)
  BY <1>3, <1>6, <1>7 DEF Waits, T
<1> QED  BY <1>2, <1>3, <1>4, <1>5, <1>8

LEMMA PushInit == Init => PushInv
<1> SUFFICES ASSUME Init PROVE PushInv
  OBVIOUS
<1>1. \A p \in Pushers : pusher[p].n = 0
  BY DEF Init
<1>2. \A c \in Channels : channel[c].run = "free"
  BY DEF Init, FreeChannel
<1>3. consumed = {}
  BY DEF Init
<1> QED  BY <1>1, <1>2, <1>3 DEF PushInv

(* Steps that put nothing into a channel and take nothing out of one. *)
LEMMA BuffersStay ==
  ASSUME PushInv, consumed' = consumed,
         \A p \in Pushers : pusher'[p].n \in Nat,
         \A m \in Messages : Pushed(m, pusher) => Pushed(m, pusher'),
         \A c \in Channels :
           channel'[c].run # "free" =>
             /\ channel'[c].key \in Keys
             /\ \/ channel'[c].buf = <<>>
                \/ /\ channel[c].run # "free"
                   /\ channel'[c].buf = channel[c].buf /\ channel'[c].key = channel[c].key
                   /\ channel'[c].run = "live" => channel[c].run = "live"
  PROVE  PushInv'
<1>1. \A k \in Keys : Waits(<<>>, k) /\ AfterTaken(<<>>, k, consumed')
  BY DEF Waits, AfterTaken
<1>2. ASSUME NEW c \in Channels, channel'[c].run # "free"
      PROVE  /\ Waits(channel'[c].buf, channel'[c].key)
             /\ \A i \in 1 .. Len(channel'[c].buf) :
                  channel'[c].buf[i] # NilMessage => Pushed(channel'[c].buf[i], pusher')
             /\ channel'[c].run = "live" => AfterTaken(channel'[c].buf, channel'[c].key, consumed')
  <2>1. CASE channel'[c].buf = <<>>
    BY <1>1, <1>2, <2>1
  <2>2. CASE channel'[c].buf # <<>>
    <3>1. /\ channel[c].run # "free"
          /\ channel'[c].buf = channel[c].buf /\ channel'[c].key = channel[c].key
          /\ channel'[c].run = "live" => channel[c].run = "live"
      BY <1>2, <2>2
    <3>2. Waits(channel[c].buf, channel[c].key)
      BY <3>1 DEF PushInv
    <3>3. ASSUME NEW i \in 1 .. Len(channel[c].buf), channel[c].buf[i] # NilMessage
          PROVE  Pushed(channel[c].buf[i], pusher) /\ channel[c].buf[i] \in Messages
      BY <3>1, <3>2, <3>3 DEF PushInv, Waits
    <3>4. channel[c].run = "live" => AfterTaken(channel[c].buf, channel[c].key, consumed)
      BY DEF PushInv
    <3>5. channel'[c].run = "live" => AfterTaken(channel'[c].buf, channel'[c].key, consumed')
      BY <3>1, <3>4 DEF AfterTaken
    <3>6. ASSUME NEW i \in 1 .. Len(channel'[c].buf), channel'[c].buf[i] # NilMessage
          PROVE  Pushed(channel'[c].buf[i], pusher')
      BY <3>1, <3>3, <3>6
    <3> QED  BY <3>1, <3>2, <3>5, <3>6
  <2> QED  BY <2>1, <2>2
<1>3. consumed' \subseteq Messages /\ \A m \in consumed' : Pushed(m, pusher')
  BY DEF PushInv
<1>4. \A c \in Channels :
        channel'[c].run # "free" =>
          /\ Waits(channel'[c].buf, channel'[c].key)
          /\ \A i \in 1 .. Len(channel'[c].buf) :
               channel'[c].buf[i] # NilMessage => Pushed(channel'[c].buf[i], pusher')
  BY <1>2
<1>5. \A c \in Channels :
        channel'[c].run = "live" => AfterTaken(channel'[c].buf, channel'[c].key, consumed')
  BY <1>2
<1> QED  BY <1>3, <1>4, <1>5 DEF PushInv

LEMMA EnterPush ==
  ASSUME MergerInv, PushInv, NEW p \in Pushers, NEW k \in Keys, Enter(p, k)
  PROVE  PushInv'
<1>1. PICK a : a = IF sessions[k[1]] THEN "load" ELSE "out"
  OBVIOUS
<1>2. /\ UNCHANGED <<channel, consumed>> /\ pusher[p].at = "out"
      /\ pusher' = [pusher EXCEPT ![p].at = a, ![p].n = @ + 1, ![p].key = k]
  BY <1>1 DEF Enter
<1>3. PICK n \in Nat : n = pusher[p].n
  BY DEF PushInv
<1>4. /\ \A q \in Pushers : q # p => pusher'[q] = pusher[q]
      /\ pusher'[p].n = n + 1
  BY <1>2, <1>3 DEF MergerInv, Shape
<1>5. \A q \in Pushers : pusher'[q].n \in Nat
  BY <1>4 DEF PushInv
<1>6. ASSUME NEW m \in Messages, Pushed(m, pusher)
      PROVE  Pushed(m, pusher')
  <2>1. m.from \in Pushers /\ m.n \in Nat
    BY DEF Messages
  <2>2. CASE m.from = p
    <3>1. m.n < n + 1
      BY <1>3, <1>6, <2>1, <2>2 DEF Pushed
    <3> QED  BY <1>4, <2>1, <2>2, <3>1 DEF Pushed
  <2>3. CASE m.from # p
    BY <1>4, <1>6, <2>1, <2>3 DEF Pushed
  <2> QED  BY <2>2, <2>3
<1> QED  BY <1>2, <1>5, <1>6, BuffersStay DEF MergerInv, Made

LEMMA LoadPush ==
  ASSUME MergerInv, PushInv, NEW p \in Pushers, Store(p) \/ Load(p)
  PROVE  PushInv'
<1> DEFINE k == pusher[p].key
<1>1. /\ consumed' = consumed /\ pusher[p].at = "load"
      /\ \E c : pusher' = [pusher EXCEPT ![p].at = "send", ![p].ch = c]
  BY DEF Store, Load
<1>2. /\ \A q \in Pushers : q # p => pusher'[q] = pusher[q]
      /\ pusher'[p].n = pusher[p].n /\ pusher'[p].at = "send"
  BY <1>1 DEF MergerInv, Shape
<1>3. \A q \in Pushers : pusher'[q].n \in Nat
  BY <1>2 DEF PushInv
<1>4. ASSUME NEW m \in Messages, Pushed(m, pusher)
      PROVE  Pushed(m, pusher')
  BY <1>1, <1>2, <1>4 DEF Messages, Pushed
<1>5. ASSUME NEW d \in Channels, channel'[d].run # "free"
      PROVE  /\ channel'[d].key \in Keys
             /\ channel'[d].buf = <<>> \/ channel'[d] = channel[d]
  <2>1. k \in Keys
    BY <1>1 DEF MergerInv, Pushing
  <2>2. CASE Load(p)
    BY <1>5, <2>2 DEF Load, MergerInv, Made
  <2>3. CASE Store(p)
    <3>1. channel' = [channel EXCEPT ![FreshChannel] = NewChannel(k)]
      BY <2>3 DEF Store
    <3>2. NewChannel(k).key = k /\ NewChannel(k).buf = <<>>
      BY DEF NewChannel
    <3> HIDE DEF k
    <3>3. channel'[d] = channel[d] \/ channel'[d] = NewChannel(k)
      BY <3>1 DEF MergerInv, Shape
    <3> QED  BY <1>5, <2>1, <3>2, <3>3 DEF MergerInv, Made
  <2> QED  BY <2>2, <2>3
<1> QED  BY <1>1, <1>3, <1>4, <1>5, BuffersStay

(* The steps of a stream that take no message, those of callers, the ticker's. *)
LEMMA QuietPush ==
  ASSUME MergerInv, PushInv,
         \/ \E s \in Sessions : CallCreate(s) \/ CallDelete(s) \/ CreateStream(s) \/ DeleteStream(s)
         \/ \E p \in Pushers : SendPanics(p)
         \/ \E c \in Channels : TakeDone(c) \/ Leave(c) \/ Close(c) \/ Silence(c)
         \/ Tick \/ (\E k \in Keys : Visit(k)) \/ SendNilPanics
  PROVE  PushInv'
<1>1. UNCHANGED <<pusher, consumed>>
  BY DEF CallCreate, CallDelete, CreateStream, DeleteStream, SendPanics, TakeDone, Leave, Close,
         Silence, Tick, Visit, SendNilPanics
<1>2. \/ UNCHANGED channel
      \/ \E c \in Channels :
           /\ channel[c].run # "free"
           /\ \/ channel' = [channel EXCEPT ![c].run = "left", ![c].why = "cancel"]
              \/ channel' = [channel EXCEPT ![c].run = "gone"]
              \/ channel' = [channel EXCEPT ![c].run = "closed"]
              \/ channel' = [channel EXCEPT ![c].idle = TRUE]
  BY DEF CallCreate, CallDelete, CreateStream, DeleteStream, SendPanics, TakeDone, Leave, Close,
         Silence, Tick, Visit, SendNilPanics
<1>3. ASSUME NEW d \in Channels, channel'[d].run # "free"
      PROVE  /\ channel[d].run # "free"
             /\ channel'[d].key = channel[d].key /\ channel'[d].buf = channel[d].buf
             /\ channel'[d].run = "live" => channel[d].run = "live"
  <2>1. CASE UNCHANGED channel
    BY <1>3, <2>1
  <2>2. ASSUME NEW c \in Channels, channel[c].run # "free",
               \/ channel' = [channel EXCEPT ![c].run = "left", ![c].why = "cancel"]
               \/ channel' = [channel EXCEPT ![c].run = "gone"]
               \/ channel' = [channel EXCEPT ![c].run = "closed"]
               \/ channel' = [channel EXCEPT ![c].idle = TRUE]
        PROVE  /\ channel[d].run # "free"
               /\ channel'[d].key = channel[d].key /\ channel'[d].buf = channel[d].buf
               /\ channel'[d].run = "live" => channel[d].run = "live"
    <3>1. DOMAIN channel = Channels
          /\ channel[c] = [key |-> channel[c].key, ctx |-> channel[c].ctx,
                           buf |-> channel[c].buf, run |-> channel[c].run,
                           idle |-> channel[c].idle, why |-> channel[c].why]
      BY DEF MergerInv, Shape
    <3>2. CASE d # c
      BY <1>3, <2>2, <3>1, <3>2
    <3>3. CASE d = c
      <4>1. channel'[c].key = channel[c].key /\ channel'[c].buf = channel[c].buf
        BY <2>2, <3>1
      <4>2. channel'[c].run = "live" => channel[c].run = "live"
        BY <2>2, <3>1
      <4> QED  BY <2>2, <3>3, <4>1, <4>2
    <3> QED  BY <3>2, <3>3
  <2> QED  BY <1>2, <2>1, <2>2
<1>4. \A d \in Channels : channel[d].run # "free" => channel[d].key \in Keys
  BY DEF MergerInv, Made
<1>5. \A p \in Pushers : pusher'[p].n \in Nat
  BY <1>1 DEF PushInv
<1> QED  BY <1>1, <1>3, <1>4, <1>5, BuffersStay

(* Steps that change one buffer. *)
LEMMA OneBuffer ==
  ASSUME PushInv, NEW c \in Channels,
         \A d \in Channels : d # c => channel'[d] = channel[d],
         \A p \in Pushers : pusher'[p].n \in Nat,
         \A m \in Messages : Pushed(m, pusher) => Pushed(m, pusher'),
         consumed' \subseteq Messages, \A m \in consumed' : Pushed(m, pusher'),
         channel'[c].run # "free" =>
           /\ Waits(channel'[c].buf, channel'[c].key)
           /\ \A i \in 1 .. Len(channel'[c].buf) :
                channel'[c].buf[i] # NilMessage => Pushed(channel'[c].buf[i], pusher'),
         channel'[c].run = "live" => AfterTaken(channel'[c].buf, channel'[c].key, consumed'),
         \A d \in Channels : d # c /\ channel[d].run = "live"
                               => AfterTaken(channel[d].buf, channel[d].key, consumed')
  PROVE  PushInv'
<1>1. ASSUME NEW d \in Channels, channel'[d].run # "free"
      PROVE  /\ Waits(channel'[d].buf, channel'[d].key)
             /\ \A i \in 1 .. Len(channel'[d].buf) :
                  channel'[d].buf[i] # NilMessage => Pushed(channel'[d].buf[i], pusher')
  <2>1. CASE d = c
    BY <1>1, <2>1
  <2>2. CASE d # c
    <3>1. channel'[d] = channel[d] /\ Waits(channel[d].buf, channel[d].key)
      BY <1>1, <2>2 DEF PushInv
    <3>2. ASSUME NEW i \in 1 .. Len(channel[d].buf), channel[d].buf[i] # NilMessage
          PROVE  channel[d].buf[i] \in Messages /\ Pushed(channel[d].buf[i], pusher)
      BY <1>1, <3>1, <3>2 DEF PushInv, Waits
    <3> QED  BY <3>1, <3>2
  <2> QED  BY <2>1, <2>2
<1>2. \A d \in Channels :
        channel'[d].run = "live" => AfterTaken(channel'[d].buf, channel'[d].key, consumed')
  OBVIOUS
<1> QED  BY <1>1, <1>2 DEF PushInv

(* The message just pushed is the last of its sender, in its channel and of all. *)
LEMMA SendPush ==
  ASSUME MergerInv, PushInv, NEW p \in Pushers, Send(p)
  PROVE  PushInv'
<1>1. PICK c : c = pusher[p].ch
  OBVIOUS
<1>2. PICK m : m = [from |-> p, n |-> pusher[p].n, key |-> pusher[p].key]
  OBVIOUS
<1>3. /\ consumed' = consumed /\ pusher[p].at = "send"
      /\ channel' = [channel EXCEPT ![c].buf = Append(@, m)]
      /\ pusher' = [pusher EXCEPT ![p].at = "out", ![p].ch = None]
  BY <1>1, <1>2 DEF Send, Sent
<1>4. /\ c \in Channels /\ channel[c].run # "free"
      /\ channel[c].key \in Keys /\ channel[c].key = pusher[p].key
  BY <1>1, <1>3 DEF MergerInv, Pushing
<1>5. PICK b : b = channel[c].buf
  OBVIOUS
<1>6. PICK k \in Keys : k = channel[c].key
  BY <1>4
<1>7. /\ m \in Messages /\ m.key = k /\ m.from = p /\ m.n = pusher[p].n
      /\ m # NilMessage
  <2>1. pusher[p].n \in Nat
    BY DEF PushInv
  <2>2. m \in Messages
    BY <1>2, <1>4, <2>1 DEF Messages
  <2> QED  BY <1>2, <1>4, <1>6, <2>2, NoneIsApart DEF NilMessage
<1>8. \A x \in Messages : x.from = p /\ Pushed(x, pusher) => x.n < m.n
  BY <1>3, <1>7 DEF Pushed
<1>9. /\ Waits(b, k)
      /\ \A i \in 1 .. Len(b) : b[i] # NilMessage => b[i] \in Messages /\ Pushed(b[i], pusher)
  BY <1>4, <1>5, <1>6 DEF PushInv, Waits
<1>10. PICK a : a = Append(b, m)
  OBVIOUS
<1>11. /\ Waits(a, k) /\ Len(b) \in Nat /\ Len(a) = Len(b) + 1
       /\ \A i \in 1 .. Len(b) : a[i] = b[i]
       /\ a[Len(b) + 1] = m
  <2>1. \A i \in 1 .. Len(b) : b[i] # NilMessage /\ b[i].from = m.from => b[i].n < m.n
    BY <1>7, <1>8, <1>9
  <2> QED  BY <1>7, <1>9, <1>10, <2>1, WaitsAppend
<1>12. /\ \A q \in Pushers : q # p => pusher'[q] = pusher[q]
       /\ pusher'[p].n = pusher[p].n /\ pusher'[p].at = "out"
       /\ \A d \in Channels : d # c => channel'[d] = channel[d]
       /\ channel'[c].key = k /\ channel'[c].buf = a /\ channel'[c].run = channel[c].run
  <2>1. /\ DOMAIN pusher = Pushers /\ DOMAIN channel = Channels
        /\ channel[c] = [key |-> channel[c].key, ctx |-> channel[c].ctx,
                         buf |-> channel[c].buf, run |-> channel[c].run,
                         idle |-> channel[c].idle, why |-> channel[c].why]
        /\ pusher[p] = [at |-> pusher[p].at, n |-> pusher[p].n,
                        key |-> pusher[p].key, ch |-> pusher[p].ch]
    BY <1>4 DEF MergerInv, Shape
  <2>2. /\ \A q \in Pushers : q # p => pusher'[q] = pusher[q]
        /\ pusher'[p].n = pusher[p].n /\ pusher'[p].at = "out"
    BY <1>3, <2>1
  <2>3. /\ \A d \in Channels : d # c => channel'[d] = channel[d]
        /\ channel'[c].key = k /\ channel'[c].buf = a /\ channel'[c].run = channel[c].run
    BY <1>3, <1>4, <1>5, <1>6, <1>10, <2>1
  <2> QED  BY <2>2, <2>3
<1>13. \A q \in Pushers : pusher'[q].n \in Nat
  BY <1>12 DEF PushInv
<1>14. \A x \in Messages : Pushed(x, pusher) => Pushed(x, pusher')
  BY <1>12 DEF Messages, Pushed
<1>15. Pushed(m, pusher')
  BY <1>7, <1>12, <1>13 DEF Pushed
<1>16. \A i \in 1 .. Len(a) : i \in 1 .. Len(b) \/ i = Len(b) + 1
  BY <1>11
<1>17. \A i \in 1 .. Len(a) : a[i] # NilMessage => Pushed(a[i], pusher')
  BY <1>9, <1>11, <1>14, <1>15, <1>16
<1>18. channel[c].run = "live" => AfterTaken(a, k, consumed)
  <2> SUFFICES ASSUME channel[c].run = "live", NEW i \in 1 .. Len(a), NEW o \in consumed,
                      a[i] # NilMessage, o.from = a[i].from, o.key = k
               PROVE  o.n < a[i].n
    BY DEF AfterTaken
  <2>1. CASE i \in 1 .. Len(b)
    <3>1. AfterTaken(b, k, consumed)
      BY <1>4, <1>5, <1>6 DEF PushInv
    <3> QED  BY <1>11, <2>1, <3>1 DEF AfterTaken
  <2>2. CASE i = Len(b) + 1
    <3>1. o \in Messages /\ Pushed(o, pusher)
      BY DEF PushInv
    <3> QED  BY <1>7, <1>8, <1>11, <2>2, <3>1
  <2> QED  BY <1>16, <2>1, <2>2
<1>19. consumed' \subseteq Messages /\ \A x \in consumed' : Pushed(x, pusher')
  BY <1>3, <1>14 DEF PushInv
<1>20. \A d \in Channels : d # c /\ channel[d].run = "live"
                            => AfterTaken(channel[d].buf, channel[d].key, consumed')
  BY <1>3 DEF PushInv
<1>21. /\ Waits(channel'[c].buf, channel'[c].key)
       /\ \A i \in 1 .. Len(channel'[c].buf) :
            channel'[c].buf[i] # NilMessage => Pushed(channel'[c].buf[i], pusher')
       /\ channel'[c].run = "live" => AfterTaken(channel'[c].buf, channel'[c].key, consumed')
  BY <1>3, <1>11, <1>12, <1>17, <1>18
<1> QED  BY <1>4, <1>12, <1>13, <1>14, <1>19, <1>20, <1>21, OneBuffer

LEMMA SendNilPush ==
  ASSUME MergerInv, PushInv, SendNil
  PROVE  PushInv'
<1>1. PICK c : c = checker.ch
  OBVIOUS
<1>2. /\ UNCHANGED <<pusher, consumed>>
      /\ channel' = [channel EXCEPT ![c].buf = Append(@, NilMessage)]
  BY <1>1 DEF SendNil, Sent
<1>3. CASE c \notin Channels
  <2>1. \A d \in Channels : channel'[d] = channel[d]
    BY <1>2, <1>3 DEF MergerInv, Shape
  <2>2. \A d \in Channels : channel[d].run # "free" => channel[d].key \in Keys
    BY DEF MergerInv, Made
  <2>3. \A p \in Pushers : pusher'[p].n \in Nat
    BY <1>2 DEF PushInv
  <2> QED  BY <1>2, <2>1, <2>2, <2>3, BuffersStay
<1>4. CASE c \in Channels
  <2>1. /\ \A d \in Channels : d # c => channel'[d] = channel[d]
        /\ channel'[c].key = channel[c].key /\ channel'[c].run = channel[c].run
        /\ channel'[c].buf = Append(channel[c].buf, NilMessage)
    <3>1. /\ DOMAIN channel = Channels
          /\ channel[c] = [key |-> channel[c].key, ctx |-> channel[c].ctx,
                           buf |-> channel[c].buf, run |-> channel[c].run,
                           idle |-> channel[c].idle, why |-> channel[c].why]
      BY <1>4 DEF MergerInv, Shape
    <3> QED  BY <1>2, <1>4, <3>1
  <2>2. ASSUME channel[c].run # "free"
        PROVE  /\ Waits(channel'[c].buf, channel'[c].key)
               /\ \A i \in 1 .. Len(channel'[c].buf) :
                    channel'[c].buf[i] # NilMessage => Pushed(channel'[c].buf[i], pusher')
               /\ channel'[c].run = "live"
                    => AfterTaken(channel'[c].buf, channel'[c].key, consumed')
    <3>1. PICK b : b = channel[c].buf
      OBVIOUS
    <3>2. PICK k \in Keys : k = channel[c].key
      BY <1>4, <2>2 DEF MergerInv, Made
    <3>3. /\ Waits(b, k)
          /\ \A i \in 1 .. Len(b) : b[i] # NilMessage => Pushed(b[i], pusher)
          /\ channel[c].run = "live" => AfterTaken(b, k, consumed)
      BY <1>4, <2>2, <3>1, <3>2 DEF PushInv
    <3>4. PICK a : a = Append(b, NilMessage)
      OBVIOUS
    <3>5. /\ Waits(a, k) /\ Len(b) \in Nat /\ Len(a) = Len(b) + 1
          /\ \A i \in 1 .. Len(b) : a[i] = b[i]
          /\ a[Len(b) + 1] = NilMessage
      BY <3>3, <3>4, WaitsAppend
    <3>6. \A i \in 1 .. Len(a) : a[i] # NilMessage => i \in 1 .. Len(b) /\ a[i] = b[i]
      BY <3>5
    <3>7. \A i \in 1 .. Len(a) : a[i] # NilMessage => Pushed(a[i], pusher)
      BY <3>3, <3>6
    <3>8. channel[c].run = "live" => AfterTaken(a, k, consumed)
      BY <3>3, <3>6 DEF AfterTaken
    <3> QED  BY <1>2, <2>1, <3>1, <3>2, <3>4, <3>5, <3>7, <3>8
  <2>3. \A d \in Channels : d # c /\ channel[d].run = "live"
                              => AfterTaken(channel[d].buf, channel[d].key, consumed')
    BY <1>2 DEF PushInv
  <2>4. /\ \A q \in Pushers : pusher'[q].n \in Nat
        /\ \A m \in Messages : Pushed(m, pusher) => Pushed(m, pusher')
        /\ consumed' \subseteq Messages /\ \A m \in consumed' : Pushed(m, pusher')
    BY <1>2 DEF PushInv
  <2> QED  BY <1>4, <2>1, <2>2, <2>3, <2>4, OneBuffer
<1> QED  BY <1>3, <1>4

(* Take: what is taken comes before what waits of its sender; no other stream *)
(* in its loop has its key (StreamsMatch).                                     *)
LEMMA TakePush ==
  ASSUME MergerInv, PushInv, NEW c \in Channels, Take(c) \/ TakeNil(c)
  PROVE  /\ PushInv'
         /\ \A m \in consumed' \ consumed : \A o \in consumed :
              o.from = m.from /\ o.key = m.key => o.n < m.n
<1>1. PICK b : b = channel[c].buf
  OBVIOUS
<1>2. /\ pusher' = pusher /\ channel[c].run = "live" /\ b # <<>>
      /\ \/ Head(b) # NilMessage /\ consumed' = consumed \union {Head(b)}
         \/ consumed' = consumed
  BY <1>1 DEF Take, TakeNil
<1>3. PICK k \in Keys : k = channel[c].key
  BY <1>2 DEF MergerInv, Made
<1>4. /\ Waits(b, k) /\ AfterTaken(b, k, consumed)
      /\ \A i \in 1 .. Len(b) : b[i] # NilMessage => b[i] \in Messages /\ Pushed(b[i], pusher)
  BY <1>1, <1>2, <1>3 DEF PushInv, Waits
<1>5. PICK t : t = Tail(b)
  OBVIOUS
<1>6. /\ Waits(t, k) /\ Head(b) = b[1] /\ 1 \in 1 .. Len(b)
      /\ \A i \in 1 .. Len(t) : i + 1 \in 1 .. Len(b) /\ 1 < i + 1 /\ t[i] = b[i + 1]
  BY <1>2, <1>4, <1>5, WaitsTail
<1>7. /\ \A d \in Channels : d # c => channel'[d] = channel[d]
      /\ channel'[c].key = k /\ channel'[c].buf = t
  <2>1. /\ DOMAIN channel = Channels
        /\ channel[c] = [key |-> channel[c].key, ctx |-> channel[c].ctx,
                         buf |-> channel[c].buf, run |-> channel[c].run,
                         idle |-> channel[c].idle, why |-> channel[c].why]
    BY DEF MergerInv, Shape
  <2>2. CASE Take(c)
    BY <1>1, <1>3, <1>5, <2>1, <2>2 DEF Take
  <2>3. CASE TakeNil(c)
    <3>1. PICK u, y : channel' = [channel EXCEPT ![c].buf = Tail(@), ![c].run = u, ![c].why = y]
      BY <2>3 DEF TakeNil
    <3> QED  BY <1>1, <1>3, <1>5, <2>1, <3>1
  <2> QED  BY <2>2, <2>3
<1>8. \A m \in consumed' \ consumed : m = b[1] /\ b[1] # NilMessage /\ m \in Messages
                                      /\ m.key = k /\ Pushed(m, pusher)
  <2>1. b[1] # NilMessage => b[1] \in Messages /\ Pushed(b[1], pusher) /\ b[1].key = k
    BY <1>4, <1>6 DEF Waits
  <2> QED  BY <1>2, <1>6, <2>1
<1>9. \A m \in consumed' \ consumed : \A o \in consumed :
        o.from = m.from /\ o.key = m.key => o.n < m.n
  BY <1>4, <1>6, <1>8 DEF AfterTaken
<1>10. AfterTaken(t, k, consumed')
  <2> SUFFICES ASSUME NEW i \in 1 .. Len(t), NEW o \in consumed',
                      t[i] # NilMessage, o.from = t[i].from, o.key = k
               PROVE  o.n < t[i].n
    BY DEF AfterTaken
  <2>1. i + 1 \in 1 .. Len(b) /\ 1 < i + 1 /\ t[i] = b[i + 1] /\ 1 \in 1 .. Len(b)
    BY <1>6
  <2>2. CASE o \in consumed
    BY <1>4, <2>1, <2>2 DEF AfterTaken
  <2>3. CASE o \notin consumed
    <3>1. o = b[1] /\ b[1] # NilMessage
      BY <1>8, <2>3
    <3> QED  BY <1>4, <2>1, <3>1 DEF Waits
  <2> QED  BY <2>2, <2>3
<1>11. ASSUME NEW d \in Channels, d # c, channel[d].run = "live"
       PROVE  AfterTaken(channel[d].buf, channel[d].key, consumed')
  <2>1. channel[d].key # k
    BY <1>2, <1>3, <1>11 DEF MergerInv, StreamsMatch
  <2>2. AfterTaken(channel[d].buf, channel[d].key, consumed)
    BY <1>11 DEF PushInv
  <2> QED  BY <1>8, <2>1, <2>2 DEF AfterTaken
<1>12. /\ \A q \in Pushers : pusher'[q].n \in Nat
       /\ \A m \in Messages : Pushed(m, pusher) => Pushed(m, pusher')
       /\ consumed' \subseteq Messages /\ \A m \in consumed' : Pushed(m, pusher')
  BY <1>2, <1>8 DEF PushInv
<1>13. /\ Waits(channel'[c].buf, channel'[c].key)
       /\ \A i \in 1 .. Len(channel'[c].buf) :
            channel'[c].buf[i] # NilMessage => Pushed(channel'[c].buf[i], pusher')
       /\ AfterTaken(channel'[c].buf, channel'[c].key, consumed')
  BY <1>2, <1>4, <1>6, <1>7, <1>10
<1> QED  BY <1>7, <1>9, <1>11, <1>12, <1>13, OneBuffer

LEMMA PushStepInv ==
  ASSUME MergerInv, PushInv, [Next]_vars
  PROVE  /\ PushInv'
         /\ \A m \in consumed' \ consumed : \A o \in consumed :
              o.from = m.from /\ o.key = m.key => o.n < m.n
<1>1. CASE UNCHANGED vars
  BY <1>1 DEF vars, PushInv
<1>2. ASSUME NEW c \in Channels, Take(c) \/ TakeNil(c)
      PROVE  /\ PushInv'
             /\ \A m \in consumed' \ consumed : \A o \in consumed :
                  o.from = m.from /\ o.key = m.key => o.n < m.n
  BY <1>2, TakePush
<1>3. CASE /\ Next
           /\ \A c \in Channels : ~Take(c) /\ ~TakeNil(c)
  <2>1. consumed' = consumed
    BY <1>3 DEF Next, CallCreate, CallDelete, CreateStream, DeleteStream, Enter, Store, Load,
         Send, SendPanics, TakeDone, Leave, Close, Silence, Tick, Visit, SendNil, SendNilPanics
  <2>2. PushInv'
    BY <1>3, EnterPush, LoadPush, SendPush, QuietPush, SendNilPush DEF Next
  <2> QED  BY <2>1, <2>2
<1> QED  BY <1>1, <1>2, <1>3

\* What one goroutine pushes for an endpoint its streams take in that order, whatever
\* streams end and begin and however the ticker, other goroutines and the deletion of
\* sessions come in between (merger.v2.go Push, stream.v2.go).
THEOREM MergerPushOrderKept == Spec => PushOrderKept
<1> DEFINE A == \A m \in consumed' \ consumed : \A o \in consumed :
                  o.from = m.from /\ o.key = m.key => o.n < m.n
<1>1. MergerInv /\ PushInv /\ [Next]_vars => PushInv' /\ [A]_vars
  BY PushStepInv
<1>2. PushOrderKept <=> [][A]_vars
  BY DEF PushOrderKept
<1> HIDE DEF A
<1> QED  BY <1>1, <1>2, PushInit, MergerInvariant, PTL DEF Spec
===============================================================================
