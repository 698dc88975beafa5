--------------------------------- MODULE Port ---------------------------------
(***************************************************************************)
(* The UDP ports of the server (adapter/server/udp.go): one goroutine a    *)
(* port reads the datagrams of every session, and hands them to the Retry  *)
(* and the Ack it keeps for each session in connectionControl.  Sessions   *)
(* that the use case dropped are purged from there when the port has too   *)
(* many; droppedSessions (server.v1.go) is one set for all ports.          *)
(*                                                                         *)
(* Of Retry and Ack only what can stop a port is modelled: whether their   *)
(* goroutines run, and how full the channel is that the port sends to      *)
(* (adapter/retry/retry.go keepaliveCh, adapter/ack/ack.go senderCh).      *)
(***************************************************************************)
EXTENDS Integers, FiniteSets

CONSTANTS
  Ports,
  Sessions,          (* identifiers the server gave, all of them alive at first *)
  SentIDs,           (* identifiers in the headers that come in                *)
  KeepaliveProbes,   (* capacity of keepaliveCh                                *)
  MaxSize,           (* capacity of senderCh                                   *)
  MaxSessionsCount,
  MaxDatagrams,      (* bound: datagrams all ports read                        *)
  None

ASSUME PortAssumption ==
  /\ KeepaliveProbes \in Nat /\ MaxSize \in Nat \ {0}
  /\ MaxSessionsCount \in Nat /\ MaxDatagrams \in Nat
  /\ 0 \notin Sessions /\ SentIDs \subseteq Sessions \union {0}
  /\ IsFiniteSet(Sessions)
  /\ None \notin [retry : BOOLEAN, ack : BOOLEAN, keepalives : Nat, ids : Nat]

VARIABLES
  loop,              (* port -> where its goroutine is, with whose datagram    *)
  connectionControl, (* port -> session -> its Retry and Ack                   *)
  curSessionsCount, maxSessionsCount,
  droppedSessions,
  alive,             (* sessions the use case has                              *)
  connections,       (* port -> sessions the use case has connections of there *)
  panicked,          (* a nil Retry or Ack was used                            *)
  \* what happened so far
  datagrams,         (* how many were read                                     *)
  silent,            (* <<port, session>> whose keepalive goroutine gave up    *)
  strays             (* port -> it counted down sessions it did not have       *)

counts == <<curSessionsCount, maxSessionsCount, strays>>
useCase == <<alive, connections>>
vars == <<loop, connectionControl, counts, droppedSessions, useCase, panicked, datagrams, silent>>

\* retry, ack: their goroutines run; keepalives, ids: what their channels hold
ConnControl ==
  [retry : BOOLEAN, ack : BOOLEAN, keepalives : 0 .. KeepaliveProbes, ids : 0 .. MaxSize]
NewControl == [retry |-> TRUE, ack |-> TRUE, keepalives |-> 0, ids |-> 0]

Known(p) == {s \in Sessions : connectionControl[p][s] # None}

Init ==
  /\ loop = [p \in Ports |-> [at |-> "read", sid |-> 0]]
  /\ connectionControl = [p \in Ports |-> [s \in Sessions |-> None]]
  /\ curSessionsCount = [p \in Ports |-> 0]
  /\ maxSessionsCount = [p \in Ports |-> MaxSessionsCount]
  /\ droppedSessions = {}
  /\ alive = Sessions
  /\ connections = [p \in Ports |-> {}]
  /\ panicked = FALSE
  /\ datagrams = 0
  /\ silent = {}
  /\ strays = [p \in Ports |-> FALSE]

Goes(p, place) == loop' = [loop EXCEPT ![p].at = place]

-----------------------------------------------------------------------------
(* The loop of a port *)

\* where a datagram goes: keepalives and acknowledgements to Retry, data to Ack
\* and the receiver, commands to the receiver
Way == [keepalive |-> "retry", acknowledgement |-> "retry", data |-> "ack", command |-> "command"]

\* mutant: counted with every datagram
CountedAlways(p, s) == curSessionsCount' = [curSessionsCount EXCEPT ![p] = @ + 1]

Counted(p, s) ==
  curSessionsCount' = [curSessionsCount EXCEPT ![p] = IF s \in Known(p) THEN @ ELSE @ + 1]

\* Data is decrypted with the key of its connection, or let go without one; whether
\* the session of that connection is still alive is not asked.
Decrypts(kind, p, senders) == kind = "data" => senders \intersect connections[p] # {}

\* A datagram with a session: the session's Retry and Ack are made when the
\* port does not know it, whether the use case does or not.
ReadSession(p) ==
  /\ loop[p].at = "read" /\ ~panicked /\ datagrams < MaxDatagrams
  /\ \E kind \in DOMAIN Way, s \in SentIDs \ {0} :
       /\ Decrypts(kind, p, {s})
       /\ connectionControl' = IF s \in Known(p) THEN connectionControl
                               ELSE [connectionControl EXCEPT ![p][s] = NewControl]
       /\ Counted(p, s)
       /\ loop' = [loop EXCEPT ![p] = [at |-> Way[kind], sid |-> s]]
  /\ datagrams' = datagrams + 1
  /\ UNCHANGED <<maxSessionsCount, strays, droppedSessions, useCase, panicked, silent>>

\* One without: its connection has neither, which only a command does not use.
ReadNoSession(p) ==
  /\ loop[p].at = "read" /\ ~panicked /\ datagrams < MaxDatagrams
  /\ 0 \in SentIDs
  /\ \E kind \in DOMAIN Way :
       /\ Decrypts(kind, p, Sessions)
       /\ panicked' = (kind # "command")
       /\ loop' = [loop EXCEPT ![p] = [at |-> Way[kind], sid |-> 0]]
  /\ datagrams' = datagrams + 1
  /\ UNCHANGED <<connectionControl, counts, droppedSessions, useCase, silent>>

\* a send to a channel goes through
Fits(held, capacity) == held < capacity

\* Retry.Keepalive and Retry.Ack end with a send to keepaliveCh; the loop goes on.
SendKeepalive(p) ==
  LET s == loop[p].sid
  IN  /\ loop[p].at = "retry" /\ ~panicked
      /\ Fits(connectionControl[p][s].keepalives, KeepaliveProbes)
      /\ connectionControl' = [connectionControl EXCEPT ![p][s].keepalives = @ + 1]
      /\ Goes(p, "read")
      /\ UNCHANGED <<counts, droppedSessions, useCase, panicked, datagrams, silent>>

\* Ack.Push: a send to senderCh; then the receiver has the datagram.
PushID(p) ==
  LET s == loop[p].sid
  IN  /\ loop[p].at = "ack" /\ ~panicked
      /\ Fits(connectionControl[p][s].ids, MaxSize)
      /\ connectionControl' = [connectionControl EXCEPT ![p][s].ids = @ + 1]
      /\ Goes(p, "purge")
      /\ UNCHANGED <<counts, droppedSessions, useCase, panicked, datagrams, silent>>

\* A command is answered, the last one of a handshake with a connection that is the
\* session's; when the answer cannot be sent nobody reads the port any more.
Answer(p) ==
  /\ loop[p].at = "command" /\ ~panicked
  /\ \E attached \in SUBSET ({loop[p].sid} \intersect alive) :
       connections' = [connections EXCEPT ![p] = @ \union attached]
  /\ \E sent \in BOOLEAN : Goes(p, IF sent THEN "purge" ELSE "ended")
  /\ UNCHANGED <<connectionControl, counts, droppedSessions, alive, panicked, datagrams, silent>>

\* Too many sessions: every dropped one goes from this port and from the set
\* of all ports, and the count goes down for each, known here or not.
Purge(p) ==
  /\ loop[p].at = "purge" /\ ~panicked
  /\ IF curSessionsCount[p] > maxSessionsCount[p]
     THEN LET count == curSessionsCount[p] - Cardinality(droppedSessions)
          IN  /\ connectionControl' = [connectionControl EXCEPT ![p] =
                   [s \in Sessions |-> IF s \in droppedSessions THEN None ELSE @[s]]]
              /\ droppedSessions' = {}
              /\ curSessionsCount' = [curSessionsCount EXCEPT ![p] = count]
              /\ maxSessionsCount' = [maxSessionsCount EXCEPT ![p] =
                                        IF count > @ THEN @ + 1 ELSE @]
              /\ strays' = [strays EXCEPT ![p] = @ \/ ~(droppedSessions \subseteq Known(p))]
     ELSE UNCHANGED <<connectionControl, counts, droppedSessions>>
  /\ Goes(p, "read")
  /\ UNCHANGED <<useCase, panicked, datagrams, silent>>

-----------------------------------------------------------------------------
(* The goroutines of Retry and Ack, which outlive their entry unseen *)

TakeKeepalive(p, s) ==
  /\ s \in Known(p) /\ ~panicked
  /\ connectionControl[p][s].retry /\ connectionControl[p][s].keepalives > 0
  /\ connectionControl' = [connectionControl EXCEPT ![p][s].keepalives = @ - 1]
  /\ UNCHANGED <<loop, counts, droppedSessions, useCase, panicked, datagrams, silent>>

TakeID(p, s) ==
  /\ s \in Known(p) /\ ~panicked
  /\ connectionControl[p][s].ack /\ connectionControl[p][s].ids > 0
  /\ connectionControl' = [connectionControl EXCEPT ![p][s].ids = @ - 1]
  /\ UNCHANGED <<loop, counts, droppedSessions, useCase, panicked, datagrams, silent>>

\* The keepalive goroutine gives up: it stops its Retry and disconnects, and with its
\* last connection the session goes.  No Ack is stopped, nor another Retry.
KeepaliveTimeout(p, s) ==
  /\ s \in Known(p) /\ ~panicked
  /\ connectionControl[p][s].retry /\ connectionControl[p][s].keepalives = 0
  /\ connectionControl' = [connectionControl EXCEPT ![p][s].retry = FALSE]
  /\ connections' = [connections EXCEPT ![p] = @ \ {s}]
  /\ LET last == s \in alive /\ {q \in Ports : s \in connections[q]} = {p}
     IN  /\ alive' = IF last THEN alive \ {s} ELSE alive
         /\ droppedSessions' = IF last THEN droppedSessions \union {s} ELSE droppedSessions
  /\ silent' = silent \union {<<p, s>>}
  /\ UNCHANGED <<loop, counts, panicked, datagrams>>

-----------------------------------------------------------------------------
(* dropSession of the use case: the Retry and Ack of the session's         *)
(* connections stop and the ports are told; the connections stay.          *)

\* mutant: those of every session of the port
StoppedAny(s) == Sessions

Stopped(s) == {s}

Stop(c) == IF c = None THEN None ELSE [c EXCEPT !.retry = FALSE, !.ack = FALSE]

Drop(s) ==
  /\ s \in alive /\ ~panicked
  /\ alive' = alive \ {s}
  /\ connectionControl' = [p \in Ports |-> [t \in Sessions |->
       IF s \in connections[p] /\ t \in Stopped(s) THEN Stop(connectionControl[p][t])
       ELSE connectionControl[p][t]]]
  /\ droppedSessions' = droppedSessions \union {s}
  /\ UNCHANGED <<loop, counts, connections, panicked, datagrams, silent>>

-----------------------------------------------------------------------------

Next ==
  \/ \E p \in Ports :
       \/ ReadSession(p) \/ ReadNoSession(p) \/ SendKeepalive(p) \/ PushID(p)
       \/ Answer(p) \/ Purge(p)
  \/ \E p \in Ports, s \in Sessions :
       TakeKeepalive(p, s) \/ TakeID(p, s) \/ KeepaliveTimeout(p, s)
  \/ \E s \in Sessions : Drop(s)

Spec == Init /\ [][Next]_vars

-----------------------------------------------------------------------------
(* Properties *)

\* The goroutine of a port waits for a channel that nobody reads any more, and
\* with it every session on the port.
Stuck(p) ==
  LET c == connectionControl[p][loop[p].sid]
  IN  \/ loop[p].at = "retry" /\ c.keepalives = KeepaliveProbes /\ ~c.retry
      \/ loop[p].at = "ack" /\ c.ids = MaxSize /\ ~c.ack

\* A port gets stuck only on a datagram of a session that was dropped, or that had been
\* silent on this port for too long: never on one that is served.
StuckExplained ==
  ~panicked => \A p \in Ports :
    Stuck(p) => loop[p].sid \notin alive \/ <<p, loop[p].sid>> \in silent

\* The count of sessions is what the port has, as long as no session was purged here
\* that came in on other ports only; then it is too low for good.
CountRight ==
  \A p \in Ports :
    /\ curSessionsCount[p] <= Cardinality(Known(p))
    /\ ~strays[p] => curSessionsCount[p] = Cardinality(Known(p))

===============================================================================
