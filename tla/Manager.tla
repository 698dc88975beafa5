-------------------------------- MODULE Manager --------------------------------
(***************************************************************************)
(* The client program seen from outside: the GUI (business/usecase/gui.go) *)
(* with its list of connections, the gRPC calls it makes                   *)
(* (adapter/grpc/client and server), and the connection manager            *)
(* (connection.manager.go, connection.manager.stat.go) with its own list,  *)
(* the client at work, and the statistics every packet goes through.       *)
(*                                                                         *)
(* Each event of the window and each call is a goroutine.  connMux is held *)
(* while a client is made and started, statMux while the rates of an       *)
(* interval are sent on an unbuffered channel to the handler of a          *)
(* StatisticStream, which sends them to the GUI.                           *)
(***************************************************************************)
EXTENDS Integers, Sequences, SequencesExt, FiniteSets

CONSTANTS
  Servers,
  Connections,       (* the list of connections at the start: a sequence of servers *)
  Calls,             (* commands of the GUI that run at the same time          *)
  Streams,           (* calls of StatisticStream                               *)
  MaxCommands, MaxEdits,     (* bounds: commands, and edits among them         *)
  MaxClients, MaxPushes,     (* bounds: clients created, statistics pushed     *)
  None

InStatSize == Len(Connections)
IDs == 1 .. Len(Connections) + MaxEdits      (* counted from 0 in the code     *)

ASSUME ManagerAssumption ==
  /\ Connections \in Seq(Servers) /\ Connections # <<>>
  /\ {MaxCommands, MaxEdits, MaxClients, MaxPushes} \subseteq Nat
  /\ None \notin Servers \union Streams \union Calls \union Int

VARIABLES
  guiCfg,            (* GUIUseCase.cfg.Connections                             *)
  cfg,               (* ConnectionManagerUseCase.cfg.Connections               *)
  connections,       (* id -> the client at work                               *)
  clients,           (* the clients created: connID, astray, at        *)
  connMux,           (* the call that holds it                                 *)
  call,              (* command -> what it does next, and its arguments        *)
  process,           (* "runs", "quits" (a signal is in quit), "ended", "panicked" *)
  \* statistics
  data,              (* "push" while a goroutine of a client has a packet's    *)
                     (* statistics to push; one at a time is enough            *)
  inStatCh,          (* how many statistics wait in it                         *)
  sessionStat,       (* the goroutine: where it is, updated, init              *)
  outStatCh,         (* the stream whose channel it has                        *)
  stream,            (* stream -> its handler, and whether the GUI is there    *)
  \* what happened so far
  commands, edits, pushes,
  misled             (* an update failed, or two were under way at once        *)

lists == <<guiCfg, cfg, misled>>
table == <<connections, clients, connMux>>
count == <<commands, edits>>
control == <<lists, table, call, process, count>>
statistics == <<data, inStatCh, sessionStat, outStatCh, stream, pushes>>
vars == <<control, statistics>>

NoCall == [at |-> "idle", id |-> 1, asked |-> None, cfg |-> <<>>, exits |-> FALSE,
           tainted |-> FALSE]

Init ==
  /\ guiCfg = Connections /\ cfg = Connections
  /\ connections = [i \in IDs |-> None]
  /\ clients = <<>>
  /\ connMux = None
  /\ call = [k \in Calls |-> NoCall]
  /\ process = "runs"
  /\ data = "none"
  /\ inStatCh = 0
  /\ sessionStat = [at |-> "select", updated |-> FALSE, init |-> FALSE]
  /\ outStatCh = None
  /\ stream = [s \in Streams |-> [at |-> "off", alive |-> TRUE]]
  /\ commands = 0 /\ edits = 0 /\ pushes = 0
  /\ misled = FALSE

Running == process \in {"runs", "quits"}
At(k, place) == Running /\ call[k].at = place
GoesTo(k, place) == [call EXCEPT ![k].at = place]
Returns(k) == [call EXCEPT ![k] = NoCall]
EndsWith(k, place) == [call EXCEPT ![k] = [NoCall EXCEPT !.at = place]]
Active == {k \in Calls : call[k].at # "idle"}
Updating == {k \in Calls : call[k].at = "update"}

-----------------------------------------------------------------------------
(* The commands of the GUI *)

Command(k) ==
  /\ At(k, "idle") /\ commands < MaxCommands
  /\ commands' = commands + 1

\* CommandConnect, with IsConnect
CommandConnect(k) ==
  /\ Command(k)
  /\ \E i \in DOMAIN guiCfg :
       call' = [call EXCEPT ![k] = [NoCall EXCEPT !.at = "check", !.id = i, !.asked = guiCfg[i],
                                      !.tainted = misled \/ Updating # {}]]
  /\ UNCHANGED <<lists, table, process, edits, statistics>>

CommandDisconnect(k) ==
  /\ Command(k)
  /\ \E i \in DOMAIN guiCfg :
       call' = [call EXCEPT ![k] = [NoCall EXCEPT !.at = "disconnect", !.id = i]]
  /\ UNCHANGED <<lists, table, process, edits, statistics>>

\* What CommandConnectionDelete, CommandConnectionUpdate and CommandConnectionImport
\* make of the list.
Edited ==
  {RemoveAt(guiCfg, i) : i \in DOMAIN guiCfg}
    \union {[guiCfg EXCEPT ![i] = s] : i \in DOMAIN guiCfg, s \in Servers}
    \union {Append(guiCfg, s) : s \in Servers}

\* The GUI's own list is changed first, then it is sent to the manager.
CommandEdit(k) ==
  /\ Command(k) /\ edits < MaxEdits
  /\ edits' = edits + 1
  /\ \E new \in Edited :
       /\ guiCfg' = new
       /\ call' = [j \in Calls |->
            IF j = k THEN [NoCall EXCEPT !.at = "update", !.cfg = new]
            ELSE [call[j] EXCEPT !.tainted = @ \/ j \in Active]]
  /\ misled' = (misled \/ Updating # {})
  /\ UNCHANGED <<cfg, table, process, statistics>>

\* Shutdown of the GUI: its list goes to the manager, which may be told to exit.
CommandShutdown(k) ==
  /\ Command(k)
  /\ call' = [call EXCEPT ![k] = [NoCall EXCEPT !.at = "update", !.cfg = guiCfg, !.exits = TRUE]]
  /\ misled' = (misled \/ Updating # {})
  /\ UNCHANGED <<guiCfg, cfg, table, process, edits, statistics>>

-----------------------------------------------------------------------------
(* The connection manager *)

\* mutant: the new list is saved and not used
UpdatedOnlySaved(new) == cfg

Updated(new) == new

\* No lock: the list is replaced under whoever uses it.
UpdateConfig(k) ==
  /\ At(k, "update")
  /\ cfg' = Updated(call[k].cfg)
  /\ \/ call' = EndsWith(k, IF call[k].exits THEN "shutdown" ELSE "state")
     \/ call[k].exits /\ call' = Returns(k)     (* ShutdownClientOnExit is not set *)
  /\ UNCHANGED <<guiCfg, misled, table, process, count, statistics>>

\* The call fails, or its data is not a configuration: the GUI keeps its list.
UpdateFails(k) ==
  /\ At(k, "update")
  /\ call' = Returns(k)
  /\ misled' = TRUE
  /\ UNCHANGED <<guiCfg, cfg, table, process, count, statistics>>

\* GetConnections, under the read lock, at the end of most calls
GetState(k) ==
  /\ At(k, "state") /\ connMux = None
  /\ call' = Returns(k)
  /\ UNCHANGED <<lists, table, process, count, statistics>>

\* Connect looks at the number before it takes the lock.
ConnectChecks(k) ==
  /\ At(k, "check")
  /\ call' = IF call[k].id \in DOMAIN cfg THEN GoesTo(k, "connect") ELSE Returns(k)
  /\ UNCHANGED <<lists, table, process, count, statistics>>

AtWork == {i \in IDs : connections[i] # None}

\* mutant: only a client of the same number makes way
LeavingSameOnly(k) == AtWork \intersect {call[k].id}

\* the one that makes way: the loop ends after the first it finds
Leaving(k) == AtWork

Exited(c) == [clients EXCEPT ![c].at = "exited"]

ConnectLocks(k) ==
  /\ At(k, "connect") /\ connMux = None
  /\ connMux' = k
  /\ call' = GoesTo(k, "create")
  /\ IF Leaving(k) = {} THEN UNCHANGED <<connections, clients>>
     ELSE \E i \in Leaving(k) :
            /\ clients' = Exited(connections[i])
            /\ connections' = [connections EXCEPT ![i] = None]
  /\ UNCHANGED <<lists, process, count, statistics>>

\* the user asked for another server, and nothing explains it
Astray(k) == cfg[call[k].id] # call[k].asked /\ ~call[k].tainted

\* The list may have become shorter since.
CreateConnection(k) ==
  /\ At(k, "create") /\ Len(clients) < MaxClients
  /\ IF call[k].id \in DOMAIN cfg
     THEN /\ clients' = Append(clients, [id |-> call[k].id, astray |-> Astray(k), at |-> "starts"])
          /\ call' = GoesTo(k, "start")
          /\ UNCHANGED process
     ELSE /\ process' = "panicked"
          /\ UNCHANGED <<clients, call>>
  /\ UNCHANGED <<lists, connections, connMux, count, statistics>>

CreateConnectionFails(k) ==
  /\ At(k, "create") /\ call[k].id \in DOMAIN cfg
  /\ connMux' = None
  /\ call' = Returns(k)
  /\ UNCHANGED <<lists, connections, clients, process, count, statistics>>

\* mutant: an error returns with the lock
AfterConnectLocked(k) == k

AfterConnect(k) == None

\* Start returns.  When it fails the ports that were connected stay connected, and
\* nobody knows the client any more.
Start(k, ok) ==
  /\ At(k, "start")
  /\ clients' = [clients EXCEPT ![Len(clients)].at = IF ok THEN "up" ELSE "lost"]
  /\ connections' = IF ok THEN [connections EXCEPT ![call[k].id] = Len(clients)]
                    ELSE connections
  /\ connMux' = AfterConnect(k)
  /\ call' = IF ok THEN EndsWith(k, "state") ELSE Returns(k)
  /\ UNCHANGED <<lists, process, count, statistics>>

Disconnect(k) ==
  /\ At(k, "disconnect") /\ connMux = None
  /\ IF call[k].id \in AtWork
     THEN /\ clients' = Exited(connections[call[k].id])
          /\ connections' = [connections EXCEPT ![call[k].id] = None]
     ELSE UNCHANGED <<connections, clients>>
  /\ call' = EndsWith(k, "state")
  /\ UNCHANGED <<lists, connMux, process, count, statistics>>

Shutdown(k) ==
  /\ At(k, "shutdown") /\ connMux = None
  /\ clients' = [c \in DOMAIN clients |->
       IF \E i \in AtWork : connections[i] = c THEN [clients[c] EXCEPT !.at = "exited"]
       ELSE clients[c]]
  /\ process' = "quits"
  /\ call' = Returns(k)
  /\ UNCHANGED <<lists, connections, connMux, count, statistics>>

\* main returns.  (At a signal it does so at any time, and ends no client.)
End ==
  /\ process = "quits"
  /\ process' = "ended"
  /\ UNCHANGED <<lists, table, call, count, statistics>>

-----------------------------------------------------------------------------
(* Statistics *)

\* A packet: a goroutine of the client calls the statistic handler.
Push ==
  /\ Running
  /\ \E c \in DOMAIN clients : clients[c].at \in {"up", "lost"}
  /\ data = "none" /\ pushes < MaxPushes
  /\ data' = "push"
  /\ pushes' = pushes + 1
  /\ UNCHANGED <<control, inStatCh, sessionStat, outStatCh, stream>>

Pushed ==
  /\ Running
  /\ data = "push" /\ inStatCh < InStatSize
  /\ inStatCh' = inStatCh + 1
  /\ data' = "none"
  /\ UNCHANGED <<control, sessionStat, outStatCh, stream, pushes>>

\* What was pushed is added to the sums of this interval.
Collect ==
  /\ Running
  /\ sessionStat.at = "select" /\ inStatCh > 0
  /\ inStatCh' = inStatCh - 1
  /\ sessionStat' = [sessionStat EXCEPT !.updated = TRUE]
  /\ UNCHANGED <<control, data, outStatCh, stream, pushes>>

\* The ticker: nothing is sent when nothing came, but once, to show rates of zero.
\* statMux is held from here on as long as sessionStat is at "send".
Tick ==
  /\ Running
  /\ sessionStat.at = "select" /\ (sessionStat.updated \/ ~sessionStat.init)
  /\ sessionStat' = [at |-> IF outStatCh = None THEN "select" ELSE "send",
                     updated |-> outStatCh # None /\ sessionStat.updated,
                     init |-> ~sessionStat.updated]
  /\ UNCHANGED <<control, data, inStatCh, outStatCh, stream, pushes>>

StatMuxFree == sessionStat.at # "send"

StreamGoes(s, place) == [stream EXCEPT ![s].at = place]

\* The channel is unbuffered: the rates are sent when the handler takes them.
SendRates ==
  /\ Running
  /\ sessionStat.at = "send" /\ stream[outStatCh].at = "receive"
  /\ sessionStat' = [sessionStat EXCEPT !.at = "select", !.updated = FALSE]
  /\ stream' = StreamGoes(outStatCh, "deliver")
  /\ UNCHANGED <<control, data, inStatCh, outStatCh, pushes>>

\* StatisticStream: its channel takes the place of any other.
OpenStream(s) ==
  /\ Running
  /\ stream[s].at = "off" /\ StatMuxFree
  /\ outStatCh' = s
  /\ stream' = StreamGoes(s, "receive")
  /\ UNCHANGED <<control, data, inStatCh, sessionStat, pushes>>

\* The GUI goes away.
Cancel(s) ==
  /\ Running
  /\ stream[s].at # "off" /\ stream[s].alive
  /\ stream' = [stream EXCEPT ![s].alive = FALSE]
  /\ UNCHANGED <<control, data, inStatCh, sessionStat, outStatCh, pushes>>

\* SendMsg waits for a GUI that does not read, when much is unread already.  Then the
\* loop looks whether the GUI is still there.
SendMsg(s) ==
  /\ Running
  /\ stream[s].at = "deliver"
  /\ stream' = StreamGoes(s, IF stream[s].alive THEN "receive" ELSE "unset")
  /\ UNCHANGED <<control, data, inStatCh, sessionStat, outStatCh, pushes>>

\* mutant: a stream that ends leaves its channel
LeftKept == outStatCh

Left == None

\* SetStatisticChannel(nil), deferred: whoever's channel is there goes.
UnsetChannel(s) ==
  /\ Running
  /\ stream[s].at = "unset" /\ StatMuxFree
  /\ outStatCh' = Left
  /\ stream' = StreamGoes(s, "ended")
  /\ UNCHANGED <<control, data, inStatCh, sessionStat, pushes>>

-----------------------------------------------------------------------------

CallStep(k) ==
  \/ UpdateConfig(k) \/ UpdateFails(k) \/ GetState(k)
  \/ ConnectChecks(k) \/ ConnectLocks(k) \/ CreateConnection(k) \/ CreateConnectionFails(k)
  \/ Start(k, TRUE) \/ Start(k, FALSE) \/ Disconnect(k) \/ Shutdown(k)

StreamStep(s) == (~stream[s].alive /\ SendMsg(s)) \/ UnsetChannel(s)

Next ==
  \/ \E k \in Calls :
       \/ CommandConnect(k) \/ CommandDisconnect(k) \/ CommandEdit(k) \/ CommandShutdown(k)
       \/ UpdateConfig(k) \/ UpdateFails(k) \/ GetState(k)
       \/ ConnectChecks(k) \/ ConnectLocks(k)
       \/ CreateConnection(k) \/ CreateConnectionFails(k)
       \/ Start(k, TRUE) \/ Start(k, FALSE) \/ Disconnect(k) \/ Shutdown(k)
  \/ End
  \/ Push \/ Pushed \/ Collect \/ Tick \/ SendRates
  \/ \E s \in Streams :
       OpenStream(s) \/ Cancel(s) \/ SendMsg(s) \/ UnsetChannel(s)

Spec == Init /\ [][Next]_vars

\* Goroutines run and take turns at connMux, and Start and Exit of a client return.
\* The GUI need not read what is sent to it.
Fairness ==
  /\ \A k \in Calls : WF_vars(CallStep(k))
  /\ WF_vars(Pushed) /\ WF_vars(Collect) /\ WF_vars(Tick) /\ WF_vars(SendRates)
  /\ \A s \in Streams : WF_vars(StreamStep(s))

FairSpec == Spec /\ Fairness

-----------------------------------------------------------------------------
(* Properties *)

\* The user is connected to the server he chose, though the GUI and the manager
\* have a list each and agree on a position in it only: unless an update of the
\* list failed, crossed another one or the call.  Nor is the position beyond the
\* list otherwise.
AskedIsDialled ==
  /\ \A c \in DOMAIN clients : ~clients[c].astray
  /\ process = "panicked" => \E k \in Calls : call[k].at = "create" /\ call[k].tainted

\* One client is at work at a time, whatever calls overlap, and the manager knows
\* it, so that Disconnect and Shutdown end it: unless its Start failed.
RunningIsKnown ==
  /\ \A c \in DOMAIN clients : clients[c].at = "up" => connections[clients[c].id] = c
  /\ Cardinality({c \in DOMAIN clients : clients[c].at \in {"starts", "up"}}) <= 1

\* Every call comes back: what happens to the statistics, and whether the GUI reads
\* them, keeps nobody who needs connMux.
CallsReturn ==
  \A k \in Calls : (call[k].at # "idle") ~> (call[k].at = "idle" \/ ~Running)

\* The handler that would take the rates waits for statMux, or for a GUI that does
\* not read.
ReaderIsGone == sessionStat.at = "send" /\ stream[outStatCh].at = "unset"
ReaderIsSlow ==
  /\ sessionStat.at = "send"
  /\ stream[outStatCh].at = "deliver" /\ stream[outStatCh].alive

\* Packets go on: a goroutine that has statistics to push waits for ever only when
\* the rates of an interval cannot be sent.
PacketsGoOn ==
  \/ []<>(data = "none" \/ ~Running)
  \/ <>[](ReaderIsGone \/ ReaderIsSlow)
================================================================================
