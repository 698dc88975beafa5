----------------------------- MODULE ManagerProofs -----------------------------
(***************************************************************************)
(* Proofs about the connection manager and the GUI, for every list of      *)
(* connections and any number of commands at the same time: the server     *)
(* that is dialled is the one the user chose, and the client at work is    *)
(* one, and known.                                                         *)
(***************************************************************************)
EXTENDS Manager, FiniteSetTheorems, TLAPS

Client == [id : IDs, astray : BOOLEAN, at : {"starts", "up", "lost", "exited"}]

CallType == [at : {"idle", "check", "connect", "create", "start", "disconnect", "update",
                   "state", "shutdown"},
             id : IDs, asked : Servers \union {None}, cfg : Seq(Servers),
             exits : BOOLEAN, tainted : BOOLEAN]

ListsType ==
  /\ guiCfg \in Seq(Servers) /\ cfg \in Seq(Servers)
  /\ edits \in 0 .. MaxEdits /\ Len(guiCfg) <= Len(Connections) + edits
  /\ call \in [Calls -> CallType]
  /\ misled \in BOOLEAN

TableType ==
  /\ connections \in [IDs -> {None} \union Nat]
  /\ clients \in Seq(Client)
  /\ connMux \in {None} \union Calls

-----------------------------------------------------------------------------
(* The two lists *)

\* Unless an update failed or crossed another, the manager has the list of the GUI or
\* is about to get it.
Synced ==
  ~misled =>
    /\ Updating = {} => cfg = guiCfg
    /\ \A j \in Updating : call[j].cfg = guiCfg
    /\ \A j, k \in Updating : j = k

\* While a call that nothing disturbed is under way, the lists are the same and stay so.
Dialling == {k \in Calls : call[k].at \in {"check", "connect", "create"}}

Undisturbed ==
  \A k \in Dialling : ~call[k].tainted =>
    /\ cfg = guiCfg /\ call[k].id \in DOMAIN guiCfg /\ guiCfg[call[k].id] = call[k].asked
    /\ \A j \in Updating : call[j].cfg = guiCfg

-----------------------------------------------------------------------------
(* The table of clients *)

\* connMux is held by the call that makes a client, and by no other.
Locked ==
  /\ \A k \in Calls : call[k].at \in {"create", "start"} => connMux = k
  /\ connMux # None => call[connMux].at \in {"create", "start"} /\ AtWork = {}

\* What the manager has is a client that came up under this number, one at a time.
Table ==
  /\ \A i \in AtWork :
       /\ connections[i] \in DOMAIN clients
       /\ clients[connections[i]].id = i /\ clients[connections[i]].at \in {"up", "exited"}
  /\ \A i, j \in AtWork : i = j
  /\ \A c \in DOMAIN clients : clients[c].at = "up" => connections[clients[c].id] = c

\* The client that starts is the last one made, by the call that holds connMux.
Starting ==
  /\ \A c \in DOMAIN clients : clients[c].at = "starts" =>
       c = Len(clients) /\ connMux # None /\ call[connMux].at = "start"
  /\ \A k \in Calls : call[k].at = "start" =>
       clients # <<>> /\ clients[Len(clients)].at = "starts"
                      /\ clients[Len(clients)].id = call[k].id

ListsInv == ListsType /\ Synced /\ Undisturbed

TableInv == TableType /\ Locked /\ Table /\ Starting

ManagerInv == ListsInv /\ TableInv /\ AskedIsDialled

-----------------------------------------------------------------------------
(* What a step leaves as it is *)

Making == {"create", "start"}

LEMMA NoneIsApart == None \notin Servers \union Streams \union Calls \union Int
BY ManagerAssumption DEF ManagerAssumption

LEMMA Positions ==
  /\ MaxEdits \in Nat /\ Len(Connections) \in Nat /\ IDs = 1 .. Len(Connections) + MaxEdits
  /\ 1 \in IDs
  /\ \A s \in Seq(Servers), e \in 0 .. MaxEdits :
       Len(s) <= Len(Connections) + e => DOMAIN s \subseteq IDs
<1>1. /\ MaxEdits \in Nat /\ Len(Connections) \in Nat /\ Len(Connections) >= 1
  BY ManagerAssumption DEF ManagerAssumption
<1> QED  BY <1>1 DEF IDs

LEMMA NoCallType ==
  /\ NoCall \in CallType /\ NoCall.at = "idle" /\ NoCall.id = 1 /\ ~NoCall.exits
  /\ ~NoCall.tainted
BY Positions DEF NoCall, CallType

\* A call goes on with its list as it was, and with the server it was asked for.
LEMMA ListsKept ==
  ASSUME ListsInv, NEW k \in Calls, UNCHANGED <<guiCfg, cfg, misled, edits>>,
         call' = [call EXCEPT ![k] = call'[k]], call'[k] \in CallType,
         call[k].at # "update", call'[k].at # "update",
         call'[k].at \in {"check", "connect", "create"} =>
           /\ call[k].at \in {"check", "connect", "create"}
           /\ call'[k].id = call[k].id /\ call'[k].asked = call[k].asked
           /\ call'[k].tainted = call[k].tainted
  PROVE  ListsInv'
<1>1. ListsType'
  BY DEF ListsInv, ListsType
<1>2. \A j \in Calls \ {k} : call'[j] = call[j]
  BY DEF ListsInv, ListsType
<1>3. Updating' = Updating /\ \A j \in Updating : call'[j] = call[j]
  BY <1>2 DEF Updating
<1>4. Synced'
  BY <1>3 DEF ListsInv, Synced
<1>5. Undisturbed'
  <2> SUFFICES ASSUME NEW j \in Dialling', ~call'[j].tainted
               PROVE  /\ cfg = guiCfg /\ call'[j].id \in DOMAIN guiCfg
                      /\ guiCfg[call'[j].id] = call'[j].asked
                      /\ \A i \in Updating : call[i].cfg = guiCfg
    BY <1>3 DEF Undisturbed
  <2>1. j \in Dialling /\ call'[j].id = call[j].id /\ call'[j].asked = call[j].asked
        /\ ~call[j].tainted
    BY <1>2 DEF Dialling
  <2> QED  BY <2>1 DEF ListsInv, Undisturbed
<1> QED  BY <1>1, <1>4, <1>5 DEF ListsInv

LEMMA ListsSame ==
  ASSUME ListsInv, UNCHANGED <<guiCfg, cfg, misled, edits, call>>
  PROVE  ListsInv'
BY DEF ListsInv, ListsType, Synced, Undisturbed, Updating, Dialling

\* No client is made, and no call that makes one is disturbed.
LEMMA TableKept ==
  ASSUME TableInv, UNCHANGED table,
         \A j \in Calls :
           call[j].at \in Making \/ call'[j].at \in Making =>
             call'[j].at = call[j].at /\ call'[j].id = call[j].id
  PROVE  TableInv'
<1>1. TableType' /\ Table' /\ AtWork' = AtWork
  BY DEF TableInv, TableType, Table, AtWork, table
<1>2. Locked'
  BY <1>1 DEF TableInv, TableType, Locked, Making, table
<1>3. Starting'
  BY DEF TableInv, TableType, Locked, Starting, Making, table
<1> QED  BY <1>1, <1>2, <1>3 DEF TableInv

LEMMA NoNewAstray ==
  ASSUME AskedIsDialled, process' # "panicked",
         DOMAIN clients' = DOMAIN clients,
         \A c \in DOMAIN clients : clients'[c].astray = clients[c].astray
  PROVE  AskedIsDialled'
BY DEF AskedIsDialled

-----------------------------------------------------------------------------
(* The initial states, and the commands *)

LEMMA ManagerInit == Init => ManagerInv
<1> SUFFICES ASSUME Init PROVE ManagerInv
  OBVIOUS
<1>1. \A k \in Calls : call[k] = NoCall
  BY DEF Init
<1>2. Updating = {} /\ Dialling = {} /\ AtWork = {}
  BY <1>1, NoCallType DEF Init, Updating, Dialling, AtWork
<1>3. ListsType
  <2>1. call \in [Calls -> CallType]
    BY NoCallType DEF Init
  <2>2. guiCfg \in Seq(Servers) /\ cfg \in Seq(Servers) /\ Len(guiCfg) <= Len(Connections) + 0
    BY Positions, ManagerAssumption DEF Init, ManagerAssumption
  <2>3. edits = 0 /\ 0 \in 0 .. MaxEdits
    BY Positions DEF Init
  <2>4. misled \in BOOLEAN
    BY DEF Init
  <2> QED  BY <2>1, <2>2, <2>3, <2>4 DEF ListsType
<1>4. Synced /\ Undisturbed
  BY <1>2 DEF Init, Synced, Undisturbed
<1>5. TableType
  BY DEF Init, TableType
<1>6. Locked /\ Table /\ Starting /\ AskedIsDialled
  BY <1>1, <1>2, NoCallType DEF Init, Locked, Table, Starting, AskedIsDialled
<1> QED  BY <1>3, <1>4, <1>5, <1>6 DEF ManagerInv, ListsInv, TableInv

LEMMA CommandConnectKeeps ==
  ASSUME ManagerInv, NEW k \in Calls, CommandConnect(k)
  PROVE  ManagerInv'
<1>1. PICK i \in DOMAIN guiCfg :
        call' = [call EXCEPT ![k] = [NoCall EXCEPT !.at = "check", !.id = i, !.asked = guiCfg[i],
                                                   !.tainted = misled \/ Updating # {}]]
  BY DEF CommandConnect
<1>2. /\ call[k].at = "idle" /\ process # "panicked"
      /\ UNCHANGED <<lists, table, process, edits, statistics>>
  BY DEF CommandConnect, Command, At, Running
<1>3. PICK t : t = (misled \/ Updating # {})
  OBVIOUS
<1>4. i \in IDs /\ guiCfg[i] \in Servers
  BY Positions DEF ManagerInv, ListsInv, ListsType
<1>5. call' = [call EXCEPT ![k] = [NoCall EXCEPT !.at = "check", !.id = i, !.asked = guiCfg[i],
                                                 !.tainted = t]]
  BY <1>1, <1>3
<1>6. /\ call'[k].at = "check" /\ call'[k].id = i /\ call'[k].asked = guiCfg[i]
      /\ call'[k].tainted = t
      /\ \A j \in Calls \ {k} : call'[j] = call[j]
      /\ call' \in [Calls -> CallType]
  <2>1. t \in BOOLEAN
    BY <1>3
  <2>2. [NoCall EXCEPT !.at = "check", !.id = i, !.asked = guiCfg[i], !.tainted = t] \in CallType
    BY <1>4, <2>1, NoCallType DEF CallType
  <2>3. \A a, d, u : LET c == [NoCall EXCEPT !.at = "check", !.id = a, !.asked = d, !.tainted = u]
                    IN  c.at = "check" /\ c.id = a /\ c.asked = d /\ c.tainted = u
    BY DEF NoCall
  <2> QED  BY <1>5, <2>2, <2>3 DEF ManagerInv, ListsInv, ListsType
<1>7. Updating' = Updating /\ \A j \in Updating : call'[j] = call[j]
  BY <1>2, <1>6 DEF Updating
<1>8. ListsInv'
  <2>1. ListsType'
    BY <1>2, <1>6 DEF ManagerInv, ListsInv, ListsType, lists
  <2>2. Synced'
    BY <1>2, <1>7 DEF ManagerInv, ListsInv, Synced, lists
  <2>3. Undisturbed'
    <3> SUFFICES ASSUME NEW j \in Dialling', ~call'[j].tainted
                 PROVE  /\ cfg = guiCfg /\ call'[j].id \in DOMAIN guiCfg
                        /\ guiCfg[call'[j].id] = call'[j].asked
                        /\ \A l \in Updating : call[l].cfg = guiCfg
      BY <1>2, <1>7 DEF Undisturbed, lists
    <3>1. CASE j = k
      <4>1. ~t /\ call'[j].id = i /\ call'[j].asked = guiCfg[i]
        BY <1>6, <3>1
      <4>2. ~misled /\ Updating = {}
        BY <1>3, <4>1
      <4> QED  BY <4>1, <4>2 DEF ManagerInv, ListsInv, Synced
    <3>2. CASE j # k
      BY <1>6, <3>2 DEF Dialling, ManagerInv, ListsInv, Undisturbed
    <3> QED  BY <3>1, <3>2
  <2> QED  BY <2>1, <2>2, <2>3 DEF ListsInv
<1>9. TableInv'
  BY <1>2, <1>6, TableKept DEF ManagerInv, Making
<1>10. AskedIsDialled'
  BY <1>2, NoNewAstray DEF ManagerInv, table
<1> QED  BY <1>8, <1>9, <1>10 DEF ManagerInv

LEMMA CommandDisconnectKeeps ==
  ASSUME ManagerInv, NEW k \in Calls, CommandDisconnect(k)
  PROVE  ManagerInv'
<1>1. PICK i \in DOMAIN guiCfg :
        call' = [call EXCEPT ![k] = [NoCall EXCEPT !.at = "disconnect", !.id = i]]
  BY DEF CommandDisconnect
<1>2. /\ call[k].at = "idle" /\ process # "panicked"
      /\ UNCHANGED <<lists, table, process, edits, statistics>>
  BY DEF CommandDisconnect, Command, At, Running
<1>3. i \in IDs
  BY Positions DEF ManagerInv, ListsInv, ListsType
<1>4. /\ call'[k] \in CallType /\ call'[k].at = "disconnect"
      /\ \A j \in Calls \ {k} : call'[j] = call[j]
      /\ call' = [call EXCEPT ![k] = call'[k]]
  BY <1>1, <1>3, NoCallType DEF ManagerInv, ListsInv, ListsType, CallType
<1>5. ListsInv'
  BY <1>2, <1>4, ListsKept DEF ManagerInv, lists
<1>6. TableInv'
  BY <1>2, <1>4, TableKept DEF ManagerInv, Making
<1>7. AskedIsDialled'
  BY <1>2, NoNewAstray DEF ManagerInv, table
<1> QED  BY <1>5, <1>6, <1>7 DEF ManagerInv

\* A list that was edited is one of servers, and at most one longer.
LEMMA EditedType ==
  ASSUME ListsType, NEW new \in Edited
  PROVE  new \in Seq(Servers) /\ Len(new) <= Len(guiCfg) + 1
<1>1. guiCfg \in Seq(Servers) /\ Len(guiCfg) \in Nat
  BY DEF ListsType
<1>2. ASSUME NEW i \in DOMAIN guiCfg, new = RemoveAt(guiCfg, i)
      PROVE  new \in Seq(Servers) /\ Len(new) <= Len(guiCfg) + 1
  <2>1. i \in 1 .. Len(guiCfg)
    BY <1>1
  <2>2. PICK l, r : l = SubSeq(guiCfg, 1, i - 1) /\ r = SubSeq(guiCfg, i + 1, Len(guiCfg))
    OBVIOUS
  <2>3. l \in Seq(Servers) /\ Len(l) = i - 1
    BY <1>1, <2>1, <2>2
  <2>4. r \in Seq(Servers) /\ Len(r) = Len(guiCfg) - i
    BY <1>1, <2>1, <2>2
  <2>5. new = l \o r
    BY <1>2, <2>2 DEF RemoveAt
  <2>6. l \o r \in Seq(Servers) /\ Len(l \o r) = Len(l) + Len(r)
    BY <2>3, <2>4
  <2> QED  BY <1>1, <2>1, <2>3, <2>4, <2>5, <2>6
<1>3. ASSUME NEW i \in DOMAIN guiCfg, NEW s \in Servers, new = [guiCfg EXCEPT ![i] = s]
      PROVE  new \in Seq(Servers) /\ Len(new) <= Len(guiCfg) + 1
  BY <1>1, <1>3
<1>4. ASSUME NEW s \in Servers, new = Append(guiCfg, s)
      PROVE  new \in Seq(Servers) /\ Len(new) <= Len(guiCfg) + 1
  BY <1>1, <1>4
<1> QED  BY <1>2, <1>3, <1>4 DEF Edited

LEMMA CommandEditKeeps ==
  ASSUME ManagerInv, NEW k \in Calls, CommandEdit(k)
  PROVE  ManagerInv'
<1>1. PICK new \in Edited :
        /\ guiCfg' = new
        /\ call' = [j \in Calls |->
             IF j = k THEN [NoCall EXCEPT !.at = "update", !.cfg = new]
             ELSE [call[j] EXCEPT !.tainted = @ \/ j \in Active]]
  BY DEF CommandEdit
<1>2. /\ call[k].at = "idle" /\ process # "panicked" /\ edits < MaxEdits /\ edits' = edits + 1
      /\ misled' = (misled \/ Updating # {})
      /\ UNCHANGED <<cfg, table, process, statistics>>
  BY DEF CommandEdit, Command, At, Running
<1>3. new \in Seq(Servers) /\ Len(new) <= Len(guiCfg) + 1
  BY EditedType DEF ManagerInv, ListsInv, ListsType
<1>4. /\ call'[k] \in CallType /\ call'[k].at = "update" /\ call'[k].cfg = new
  <2>1. [NoCall EXCEPT !.at = "update", !.cfg = new] \in CallType
    BY <1>3, NoCallType DEF CallType
  <2>2. [NoCall EXCEPT !.at = "update", !.cfg = new].at = "update"
        /\ [NoCall EXCEPT !.at = "update", !.cfg = new].cfg = new
    BY DEF NoCall
  <2>3. call'[k] = [NoCall EXCEPT !.at = "update", !.cfg = new]
    BY <1>1
  <2> QED  BY <2>1, <2>2, <2>3
<1>5. ASSUME NEW j \in Calls \ {k}
      PROVE  /\ call'[j] \in CallType /\ call'[j].at = call[j].at /\ call'[j].id = call[j].id
             /\ call'[j].cfg = call[j].cfg
             /\ (call[j].tainted \/ j \in Active) => call'[j].tainted
  <2>1. PICK t : t = (call[j].tainted \/ j \in Active)
    OBVIOUS
  <2>2. call'[j] = [call[j] EXCEPT !.tainted = t]
    BY <1>1, <2>1
  <2>3. call[j] \in CallType /\ t \in BOOLEAN
    BY <2>1 DEF ManagerInv, ListsInv, ListsType
  <2>4. /\ call'[j] \in CallType /\ call'[j].at = call[j].at /\ call'[j].id = call[j].id
        /\ call'[j].cfg = call[j].cfg /\ call'[j].tainted = t
    BY <2>2, <2>3 DEF CallType
  <2>5. (call[j].tainted \/ j \in Active) => call'[j].tainted
    BY <2>1, <2>4
  <2> QED  BY <2>4, <2>5
<1>6. ListsInv'
  <2>1. ListsType'
    <3>1. call' \in [Calls -> CallType]
      <4>1. \A j \in Calls : call'[j] \in CallType
        BY <1>4, <1>5
      <4>2. call' = [j \in Calls |-> call'[j]]
        BY <1>1
      <4> QED  BY <4>1, <4>2
    <3>2. edits' \in 0 .. MaxEdits /\ Len(guiCfg') <= Len(Connections) + edits'
      BY <1>1, <1>2, <1>3, Positions DEF ManagerInv, ListsInv, ListsType
    <3>3. misled' \in BOOLEAN
      BY <1>2
    <3> QED  BY <1>1, <1>2, <1>3, <3>1, <3>2, <3>3 DEF ManagerInv, ListsInv, ListsType
  <2>2. Updating' = Updating \union {k}
    BY <1>4, <1>5 DEF Updating
  <2>3. Synced'
    <3> SUFFICES ASSUME ~misled' PROVE Synced'
      BY DEF Synced
    <3>1. Updating = {}
      BY <1>2
    <3>2. Updating' = {k}
      BY <2>2, <3>1
    <3> QED  BY <1>1, <1>4, <3>2 DEF Synced
  <2>4. Undisturbed'
    <3> SUFFICES ASSUME NEW j \in Dialling', ~call'[j].tainted PROVE FALSE
      BY DEF Undisturbed
    <3>1. j # k /\ j \in Active
      BY <1>4, <1>5 DEF Dialling, Active
    <3> QED  BY <1>5, <3>1 DEF Dialling
  <2> QED  BY <2>1, <2>3, <2>4 DEF ListsInv
<1>7. TableInv'
  BY <1>2, <1>4, <1>5, TableKept DEF ManagerInv, Making
<1>8. AskedIsDialled'
  BY <1>2, NoNewAstray DEF ManagerInv, table
<1> QED  BY <1>6, <1>7, <1>8 DEF ManagerInv

LEMMA CommandShutdownKeeps ==
  ASSUME ManagerInv, NEW k \in Calls, CommandShutdown(k)
  PROVE  ManagerInv'
<1>1. /\ call[k].at = "idle" /\ process # "panicked"
      /\ call' = [call EXCEPT ![k] = [NoCall EXCEPT !.at = "update", !.cfg = guiCfg,
                                                    !.exits = TRUE]]
      /\ misled' = (misled \/ Updating # {})
      /\ UNCHANGED <<guiCfg, cfg, table, process, edits, statistics>>
  BY DEF CommandShutdown, Command, At, Running
<1>2. /\ call'[k].at = "update" /\ call'[k].cfg = guiCfg
      /\ \A j \in Calls \ {k} : call'[j] = call[j]
      /\ call' \in [Calls -> CallType]
  <2>1. [NoCall EXCEPT !.at = "update", !.cfg = guiCfg, !.exits = TRUE] \in CallType
    BY NoCallType DEF CallType, ManagerInv, ListsInv, ListsType
  <2>2. LET c == [NoCall EXCEPT !.at = "update", !.cfg = guiCfg, !.exits = TRUE]
        IN  c.at = "update" /\ c.cfg = guiCfg
    BY DEF NoCall
  <2> QED  BY <1>1, <2>1, <2>2 DEF ManagerInv, ListsInv, ListsType
<1>3. ListsInv'
  <2>1. misled' \in BOOLEAN
    BY <1>1
  <2>2. ListsType'
    BY <1>1, <1>2, <2>1 DEF ManagerInv, ListsInv, ListsType
  <2>3. Updating' = Updating \union {k}
    BY <1>2 DEF Updating
  <2>4. Synced'
    <3> SUFFICES ASSUME ~misled' PROVE Synced'
      BY DEF Synced
    <3>1. Updating = {}
      BY <1>1
    <3>2. Updating' = {k}
      BY <2>3, <3>1
    <3> QED  BY <1>1, <1>2, <3>2 DEF Synced
  <2>5. Undisturbed'
    <3> SUFFICES ASSUME NEW j \in Dialling', ~call'[j].tainted
                 PROVE  /\ cfg = guiCfg /\ call'[j].id \in DOMAIN guiCfg
                        /\ guiCfg[call'[j].id] = call'[j].asked
                        /\ \A l \in Updating' : call'[l].cfg = guiCfg
      BY <1>1 DEF Undisturbed
    <3>1. j # k /\ j \in Dialling /\ ~call[j].tainted /\ call'[j] = call[j]
      BY <1>2 DEF Dialling
    <3>2. \A l \in Updating : call[l].cfg = guiCfg
      BY <3>1 DEF ManagerInv, ListsInv, Undisturbed
    <3>3. \A l \in Updating' : l = k \/ (l \in Updating /\ call'[l] = call[l])
      BY <1>2 DEF Updating
    <3>4. \A l \in Updating' : call'[l].cfg = guiCfg
      BY <1>2, <3>2, <3>3
    <3> QED  BY <3>1, <3>4 DEF ManagerInv, ListsInv, Undisturbed
  <2> QED  BY <2>2, <2>4, <2>5 DEF ListsInv
<1>4. TableInv'
  BY <1>1, <1>2, TableKept DEF ManagerInv, Making
<1>5. AskedIsDialled'
  BY <1>1, NoNewAstray DEF ManagerInv, table
<1> QED  BY <1>3, <1>4, <1>5 DEF ManagerInv

-----------------------------------------------------------------------------
(* The calls *)

LEMMA EndsFields ==
  ASSUME ListsType, NEW k \in Calls, NEW place \in {"state", "shutdown"},
         call' = EndsWith(k, place) \/ call' = Returns(k)
  PROVE  /\ call'[k].at \in {"idle", place}
         /\ \A j \in Calls \ {k} : call'[j] = call[j]
         /\ call' \in [Calls -> CallType] /\ call' = [call EXCEPT ![k] = call'[k]]
<1>1. /\ [NoCall EXCEPT !.at = place] \in CallType
      /\ [NoCall EXCEPT !.at = place].at = place
  BY NoCallType DEF CallType
<1>2. CASE call' = EndsWith(k, place)
  BY <1>1, <1>2 DEF EndsWith, ListsType
<1>3. CASE call' = Returns(k)
  BY <1>3, NoCallType DEF Returns, ListsType
<1> QED  BY <1>2, <1>3

LEMMA UpdateConfigKeeps ==
  ASSUME ManagerInv, NEW k \in Calls, UpdateConfig(k)
  PROVE  ManagerInv'
<1>1. /\ call[k].at = "update" /\ process # "panicked" /\ cfg' = call[k].cfg
      /\ UNCHANGED <<guiCfg, misled, table, process, count, statistics>>
  BY DEF UpdateConfig, At, Running, Updated
<1>2. PICK place \in {"state", "shutdown"} : call' = EndsWith(k, place) \/ call' = Returns(k)
  BY DEF UpdateConfig
<1>3. /\ call'[k].at \in {"idle", "state", "shutdown"}
      /\ \A j \in Calls \ {k} : call'[j] = call[j]
      /\ call' \in [Calls -> CallType]
  BY <1>2, EndsFields DEF ManagerInv, ListsInv
<1>4. k \in Updating
  BY <1>1 DEF Updating
<1>5. ListsInv'
  <2>1. ListsType'
    <3>1. call[k].cfg \in Seq(Servers)
      BY DEF ManagerInv, ListsInv, ListsType, CallType
    <3> QED  BY <1>1, <1>3, <3>1 DEF ManagerInv, ListsInv, ListsType, count
  <2>2. Updating' = Updating \ {k}
    BY <1>3 DEF Updating
  <2>3. Synced'
    <3> SUFFICES ASSUME ~misled PROVE Updating' = {} /\ cfg' = guiCfg
      BY <1>1 DEF Synced
    <3> QED  BY <1>1, <1>4, <2>2 DEF ManagerInv, ListsInv, Synced
  <2>4. Undisturbed'
    <3> SUFFICES ASSUME NEW j \in Dialling', ~call'[j].tainted
                 PROVE  /\ cfg' = guiCfg /\ call'[j].id \in DOMAIN guiCfg
                        /\ guiCfg[call'[j].id] = call'[j].asked
                        /\ \A l \in Updating' : call'[l].cfg = guiCfg
      BY <1>1 DEF Undisturbed
    <3>1. j \in Dialling /\ ~call[j].tainted /\ call'[j] = call[j]
      BY <1>3 DEF Dialling
    <3>2. \A l \in Updating : call[l].cfg = guiCfg
      BY <3>1 DEF ManagerInv, ListsInv, Undisturbed
    <3>3. \A l \in Updating' : l \in Updating /\ call'[l] = call[l]
      BY <1>3 DEF Updating
    <3>4. cfg = guiCfg /\ call[j].id \in DOMAIN guiCfg /\ guiCfg[call[j].id] = call[j].asked
      BY <3>1 DEF ManagerInv, ListsInv, Undisturbed
    <3>5. cfg' = guiCfg
      BY <1>1, <1>4, <3>2
    <3> QED  BY <3>1, <3>2, <3>3, <3>4, <3>5
  <2> QED  BY <2>1, <2>3, <2>4 DEF ListsInv
<1>6. TableInv'
  BY <1>1, <1>3, TableKept DEF ManagerInv, Making
<1>7. AskedIsDialled'
  BY <1>1, NoNewAstray DEF ManagerInv, table
<1> QED  BY <1>5, <1>6, <1>7 DEF ManagerInv

LEMMA UpdateFailsKeeps ==
  ASSUME ManagerInv, NEW k \in Calls, UpdateFails(k)
  PROVE  ManagerInv'
<1>1. /\ call[k].at = "update" /\ process # "panicked" /\ misled' = TRUE
      /\ call' = Returns(k)
      /\ UNCHANGED <<guiCfg, cfg, table, process, count, statistics>>
  BY DEF UpdateFails, At, Running
<1>2. /\ call'[k].at \in {"idle", "state"}
      /\ \A j \in Calls \ {k} : call'[j] = call[j]
      /\ call' \in [Calls -> CallType]
  BY <1>1, EndsFields DEF ManagerInv, ListsInv
<1>3. ListsInv'
  <2>1. ListsType' /\ Synced'
    BY <1>1, <1>2 DEF ManagerInv, ListsInv, ListsType, Synced, count
  <2>2. Undisturbed'
    <3> SUFFICES ASSUME NEW j \in Dialling', ~call'[j].tainted
                 PROVE  /\ cfg = guiCfg /\ call'[j].id \in DOMAIN guiCfg
                        /\ guiCfg[call'[j].id] = call'[j].asked
                        /\ \A l \in Updating' : call'[l].cfg = guiCfg
      BY <1>1 DEF Undisturbed
    <3>1. j \in Dialling /\ ~call[j].tainted /\ call'[j] = call[j]
      BY <1>2 DEF Dialling
    <3>2. \A l \in Updating' : l \in Updating /\ call'[l] = call[l]
      BY <1>2 DEF Updating
    <3> QED  BY <3>1, <3>2 DEF ManagerInv, ListsInv, Undisturbed
  <2> QED  BY <2>1, <2>2 DEF ListsInv
<1>4. TableInv'
  BY <1>1, <1>2, TableKept DEF ManagerInv, Making
<1>5. AskedIsDialled'
  BY <1>1, NoNewAstray DEF ManagerInv, table
<1> QED  BY <1>3, <1>4, <1>5 DEF ManagerInv

LEMMA GetStateKeeps ==
  ASSUME ManagerInv, NEW k \in Calls, GetState(k)
  PROVE  ManagerInv'
<1>1. /\ call[k].at = "state" /\ process # "panicked" /\ call' = Returns(k)
      /\ UNCHANGED <<lists, table, process, count, statistics>>
  BY DEF GetState, At, Running
<1>2. /\ call'[k].at \in {"idle", "state"}
      /\ \A j \in Calls \ {k} : call'[j] = call[j]
      /\ call'[k] \in CallType /\ call' = [call EXCEPT ![k] = call'[k]]
  BY <1>1, EndsFields DEF ManagerInv, ListsInv
<1>3. ListsInv'
  BY <1>1, <1>2, ListsKept DEF ManagerInv, lists, count
<1>4. TableInv'
  BY <1>1, <1>2, TableKept DEF ManagerInv, Making
<1>5. AskedIsDialled'
  BY <1>1, NoNewAstray DEF ManagerInv, table
<1> QED  BY <1>3, <1>4, <1>5 DEF ManagerInv

\* The fields of a call that goes on.
LEMMA GoesFields ==
  ASSUME ListsType, NEW k \in Calls, NEW place \in {"connect", "create", "start"},
         call' = GoesTo(k, place)
  PROVE  /\ call'[k] \in CallType /\ call'[k].at = place
         /\ call'[k].id = call[k].id /\ call'[k].asked = call[k].asked
         /\ call'[k].tainted = call[k].tainted
         /\ \A j \in Calls \ {k} : call'[j] = call[j]
         /\ call' = [call EXCEPT ![k] = call'[k]]
<1>1. call[k] \in CallType
  BY DEF ListsType
<1>2. call'[k] = [call[k] EXCEPT !.at = place]
  BY DEF GoesTo, ListsType
<1>3. /\ call'[k] \in CallType /\ call'[k].at = place
      /\ call'[k].id = call[k].id /\ call'[k].asked = call[k].asked
      /\ call'[k].tainted = call[k].tainted
  BY <1>1, <1>2 DEF CallType
<1> QED  BY <1>3 DEF GoesTo, ListsType

LEMMA ConnectChecksKeeps ==
  ASSUME ManagerInv, NEW k \in Calls, ConnectChecks(k)
  PROVE  ManagerInv'
<1>1. /\ call[k].at = "check" /\ process # "panicked"
      /\ call' = GoesTo(k, "connect") \/ call' = Returns(k)
      /\ UNCHANGED <<lists, table, process, count, statistics>>
  BY DEF ConnectChecks, At, Running
<1>2. /\ call'[k].at \in {"connect", "idle", "state"}
      /\ \A j \in Calls \ {k} : call'[j] = call[j]
      /\ ListsInv'
  <2>1. CASE call' = GoesTo(k, "connect")
    BY <1>1, <2>1, GoesFields, ListsKept DEF ManagerInv, ListsInv, lists, count
  <2>2. CASE call' = Returns(k)
    BY <1>1, <2>2, EndsFields, ListsKept DEF ManagerInv, ListsInv, lists, count
  <2> QED  BY <1>1, <2>1, <2>2
<1>3. TableInv'
  BY <1>1, <1>2, TableKept DEF ManagerInv, Making
<1>4. AskedIsDialled'
  BY <1>1, NoNewAstray DEF ManagerInv, table
<1> QED  BY <1>2, <1>3, <1>4 DEF ManagerInv

-----------------------------------------------------------------------------
(* What becomes of the clients *)

LEMMA ClientAt ==
  ASSUME TableInv, NEW c \in DOMAIN clients
  PROVE  clients[c] \in Client /\ clients[c].id \in IDs /\ c \in Nat /\ c # None
<1>1. clients \in Seq(Client) /\ Len(clients) \in Nat /\ DOMAIN clients = 1 .. Len(clients)
  BY DEF TableInv, TableType
<1>2. clients[c] \in Client /\ c \in Nat
  BY <1>1
<1> QED  BY <1>2, NoneIsApart DEF Client

\* The client at work as i is ended and forgotten.
Ended(i) ==
  /\ clients' = Exited(connections[i])
  /\ connections' = [connections EXCEPT ![i] = None]

LEMMA EndedKeeps ==
  ASSUME TableInv, connMux = None, NEW i \in AtWork, Ended(i)
  PROVE  /\ connections' \in [IDs -> {None} \union Nat] /\ clients' \in Seq(Client)
         /\ DOMAIN clients' = DOMAIN clients
         /\ \A c \in DOMAIN clients : clients'[c].astray = clients[c].astray
         /\ AtWork' = {}
         /\ \A c \in DOMAIN clients : clients'[c].at \notin {"starts", "up"}
<1>1. PICK d \in DOMAIN clients : d = connections[i] /\ clients[d].id = i
  BY DEF TableInv, Table
<1>2. clients' = [clients EXCEPT ![d].at = "exited"]
  BY <1>1 DEF Ended, Exited
<1>3. clients \in Seq(Client) /\ clients[d] \in Client
  BY DEF TableInv, TableType
<1>4. /\ clients'[d] = [clients[d] EXCEPT !.at = "exited"]
      /\ \A c \in DOMAIN clients \ {d} : clients'[c] = clients[c]
      /\ DOMAIN clients' = DOMAIN clients
  BY <1>2, <1>3
<1>5. /\ clients'[d] \in Client /\ clients'[d].at = "exited"
      /\ clients'[d].astray = clients[d].astray
  BY <1>3, <1>4 DEF Client
<1>6. clients' \in Seq(Client)
  BY <1>2, <1>3, <1>4, <1>5
<1>7. connections' \in [IDs -> {None} \union Nat] /\ AtWork' = {}
  <2>1. AtWork = {i}
    BY DEF TableInv, Table
  <2> QED  BY <2>1 DEF Ended, AtWork, TableInv, TableType
<1>8. ASSUME NEW c \in DOMAIN clients PROVE clients'[c].at \notin {"starts", "up"}
  <2>1. CASE c = d
    BY <1>5, <2>1
  <2>2. CASE c # d
    <3>1. clients[c].at # "starts"
      BY DEF TableInv, Starting
    <3>2. clients[c].at # "up"
      <4> SUFFICES ASSUME clients[c].at = "up" PROVE FALSE
        OBVIOUS
      <4>1. clients[c].id \in IDs /\ c \in Nat /\ c # None
        BY ClientAt
      <4>2. connections[clients[c].id] = c
        BY DEF TableInv, Table
      <4>3. clients[c].id = i
        BY <4>1, <4>2 DEF AtWork, TableInv, Table
      <4> QED  BY <1>1, <2>2, <4>2, <4>3
    <3> QED  BY <1>4, <2>2, <3>1, <3>2
  <2> QED  BY <2>1, <2>2
<1> QED  BY <1>4, <1>5, <1>6, <1>7, <1>8

\* Nobody is at work: no client is up but those nobody knows.
LEMMA NobodyAtWork ==
  ASSUME TableInv, AtWork = {}
  PROVE  \A c \in DOMAIN clients : clients[c].at # "up"
<1> SUFFICES ASSUME NEW c \in DOMAIN clients, clients[c].at = "up" PROVE FALSE
  OBVIOUS
<1>1. clients[c].id \in IDs /\ c \in Nat /\ c # None
  BY ClientAt
<1>2. connections[clients[c].id] = c
  BY DEF TableInv, Table
<1> QED  BY <1>1, <1>2 DEF AtWork

LEMMA ConnectLocksKeeps ==
  ASSUME ManagerInv, NEW k \in Calls, ConnectLocks(k)
  PROVE  ManagerInv'
<1>1. /\ call[k].at = "connect" /\ process # "panicked" /\ connMux = None /\ connMux' = k
      /\ call' = GoesTo(k, "create")
      /\ IF AtWork = {} THEN UNCHANGED <<connections, clients>> ELSE \E i \in AtWork : Ended(i)
      /\ UNCHANGED <<lists, process, count, statistics>>
  BY DEF ConnectLocks, At, Running, Leaving, Ended
<1>2. /\ call'[k] \in CallType /\ call'[k].at = "create"
      /\ call'[k].id = call[k].id /\ call'[k].asked = call[k].asked
      /\ call'[k].tainted = call[k].tainted
      /\ \A j \in Calls \ {k} : call'[j] = call[j]
      /\ call' = [call EXCEPT ![k] = call'[k]]
  BY <1>1, GoesFields DEF ManagerInv, ListsInv
<1>3. ListsInv'
  BY <1>1, <1>2, ListsKept DEF ManagerInv, lists, count
<1>4. /\ connections' \in [IDs -> {None} \union Nat] /\ clients' \in Seq(Client)
      /\ DOMAIN clients' = DOMAIN clients
      /\ \A c \in DOMAIN clients : clients'[c].astray = clients[c].astray
      /\ AtWork' = {}
      /\ \A c \in DOMAIN clients : clients'[c].at \notin {"starts", "up"}
  <2>1. CASE AtWork = {}
    <3>1. \A c \in DOMAIN clients : clients[c].at \notin {"starts", "up"}
      BY <1>1, <2>1, NobodyAtWork DEF ManagerInv, TableInv, Starting
    <3> QED  BY <1>1, <2>1, <3>1 DEF ManagerInv, TableInv, TableType, AtWork
  <2>2. CASE AtWork # {}
    <3>1. PICK i \in AtWork : Ended(i)
      BY <1>1, <2>2
    <3> QED  BY <1>1, <3>1, EndedKeeps DEF ManagerInv
  <2> QED  BY <2>1, <2>2
<1>5. \A j \in Calls \ {k} : call'[j].at \notin {"create", "start"}
  BY <1>1, <1>2, NoneIsApart DEF ManagerInv, TableInv, Locked
<1>6. TableInv'
  <2>1. TableType' /\ Table'
    BY <1>1, <1>4 DEF TableType, Table
  <2>2. Locked'
    BY <1>1, <1>2, <1>4, <1>5 DEF Locked
  <2>3. Starting'
    BY <1>2, <1>4, <1>5 DEF Starting
  <2> QED  BY <2>1, <2>2, <2>3 DEF TableInv
<1>7. AskedIsDialled'
  BY <1>1, <1>4, NoNewAstray DEF ManagerInv
<1> QED  BY <1>3, <1>6, <1>7 DEF ManagerInv

LEMMA CreateConnectionKeeps ==
  ASSUME ManagerInv, NEW k \in Calls, CreateConnection(k)
  PROVE  ManagerInv'
<1>1. /\ call[k].at = "create" /\ process # "panicked"
      /\ UNCHANGED <<lists, connections, connMux, count, statistics>>
  BY DEF CreateConnection, At, Running
<1>2. connMux = k /\ AtWork = {} /\ k # None
  BY <1>1, NoneIsApart DEF ManagerInv, TableInv, Locked
<1>3. k \in Dialling /\ call[k] \in CallType
  BY <1>1 DEF Dialling, ManagerInv, ListsInv, ListsType
<1>4. CASE call[k].id \in DOMAIN cfg
  <2>1. PICK a : a = Astray(k)
    OBVIOUS
  <2>2. a = FALSE
    BY <1>3, <2>1 DEF Astray, ManagerInv, ListsInv, Undisturbed
  <2>3. PICK new : new = [id |-> call[k].id, astray |-> FALSE, at |-> "starts"]
    OBVIOUS
  <2>4. new \in Client /\ new.at = "starts" /\ ~new.astray /\ new.id = call[k].id
    BY <1>3, <2>3 DEF Client, CallType
  <2>5. clients' = Append(clients, new) /\ call' = GoesTo(k, "start") /\ UNCHANGED process
    BY <1>4, <2>1, <2>2, <2>3 DEF CreateConnection
  <2>6. /\ clients \in Seq(Client) /\ clients' \in Seq(Client)
        /\ Len(clients') = Len(clients) + 1 /\ clients'[Len(clients')] = new
        /\ DOMAIN clients = 1 .. Len(clients) /\ DOMAIN clients' = 1 .. Len(clients')
        /\ \A c \in DOMAIN clients : clients'[c] = clients[c]
    BY <2>4, <2>5 DEF ManagerInv, TableInv, TableType
  <2>7. \A c \in DOMAIN clients' : c \in DOMAIN clients \/ c = Len(clients')
    BY <2>6
  <2>8. /\ call'[k] \in CallType /\ call'[k].at = "start" /\ call'[k].id = call[k].id
        /\ \A j \in Calls \ {k} : call'[j] = call[j]
        /\ call' = [call EXCEPT ![k] = call'[k]]
    BY <2>5, GoesFields DEF ManagerInv, ListsInv
  <2>9. ListsInv'
    BY <1>1, <2>8, ListsKept DEF ManagerInv, lists, count
  <2>10. \A j \in Calls \ {k} : call'[j].at \notin {"create", "start"}
    BY <1>2, <2>8 DEF ManagerInv, TableInv, Locked
  <2>11. \A c \in DOMAIN clients : clients[c].at \notin {"starts", "up"}
    BY <1>1, <1>2, NobodyAtWork DEF ManagerInv, TableInv, Starting
  <2>12. AtWork' = {}
    BY <1>1, <1>2 DEF AtWork
  <2>13. TableInv'
    <3>1. TableType'
      BY <1>1, <2>6 DEF ManagerInv, TableInv, TableType
    <3>2. Locked'
      BY <1>1, <1>2, <2>8, <2>10, <2>12 DEF Locked
    <3>3. Table'
      BY <2>4, <2>6, <2>7, <2>11, <2>12 DEF Table
    <3>4. Starting'
      <4>1. clients' # <<>>
        BY <2>6
      <4> QED  BY <1>1, <1>2, <2>4, <2>6, <2>7, <2>8, <2>10, <2>11, <4>1 DEF Starting
    <3> QED  BY <3>1, <3>2, <3>3, <3>4 DEF TableInv
  <2>14. AskedIsDialled'
    BY <1>1, <2>4, <2>5, <2>6, <2>7 DEF ManagerInv, AskedIsDialled
  <2> QED  BY <2>9, <2>13, <2>14 DEF ManagerInv
<1>5. CASE call[k].id \notin DOMAIN cfg
  <2>1. process' = "panicked" /\ UNCHANGED <<clients, call>>
    BY <1>5 DEF CreateConnection
  <2>2. ListsInv'
    BY <1>1, <2>1, ListsSame DEF ManagerInv, lists, count
  <2>3. TableInv'
    BY <1>1, <2>1, TableKept DEF ManagerInv, table
  <2>4. call[k].tainted
    BY <1>3, <1>5 DEF ManagerInv, ListsInv, Undisturbed
  <2>5. AskedIsDialled'
    BY <1>1, <2>1, <2>4 DEF ManagerInv, AskedIsDialled
  <2> QED  BY <2>2, <2>3, <2>5 DEF ManagerInv
<1> QED  BY <1>4, <1>5

LEMMA CreateConnectionFailsKeeps ==
  ASSUME ManagerInv, NEW k \in Calls, CreateConnectionFails(k)
  PROVE  ManagerInv'
<1>1. /\ call[k].at = "create" /\ process # "panicked" /\ connMux' = None
      /\ call' = Returns(k)
      /\ UNCHANGED <<lists, connections, clients, process, count, statistics>>
  BY DEF CreateConnectionFails, At, Running
<1>2. /\ call'[k].at \in {"idle", "state"}
      /\ \A j \in Calls \ {k} : call'[j] = call[j]
      /\ call'[k] \in CallType /\ call' = [call EXCEPT ![k] = call'[k]]
  BY <1>1, EndsFields DEF ManagerInv, ListsInv
<1>3. ListsInv'
  BY <1>1, <1>2, ListsKept DEF ManagerInv, lists, count
<1>4. connMux = k
  BY <1>1 DEF ManagerInv, TableInv, Locked
<1>5. \A j \in Calls : call'[j].at \notin {"create", "start"}
  BY <1>2, <1>4 DEF ManagerInv, TableInv, Locked
<1>6. TableInv'
  <2>1. TableType' /\ Table' /\ Locked'
    BY <1>1, <1>5 DEF ManagerInv, TableInv, TableType, Table, Locked, AtWork
  <2>2. Starting'
    BY <1>1, <1>4, <1>5 DEF ManagerInv, TableInv, Starting
  <2> QED  BY <2>1, <2>2 DEF TableInv
<1>7. AskedIsDialled'
  BY <1>1, NoNewAstray DEF ManagerInv
<1> QED  BY <1>3, <1>6, <1>7 DEF ManagerInv

LEMMA StartKeeps ==
  ASSUME ManagerInv, NEW k \in Calls, NEW ok \in BOOLEAN, Start(k, ok)
  PROVE  ManagerInv'
<1>1. PICK n : n = Len(clients)
  OBVIOUS
<1>2. PICK i \in IDs : i = call[k].id
  BY DEF ManagerInv, ListsInv, ListsType, CallType
<1>3. PICK place \in {"up", "lost"} : place = IF ok THEN "up" ELSE "lost"
  BY Zenon
<1>4. /\ call[k].at = "start" /\ process # "panicked" /\ connMux' = None
      /\ clients' = [clients EXCEPT ![n].at = place]
      /\ connections' = IF ok THEN [connections EXCEPT ![i] = n] ELSE connections
      /\ call' = EndsWith(k, "state") \/ call' = Returns(k)
      /\ UNCHANGED <<lists, process, count, statistics>>
  BY <1>1, <1>2, <1>3 DEF Start, At, Running, AfterConnect
<1>5. /\ call'[k].at \in {"idle", "state"}
      /\ \A j \in Calls \ {k} : call'[j] = call[j]
      /\ call'[k] \in CallType /\ call' = [call EXCEPT ![k] = call'[k]]
  BY <1>4, EndsFields DEF ManagerInv, ListsInv
<1>6. ListsInv'
  BY <1>4, <1>5, ListsKept DEF ManagerInv, lists, count
<1>7. connMux = k /\ k # None /\ AtWork = {}
  BY <1>4, NoneIsApart DEF ManagerInv, TableInv, Locked
<1>8. \A j \in Calls : call'[j].at \notin {"create", "start"}
  BY <1>5, <1>7 DEF ManagerInv, TableInv, Locked
<1>9. /\ n \in DOMAIN clients /\ n \in Nat /\ n # None /\ clients[n].id = i
      /\ clients \in Seq(Client) /\ clients[n] \in Client
  <2>1. clients # <<>> /\ clients[n].id = i
    BY <1>1, <1>2, <1>4 DEF ManagerInv, TableInv, Starting
  <2>2. clients \in Seq(Client) /\ Len(clients) \in Nat /\ DOMAIN clients = 1 .. Len(clients)
    BY DEF ManagerInv, TableInv, TableType
  <2> QED  BY <1>1, <2>1, <2>2, NoneIsApart
<1>10. /\ clients'[n] = [clients[n] EXCEPT !.at = place]
       /\ \A c \in DOMAIN clients \ {n} : clients'[c] = clients[c]
       /\ DOMAIN clients' = DOMAIN clients
  BY <1>4, <1>9
<1>11. /\ clients'[n] \in Client /\ clients'[n].at = place /\ clients'[n].id = i
       /\ clients'[n].astray = clients[n].astray
  BY <1>9, <1>10 DEF Client
<1>12. clients' \in Seq(Client)
  BY <1>4, <1>9, <1>10, <1>11
<1>13. \A c \in DOMAIN clients \ {n} : clients[c].at \notin {"starts", "up"}
  BY <1>1, <1>7, NobodyAtWork DEF ManagerInv, TableInv, Starting
<1>14. /\ connections' \in [IDs -> {None} \union Nat]
       /\ AtWork' \subseteq {i} /\ (ok => connections'[i] = n) /\ (~ok => AtWork' = {})
  BY <1>4, <1>7, <1>9 DEF AtWork, ManagerInv, TableInv, TableType
<1>15. TableInv'
  <2>1. TableType' /\ Locked'
    BY <1>4, <1>8, <1>12, <1>14 DEF TableType, Locked
  <2>2. Starting'
    BY <1>8, <1>10, <1>11, <1>13 DEF Starting
  <2>3. Table'
    <3>1. CASE ok
      <4>1. place = "up"
        BY <1>3, <3>1
      <4> QED  BY <1>9, <1>10, <1>11, <1>13, <1>14, <3>1, <4>1 DEF Table
    <3>2. CASE ~ok
      <4>1. place = "lost"
        BY <1>3, <3>2
      <4> QED  BY <1>10, <1>11, <1>13, <1>14, <3>2, <4>1 DEF Table
    <3> QED  BY <3>1, <3>2
  <2> QED  BY <2>1, <2>2, <2>3 DEF TableInv
<1>16. AskedIsDialled'
  BY <1>4, <1>10, <1>11, NoNewAstray DEF ManagerInv
<1> QED  BY <1>6, <1>15, <1>16 DEF ManagerInv

LEMMA DisconnectKeeps ==
  ASSUME ManagerInv, NEW k \in Calls, Disconnect(k)
  PROVE  ManagerInv'
<1>1. /\ call[k].at = "disconnect" /\ process # "panicked" /\ connMux = None /\ connMux' = None
      /\ call' = EndsWith(k, "state")
      /\ IF call[k].id \in AtWork THEN Ended(call[k].id) ELSE UNCHANGED <<connections, clients>>
      /\ UNCHANGED <<lists, process, count, statistics>>
  BY DEF Disconnect, At, Running, Ended
<1>2. /\ call'[k].at \in {"idle", "state"}
      /\ \A j \in Calls \ {k} : call'[j] = call[j]
      /\ call'[k] \in CallType /\ call' = [call EXCEPT ![k] = call'[k]]
  BY <1>1, EndsFields DEF ManagerInv, ListsInv
<1>3. ListsInv'
  BY <1>1, <1>2, ListsKept DEF ManagerInv, lists, count
<1>4. CASE call[k].id \in AtWork
  <2>1. PICK i \in AtWork : Ended(i)
    BY <1>1, <1>4
  <2>2. /\ connections' \in [IDs -> {None} \union Nat] /\ clients' \in Seq(Client)
        /\ DOMAIN clients' = DOMAIN clients
        /\ \A c \in DOMAIN clients : clients'[c].astray = clients[c].astray
        /\ AtWork' = {}
        /\ \A c \in DOMAIN clients : clients'[c].at \notin {"starts", "up"}
    BY <1>1, <2>1, EndedKeeps DEF ManagerInv
  <2>3. \A j \in Calls : call'[j].at \notin {"create", "start"}
    BY <1>1, <1>2, NoneIsApart DEF ManagerInv, TableInv, Locked
  <2>4. TableInv'
    BY <1>1, <2>2, <2>3 DEF TableInv, TableType, Locked, Table, Starting
  <2>5. AskedIsDialled'
    BY <1>1, <2>2, NoNewAstray DEF ManagerInv
  <2> QED  BY <1>3, <2>4, <2>5 DEF ManagerInv
<1>5. CASE call[k].id \notin AtWork
  <2>1. UNCHANGED table
    BY <1>1, <1>5 DEF table
  <2>2. TableInv'
    BY <1>1, <1>2, <2>1, TableKept DEF ManagerInv, Making
  <2>3. AskedIsDialled'
    BY <1>1, <2>1, NoNewAstray DEF ManagerInv, table
  <2> QED  BY <1>3, <2>2, <2>3 DEF ManagerInv
<1> QED  BY <1>4, <1>5

LEMMA ShutdownKeeps ==
  ASSUME ManagerInv, NEW k \in Calls, Shutdown(k)
  PROVE  ManagerInv'
<1>1. /\ call[k].at = "shutdown" /\ connMux = None /\ process' = "quits"
      /\ clients' = [c \in DOMAIN clients |->
           IF \E i \in AtWork : connections[i] = c THEN [clients[c] EXCEPT !.at = "exited"]
           ELSE clients[c]]
      /\ call' = Returns(k)
      /\ UNCHANGED <<lists, connections, connMux, count, statistics>>
  BY DEF Shutdown, At
<1>2. /\ call'[k].at \in {"idle", "state"}
      /\ \A j \in Calls \ {k} : call'[j] = call[j]
      /\ call'[k] \in CallType /\ call' = [call EXCEPT ![k] = call'[k]]
  BY <1>1, EndsFields DEF ManagerInv, ListsInv
<1>3. ListsInv'
  BY <1>1, <1>2, ListsKept DEF ManagerInv, lists, count
<1>4. \A j \in Calls : call'[j].at \notin {"create", "start"}
  BY <1>1, <1>2, NoneIsApart DEF ManagerInv, TableInv, Locked
<1>5. ASSUME NEW c \in DOMAIN clients
      PROVE  /\ clients'[c] \in Client
             /\ clients'[c].id = clients[c].id /\ clients'[c].astray = clients[c].astray
             /\ clients'[c].at \notin {"starts", "up"}
             /\ clients[c].at \in {"up", "exited"} => clients'[c].at = "exited"
  <2>1. clients[c] \in Client /\ clients[c].id \in IDs /\ c # None
    BY ClientAt DEF ManagerInv
  <2>2. CASE \E i \in AtWork : connections[i] = c
    <3>1. clients'[c] = [clients[c] EXCEPT !.at = "exited"]
      BY <1>1, <2>2
    <3> QED  BY <2>1, <3>1 DEF Client
  <2>3. CASE ~ \E i \in AtWork : connections[i] = c
    <3>1. clients'[c] = clients[c]
      BY <1>1, <2>3
    <3>2. clients[c].at # "starts"
      BY <1>1 DEF ManagerInv, TableInv, Starting
    <3>3. clients[c].at # "up"
      BY <2>1, <2>3 DEF AtWork, ManagerInv, TableInv, Table
    <3> QED  BY <2>1, <3>1, <3>2, <3>3
  <2> QED  BY <2>2, <2>3
<1>6. clients' \in Seq(Client) /\ DOMAIN clients' = DOMAIN clients
  <2>1. Len(clients) \in Nat /\ DOMAIN clients = 1 .. Len(clients)
    BY DEF ManagerInv, TableInv, TableType
  <2> QED  BY <1>1, <1>5, <2>1
<1>7. AtWork' = AtWork
  BY <1>1 DEF AtWork
<1>8. TableInv'
  <2>1. TableType' /\ Locked' /\ Starting'
    BY <1>1, <1>4, <1>5, <1>6 DEF ManagerInv, TableInv, TableType, Locked, Starting
  <2>2. Table'
    BY <1>1, <1>5, <1>6, <1>7 DEF ManagerInv, TableInv, Table
  <2> QED  BY <2>1, <2>2 DEF TableInv
<1>9. AskedIsDialled'
  BY <1>1, <1>5, <1>6, NoNewAstray DEF ManagerInv
<1> QED  BY <1>3, <1>8, <1>9 DEF ManagerInv

LEMMA ManagerStep ==
  ASSUME ManagerInv, [Next]_vars
  PROVE  ManagerInv'
<1>1. ASSUME NEW k \in Calls, CommandConnect(k) PROVE ManagerInv'
  BY <1>1, CommandConnectKeeps
<1>2. ASSUME NEW k \in Calls, CommandDisconnect(k) PROVE ManagerInv'
  BY <1>2, CommandDisconnectKeeps
<1>3. ASSUME NEW k \in Calls, CommandEdit(k) PROVE ManagerInv'
  BY <1>3, CommandEditKeeps
<1>4. ASSUME NEW k \in Calls, CommandShutdown(k) PROVE ManagerInv'
  BY <1>4, CommandShutdownKeeps
<1>5. ASSUME NEW k \in Calls, UpdateConfig(k) PROVE ManagerInv'
  BY <1>5, UpdateConfigKeeps
<1>6. ASSUME NEW k \in Calls, UpdateFails(k) PROVE ManagerInv'
  BY <1>6, UpdateFailsKeeps
<1>7. ASSUME NEW k \in Calls, GetState(k) PROVE ManagerInv'
  BY <1>7, GetStateKeeps
<1>8. ASSUME NEW k \in Calls, ConnectChecks(k) PROVE ManagerInv'
  BY <1>8, ConnectChecksKeeps
<1>9. ASSUME NEW k \in Calls, ConnectLocks(k) PROVE ManagerInv'
  BY <1>9, ConnectLocksKeeps
<1>10. ASSUME NEW k \in Calls, CreateConnection(k) PROVE ManagerInv'
  BY <1>10, CreateConnectionKeeps
<1>11. ASSUME NEW k \in Calls, CreateConnectionFails(k) PROVE ManagerInv'
  BY <1>11, CreateConnectionFailsKeeps
<1>12. ASSUME NEW k \in Calls, Start(k, TRUE) \/ Start(k, FALSE) PROVE ManagerInv'
  BY <1>12, StartKeeps
<1>13. ASSUME NEW k \in Calls, Disconnect(k) PROVE ManagerInv'
  BY <1>13, DisconnectKeeps
<1>14. ASSUME NEW k \in Calls, Shutdown(k) PROVE ManagerInv'
  BY <1>14, ShutdownKeeps
<1>15. CASE End
  <2>1. process' # "panicked" /\ UNCHANGED <<lists, table, call, count, statistics>>
    BY <1>15 DEF End
  <2>2. ListsInv'
    BY <2>1, ListsSame DEF ManagerInv, lists, count
  <2>3. TableInv'
    BY <2>1, TableKept DEF ManagerInv
  <2>4. AskedIsDialled'
    BY <2>1, NoNewAstray DEF ManagerInv, table
  <2> QED  BY <2>2, <2>3, <2>4 DEF ManagerInv
<1>16. CASE UNCHANGED control
  <2>1. ListsInv'
    BY <1>16, ListsSame DEF ManagerInv, control, lists, count
  <2>2. TableInv'
    BY <1>16, TableKept DEF ManagerInv, control
  <2>3. AskedIsDialled'
    BY <1>16 DEF ManagerInv, AskedIsDialled, control, table
  <2> QED  BY <2>1, <2>2, <2>3 DEF ManagerInv
<1>17. ASSUME Push \/ Pushed \/ Collect \/ Tick \/ SendRates \/ UNCHANGED vars
               \/ \E s \in Streams : OpenStream(s) \/ Cancel(s) \/ SendMsg(s) \/ UnsetChannel(s)
       PROVE  UNCHANGED control
  BY <1>17 DEF Push, Pushed, Collect, Tick, SendRates, OpenStream, Cancel, SendMsg,
     UnsetChannel, vars
<1> QED
  BY <1>1, <1>2, <1>3, <1>4, <1>5, <1>6, <1>7, <1>8, <1>9, <1>10, <1>11, <1>12, <1>13, <1>14,
     <1>15, <1>16, <1>17 DEF Next

-----------------------------------------------------------------------------
(* The theorems *)

\* The two lists and the table of clients keep to each other, whatever commands
\* overlap.
THEOREM ManagerInvariant == Spec => []ManagerInv
BY ManagerInit, ManagerStep, PTL DEF Spec

\* Whoever is connected is connected to the server he chose, or the lists were edited
\* meanwhile (gui.go and connection.manager.go, Connect and UpdateConfig).
THEOREM ManagerAskedIsDialled == Spec => []AskedIsDialled
<1>1. ManagerInv => AskedIsDialled
  BY DEF ManagerInv
<1> QED  BY <1>1, ManagerInvariant, PTL

\* At most one client is at work, and the manager finds it (Connect, Disconnect and
\* Shutdown of connection.manager.go), for any number of calls at the same time.
THEOREM ManagerRunningIsKnown == Spec => []RunningIsKnown
<1>1. ASSUME ManagerInv PROVE RunningIsKnown
  <2> DEFINE S == {c \in DOMAIN clients : clients[c].at \in {"starts", "up"}}
  <2>1. \A c, d \in S : c = d
    <3> SUFFICES ASSUME NEW c \in S, NEW d \in S, c # d PROVE FALSE
      OBVIOUS
    <3>1. CASE connMux # None
      <4>1. \A b \in S : b = Len(clients)
        BY <1>1, <3>1, NobodyAtWork DEF ManagerInv, TableInv, Locked, Starting
      <4> QED  BY <4>1
    <3>2. CASE connMux = None
      <4>1. \A b \in S : clients[b].at = "up"
        BY <1>1, <3>2 DEF ManagerInv, TableInv, Starting
      <4>2. \A b \in S : clients[b].id \in AtWork /\ connections[clients[b].id] = b
        BY <1>1, <4>1, ClientAt DEF ManagerInv, TableInv, Table, AtWork
      <4>3. clients[c].id = clients[d].id
        BY <1>1, <4>2 DEF ManagerInv, TableInv, Table
      <4> QED  BY <4>2, <4>3
    <3> QED  BY <3>1, <3>2
  <2>2. Cardinality(S) <= 1
    <3>1. CASE S = {}
      <4>1. Cardinality(S) = 0
        BY <3>1, FS_EmptySet
      <4> QED  BY <4>1
    <3>2. CASE S # {}
      <4>1. PICK c \in S : S = {c}
        BY <2>1, <3>2
      <4>2. Cardinality(S) = 1
        BY <4>1, FS_Singleton
      <4> QED  BY <4>2
    <3> QED  BY <3>1, <3>2
  <2> QED  BY <1>1, <2>2 DEF ManagerInv, TableInv, Table, RunningIsKnown
<1> QED  BY <1>1, ManagerInvariant, PTL
================================================================================
