---------------------------------- MODULE Wire ----------------------------------
(***************************************************************************)
(* One direction of one connection: messages are marshalled, encrypted and *)
(* written to a socket (adapter/client/{client,tcp,udp}.go,                *)
(* adapter/server/{server.v1,tcp,udp}.go); the other side reads a stream   *)
(* in pieces, or datagrams that were lost, repeated and reordered, and     *)
(* hands on what it makes of them.  What Retry, Ack and the merger do with *)
(* a message is in Link, Port and Stream; here the merger keeps a packet   *)
(* for some time and then writes it to the tunnel interface.               *)
(***************************************************************************)
EXTENDS Codec

CONSTANTS
  Paths,             (* the configurations a connection may have               *)
  Keys,              (* the keys its two sides may have                        *)
  PieceSize,         (* bound: TCP gives this many bytes, or all there are     *)
  ToServer, ToClient,    (* the messages that are sent                         *)
  IpPacketMinLength,
  MaxSends,          (* bound: messages sent                                   *)
  MaxReads           (* bound: datagrams read                                  *)

Messages == ToServer \union ToClient

\* Packets come from the interface whole; an error answers a command, never a packet.
ASSUME WireAssumption ==
  /\ Paths \subseteq [proto : {"tcp", "udp"}, to : {"server", "client"},
                      method : {"ecb", "gcm", "none"}, cmp : CompressionTypes, obfuscate : BOOLEAN]
  /\ {IpPacketMinLength, PieceSize} \subseteq Nat \ {0}
  /\ \A m \in Messages :
       /\ Valid(m.type) /\ m.isACK \in BOOLEAN /\ m.cmp \in CompressionTypes /\ m.error \in Byte
       /\ m.type = "data" => m.error = 0
       /\ IsUserData(m) =>
            LET p == m.payload.fields[1]
            IN  p \in Seq(Byte) /\ Len(p) >= IpPacketMinLength /\ m.payload = Fields("packet", <<p>>)

\* A payload is not empty, and with its encryption no longer than 16 bits can say.
ASSUME LengthsFit ==
  \A m \in Messages, p \in Paths : \A data \in MarshalPayload(m, p.obfuscate) \ {Failed} :
    /\ data.plain \in Seq(Byte) /\ data.len \in Nat
    /\ IsPayload(m) => data.len > 0
    /\ GetLength(p.method, data.len) <= MaxUint16

\* An address has 4 bytes or 16.  An acknowledgement has identifiers, and of an endpoint
\* no more than a byte can count (AckFits of Link).
ASSUME PayloadsWhole ==
  \A m \in Messages : m.error = 0 /\ m.payload.kind \in KindOf(m) =>
    LET p == m.payload
    IN  /\ p.kind \in {"request", "response", "key"} =>
             p = Fields(p.kind, p.fields) /\ p.fields \in Seq(Seq(Byte))
        /\ p.kind = "request" => Len(p.fields) = RequestParams
        /\ p.kind = "response" =>
             /\ Len(p.fields) = 1 + ResponseParams
             /\ Len(p.fields[1]) = 4 /\ Len(p.fields[2]) >= 4 /\ Len(p.fields[3]) >= 4
        /\ p.kind = "key" => Len(p.fields) = 1
        /\ p.kind = "acknowledgement" =>
             /\ p = [NoPayload EXCEPT !.kind = "acknowledgement", !.acks = p.acks]
             /\ p.acks # {} /\ IsFiniteSet(p.acks) /\ p.acks \subseteq Nat \X Seq(Nat)
             /\ \A a \in p.acks :
                  /\ FitsIn(a[1], 8) /\ Len(a[2]) \in 1 .. MaxUint8
                  /\ \A j \in DOMAIN a[2] : FitsIn(a[2][j], 4)

ASSUME FailedIsApart ==
  /\ Failed \notin [type : MessageTypes, id : {m.id : m \in Messages},
                    session : {m.session : m \in Messages}, len : Nat, isError : BOOLEAN,
                    isRequest : BOOLEAN, isACK : BOOLEAN, cmp : CompressionTypes]
  /\ \A m \in Messages :
       m.payload # Failed /\ m.payload.acks # Failed /\ Failed \notin m.payload.acks
  /\ Failed \notin Seq(Byte) /\ Failed \notin Seq(Seq(Byte))
  /\ Failed \notin [kind : {"none", "error"}, fields : Seq(Seq(Byte)), acks : {{}}]

VARIABLES
  path,              (* [proto, to, method, cmp, obfuscate]                    *)
  keys,              (* [primaryS, userS, primaryR, userR]: for headers and for
                        packets, of the sender and of the receiver; a user's key
                        is "nil" before the handshake, "absent" without an entry *)
  frames,            (* what was written to the socket, message by message     *)
  stream,            (* TCP: the bytes of all of it, <<frame, position>> each  *)
  link,              (* the socket: "open", or who closed it                   *)
  nread,             (* TCP: bytes read; UDP: datagrams                        *)
  reader,            (* the goroutine that reads: where it is, its buffers     *)
  handled,           (* frames it took, with what became of them               *)
  held,              (* packets the merger keeps                               *)
  written            (* packets written to the tunnel interface                *)

wireVars == <<path, keys, frames, stream, link, nread, reader, handled, held, written>>

NoHeader == [len |-> 0]

Idle(sync) == [at |-> "header", sync |-> sync, header |-> <<>>, payload |-> <<>>, msg |-> NoHeader,
               buf |-> <<>>]

\* sync: the client still waits for the reply to a request.
WireInit ==
  /\ path \in Paths
  /\ keys \in Keys
  /\ frames = <<>> /\ stream = <<>> /\ link = "open" /\ nread = 0
  /\ \E sync \in BOOLEAN : (sync => path.to = "client") /\ reader = Idle(sync)
  /\ handled = <<>> /\ held = <<>> /\ written = <<>>

-----------------------------------------------------------------------------
(* Sending *)

HeaderLength == GetLength(path.method, HeaderSize)

NoCipher == EncryptEmpty(Plain(<<>>), "none")

\* A packet is encrypted with the key of the connection's entry, when it has one.
SenderKey(m) == IF IsUserData(m) /\ keys.userS # "nil" THEN keys.userS ELSE keys.primaryS

\* what may be written for a message; emptyToo: a payload of no bytes is encrypted
Encoded(m, emptyToo) ==
  IF SenderKey(m) = "absent" THEN {Failed}
  ELSE {LET c == IF data = Failed THEN Failed
                 ELSE IF data.len = 0 /\ ~emptyToo THEN NoCipher
                 ELSE Encrypt(path.method, data, SenderKey(m))
        IN  IF c = Failed THEN Failed
            ELSE [msg |-> m, header |-> MarshalHeader(m, data, path.method), payload |-> c]
         : data \in MarshalPayload(m, path.obfuscate)}

\* header and payload of frame n
BytesOf(n, f) == [i \in 1 .. HeaderLength + f.payload.len |-> <<n, i>>]

\* The message goes to the socket in one piece or, when it cannot be encoded or
\* the socket is closed, not at all.
Write(m, emptyToo) ==
  /\ Len(frames) < MaxSends
  /\ IsUserData(m) => m.cmp = path.cmp
  /\ \E f \in Encoded(m, emptyToo) \ {Failed} :
       /\ link = "open"
       /\ frames' = Append(frames, f)
       /\ stream' = IF path.proto = "tcp" THEN stream \o BytesOf(Len(frames) + 1, f) ELSE stream
  /\ UNCHANGED <<path, keys, link, nread, reader, handled, held, written>>

OverUDPOnly(m) == m.isACK \/ m.type = "keepalive"

IsRequest(m) == m.type \in {"authentication", "handshake"}

Over(proto, to) == path.proto = proto /\ path.to = to

\* A client encrypts a payload for TCP even when it is empty.
ClientSendSyncTCP(m) == Over("tcp", "server") /\ IsRequest(m) /\ Write(m, TRUE)
ClientSendAsyncTCP(m) ==
  Over("tcp", "server") /\ ~IsRequest(m) /\ ~OverUDPOnly(m) /\ Write(m, TRUE)
ClientSendSyncUDP(m) == Over("udp", "server") /\ IsRequest(m) /\ Write(m, FALSE)
ClientSendAsyncUDP(m) ==
  Over("udp", "server") /\ ~IsRequest(m) /\ m.type # "keepalive" /\ Write(m, FALSE)
ClientSendKeepalive(m) == Over("udp", "server") /\ m.type = "keepalive" /\ Write(m, FALSE)

ServerSendTCP(m) == Over("tcp", "client") /\ ~OverUDPOnly(m) /\ Write(m, FALSE)
ServerSendUDP(m) == Over("udp", "client") /\ m.type # "keepalive" /\ Write(m, FALSE)
ServerSendKeepalive(m) == Over("udp", "client") /\ m.type = "keepalive" /\ Write(m, FALSE)

-----------------------------------------------------------------------------
(* From a header and a payload to a message *)

Decode(bytes) == Len(bytes) >= IpPacketMinLength

\* How the frame ended, and the message when there is one.
Outcome(what, h, payload) == [what |-> what, msg |-> [h EXCEPT !.payload = payload]]

HeaderOf(f) ==
  LET h == UnmarshalHeader(frames[f].header, path.method)
  IN  IF keys.primaryR # keys.primaryS /\ path.method # "none" THEN Failed ELSE h

AsMessage(h) ==
  [type |-> h.type, id |-> h.id, session |-> h.session, isACK |-> h.isACK, cmp |-> h.cmp,
   isError |-> h.isError, isRequest |-> h.isRequest, len |-> h.len, payload |-> NoPayload]

\* Decrypt, UnmarshalPayload, Decode; key: what the payload is decrypted with
Opened(m, cipher, key) ==
  {IF d = Failed THEN Outcome("undecrypted", m, NoPayload)
   ELSE LET p == UnmarshalPayload(m, d)
        IN  IF p = Failed THEN Outcome("malformed", m, NoPayload)
            ELSE IF IsUserData(m) /\ ~Decode(p.fields[1]) THEN Outcome("malformed", m, p)
            ELSE Outcome("taken", m, p)
     : d \in Decrypt(cipher, key)}

\* mutant: the key of the connection is used whether there is one or not
ReceivedWithPrimary(m, cipher) ==
  IF ~IsPayload(m) THEN {Outcome("taken", m, NoPayload)}
  ELSE Opened(m, cipher, keys.primaryR)

Received(m, cipher) ==
  IF IsUserData(m) /\ keys.userR = "absent" THEN {Outcome("noEntry", m, NoPayload)}
  ELSE IF IsUserData(m) /\ keys.userR = "nil" THEN {Outcome("noKey", m, NoPayload)}
  ELSE IF ~IsPayload(m) THEN {Outcome("taken", m, NoPayload)}
  ELSE Opened(m, cipher, IF IsUserData(m) THEN keys.userR ELSE keys.primaryR)

\* responseAuthentication, responseHandshake: whatever came is taken for the reply.
Replied(m, cipher) == Opened(m, cipher, keys.primaryR)
IsReply(o) == o.what = "taken" /\ o.msg.payload.kind \notin {"packet", "error"}

\* Without encryption and compression a packet stays where it was read: the server has
\* one buffer a UDP port for all of them.
Aliases(m) == Over("udp", "server") /\ path.method = "none" /\ m.cmp = "none"

\* what the merger keeps of a message that was taken
Kept(f, outcome) ==
  IF outcome.what = "taken" /\ IsUserData(outcome.msg)
  THEN Append(held, [of |-> f, packet |-> outcome.msg.payload.fields[1],
                     alias |-> Aliases(outcome.msg)])
  ELSE held

-----------------------------------------------------------------------------
(* TCP: the stream is read in pieces, which need not be those it was written in *)

Available == Len(stream) - nread

\* Read gives at least a byte, and no more than there is room for.
AtMost(k, n) == IF n < k THEN n ELSE k
Pieces(room) == {AtMost(room, Available), AtMost(PieceSize, AtMost(room, Available))}

Piece(n) == SubSeq(stream, nread + 1, nread + n)

\* Read has no error to report.
Readable == link \in {"open", "peer"} /\ Available > 0

Whole(bytes, f, from, to) == bytes = [i \in 1 .. to - from + 1 |-> <<f, from + i - 1>>]

\* The loop of a server ends with the connection; a client is not prepared for
\* a header that it cannot read: it takes the message for granted.
Refused == [Idle(FALSE) EXCEPT !.at = IF path.to = "client" THEN "panicked" ELSE "ended"]

\* what the bytes of a header say, and Failed when they are not one
HeaderRead(bytes) ==
  LET f == bytes[1][1] IN IF Whole(bytes, f, 1, HeaderLength) THEN HeaderOf(f) ELSE Failed

ReadHeaderTCP ==
  /\ path.proto = "tcp" /\ reader.at = "header" /\ Readable
  /\ \E n \in Pieces(HeaderLength - Len(reader.header)) :
       LET bytes == reader.header \o Piece(n)
           h == HeaderRead(bytes)
       IN  /\ nread' = nread + n
           /\ IF Len(bytes) < HeaderLength
              THEN reader' = [reader EXCEPT !.header = bytes] /\ UNCHANGED handled
              ELSE IF h = Failed
              THEN /\ reader' = Refused
                   /\ handled' = Append(handled, [f |-> bytes[1][1], what |-> "refused"])
              ELSE /\ reader' = [reader EXCEPT !.header = bytes, !.msg = AsMessage(h),
                                   !.at = IF h.len > 0 THEN "payload" ELSE "handle"]
                   /\ UNCHANGED handled
  /\ UNCHANGED <<path, keys, frames, stream, link, held, written>>

ReadPayloadTCP ==
  /\ path.proto = "tcp" /\ reader.at = "payload" /\ Readable
  /\ \E n \in Pieces(reader.msg.len - Len(reader.payload)) :
       LET bytes == reader.payload \o Piece(n)
       IN  /\ nread' = nread + n
           /\ reader' = [reader EXCEPT !.payload = bytes,
                           !.at = IF Len(bytes) < reader.msg.len THEN "payload" ELSE "handle"]
  /\ UNCHANGED <<path, keys, frames, stream, link, handled, held, written>>

\* the ciphertext, when the buffer holds the whole of it
PayloadRead(f) ==
  IF Whole(reader.payload, f, HeaderLength + 1, HeaderLength + frames[f].payload.len)
  THEN frames[f].payload
  ELSE EncryptGCM(Plain(<<0>>), "spoiled")

\* The read loop goes on unless the connection has no entry or the receiver has an error,
\* for a packet too; a reply read on behalf of a request starts the loop.
HandleTCP ==
  /\ path.proto = "tcp" /\ reader.at = "handle"
  /\ LET f == reader.header[1][1]
     IN  \E o \in IF reader.sync THEN Replied(reader.msg, PayloadRead(f))
                  ELSE Received(reader.msg, PayloadRead(f)),
            accepted \in BOOLEAN :
           /\ o.what # "taken" \/ reader.sync => accepted
           /\ reader' = IF ~accepted \/ o.what = "noEntry" \/ (reader.sync /\ ~IsReply(o))
                        THEN [Idle(FALSE) EXCEPT !.at = "ended"] ELSE Idle(FALSE)
           /\ handled' = Append(handled, [f |-> f, what |-> o.what, msg |-> o.msg,
                                       sync |-> reader.sync])
           /\ held' = IF accepted /\ ~reader.sync THEN Kept(f, o) ELSE held
  /\ UNCHANGED <<path, keys, frames, stream, link, nread, written>>

\* Either side closes the connection.
Close(side) ==
  /\ link = "open"
  /\ link' = side
  /\ UNCHANGED <<path, keys, frames, stream, nread, reader, handled, held, written>>

\* The read deadline of a request passes.
Deadline ==
  /\ reader.sync /\ link = "open" /\ reader.at \in {"header", "payload"}
  /\ link' = "deadline"
  /\ UNCHANGED <<path, keys, frames, stream, nread, reader, handled, held, written>>

\* The peer's close is seen after its last byte, the other errors at once.  The
\* payload's loop knows io.EOF only: it meets any other error again, for ever.
ReadFailsTCP ==
  /\ path.proto = "tcp" /\ reader.at \in {"header", "payload"}
  /\ link \in {"local", "deadline"} \/ (link = "peer" /\ Available = 0)
  /\ reader' = [reader EXCEPT !.at = IF reader.at = "payload" /\ link # "peer"
                                     THEN "spins" ELSE "ended"]
  /\ UNCHANGED <<path, keys, frames, stream, link, nread, handled, held, written>>

-----------------------------------------------------------------------------
(* UDP: any datagram that was sent may come, at any time and again *)

EndsOnError(m) == m.type # "data"

\* Client.readUDP and ReceiverUDP
ReceiveUDPClient(f) ==
  /\ path.proto = "udp" /\ path.to = "client" /\ reader.at = "header" /\ link = "open"
  /\ nread < MaxReads /\ f \in DOMAIN frames
  /\ nread' = nread + 1
  /\ LET h == HeaderOf(f)
     IN  IF h = Failed
         THEN /\ reader' = Refused
              /\ handled' = Append(handled, [f |-> f, what |-> "refused"])
              /\ UNCHANGED held
         ELSE \E o \in IF reader.sync THEN Replied(AsMessage(h), frames[f].payload)
                       ELSE Received(AsMessage(h), frames[f].payload),
                 accepted \in BOOLEAN :
           /\ (o.what # "taken" \/ reader.sync \/ OverUDPOnly(o.msg)) => accepted
           /\ reader' = IF \/ ~accepted /\ EndsOnError(o.msg)
                           \/ o.what = "noEntry"
                           \/ reader.sync /\ ~IsReply(o)
                        THEN [Idle(FALSE) EXCEPT !.at = "ended"] ELSE Idle(FALSE)
           /\ handled' = Append(handled, [f |-> f, what |-> o.what, msg |-> o.msg,
                                       sync |-> reader.sync])
           /\ held' = IF accepted /\ ~reader.sync THEN Kept(f, o) ELSE held
  /\ UNCHANGED <<path, keys, frames, stream, link, written>>

\* what the buffer of the port holds when a datagram was read into it
Overwritten(f) ==
  LET data == frames[f].payload.data
      bytes == IF data.cmp = "none" THEN data.plain ELSE [i \in 1 .. data.len |-> 0]
  IN  IF path.method # "none" THEN <<>>
      ELSE bytes \o SubSeq(reader.buf, Len(bytes) + 1, Len(reader.buf))

\* V1.receiverUDP; a connection without an entry does not end the loop of all of them
ReceiveUDPServer(f) ==
  /\ path.proto = "udp" /\ path.to = "server" /\ reader.at = "header" /\ link = "open"
  /\ nread < MaxReads /\ f \in DOMAIN frames
  /\ nread' = nread + 1
  /\ LET h == HeaderOf(f)
     IN  IF h = Failed
         THEN /\ reader' = [reader EXCEPT !.buf = Overwritten(f)]
              /\ handled' = Append(handled, [f |-> f, what |-> "refused"])
              /\ UNCHANGED held
         ELSE \E o \in Received(AsMessage(h), frames[f].payload), accepted \in BOOLEAN :
           /\ (o.what # "taken" \/ OverUDPOnly(o.msg)) => accepted
           /\ reader' = [reader EXCEPT !.buf = Overwritten(f),
                           !.at = IF ~accepted /\ EndsOnError(o.msg) THEN "ended" ELSE "header"]
           /\ handled' = Append(handled, [f |-> f, what |-> o.what, msg |-> o.msg,
                                       sync |-> reader.sync])
           /\ held' = IF accepted THEN Kept(f, o) ELSE held
  /\ UNCHANGED <<path, keys, frames, stream, link, written>>

ReadFailsUDP ==
  /\ path.proto = "udp" /\ reader.at = "header"
  /\ link \in {"local", "deadline"}
  /\ reader' = [reader EXCEPT !.at = "ended"]
  /\ UNCHANGED <<path, keys, frames, stream, link, nread, handled, held, written>>

-----------------------------------------------------------------------------
(* commandData *)

\* what the bytes a packet is kept in hold by now
Now(p) ==
  IF p.alias THEN SubSeq(reader.buf, 1, Len(p.packet)) ELSE p.packet

WriteInterface(i) ==
  /\ i \in DOMAIN held
  /\ written' = Append(written, [of |-> held[i].of, alias |-> held[i].alias, packet |-> Now(held[i])])
  /\ held' = RemoveAt(held, i)
  /\ UNCHANGED <<path, keys, frames, stream, link, nread, reader, handled>>

WireNext ==
  \/ \E m \in ToServer :
       \/ ClientSendSyncTCP(m) \/ ClientSendAsyncTCP(m)
       \/ ClientSendSyncUDP(m) \/ ClientSendAsyncUDP(m) \/ ClientSendKeepalive(m)
  \/ \E m \in ToClient : ServerSendTCP(m) \/ ServerSendUDP(m) \/ ServerSendKeepalive(m)
  \/ ReadHeaderTCP
  \/ ReadPayloadTCP
  \/ HandleTCP
  \/ \E side \in {"peer", "local"} : Close(side)
  \/ Deadline
  \/ ReadFailsTCP
  \/ \E f \in DOMAIN frames : ReceiveUDPClient(f) \/ ReceiveUDPServer(f)
  \/ ReadFailsUDP
  \/ \E i \in DOMAIN held : WriteInterface(i)

WireSpec == WireInit /\ [][WireNext]_wireVars

-----------------------------------------------------------------------------
(* Properties *)

\* Sender and receiver agree on where a message begins: the length a header
\* announces is that of the ciphertext that follows, however TCP cuts the stream.
FramedRight ==
  path.proto = "tcp" =>
    LET f == Len(handled) + 1
    IN  /\ \A i \in DOMAIN handled : handled[i].f = i
        /\ \A i \in DOMAIN reader.header : reader.header[i] = <<f, i>>
        /\ \A i \in DOMAIN reader.payload : reader.payload[i] = <<f, HeaderLength + i>>
        /\ reader.at = "handle" => Len(reader.payload) = frames[f].payload.len

\* The key a frame was sent with is not the one it is opened with.
WrongKey(m, sync) ==
  SenderKey(m) # IF IsUserData(m) /\ ~sync THEN keys.userR ELSE keys.primaryR

\* What reaches the tunnel interface is the packet that entered the other one,
\* unless ECB deciphered it with the wrong key, or it waited in the buffer of a
\* server's UDP port and a later datagram was read there.
Intact ==
  \A i \in DOMAIN written :
    \/ written[i].packet = frames[written[i].of].msg.payload.fields[1]
    \/ path.method = "ecb" /\ WrongKey(frames[written[i].of].msg, FALSE)
    \/ written[i].alias /\ nread > 1

SentAs(m) ==
  IF m.error > 0 THEN Fields("error", <<<<m.error>>>>)
  ELSE IF IsPayload(m) THEN m.payload ELSE NoPayload

SameMessage(m, r) ==
  /\ <<r.type, r.id, r.session, r.isACK>> = <<m.type, m.id, m.session, m.isACK>>
  /\ \/ r.payload = SentAs(m)
     \/ m.error > 0 /\ ~IsPayload(m) /\ r.payload = NoPayload   \* a reset: its error is not read

\* ZSTD lengthens what it cannot shorten, beyond what a header may announce.
TooLong(f) == frames[f].header.len > MaxEncryptedPayloadSize(path.method)

ArrivedRight(r) ==
  LET m == frames[r.f].msg
  IN  CASE r.what = "taken" -> SameMessage(m, r.msg) \/ (path.method = "ecb" /\ WrongKey(m, r.sync))
        [] r.what = "refused" -> keys.primaryR # keys.primaryS \/ TooLong(r.f)
        [] r.what \in {"undecrypted", "malformed"} ->
             (r.sync /\ ~IsPayload(m)) \/ WrongKey(m, r.sync)
        [] OTHER -> keys.userR \in {"absent", "nil"}

\* A message that is read arrives as it was sent, whatever was added to it (of a reset
\* that failed only that it is one), or there is a reason: the two sides have different
\* keys, the packet grew, or something without a payload was taken for a reply.
RoundTrip == \A i \in DOMAIN handled : ArrivedRight(handled[i])
===============================================================================
