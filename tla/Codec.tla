--------------------------------- MODULE Codec ---------------------------------
(***************************************************************************)
(* What becomes of a message on its way to a socket and back               *)
(* (pkg/codec/tapir.go, pkg/compression, pkg/encryptor): the header, the   *)
(* payload as bytes, compression, encryption.                              *)
(*                                                                         *)
(* A byte is a number in 0 .. MaxUint8.  What a compressor or a cipher     *)
(* makes of bytes is their length and what it was made from: packed data   *)
(* is [plain, cmp, len], a ciphertext [data, method, key, len].  Operators *)
(* that may go several ways give the set of their results; Failed is an    *)
(* error.                                                                  *)
(***************************************************************************)
EXTENDS Integers, Sequences, SequencesExt, FiniteSets

CONSTANTS
  MaxUint8, MaxUint16,
  HeaderSize,
  BlockSize,         (* aes.BlockSize                                          *)
  NonceSize, Overhead,         (* of GCM                                       *)
  PayloadSize,       (* the MTU of the tunnel                                  *)
  FakeBytes,         (* bound: the bytes addFakeData may add                   *)
  CompressedLengths, (* bound: the lengths a compressor may come to            *)
  ZSTDOverhead,      (* what ZSTD adds to data it cannot compress              *)
  Failed

Byte == 0 .. MaxUint8

ASSUME CodecAssumption ==
  /\ {MaxUint8, MaxUint16, HeaderSize, BlockSize, PayloadSize} \subseteq Nat \ {0}
  /\ {NonceSize, Overhead, ZSTDOverhead} \subseteq Nat
  /\ FakeBytes \subseteq Seq(Byte) /\ CompressedLengths \subseteq Nat

-----------------------------------------------------------------------------
(* Messages (business/entity/message.go).  A payload is [kind, fields,     *)
(* acks]: byte strings, and for an acknowledgement pairs <<endpoint, ids>>. *)

MessageTypes == {"authentication", "handshake", "data", "keepalive", "reset"}
Valid(type) == type \in MessageTypes

IsUserData(m) == m.type = "data" /\ ~m.isACK
IsPayload(m) == m.type \notin {"reset", "keepalive"}

CompressionTypes == {"none", "lz4", "lzo", "zstd"}

NoPayload == [kind |-> "none", fields |-> <<>>, acks |-> {}]
Fields(kind, fields) == [NoPayload EXCEPT !.kind = kind, !.fields = fields]

-----------------------------------------------------------------------------
(* Encryption *)

GetLengthECB(n) == n + BlockSize - (n % BlockSize)
GetLengthGCM(n) == n + NonceSize + Overhead
GetLengthEmpty(n) == n

\* mutant: no block of padding when the last block is full
GetLengthRounded(method, n) ==
  CASE method = "ecb" -> ((n + BlockSize - 1) \div BlockSize) * BlockSize
    [] method = "gcm" -> GetLengthGCM(n)
    [] method = "none" -> GetLengthEmpty(n)

GetLength(method, n) ==
  CASE method = "ecb" -> GetLengthECB(n)
    [] method = "gcm" -> GetLengthGCM(n)
    [] method = "none" -> GetLengthEmpty(n)

PKCS5Padding(n) == BlockSize - (n % BlockSize)

Cipher(data, method, key, n) == [data |-> data, method |-> method, key |-> key, len |-> n]

EncryptECB(data, key) ==
  IF data.len = 0 THEN Failed ELSE Cipher(data, "ecb", key, data.len + PKCS5Padding(data.len))

EncryptGCM(data, key) ==
  IF data.len = 0 THEN Failed ELSE Cipher(data, "gcm", key, NonceSize + data.len + Overhead)

EncryptEmpty(data, key) == Cipher(data, "none", key, data.len)

Encrypt(method, data, key) ==
  CASE method = "ecb" -> EncryptECB(data, key)
    [] method = "gcm" -> EncryptGCM(data, key)
    [] method = "none" -> EncryptEmpty(data, key)

\* What an unauthenticated cipher makes of a ciphertext under another key.
Garbage ==
  {[plain |-> [i \in 1 .. n |-> MaxUint8], cmp |-> "garbage", len |-> n] : n \in {1, BlockSize}}

\* PKCS5UnPadding looks at the last byte only: a wrong key may go unnoticed.
DecryptECB(c, key) == IF c.key = key THEN {c.data} ELSE {Failed} \union Garbage
DecryptGCM(c, key) == IF c.key = key THEN {c.data} ELSE {Failed}
DecryptEmpty(c, key) == {c.data}

\* A payload of length 0 is nil, which none of them takes.
Decrypt(c, key) ==
  IF c.len = 0 THEN {Failed}
  ELSE CASE c.method = "ecb" -> DecryptECB(c, key)
         [] c.method = "gcm" -> DecryptGCM(c, key)
         [] c.method = "none" -> DecryptEmpty(c, key)

-----------------------------------------------------------------------------
(* Compression: LZ4 and LZO give the data back when they do not shorten    *)
(* it, ZSTD its own form in any case.                                      *)

Plain(bytes) == [plain |-> bytes, cmp |-> "none", len |-> Len(bytes)]
Packed(bytes, cmp, n) == [plain |-> bytes, cmp |-> cmp, len |-> n]

CompressLZ4(bytes) ==
  {Plain(bytes)} \union
  {Packed(bytes, "lz4", n) : n \in {n \in CompressedLengths : n < Len(bytes)}}

CompressLZO(bytes) ==
  {Plain(bytes)} \union
  {Packed(bytes, "lzo", n) : n \in {n \in CompressedLengths : n < Len(bytes)}}

CompressZSTD(bytes) ==
  {Packed(bytes, "zstd", n) : n \in {n \in CompressedLengths : n < Len(bytes)}}
    \union {Packed(bytes, "zstd", Len(bytes) + ZSTDOverhead)}

Compress(cmp, bytes) ==
  CASE cmp = "lz4" -> CompressLZ4(bytes)
    [] cmp = "lzo" -> CompressLZO(bytes)
    [] cmp = "zstd" -> CompressZSTD(bytes)
    [] cmp = "none" -> {Plain(bytes)}

Decompress(cmp, data) == IF data.cmp = cmp \/ data \in Garbage THEN data.plain ELSE Failed

-----------------------------------------------------------------------------
(* Bytes *)

\* n without its k lowest bytes, for each k up to width
Shifted(n, width) ==
  LET shifted[k \in 0 .. width] == IF k = 0 THEN n ELSE shifted[k - 1] \div (MaxUint8 + 1)
  IN  shifted

FitsIn(n, width) == Shifted(n, width)[width] = 0

\* byteOrder.PutUint16, PutUint32, PutUint64 and back
BigEndian(n, width) ==
  [i \in 1 .. width |-> Shifted(n, width)[width - i] % (MaxUint8 + 1)]
Number(bytes) ==
  LET value[i \in 0 .. Len(bytes)] ==   \* of the first i bytes
        IF i = 0 THEN 0 ELSE value[i - 1] * (MaxUint8 + 1) + bytes[i]
  IN  value[Len(bytes)]

\* each string after its length, which must fit a byte
MarshalBytes(strings) ==
  IF \E i \in DOMAIN strings : Len(strings[i]) + 1 > MaxUint8 THEN Failed
  ELSE FlattenSeq([i \in DOMAIN strings |-> <<Len(strings[i])>> \o strings[i]])

\* mutant: every string there is is read, the fake data with them
UnmarshalBytesAll(bytes, n) ==
  LET rest[i \in 0 .. Len(bytes)] ==   \* i bytes are read
        IF i = Len(bytes) THEN <<>>
        ELSE IF i + 1 + bytes[i + 1] > Len(bytes) THEN <<Failed>>
        ELSE <<SubSeq(bytes, i + 2, i + 1 + bytes[i + 1])>> \o rest[i + 1 + bytes[i + 1]]
      strings == rest[0]
  IN  IF strings # <<>> /\ Last(strings) = Failed THEN Failed ELSE strings

\* the first n strings, and nothing of what follows them
UnmarshalBytes(bytes, n) ==
  LET from[k \in 1 .. n + 1] ==   \* where string k begins
        IF k = 1 THEN 1
        ELSE IF from[k - 1] > Len(bytes) THEN from[k - 1]
        ELSE from[k - 1] + bytes[from[k - 1]] + 1
      there == {k \in 1 .. n : from[k] <= Len(bytes)}
  IN  IF \E k \in there : from[k + 1] > Len(bytes) + 1 THEN Failed
      ELSE [k \in 1 .. Cardinality(there) |-> SubSeq(bytes, from[k] + 1, from[k + 1] - 1)]

EndpointSize == 9            \* an endpoint in 8 bytes and the count of its identifiers
MinAcknowledgement == 13

MarshalEndpoint(endpoint, ids) ==
  BigEndian(endpoint, 8) \o <<Len(ids) % (MaxUint8 + 1)>>
    \o FlattenSeq([j \in DOMAIN ids |-> BigEndian(ids[j], 4)])

\* one endpoint after the other, in whatever order the map gives them
MarshalAcknowledgement(acks) ==
  {FlattenSeq([i \in DOMAIN order |-> MarshalEndpoint(order[i][1], order[i][2])])
     : order \in SetToSeqs(acks)}

UnmarshalAcknowledgement(bytes) ==
  LET from[i \in 0 .. Len(bytes)] ==   \* i bytes are read
        IF i = Len(bytes) THEN {}
        ELSE IF i + EndpointSize >= Len(bytes) THEN {Failed}
        ELSE LET count == bytes[i + 9]
                 start == i + EndpointSize
             IN  IF start + 4 * count > Len(bytes) THEN {Failed}
                 ELSE {<<Number(SubSeq(bytes, i + 1, i + 8)),
                         [j \in 1 .. count |->
                            Number(SubSeq(bytes, start + 4 * j - 3, start + 4 * j))]>>}
                      \union from[start + 4 * count]
  IN  IF Len(bytes) < MinAcknowledgement \/ Failed \in from[0] THEN Failed ELSE from[0]

AddFakeData(obfuscate, bytes) ==
  IF ~obfuscate THEN {bytes}
  ELSE {bytes \o fake : fake \in {f \in FakeBytes : Len(f) < PayloadSize - Len(bytes)}}

-----------------------------------------------------------------------------
(* Marshal *)

FlagError == 1
FlagRequest == 2
FlagACK == 4
FlagCompression == [none |-> 0, lz4 |-> 8, lzo |-> 16, zstd |-> 32, garbage |-> 0]

Has(flags, flag) == (flags \div flag) % 2 = 1

\* the strings of an authentication request or response, or of a handshake
Strings(payload) ==
  IF payload.kind = "response"
  THEN LET ips == MarshalBytes(Tail(payload.fields))
       IN  IF ips = Failed THEN Failed ELSE payload.fields[1] \o ips
  ELSE MarshalBytes(payload.fields)

KindOf(m) ==   \* the payloads Marshal takes; any other is ErrWrongMessagePayload
  CASE m.type = "authentication" -> {"request", "response"}
    [] m.type = "handshake" -> {"key"}
    [] m.type = "data" /\ m.isACK -> {"acknowledgement"}
    [] m.type = "data" /\ ~m.isACK -> {"packet"}
    [] OTHER -> {"none"}

\* the payload of a message as bytes, before encryption
MarshalPayload(m, obfuscate) ==
  IF m.error > 0 THEN {Plain(<<m.error>>)}
  ELSE IF m.payload.kind \notin KindOf(m) THEN {Failed}
  ELSE CASE m.type \in {"authentication", "handshake"} ->
              LET bytes == Strings(m.payload)
              IN  IF bytes = Failed THEN {Failed}
                  ELSE {Plain(b) : b \in AddFakeData(obfuscate, bytes)}
         [] IsUserData(m) -> Compress(m.cmp, m.payload.fields[1])
         [] m.type = "data" /\ m.isACK ->
              {Plain(b) : b \in MarshalAcknowledgement(m.payload.acks)}
         [] OTHER -> {Plain(<<>>)}

MarshalFlags(m, data) ==
  (IF m.error > 0 THEN FlagError ELSE 0)
  + (IF m.isACK THEN FlagACK ELSE 0)
  + (IF m.error = 0 /\ m.payload.kind = "request" THEN FlagRequest ELSE 0)
  + FlagCompression[data.cmp]

\* the length in the header is that of the ciphertext to come
MarshalHeader(m, data, method) ==
  [type |-> m.type, flags |-> MarshalFlags(m, data), id |-> m.id, session |-> m.session,
   len |-> IF m.error = 0 /\ ~IsPayload(m) THEN 0
           ELSE GetLength(method, data.len) % (MaxUint16 + 1)]

-----------------------------------------------------------------------------
(* Unmarshal *)

MaxEncryptedPayloadSize(method) == GetLength(method, PayloadSize) % (MaxUint16 + 1)

UnmarshalHeader(h, method) ==
  IF ~Valid(h.type) \/ h.len > MaxEncryptedPayloadSize(method) THEN Failed
  ELSE [type |-> h.type, id |-> h.id, session |-> h.session, len |-> h.len,
        isError |-> Has(h.flags, FlagError), isRequest |-> Has(h.flags, FlagRequest),
        isACK |-> Has(h.flags, FlagACK),
        cmp |-> IF Has(h.flags, FlagCompression.lz4) THEN "lz4"
                ELSE IF Has(h.flags, FlagCompression.lzo) THEN "lzo"
                ELSE IF Has(h.flags, FlagCompression.zstd) THEN "zstd" ELSE "none"]

UnmarshalError(bytes) == IF bytes = <<>> THEN Failed ELSE Fields("error", <<SubSeq(bytes, 1, 1)>>)

RequestParams == 5
ResponseParams == 2
MinResponse == 14

UnmarshalRequest(bytes) ==
  LET strings == UnmarshalBytes(bytes, RequestParams)
  IN  IF strings = Failed \/ Len(strings) # RequestParams THEN Failed
      ELSE Fields("request", strings)

UnmarshalResponse(bytes) ==
  LET ips == UnmarshalBytes(SubSeq(bytes, 5, Len(bytes)), ResponseParams)
  IN  IF Len(bytes) < MinResponse \/ ips = Failed \/ Len(ips) # ResponseParams THEN Failed
      ELSE Fields("response", <<SubSeq(bytes, 1, 4)>> \o ips)

UnmarshalHandshake(bytes) ==
  LET strings == UnmarshalBytes(bytes, 1)
  IN  IF strings = Failed \/ Len(strings) # 1 THEN Failed ELSE Fields("key", strings)

UnmarshalData(m, data) ==
  LET bytes == Decompress(m.cmp, data)
  IN  IF bytes = Failed THEN Failed ELSE Fields("packet", <<bytes>>)

UnmarshalACK(bytes) ==
  LET acks == UnmarshalAcknowledgement(bytes)
  IN  IF acks = Failed THEN Failed ELSE [NoPayload EXCEPT !.kind = "acknowledgement", !.acks = acks]

\* data: what the cipher gave back
UnmarshalPayload(m, data) ==
  IF m.len = 0 THEN NoPayload
  ELSE IF m.isError THEN UnmarshalError(data.plain)
  ELSE CASE m.type = "authentication" /\ m.isRequest -> UnmarshalRequest(data.plain)
         [] m.type = "authentication" /\ ~m.isRequest -> UnmarshalResponse(data.plain)
         [] m.type = "handshake" -> UnmarshalHandshake(data.plain)
         [] m.type = "data" /\ m.isACK -> UnmarshalACK(data.plain)
         [] IsUserData(m) -> UnmarshalData(m, data)
         [] OTHER -> NoPayload
===============================================================================
