--------------------------------- MODULE MCWire ---------------------------------
(* Values for model checking Wire. *)
EXTENDS Wire

Message(type, id, isACK, error, payload) ==
  [type |-> type, id |-> id, session |-> 1, isACK |-> isACK, error |-> error,
   cmp |-> "none", payload |-> payload]

Packets == {<<4, 1>>, <<4, 2, 2, 3, 3, 3, 4, 4, 4, 4, 5, 5, 5, 5, 6, 6, 6, 6>>}

Data == {[Message("data", 1, FALSE, 0, Fields("packet", <<p>>)) EXCEPT !.cmp = c] :
           p \in Packets, c \in {"none", "lz4", "lzo", "zstd"}}

Acks == {{<<9, <<1>>>>}, {<<9, <<1, 2>>>>}}

Common ==
  Data \union
  {Message("data", 0, TRUE, 0, [NoPayload EXCEPT !.kind = "acknowledgement", !.acks = a]) : a \in Acks}
  \union {Message("keepalive", 0, FALSE, 0, NoPayload), Message("reset", 0, FALSE, 0, NoPayload)}
  \union {Message("handshake", 0, FALSE, 0, Fields("key", <<<<5, 6, 7>>>>))}

\* client, name, password, compression type and level; a password may be too long
MCToServer ==
  Common \union
  {Message("authentication", 0, FALSE, 0, Fields("request", <<<<1>>, <<2>>, p, <<0>>, <<1>>>>)) :
     p \in {<<3, 3>>, <<>>, [i \in 1 .. 7 |-> 3]}}

\* session, local and remote address; errors
MCToClient ==
  Common \union
  {Message("authentication", 0, FALSE, 0,
           Fields("response", <<<<0, 0, 0, 1>>, <<2, 0, 0, 1>>, <<2, 0, 0, 2>>>>)),
   Message("authentication", 0, FALSE, 2, NoPayload), Message("reset", 0, FALSE, 3, NoPayload)}

MCPaths ==
  {[proto |-> p, to |-> t, method |-> v[1], cmp |-> v[2], obfuscate |-> v[3]] :
     p \in {"tcp", "udp"}, t \in {"server", "client"},
     v \in {<<"none", "none", FALSE>>, <<"ecb", "zstd", TRUE>>, <<"gcm", "lz4", TRUE>>,
            <<"ecb", "lzo", FALSE>>, <<"none", "zstd", FALSE>>}}

Pair(primary, s, r) ==
  [primaryS |-> "primary", userS |-> s, primaryR |-> primary, userR |-> r]

MCKeys ==
  {Pair("primary", "k1", "k1"), Pair("primary", "k1", "k2"), Pair("primary", "k1", "nil"),
   Pair("primary", "k1", "absent"), Pair("primary", "absent", "k1"), Pair("primary", "nil", "nil"),
   Pair("other", "primary", "nil")}

MCFakeBytes == {<<>>, <<1, 7>>}
===============================================================================
