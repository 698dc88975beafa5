------------------------------- MODULE MCServer -------------------------------
(* Values for model checking Server: two connections of client a, one of b. *)
EXTENDS Server

CONSTANTS a, b, a1, a2, b1

MCOwner == [k \in Keys |-> IF k = b1 THEN b ELSE a]

\* a1 comes in on one socket, the TCP connections on another.
MCSocket == [k \in Keys |-> IF k \in UDPKeys THEN "udp" ELSE "tcp"]
===============================================================================
