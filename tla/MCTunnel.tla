------------------------------- MODULE MCTunnel -------------------------------
(* Values for model checking Tunnel: packets of two addresses, one of them  *)
(* also malformed.                                                          *)
EXTENDS Tunnel

Packet == [length |-> 40, version |-> 4, ihl |-> 5, total |-> 40, src |-> "h1", dst |-> "h2"]

MCPackets ==
  {Packet, [Packet EXCEPT !.version = 6, !.src = "h2", !.dst = "h1"],
   [Packet EXCEPT !.ihl = 15]}
===============================================================================
