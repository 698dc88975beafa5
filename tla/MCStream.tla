------------------------------- MODULE MCStream -------------------------------
(* Values for model checking Stream. *)
EXTENDS Stream

\* Message 2 is large, the others are small.
MCPayloadLength == [m \in Messages |-> IF m = 2 THEN 3 ELSE 1]

\* After the wrap a stream may deliver the same few messages again and again.
BoundedDeliveries == Len(delivered) <= MaxMsg + 3
==============================================================================
