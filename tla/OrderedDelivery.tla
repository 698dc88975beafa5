--------------------------- MODULE OrderedDelivery ---------------------------
(***************************************************************************)
(* What a stream promises the code that receives from it: the messages of  *)
(* one endpoint come out in the order the peer numbered them, each at most *)
(* once, and none that did not come in.  Messages may be left out: a       *)
(* stream gives up on a missing one when its waiting list is full or old.  *)
(***************************************************************************)
EXTENDS Integers, SequencesExt

CONSTANT Messages      (* numbers of the messages the peer may send *)

VARIABLES
  received,            (* the messages that came in, in any order, repeated or not *)
  delivered            (* what the receiver was handed, in order                   *)

odVars == <<received, delivered>>

Increasing(s) == \A i, j \in 1 .. Len(s) : i < j => s[i] < s[j]

Init == received = {} /\ delivered = <<>>

\* m comes in: any number of received messages that continue the increasing
\* sequence may be handed over.
Receive(m) ==
  /\ received' = received \union {m}
  /\ IsPrefix(delivered, delivered')
  /\ Increasing(delivered')
  /\ ToSet(delivered') \subseteq received'

Next == \E m \in Messages : Receive(m)

Spec == Init /\ [][Next]_odVars
==============================================================================
