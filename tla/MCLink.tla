-------------------------------- MODULE MCLink --------------------------------
(* Values for model checking Link. *)
EXTENDS Link

\* Two endpoints when there is more than one message.
MCEndpoint == [m \in Messages |-> IF m <= 1 THEN "e1" ELSE "e2"]

===============================================================================
