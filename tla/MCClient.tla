------------------------------- MODULE MCClient -------------------------------
(* Values for model checking Client are given by its configurations. *)
EXTENDS Client
===============================================================================
