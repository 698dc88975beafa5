------------------------------- MODULE MCManager -------------------------------
(* Values for model checking Manager: a list of two connections. *)
EXTENDS Manager

CONSTANTS v1, v2

MCConnections == <<v1, v2>>
===============================================================================
