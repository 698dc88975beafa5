-------------------------------- MODULE MCPort --------------------------------
(* Values for model checking Port. *)
EXTENDS Port, TLC

Symmetry == Permutations(Ports) \union Permutations(Sessions)
===============================================================================
