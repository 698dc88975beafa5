------------------------------- MODULE MCMerger -------------------------------
(* Model checking Merger: channels in the order they are made. *)
EXTENDS Merger, TLC

CONSTANT MaxChannels

MCChannels == 1 .. MaxChannels

\* Connections are alike.
PushersSymmetry == Permutations(Pushers)
===============================================================================
