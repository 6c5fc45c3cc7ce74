-------------------------- MODULE MCForwardManager --------------------------
(* Two or three threads, one forward.                                      *)
EXTENDS ForwardManager, TLC

Symmetry == Permutations(Caller)
=============================================================================
