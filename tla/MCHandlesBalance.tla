-------------------------- MODULE MCHandlesBalance --------------------------
(* HandlesBalance for TLC: addresses and wrappers are interchangeable.      *)
EXTENDS HandlesBalance, TLC

Symmetry == Permutations(Objs) \cup Permutations(Wrappers)
=============================================================================
