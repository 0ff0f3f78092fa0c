----------------------------- MODULE MCHandles -----------------------------
(* Handles for TLC: addresses and wrappers are interchangeable.            *)
EXTENDS Handles, TLC

Symmetry == Permutations(Objs) \cup Permutations(Wrappers)
=============================================================================
