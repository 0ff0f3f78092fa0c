---------------------------- MODULE MCHostMemory ----------------------------
(* HostMemory for TLC: blocks, ArrayBuffers and objects are each alike.      *)
EXTENDS HostMemory, FiniteSets, TLC

CONSTANT MaxInPlay   \* bound on the commands in flight and memory objects together

InPlay == Len(queue) + Cardinality({m \in Mems : object[m] # "none"}) <= MaxInPlay

Symmetry == Permutations(Blocks) \cup Permutations(Buffers) \cup Permutations(Mems)
=============================================================================
