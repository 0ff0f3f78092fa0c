----------------------------- MODULE MCDevices -----------------------------
(* Devices for TLC: sub-device addresses and wrappers are each alike.        *)
EXTENDS Devices, TLC

(* Once they say nothing any more, the histories are kept small.            *)
SmallHistories ==
  \A s \in Subs : spare[s] + lost[s] <= IF careless \/ short THEN 1 ELSE MaxRefs

Symmetry == Permutations(Subs) \cup Permutations(Wrappers)
=============================================================================
