----------------------------- MODULE MCPodStore -----------------------------
(* PodStore for TLC: committed values are interchangeable. *)
EXTENDS PodStore, TLC
Symmetry == Permutations(Values)
=============================================================================
