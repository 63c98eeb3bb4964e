------------------------------ MODULE MCPorts ------------------------------
(* Two threads, two ports, one or two items on a port. *)
EXTENDS Ports, TLC

Symmetry == Permutations(Threads) \cup Permutations(Ports) \cup Permutations(Items)
=============================================================================
