----------------------------- MODULE MCTopology -----------------------------
(* Instances of Topology for TLC. *)
EXTENDS Topology, TLC

\* Generated names, old names and ids are interchangeable within their kind.
Symmetry ==
  Permutations(Networks) \cup Permutations(Subnets) \cup Permutations(IPs)
    \cup Permutations(Ports \ OldPorts) \cup Permutations(Routers)

=============================================================================
