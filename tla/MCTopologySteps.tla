--------------------------- MODULE MCTopologySteps ---------------------------
(* Instances of TopologySteps for TLC. *)
EXTENDS TopologySteps, TLC

\* Generated names, old names and ids are interchangeable within their kind.
Symmetry ==
  Permutations(Networks) \cup Permutations(Subnets) \cup Permutations(IPs)
    \cup Permutations(Ports \ OldPorts) \cup Permutations(Routers)

=============================================================================
