------------------------ MODULE MCTopologyRefinement ------------------------
(* Instances of TopologyRefinement for TLC. *)
EXTENDS TopologyRefinement, TLC

\* Generated names, old names and ids are interchangeable within their kind.
Symmetry ==
  Permutations(Networks) \cup Permutations(Subnets) \cup Permutations(IPs)
    \cup Permutations(Ports \ OldPorts) \cup Permutations(Routers)

=============================================================================
