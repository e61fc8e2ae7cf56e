------------------------------- MODULE MCDhcp -------------------------------
(* Instances of Dhcp for TLC. *)
EXTENDS Dhcp, TLC

\* Ids, generated names and addresses are interchangeable.
Symmetry ==
  Permutations(Networks) \cup Permutations(Subnets) \cup Permutations(Ports)
    \cup Permutations(Routers) \cup Permutations(IPv6)

=============================================================================
