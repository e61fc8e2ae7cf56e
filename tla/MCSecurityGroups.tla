-------------------------- MODULE MCSecurityGroups --------------------------
(* Instances of SecurityGroups for TLC. *)
EXTENDS SecurityGroups, TLC

\* Ports are interchangeable.
Symmetry == Permutations(Ports)

=============================================================================
