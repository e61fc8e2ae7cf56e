\* Two networks, a subnet of either: fixed addresses on a stateless subnet.
SPECIFICATION Spec
CONSTANTS
  Networks = {n1, n2}
  Subnets = {s1, s2}
  Ports = {p1, p2}
  Routers = {r1, r2}
  IPv4 = {v1}
  IPv6 = {a1, a2}
  Modes = {"stateful", "stateless"}
  Mtus = {zero, m1}
  Zero = zero
  DefaultMtu = m1
  None = None
SYMMETRY Symmetry
INVARIANT
  FixedAddressesOnStateful
