\* Two networks, a subnet of either, two routers; any network may have any address.
SPECIFICATION Spec
CONSTANTS
  Networks = {n1, n2}
  Subnets = {s1, s2}
  Ports = {p1, p2}
  Routers = {r1, r2}
  IPv4 = {v1}
  IPv6 = {a1, a2}
  Modes = {"stateful"}
  Mtus = {m1, m2}
  Zero = zero
  DefaultMtu = m1
  None = None
SYMMETRY Symmetry
INVARIANTS
  TypeOK
  LeasesHaveNetworkMtu
  LeasesOfOwnSubnet
  GatewayAdvertisesMtu
  OneLocalnet
