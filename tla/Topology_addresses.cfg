\* One network shared by two routers: the addresses in use on it.
SPECIFICATION Spec
CONSTANTS
  Networks = {n1}
  Subnets = {s1}
  Ports = {old, p1, p2}
  OldPorts = {old}
  Routers = {r1, r2}
  IPs = {a1, a2, a3}
  None = None
SYMMETRY Symmetry
INVARIANTS
  GatewayAddressReserved
  NoAddressClash
PROPERTIES
  ReservationsOutlastRequests
