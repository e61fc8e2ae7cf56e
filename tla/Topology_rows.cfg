\* Two networks and a router: the rows and the references between them.
SPECIFICATION Spec
CONSTANTS
  Networks = {n1, n2}
  Subnets = {s1, s2}
  Ports = {old, p1, p2}
  OldPorts = {old}
  Routers = {r1}
  IPs = {a1, a2}
  None = None
SYMMETRY Symmetry
INVARIANTS
  TypeOK
  NetworksWellFormed
  RouterPortsPaired
  GatewayPortsConsistent
  GatewayRouteNeedsGateway
PROPERTIES
  PortsLeaveProperly
  RoutersLeaveEmpty
