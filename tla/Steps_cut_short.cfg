\* One network, one router, three addresses: requests that end at any point.
SPECIFICATION StepsSpec
CONSTANTS
  Networks = {n1}
  Subnets = {s1}
  Ports = {old, p1, p2}
  OldPorts = {old}
  Routers = {r1}
  IPs = {a1, a2, a3}
  Faults = {"abandon"}
  MaxLate = 0
  None = None
SYMMETRY Symmetry
INVARIANTS
  StepsTypeOK
  NetworksWellFormed
  GatewaysStayReserved
  NoAddressClash
PROPERTIES
  RouterPortsLeaveFirst
  RoutersLeaveBare
