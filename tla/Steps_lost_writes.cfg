\* One network, one router, two addresses: writes that fail unnoticed.
SPECIFICATION StepsSpec
CONSTANTS
  Networks = {n1}
  Subnets = {s1}
  Ports = {old, p1, p2}
  OldPorts = {old}
  Routers = {r1}
  IPs = {a1, a2}
  Faults = {"skip"}
  MaxLate = 0
  None = None
SYMMETRY Symmetry
INVARIANTS
  GatewaysStayReserved
  NoAddressClash
PROPERTIES
  RoutersLeaveBare
