\* One network, one router, two addresses: transactions that are late, and
\* requests that come in between.
SPECIFICATION StepsSpec
CONSTANTS
  Networks = {n1}
  Subnets = {s1}
  Ports = {p1, p2}
  OldPorts = {}
  Routers = {r1}
  IPs = {a1, a2}
  Faults = {"late"}
  MaxLate = 1
  None = None
SYMMETRY Symmetry
INVARIANTS
  GatewaysStayReserved
