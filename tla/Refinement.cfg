\* One network, one router: every handler, transaction by transaction.
SPECIFICATION RefSpec
CONSTANTS
  Networks = {n1}
  Subnets = {s1}
  Ports = {old, p1, p2}
  OldPorts = {old}
  Routers = {r1}
  IPs = {a1, a2}
  Faults = {}
  MaxLate = 0
  None = None
SYMMETRY Symmetry
PROPERTIES
  RequestsAreAtomic
