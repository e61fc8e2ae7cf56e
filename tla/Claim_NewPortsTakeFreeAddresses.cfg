\* A claim of the repository that the code does not keep.
SPECIFICATION Spec
CONSTANTS
  Networks = {n1}
  Subnets = {s1}
  Ports = {old, p1, p2}
  OldPorts = {old}
  Routers = {r1, r2}
  IPs = {a1, a2}
  None = None
SYMMETRY Symmetry
PROPERTY
  NewPortsTakeFreeAddresses
