\* Do the groups that rules refer to exist?
SPECIFICATION Spec
CONSTANTS
  Groups = {g1, g2}
  Default = Default
  DropAll = DropAll
  DefaultId = DefaultId
  Ports = {p1}
  Macs = {m1, m2}
  MaxRev = 2
  None = None
INVARIANT RemoteGroupsExist
