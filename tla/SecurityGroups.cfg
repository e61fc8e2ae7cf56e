\* Two ports and a group besides the provider's own, with two revisions of each.
SPECIFICATION Spec
CONSTANTS
  Groups = {g1}
  Default = Default
  DropAll = DropAll
  DefaultId = DefaultId
  Ports = {p1, p2}
  Macs = {m1}
  MaxRev = 2
  None = None
SYMMETRY Symmetry
INVARIANTS
  TypeOK
  SecuredPortsDropped
  OnlySecuredPortsDropped
  ListedGroupsMatch
  ListedGroupsExist
PROPERTY RevisionsTellRules
