--------------------------- MODULE SecurityGroups ---------------------------
(***************************************************************************)
(* Security groups, their rules, and the ports they are applied to: the    *)
(* Port_Group and ACL rows of the OVN northbound database and the columns  *)
(* of a Logical_Switch_Port that repeat them.                              *)
(*                                                                         *)
(* A request is one step, as in Topology.  The port requests queue all     *)
(* their commands in one transaction, and a command that names a group     *)
(* that is not there aborts it: then the request changes nothing.          *)
(*                                                                         *)
(* A group stands for its row, whose name is generated unless it is        *)
(* Default or DropAll, which the provider creates itself; its UUID is its  *)
(* id in the REST API.  Requests name no group DropAll: the name is taken  *)
(* by the provider, and list_security_groups hides the row and its id.     *)
(* A rule is known by its direction and its remote group; the rest of its  *)
(* match (protocol, ports, prefix) is left out.                            *)
(***************************************************************************)
EXTENDS Naturals

CONSTANTS
  Groups,     \* Port_Group rows with a generated name
  Default,    \* DEFAULT_PG_NAME
  DropAll,    \* DROP_ALL_IP_PG_NAME
  DefaultId,  \* the UUID of the Default row
  Ports,      \* Logical_Switch_Port rows
  Macs,       \* MAC addresses
  MaxRev,     \* bound on the revision number of a group
  None        \* an absent row, an empty column, a missing request field

Names == Groups \cup {Default, DropAll}

\* How a request, and the column of a port, names a group: by its id, and
\* Default also by its name.
Refs == Groups \cup {Default, DefaultId}
GroupOf(ref) == IF ref = DefaultId THEN Default ELSE ref

Directions == {"ingress", "egress"}
Rules ==
  [action : {"allow", "drop"}, direction : Directions, remote : Names \cup {None}]
Allow(direction, remote) ==
  [action |-> "allow", direction |-> direction, remote |-> remote]

DropRules == {[action |-> "drop", direction |-> d, remote |-> None] : d \in Directions}
EgressRules == {Allow("egress", None)}
DefaultRules == EgressRules \cup {Allow("ingress", Default)}

PortRows ==
  [mac : Macs \cup {None}, security : Macs \cup {None}, listed : SUBSET Refs]

ASSUME NameAssumption ==
  /\ Default \notin Groups
  /\ DropAll \notin Groups \cup {Default}
  /\ DefaultId \notin Names
  /\ None \notin Names \cup Macs \cup PortRows
  /\ MaxRev \in Nat

VARIABLES
  groups,   \* the groups that exist
  members,  \* Port_Group.ports
  rules,    \* Port_Group.acls
  rev,      \* ovirt_revision_number, 0 for a group that does not exist
  port      \* the row of a port: the MAC address of .addresses, the one of
            \* .port_security (None if empty), and ovirt_security_groups

vars == <<groups, members, rules, rev, port>>

LivePorts == {p \in Ports : port[p] # None}

-----------------------------------------------------------------------------
(* What the handlers share *)

\* Fault: the groups are created without their rules.
Provisioned_Empty(g) == {}

\* create_drop_all_traffic_acls and create_default_sec_group_acls
Provisioned(g) == IF g = DropAll THEN DropRules ELSE DefaultRules

\* activate_default_security_group: both groups, created at need (not updated).
GroupsWith(secure) == IF secure THEN groups \cup {DropAll, Default} ELSE groups
Assure(secure) ==
  LET new == GroupsWith(secure) \ groups IN
  /\ groups' = GroupsWith(secure)
  /\ rules' = [g \in Names |-> IF g \in new THEN Provisioned(g) ELSE rules[g]]
  /\ rev' = [g \in Names |-> IF g \in new THEN 1 ELSE rev[g]]

\* pg_add_ports of one set of groups, then pg_del_ports of another.
Plug(p, added, removed) ==
  members' = [g \in Names |->
    IF g \in removed THEN members[g] \ {p}
    ELSE IF g \in added THEN members[g] \cup {p}
    ELSE members[g]]

GroupsOf(refs) == {GroupOf(ref) : ref \in refs}

\* pg_add_ports and pg_del_ports find every group they name; the UUID of
\* Default is known once the row is committed.
Found(refs, secure) ==
  /\ GroupsOf(refs) \subseteq GroupsWith(secure)
  /\ DefaultId \in refs => Default \in groups

-----------------------------------------------------------------------------
(* Ports *)

\* refs is None when the request has no security_groups.
AddPort(p, mac, secure, refs) ==
  LET listed == IF refs # None THEN refs ELSE IF secure THEN {Default} ELSE {}
  IN /\ port[p] = None
     /\ Found(listed, secure)
     /\ Assure(secure)
     /\ Plug(p, GroupsOf(listed) \cup (IF secure THEN {DropAll, Default} ELSE {}), {})
     /\ port' = [port EXCEPT ![p] =
          [mac |-> mac, security |-> IF secure THEN mac ELSE None, listed |-> listed]]

\* An address that is refused (Topology) is refused before the rest is queued,
\* and the row is committed as it is.
AddPortRefused(p) ==
  /\ port[p] = None
  /\ port' = [port EXCEPT ![p] = [mac |-> None, security |-> None, listed |-> {}]]
  /\ UNCHANGED <<groups, members, rules, rev>>

\* Fault: port security off leaves the port in DropAll.
Unsecured_Kept(p, security) == {}

\* deactivate_port_security takes the port out of DropAll if it was secured.
Unsecured(p, security) ==
  IF security = FALSE /\ port[p].security # None THEN {DropAll} ELSE {}

\* Fault: groups no longer named are not given up.
Removed_None(p, new) == {}

\* sec_groups_to_install and sec_groups_to_delete: the names are compared as
\* they are written, so Default and DefaultId are two groups here.
Installed(p, new) == new \ port[p].listed
Removed(p, new) == port[p].listed \ new

\* The groups change when they are named, or when security is switched on.
UpdatePort(p, mac, security, refs) ==
  /\ p \in LivePorts
  /\ mac # None \/ port[p].mac # None
  /\ LET row == port[p]
         newMac == IF mac # None THEN mac ELSE row.mac
         regroup == refs # None \/ security = TRUE
         new == IF refs # None THEN refs ELSE {Default}
         install == IF regroup THEN Installed(p, new) ELSE {}
         remove == IF regroup THEN Removed(p, new) ELSE {}
     IN /\ Found(install \cup remove, security = TRUE)
        /\ Assure(security = TRUE)
        /\ Plug(p,
                GroupsOf(install) \cup (IF security = TRUE THEN {DropAll} ELSE {}),
                GroupsOf(remove) \cup Unsecured(p, security))
        /\ port' = [port EXCEPT ![p] =
             [mac |-> newMac,
              security |-> IF security = TRUE THEN newMac
                           ELSE IF security = FALSE THEN None
                           ELSE row.security,
              listed |-> IF ~regroup THEN row.listed
                         ELSE IF refs \notin {None, {}} THEN refs
                         ELSE install]]

\* Port_Group.ports refers to ports weakly: OVSDB takes a deleted one out.
DeletePort(p) ==
  /\ p \in LivePorts
  /\ port' = [port EXCEPT ![p] = None]
  /\ members' = [g \in Names |-> members[g] \ {p}]
  /\ UNCHANGED <<groups, rules, rev>>

-----------------------------------------------------------------------------
(* Groups and rules *)

\* A generated name is never used again.
Fresh(g) == g \notin groups /\ \A h \in groups : \A rule \in rules[h] : rule.remote # g

\* A group named Default by the request gets that name, and no peers rule.
AddSecurityGroup(g) ==
  /\ Fresh(g)
  /\ groups' = groups \cup {g}
  /\ rules' = [rules EXCEPT ![g] = EgressRules]
  /\ rev' = [rev EXCEPT ![g] = 1]
  /\ UNCHANGED <<members, port>>

\* Fault: no look at the ports of the group.
DeleteSecurityGroup_InUse(g) ==
  /\ g \in groups \ {Default}
  /\ groups' = groups \ {g}
  /\ members' = [members EXCEPT ![g] = {}]
  /\ rules' = [rules EXCEPT ![g] = {}]
  /\ rev' = [rev EXCEPT ![g] = 0]
  /\ UNCHANGED port

\* Fault: the rows of its rules stay.
DeleteSecurityGroup_Rules(g) ==
  /\ g \in groups \ {Default}
  /\ members[g] = {}
  /\ groups' = groups \ {g}
  /\ rev' = [rev EXCEPT ![g] = 0]
  /\ UNCHANGED <<members, rules, port>>

\* The ACL rows of a group go with it; those of others that refer to it stay.
DeleteSecurityGroup(g) ==
  /\ g \in groups \ {Default}
  /\ members[g] = {}
  /\ groups' = groups \ {g}
  /\ rules' = [rules EXCEPT ![g] = {}]
  /\ rev' = [rev EXCEPT ![g] = 0]
  /\ UNCHANGED <<members, port>>

Bump(g) == rev' = [rev EXCEPT ![g] = @ + 1]

UpdateSecurityGroup(g) ==
  /\ g \in groups \ {Default}
  /\ rev[g] < MaxRev
  /\ Bump(g)
  /\ UNCHANGED <<groups, members, rules, port>>

\* pg_acl_add refuses a rule that the group has.
AddSecurityGroupRule(g, direction, remote) ==
  /\ g \in groups
  /\ remote \in groups \cup {None}
  /\ Allow(direction, remote) \notin rules[g]
  /\ rev[g] < MaxRev
  /\ rules' = [rules EXCEPT ![g] = @ \cup {Allow(direction, remote)}]
  /\ Bump(g)
  /\ UNCHANGED <<groups, members, port>>

\* Fault: removing a rule is not counted.
DeleteSecurityGroupRule_Uncounted(g, rule) ==
  /\ g \in groups
  /\ rule \in rules[g]
  /\ rules' = [rules EXCEPT ![g] = @ \ {rule}]
  /\ UNCHANGED <<groups, members, rev, port>>

DeleteSecurityGroupRule(g, rule) ==
  /\ g \in groups
  /\ rule \in rules[g]
  /\ rev[g] < MaxRev
  /\ rules' = [rules EXCEPT ![g] = @ \ {rule}]
  /\ Bump(g)
  /\ UNCHANGED <<groups, members, port>>

-----------------------------------------------------------------------------
Init ==
  /\ groups = {}
  /\ members = [g \in Names |-> {}]
  /\ rules = [g \in Names |-> {}]
  /\ rev = [g \in Names |-> 0]
  /\ port = [p \in Ports |-> None]

Requested == Names \ {DropAll}

Next ==
  \/ \E p \in Ports, refs \in (SUBSET Refs) \cup {None} :
       \/ \E mac \in Macs, secure \in BOOLEAN : AddPort(p, mac, secure, refs)
       \/ \E mac \in Macs \cup {None}, security \in BOOLEAN \cup {None} :
            UpdatePort(p, mac, security, refs)
  \/ \E p \in Ports : AddPortRefused(p) \/ DeletePort(p)
  \/ \E g \in Requested :
       \/ AddSecurityGroup(g)
       \/ DeleteSecurityGroup(g)
       \/ UpdateSecurityGroup(g)
       \/ \E direction \in Directions, remote \in Requested \cup {None} :
            AddSecurityGroupRule(g, direction, remote)
       \/ \E rule \in Rules : DeleteSecurityGroupRule(g, rule)

Spec == Init /\ [][Next]_vars

-----------------------------------------------------------------------------
(* What holds *)

\* Every variable has its type, and a group that is not there has no ports, no
\* rules and no revision left.
TypeOK ==
  /\ groups \subseteq Names
  /\ members \in [Names -> SUBSET Ports]
  /\ rules \in [Names -> SUBSET Rules]
  /\ rev \in [Names -> Nat]
  /\ port \in [Ports -> PortRows \cup {None}]
  /\ \A g \in Names \ groups : members[g] = {} /\ rules[g] = {} /\ rev[g] = 0

\* A port with port security is in DropAll, and DropAll drops: whatever the
\* order in which security is switched on and off, and the two groups created.
SecuredPortsDropped ==
  \A p \in LivePorts : port[p].security # None =>
    p \in members[DropAll] /\ DropRules \subseteq rules[DropAll]

\* Only live ports with port security are in DropAll: port security switched off
\* takes a port out of it, although it looks only at what the port says itself
\* (deactivate_port_security).
OnlySecuredPortsDropped ==
  \A p \in members[DropAll] : p \in LivePorts /\ port[p].security # None

\* A port is in a group other than Default exactly when the port lists it: the
\* two are written by different commands, computed from the old list.
ListedGroupsMatch ==
  \A p \in LivePorts, g \in Groups : g \in port[p].listed <=> p \in members[g]

\* The groups a port lists exist: were one gone, every update that drops it
\* would be aborted by pg_del_ports, and the port could never leave it.
ListedGroupsExist ==
  \A p \in LivePorts : GroupsOf(port[p].listed) \subseteq groups

\* The same revision of a group shows the same rules as long as the group is
\* there: every handler that touches them, and none that creates the two
\* groups anew, counts (get_bumped_revision_number).
RevisionsTellRules ==
  [][\A g \in groups \cap groups' : rules'[g] # rules[g] => rev'[g] > rev[g]]_vars

-----------------------------------------------------------------------------
(* What the repository says and the code does not keep *)

\* "list and show API methods also list the respective security group rules":
\* both look up the remote group of each rule, and fail when one is gone.
RemoteGroupsExist ==
  \A g \in groups : \A rule \in rules[g] : rule.remote \in groups \cup {None}

=============================================================================
