------------------------ MODULE SecurityGroups_proofs ------------------------
(***************************************************************************)
(* The invariants of SecurityGroups, proved for every set of groups, ports *)
(* and addresses, and for every bound on revisions.                        *)
(*                                                                         *)
(* IInv is inductive: that a port which is taken out of a group was in it, *)
(* that DropAll is filled before a port relies on it, and that no group a  *)
(* port lists goes away need one another.                                  *)
(***************************************************************************)
EXTENDS SecurityGroups, TLAPS


\* DropAll drops from the moment it is there, before any port is in it.
DropAllDrops == DropAll \in groups => DropRules \subseteq rules[DropAll]

\* A port that is gone is in no group.
MembersLive == \A g \in Names : members[g] \subseteq LivePorts

IInv ==
  /\ TypeOK
  /\ DropAllDrops
  /\ MembersLive
  /\ SecuredPortsDropped
  /\ OnlySecuredPortsDropped
  /\ ListedGroupsMatch
  /\ ListedGroupsExist

\* The names of the groups the provider creates are no generated names.
LEMMA NamesDiffer ==
  /\ Default \notin Groups /\ DropAll \notin Groups /\ DropAll # Default
  /\ Default \in Names /\ DropAll \in Names /\ Groups \subseteq Names
  /\ \A ref \in Refs : GroupOf(ref) \in Requested
  /\ \A ref \in Refs, g \in Groups : GroupOf(ref) = g <=> ref = g
  /\ None \notin PortRows
BY NameAssumption DEF Names, Refs, GroupOf, Requested

\* What a group is created with.
LEMMA ProvisionedRules ==
  /\ \A g \in Names : Provisioned(g) \in SUBSET Rules
  /\ Provisioned(DropAll) = DropRules
BY NameAssumption
   DEF Provisioned, Rules, DropRules, DefaultRules, EgressRules, Allow,
       Directions, Names

THEOREM InitIInv == Init => IInv
BY NameAssumption
   DEF Init, IInv, TypeOK, DropAllDrops, MembersLive, SecuredPortsDropped, OnlySecuredPortsDropped,
       ListedGroupsMatch, ListedGroupsExist, LivePorts, Names

\* activate_default_security_group keeps the types, and DropAll drops if it
\* did, or if it was not there.
LEMMA AssureKeeps ==
  ASSUME TypeOK, NEW secure \in BOOLEAN, Assure(secure)
  PROVE  /\ groups' = GroupsWith(secure)
         /\ groups \subseteq groups' /\ groups' \subseteq Names
         /\ rules' \in [Names -> SUBSET Rules]
         /\ rev' \in [Names -> Nat]
         /\ \A g \in Names \ groups' : rules'[g] = {} /\ rev'[g] = 0
         /\ secure => {DropAll, Default} \subseteq groups'
         /\ DropAll \in groups => rules'[DropAll] = rules[DropAll]
         /\ DropAll \in groups' \ groups => rules'[DropAll] = DropRules
BY NamesDiffer, ProvisionedRules DEF TypeOK, Assure, GroupsWith

\* A port is in the groups it is added to, or was in, and not taken out of; the
\* other ports stay where they are.
LEMMA PlugMoves ==
  ASSUME TypeOK, NEW p \in Ports, NEW added, NEW removed, Plug(p, added, removed)
  PROVE  /\ members' \in [Names -> SUBSET Ports]
         /\ \A g \in Names :
              /\ p \in members'[g] <=> g \notin removed /\ (g \in added \/ p \in members[g])
              /\ \A q \in Ports \ {p} : q \in members'[g] <=> q \in members[g]
              /\ g \notin added => members'[g] \subseteq members[g]
BY DEF TypeOK, Plug

-----------------------------------------------------------------------------
(* Ports *)

\* What a request makes of a port keeps the invariant when its groups exist and
\* its row agrees with the groups it ends up in.
LEMMA PortRowKeeps ==
  ASSUME IInv, NEW p \in Ports, NEW secure \in BOOLEAN, NEW row \in PortRows,
         NEW added \in SUBSET groups', NEW removed,
         Assure(secure), Plug(p, added, removed), port' = [port EXCEPT ![p] = row],
         row.security # None <=> p \in members'[DropAll],
         \A g \in Groups : g \in row.listed <=> p \in members'[g],
         GroupsOf(row.listed) \subseteq groups'
  PROVE  IInv'
<1>1. TypeOK
  BY DEF IInv
<1>2. /\ port' \in [Ports -> PortRows \cup {None}]
      /\ port'[p] = row /\ row # None
      /\ \A q \in Ports \ {p} : port'[q] = port[q]
  BY <1>1, NamesDiffer DEF TypeOK
<1>3. /\ members' \in [Names -> SUBSET Ports]
      /\ \A g \in Names, q \in Ports \ {p} : q \in members'[g] <=> q \in members[g]
  BY <1>1, PlugMoves
<1>4. groups \subseteq groups' /\ groups' \subseteq Names
  BY <1>1, AssureKeeps
<1>5. TypeOK'
  <2>1. ASSUME NEW g \in Names \ groups'
        PROVE  members'[g] = {} /\ rules'[g] = {} /\ rev'[g] = 0
    BY <1>1, <1>4, AssureKeeps, PlugMoves DEF TypeOK
  <2> QED
    BY <1>1, <1>2, <1>3, <1>4, <2>1, AssureKeeps DEF TypeOK
<1>6. DropAllDrops'
  BY <1>1, AssureKeeps DEF IInv, DropAllDrops
<1>7. \A q \in Ports \ {p} : q \in LivePorts' <=> q \in LivePorts
  BY <1>2 DEF LivePorts
<1>8. SecuredPortsDropped' /\ OnlySecuredPortsDropped'
  <2>1. ASSUME NEW q \in LivePorts', port'[q].security # None PROVE q \in members'[DropAll]
    BY <1>2, <1>3, <1>7, <2>1, NamesDiffer DEF LivePorts, IInv, SecuredPortsDropped
  <2>2. ASSUME NEW q \in members'[DropAll] PROVE q \in LivePorts' /\ port'[q].security # None
    <3>1. q \in Ports
      BY <1>3, NamesDiffer
    <3> QED
      BY <1>2, <1>3, <1>7, <2>2, <3>1, NamesDiffer
      DEF LivePorts, IInv, OnlySecuredPortsDropped
  <2>3. DropAll \notin groups' => members'[DropAll] = {}
    BY <1>5, NamesDiffer DEF TypeOK
  <2> QED
    BY <1>6, <2>1, <2>2, <2>3
    DEF SecuredPortsDropped, OnlySecuredPortsDropped, DropAllDrops
<1>9. ListedGroupsMatch'
  <2>1. ASSUME NEW q \in LivePorts', NEW g \in Groups
        PROVE  g \in port'[q].listed <=> q \in members'[g]
    BY <1>2, <1>3, <1>7, NamesDiffer DEF LivePorts, IInv, ListedGroupsMatch
  <2> QED
    BY <2>1 DEF ListedGroupsMatch
<1>10. ListedGroupsExist'
  <2>1. ASSUME NEW q \in LivePorts' PROVE GroupsOf(port'[q].listed) \subseteq groups'
    BY <1>2, <1>4, <1>7 DEF LivePorts, IInv, ListedGroupsExist
  <2> QED
    BY <2>1 DEF ListedGroupsExist, GroupsOf, GroupOf
<1>11. MembersLive'
  BY <1>2, <1>3, <1>7 DEF IInv, MembersLive, LivePorts
<1> QED
  BY <1>5, <1>6, <1>8, <1>9, <1>10, <1>11 DEF IInv

\* Among the groups that references name, DropAll is none, and a group with a
\* generated name is there exactly when the references have it.
LEMMA NamedGroups ==
  ASSUME NEW refs \in SUBSET Refs
  PROVE  /\ DropAll \notin GroupsOf(refs)
         /\ \A g \in Groups : g \in GroupsOf(refs) <=> g \in refs
BY NamesDiffer DEF GroupsOf, Requested

LEMMA AddPortKeeps ==
  ASSUME IInv, NEW p \in Ports, NEW mac \in Macs, NEW secure \in BOOLEAN,
         NEW refs \in (SUBSET Refs) \cup {None}, AddPort(p, mac, secure, refs)
  PROVE  IInv'
<1> DEFINE listed == IF refs # None THEN refs ELSE IF secure THEN {Default} ELSE {}
           added == GroupsOf(listed) \cup (IF secure THEN {DropAll, Default} ELSE {})
           row == [mac |-> mac, security |-> IF secure THEN mac ELSE None, listed |-> listed]
<1>1. /\ port[p] = None /\ GroupsOf(listed) \subseteq groups'
      /\ Assure(secure) /\ Plug(p, added, {}) /\ port' = [port EXCEPT ![p] = row]
  BY DEF AddPort, Found, Assure
<1>2. TypeOK
  BY DEF IInv
<1>3. listed \in SUBSET Refs
  BY DEF Refs
<1>4. row \in PortRows
  BY <1>3 DEF PortRows
<1>5. added \in SUBSET groups'
  BY <1>1, <1>2, AssureKeeps
<1>6. p \notin members[DropAll] /\ \A g \in Groups : p \notin members[g]
  BY <1>1, NamesDiffer DEF IInv, MembersLive, LivePorts
<1>7. row.security # None <=> p \in members'[DropAll]
  BY <1>1, <1>2, <1>3, <1>6, NamedGroups, NamesDiffer, PlugMoves, NameAssumption
<1>8. \A g \in Groups : g \in row.listed <=> p \in members'[g]
  BY <1>1, <1>2, <1>3, <1>6, NamedGroups, NamesDiffer, PlugMoves
<1>9. GroupsOf(row.listed) \subseteq groups'
  BY <1>1
<1> QED
  BY <1>1, <1>4, <1>5, <1>7, <1>8, <1>9, PortRowKeeps

\* The row with nothing but a name lists no group and is secured by none.
LEMMA AddPortRefusedKeeps ==
  ASSUME IInv, NEW p \in Ports, AddPortRefused(p)
  PROVE  IInv'
<1> DEFINE row == [mac |-> None, security |-> None, listed |-> {}]
<1>1. /\ port[p] = None /\ port' = [port EXCEPT ![p] = row]
      /\ UNCHANGED <<groups, members, rules, rev>>
  BY DEF AddPortRefused
<1>2. row \in PortRows
  BY DEF PortRows
<1>3. TypeOK
  BY DEF IInv
<1>4. Assure(FALSE) /\ Plug(p, {}, {})
  BY <1>1, <1>3 DEF Assure, GroupsWith, Plug, TypeOK
<1>5. \A g \in Names : p \notin members'[g]
  BY <1>1 DEF IInv, MembersLive, LivePorts
<1>6. GroupsOf(row.listed) \subseteq groups'
  BY DEF GroupsOf
<1>7. /\ row.security # None <=> p \in members'[DropAll]
      /\ \A g \in Groups : g \in row.listed <=> p \in members'[g]
  BY <1>5, NamesDiffer
<1> QED
  BY <1>1, <1>2, <1>4, <1>6, <1>7, PortRowKeeps

LEMMA UpdatePortKeeps ==
  ASSUME IInv, NEW p \in Ports, NEW mac \in Macs \cup {None},
         NEW security \in BOOLEAN \cup {None},
         NEW refs \in (SUBSET Refs) \cup {None}, UpdatePort(p, mac, security, refs)
  PROVE  IInv'
<1> DEFINE old == port[p]
           newMac == IF mac # None THEN mac ELSE old.mac
           secure == security = TRUE
           regroup == refs # None \/ secure
           new == IF refs # None THEN refs ELSE {Default}
           install == IF regroup THEN Installed(p, new) ELSE {}
           remove == IF regroup THEN Removed(p, new) ELSE {}
           added == GroupsOf(install) \cup (IF secure THEN {DropAll} ELSE {})
           removed == GroupsOf(remove) \cup Unsecured(p, security)
           newSecurity == IF secure THEN newMac
                          ELSE IF security = FALSE THEN None ELSE old.security
           newListed == IF ~regroup THEN old.listed
                        ELSE IF refs \notin {None, {}} THEN refs ELSE install
           row == [mac |-> newMac, security |-> newSecurity, listed |-> newListed]
<1>1. /\ p \in LivePorts /\ (mac # None \/ old.mac # None)
      /\ GroupsOf(install \cup remove) \subseteq groups'
      /\ Assure(secure) /\ Plug(p, added, removed) /\ port' = [port EXCEPT ![p] = row]
  BY DEF UpdatePort, Found, Assure
<1>2. TypeOK
  BY DEF IInv
<1>3. old \in PortRows
  BY <1>1, <1>2 DEF TypeOK, LivePorts
<1>4. new \in SUBSET Refs /\ old.listed \in SUBSET Refs
  BY <1>3 DEF Refs, PortRows
<1>5. install \in SUBSET Refs /\ remove \in SUBSET Refs
  BY <1>4 DEF Installed, Removed
<1>6. newMac \in Macs /\ newSecurity \in Macs \cup {None} /\ newListed \in SUBSET Refs
  BY <1>1, <1>3, <1>4, <1>5 DEF PortRows
<1>7. row \in PortRows
  BY <1>6 DEF PortRows
<1>8. added \in SUBSET groups'
  <2>1. GroupsOf(install) \subseteq groups'
    BY <1>1 DEF GroupsOf
  <2>2. secure \in BOOLEAN
    OBVIOUS
  <2>3. secure => DropAll \in groups'
    BY <1>1, <1>2, <2>2, AssureKeeps
  <2> QED
    BY <2>1, <2>3
<1>9. row.security # None <=> p \in members'[DropAll]
  <2>1. p \in members'[DropAll] <=>
          DropAll \notin Unsecured(p, security) /\ (secure \/ p \in members[DropAll])
    BY <1>1, <1>2, <1>5, NamedGroups, NamesDiffer, PlugMoves
  <2>2. p \in members[DropAll] <=> old.security # None
    BY <1>1 DEF IInv, SecuredPortsDropped, OnlySecuredPortsDropped
  <2>3. DropAll \in Unsecured(p, security) <=> security = FALSE /\ old.security # None
    BY DEF Unsecured
  <2>4. None \notin Macs
    BY NameAssumption
  <2>5. row.security = newSecurity
    OBVIOUS
  <2> QED
    BY <1>6, <2>1, <2>2, <2>3, <2>4, <2>5
<1>10. \A g \in Groups : g \in row.listed <=> p \in members'[g]
  <2> TAKE g \in Groups
  <2>1. g \in old.listed <=> p \in members[g]
    BY <1>1 DEF IInv, ListedGroupsMatch
  <2>2. g \in GroupsOf(install) <=> g \in install
    BY <1>5, NamedGroups
  <2>3. g \in GroupsOf(remove) <=> g \in remove
    BY <1>5, NamedGroups
  <2>4. g \in Names /\ g # Default /\ g # DropAll /\ g \notin Unsecured(p, security)
    BY NamesDiffer DEF Unsecured
  <2>5. p \in members'[g] <=> g \notin remove /\ (g \in install \/ g \in old.listed)
    <3>1. g \in added <=> g \in install
      BY <2>2, <2>4
    <3>2. g \in removed <=> g \in remove
      BY <2>3, <2>4
    <3> HIDE DEF added, removed
    <3>3. p \in members'[g] <=> g \notin removed /\ (g \in added \/ p \in members[g])
      BY <1>1, <1>2, <2>4, PlugMoves
    <3> QED
      BY <2>1, <3>1, <3>2, <3>3
  <2>6. g \in newListed <=> g \notin remove /\ (g \in install \/ g \in old.listed)
    BY <2>4 DEF Installed, Removed
  <2> QED
    BY <2>5, <2>6
<1>11. GroupsOf(row.listed) \subseteq groups'
  <2>1. GroupsOf(old.listed) \subseteq groups'
    BY <1>1, <1>2, AssureKeeps DEF IInv, ListedGroupsExist
  <2>2. newListed \subseteq old.listed \cup install
    BY DEF Installed
  <2> QED
    BY <1>1, <2>1, <2>2 DEF GroupsOf
<1> QED
  BY <1>1, <1>7, <1>8, <1>9, <1>10, <1>11, PortRowKeeps

LEMMA DeletePortKeeps ==
  ASSUME IInv, NEW p \in Ports, DeletePort(p)
  PROVE  IInv'
<1>1. /\ port' = [port EXCEPT ![p] = None]
      /\ members' = [g \in Names |-> members[g] \ {p}]
      /\ UNCHANGED <<groups, rules, rev>>
  BY DEF DeletePort
<1>2. TypeOK'
  BY <1>1 DEF IInv, TypeOK
<1>3. LivePorts' = LivePorts \ {p} /\ \A q \in LivePorts' : port'[q] = port[q]
  BY <1>1 DEF IInv, TypeOK, LivePorts
<1>4. DropAllDrops' /\ MembersLive'
  BY <1>1, <1>3 DEF IInv, DropAllDrops, MembersLive
<1>5. SecuredPortsDropped' /\ OnlySecuredPortsDropped'
  BY <1>1, <1>3, NamesDiffer DEF IInv, SecuredPortsDropped, OnlySecuredPortsDropped
<1>6. ListedGroupsMatch' /\ ListedGroupsExist'
  BY <1>1, <1>3, NamesDiffer DEF IInv, ListedGroupsMatch, ListedGroupsExist
<1> QED
  BY <1>2, <1>4, <1>5, <1>6 DEF IInv

-----------------------------------------------------------------------------
(* Groups and rules *)

\* Nothing but groups and rules changes, and the groups a port is in or lists,
\* and the rules of DropAll, are left alone.
LEMMA GroupsKeep ==
  ASSUME IInv, TypeOK', UNCHANGED <<members, port>>, rules'[DropAll] = rules[DropAll],
         \A g \in groups \ groups' : g \in Groups /\ members[g] = {},
         DropAll \in groups' => DropAll \in groups
  PROVE  IInv'
<1>1. LivePorts' = LivePorts
  BY DEF LivePorts
<1>2. DropAllDrops' /\ MembersLive' /\ SecuredPortsDropped' /\ OnlySecuredPortsDropped'
      /\ ListedGroupsMatch'
  BY <1>1 DEF IInv, DropAllDrops, MembersLive, SecuredPortsDropped,
              OnlySecuredPortsDropped, ListedGroupsMatch
<1>3. ASSUME NEW q \in LivePorts, NEW ref \in port[q].listed
      PROVE  GroupOf(ref) \in groups'
  <2>1. ref \in Refs
    BY DEF IInv, TypeOK, LivePorts, PortRows
  <2>2. GroupOf(ref) \in groups
    BY DEF IInv, ListedGroupsExist, GroupsOf
  <2>3. GroupOf(ref) \in Groups => q \in members[GroupOf(ref)]
    BY <2>1, NamesDiffer DEF IInv, ListedGroupsMatch
  <2> QED
    BY <2>2, <2>3
<1>4. ListedGroupsExist'
  BY <1>1, <1>3 DEF ListedGroupsExist, GroupsOf, GroupOf
<1> QED
  BY <1>2, <1>4 DEF IInv

LEMMA AddSecurityGroupKeeps ==
  ASSUME IInv, NEW g \in Requested, AddSecurityGroup(g)
  PROVE  IInv'
<1>1. EgressRules \in SUBSET Rules
  BY DEF EgressRules, Allow, Rules, Directions
<1>2. TypeOK'
  BY <1>1 DEF IInv, TypeOK, AddSecurityGroup, Requested
<1> QED
  BY <1>2, GroupsKeep DEF AddSecurityGroup, IInv, TypeOK, Requested

LEMMA DeleteSecurityGroupKeeps ==
  ASSUME IInv, NEW g \in Requested, DeleteSecurityGroup(g)
  PROVE  IInv'
<1>1. TypeOK'
  BY DEF IInv, TypeOK, DeleteSecurityGroup
<1>2. g \in Groups /\ groups \ groups' = {g}
  BY DEF DeleteSecurityGroup, Requested, Names
<1> QED
  BY <1>1, <1>2, GroupsKeep DEF DeleteSecurityGroup, IInv, TypeOK, Requested

\* A change of the rules of a group, counted.
LEMMA RulesKeep ==
  ASSUME IInv, NEW g \in Requested, g \in groups, NEW new \in SUBSET Rules,
         rules' = [rules EXCEPT ![g] = new], Bump(g),
         UNCHANGED <<groups, members, port>>
  PROVE  IInv'
<1>1. TypeOK'
  BY DEF IInv, TypeOK, Bump
<1> QED
  BY <1>1, GroupsKeep DEF IInv, TypeOK, Requested

LEMMA UpdateSecurityGroupKeeps ==
  ASSUME IInv, NEW g \in Requested, UpdateSecurityGroup(g)
  PROVE  IInv'
<1>1. rules[g] \in SUBSET Rules /\ rules' = [rules EXCEPT ![g] = rules[g]]
  BY DEF IInv, TypeOK, UpdateSecurityGroup, Requested
<1> QED
  BY <1>1, RulesKeep DEF UpdateSecurityGroup

LEMMA AddSecurityGroupRuleKeeps ==
  ASSUME IInv, NEW g \in Requested, NEW direction \in Directions,
         NEW remote \in Requested \cup {None}, AddSecurityGroupRule(g, direction, remote)
  PROVE  IInv'
<1>1. rules[g] \cup {Allow(direction, remote)} \in SUBSET Rules
  BY DEF IInv, TypeOK, Requested, Allow, Rules
<1> QED
  BY <1>1, RulesKeep DEF AddSecurityGroupRule, IInv, TypeOK

LEMMA DeleteSecurityGroupRuleKeeps ==
  ASSUME IInv, NEW g \in Requested, NEW rule \in Rules, DeleteSecurityGroupRule(g, rule)
  PROVE  IInv'
<1>1. rules[g] \ {rule} \in SUBSET Rules
  BY DEF IInv, TypeOK, Requested
<1> QED
  BY <1>1, RulesKeep DEF DeleteSecurityGroupRule, IInv, TypeOK

-----------------------------------------------------------------------------
(* The specification *)

LEMMA StepIInv == IInv /\ [Next]_vars => IInv'
<1> SUFFICES ASSUME IInv, [Next]_vars PROVE IInv'
  OBVIOUS
<1>1. ASSUME NEW p \in Ports, NEW mac \in Macs, NEW secure \in BOOLEAN,
             NEW refs \in (SUBSET Refs) \cup {None}, AddPort(p, mac, secure, refs)
      PROVE  IInv'
  BY <1>1, AddPortKeeps
<1>2. ASSUME NEW p \in Ports, NEW mac \in Macs \cup {None},
             NEW security \in BOOLEAN \cup {None},
             NEW refs \in (SUBSET Refs) \cup {None}, UpdatePort(p, mac, security, refs)
      PROVE  IInv'
  BY <1>2, UpdatePortKeeps
<1>3. ASSUME NEW p \in Ports, AddPortRefused(p) \/ DeletePort(p) PROVE IInv'
  BY <1>3, AddPortRefusedKeeps, DeletePortKeeps
<1>4. ASSUME NEW g \in Requested,
             AddSecurityGroup(g) \/ DeleteSecurityGroup(g) \/ UpdateSecurityGroup(g)
      PROVE  IInv'
  BY <1>4, AddSecurityGroupKeeps, DeleteSecurityGroupKeeps, UpdateSecurityGroupKeeps
<1>5. ASSUME NEW g \in Requested, NEW direction \in Directions,
             NEW remote \in Requested \cup {None},
             AddSecurityGroupRule(g, direction, remote)
      PROVE  IInv'
  BY <1>5, AddSecurityGroupRuleKeeps
<1>6. ASSUME NEW g \in Requested, NEW rule \in Rules, DeleteSecurityGroupRule(g, rule)
      PROVE  IInv'
  BY <1>6, DeleteSecurityGroupRuleKeeps
<1>7. CASE UNCHANGED vars
  BY <1>7 DEF vars, IInv, TypeOK, DropAllDrops, MembersLive, SecuredPortsDropped,
              OnlySecuredPortsDropped, ListedGroupsMatch, ListedGroupsExist, LivePorts,
              GroupsOf, GroupOf
<1> QED
  BY <1>1, <1>2, <1>3, <1>4, <1>5, <1>6, <1>7 DEF Next

LEMMA SpecIInv == Spec => []IInv
BY InitIInv, StepIInv, PTL DEF Spec

\* Every variable has its type, and nothing is left of a group that is gone.
THEOREM TypeCorrect == Spec => []TypeOK
<1>1. IInv => TypeOK
  BY DEF IInv
<1> QED
  BY <1>1, SpecIInv, PTL

\* A port with port security is in DropAll, which drops (activate_ and
\* deactivate_port_security, whatever requests come between).
THEOREM SecuredDropped == Spec => []SecuredPortsDropped
<1>1. IInv => SecuredPortsDropped
  BY DEF IInv
<1> QED
  BY <1>1, SpecIInv, PTL

\* A port without port security is not in DropAll, which would drop what it may send
\* (deactivate_dropall_security_group, whatever requests come between).
THEOREM OnlySecuredDropped == Spec => []OnlySecuredPortsDropped
<1>1. IInv => OnlySecuredPortsDropped
  BY DEF IInv
<1> QED
  BY <1>1, SpecIInv, PTL

\* The groups a port lists are, Default apart, the groups it is in.
THEOREM ListedMatch == Spec => []ListedGroupsMatch
<1>1. IInv => ListedGroupsMatch
  BY DEF IInv
<1> QED
  BY <1>1, SpecIInv, PTL

\* The groups a port lists exist, so that it can leave them.
THEOREM ListedExist == Spec => []ListedGroupsExist
<1>1. IInv => ListedGroupsExist
  BY DEF IInv
<1> QED
  BY <1>1, SpecIInv, PTL

\* A change of the rules of a group has a revision of its own.
THEOREM RevisionPerChange == Spec => RevisionsTellRules
<1>1. ASSUME IInv, [Next]_vars
      PROVE  [\A g \in groups \cap groups' : rules'[g] # rules[g] => rev'[g] > rev[g]]_vars
  <2> SUFFICES ASSUME Next, NEW g \in groups \cap groups', rules'[g] # rules[g]
               PROVE  rev'[g] > rev[g]
    BY <1>1
  <2>1. g \in Names /\ rev[g] \in Nat
    BY <1>1 DEF IInv, TypeOK
  <2>2. \A secure \in BOOLEAN : ~Assure(secure)
    BY <2>1 DEF Assure, GroupsWith
  <2> DEFINE PortStep ==
        \E p \in Ports :
          \/ \E refs \in (SUBSET Refs) \cup {None} :
               \/ \E mac \in Macs, secure \in BOOLEAN : AddPort(p, mac, secure, refs)
               \/ \E mac \in Macs \cup {None}, security \in BOOLEAN \cup {None} :
                    UpdatePort(p, mac, security, refs)
          \/ AddPortRefused(p) \/ DeletePort(p)
  <2>3. ~PortStep
    <3>1. \A p, mac, secure, refs : AddPort(p, mac, secure, refs) => Assure(secure)
      BY DEF AddPort
    <3>2. \A p, mac, security, refs :
            UpdatePort(p, mac, security, refs) => Assure(security = TRUE)
      BY DEF UpdatePort
    <3>3. \A security : (security = TRUE) \in BOOLEAN
      OBVIOUS
    <3>4. \A p : ~AddPortRefused(p) /\ ~DeletePort(p)
      BY DEF AddPortRefused, DeletePort
    <3> QED
      BY <2>2, <3>1, <3>2, <3>3, <3>4
  <2>4. PICK h \in Requested :
          \/ AddSecurityGroup(h) \/ DeleteSecurityGroup(h)
          \/ \E direction \in Directions, remote \in Requested \cup {None} :
               AddSecurityGroupRule(h, direction, remote)
          \/ \E rule \in Rules : DeleteSecurityGroupRule(h, rule)
    BY <2>3 DEF Next, UpdateSecurityGroup
  <2>5. h \in Names
    BY DEF Requested
  <2>6. g = h
    BY <1>1, <2>1, <2>4, <2>5
    DEF AddSecurityGroup, DeleteSecurityGroup, AddSecurityGroupRule,
        DeleteSecurityGroupRule, IInv, TypeOK
  <2>7. ~AddSecurityGroup(h) /\ ~DeleteSecurityGroup(h)
    BY <2>6 DEF AddSecurityGroup, DeleteSecurityGroup, Fresh
  <2> QED
    BY <1>1, <2>1, <2>4, <2>6, <2>7
    DEF AddSecurityGroupRule, DeleteSecurityGroupRule, Bump, IInv, TypeOK
<1> QED
  BY <1>1, SpecIInv, PTL DEF Spec, RevisionsTellRules

=============================================================================
