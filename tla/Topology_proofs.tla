--------------------------- MODULE Topology_proofs ---------------------------
(* Proofs about Topology, for every set of networks, subnets, ports, routers *)
(* and addresses.                                                            *)
EXTENDS Topology, TLAPS

\* The initial states have the types: an empty database, or one with a router
\* of an old release.
LEMMA InitTypeOK == Init => TypeOK
<1> SUFFICES ASSUME Init PROVE TypeOK
  OBVIOUS
<1>1. CASE EmptyDb
  BY <1>1, IdAssumption DEF EmptyDb, TypeOK, Routes
<1>2. CASE \E n \in Networks, s \in Subnets, p \in OldPorts, r \in Routers, g, ip \in IPs :
             UpgradedDb(n, s, p, r, g, ip)
  BY <1>2, IdAssumption
  DEF UpgradedDb, TypeOK, Routes, SubnetRows, PortRows, RouterPortRows, RouterPort, Kinds
<1> QED
  BY <1>1, <1>2 DEF Init

-----------------------------------------------------------------------------
(* Types of what the handlers' helpers build *)

LEMMA RouterPortType ==
  ASSUME NEW n \in Networks
  PROVE  RouterPort(n) \in PortRows
BY DEF RouterPort, PortRows, Kinds

LEMMA RowsAfterRemoval ==
  ASSUME TypeOK, NEW gone \in SUBSET Ports
  PROVE  /\ PortsWithout(gone) \in [Ports -> PortRows \cup {None}]
         /\ RouterPortsWithout(gone) \in [Ports -> RouterPortRows \cup {None}]
BY DEF TypeOK, PortsWithout, RouterPortsWithout

\* Clearing the gateway router of a subnet row leaves a subnet row.
LEMMA ClearedSubnetType ==
  ASSUME NEW row \in SubnetRows
  PROVE  [row EXCEPT !.router = None] \in SubnetRows
BY DEF SubnetRows

LEMMA SubnetsAfterRemoval ==
  ASSUME TypeOK, NEW p \in Ports
  PROVE  SubnetsWithout(p) \in [Subnets -> SubnetRows \cup {None}]
<1>1. ASSUME NEW s \in Subnets, s \in SubnetsOf(lsp[p].net)
      PROVE  [dhcp[s] EXCEPT !.router = None] \in SubnetRows
  <2>1. dhcp[s] \in SubnetRows
    BY <1>1 DEF TypeOK, SubnetsOf, LiveSubnets
  <2> QED
    BY <2>1, ClearedSubnetType
<1>2. \A s \in Subnets : dhcp[s] \in SubnetRows \cup {None}
  BY DEF TypeOK
<1> QED
  BY <1>1, <1>2 DEF SubnetsWithout

LEMMA ExcludeTypes ==
  ASSUME TypeOK, NEW n \in Networks, NEW ip \in IPs
  PROVE  /\ ReserveIp(n, ip) \in [Networks -> SUBSET IPs]
         /\ ReleaseIp(n, ip) \in [Networks -> SUBSET IPs]
BY DEF TypeOK, ReserveIp, ReleaseIp

\* The rows of a port that _delete_router_interface_by_port may remove.
LEMMA RemovableRows ==
  ASSUME TypeOK, NEW r, NEW p, Removable(r, p)
  PROVE  /\ r \in Routers /\ p \in Ports
         /\ lsp[p] \in PortRows /\ lsp[p].net \in Networks
         /\ lrp[p] \in RouterPortRows /\ lrp[p].router = r /\ lrp[p].ip \in IPs
<1>1. r \in Routers /\ p \in Ports /\ lsp[p] # None /\ lrp[p] # None /\ lrp[p].router = r
  BY DEF Removable, TypeOK, LivePorts, Interfaces
<1>2. lsp[p] \in PortRows /\ lrp[p] \in RouterPortRows
  BY <1>1 DEF TypeOK
<1> QED
  BY <1>1, <1>2 DEF PortRows, RouterPortRows

LEMMA RemovalTypes ==
  ASSUME TypeOK, NEW r, NEW p, Removable(r, p)
  PROVE  ExcludeWithout(r, p) \in [Networks -> SUBSET IPs]
<1>1. lsp[p].net \in Networks /\ lrp[p].ip \in IPs
  BY RemovableRows
<1>2. ReleaseIp(lsp[p].net, lrp[p].ip) \in [Networks -> SUBSET IPs]
  BY <1>1, ExcludeTypes
<1> QED
  BY <1>2 DEF ExcludeWithout, TypeOK

-----------------------------------------------------------------------------
(* Type correctness *)

LEMMA StepTypeOK == TypeOK /\ [Next]_vars => TypeOK'
<1> SUFFICES ASSUME TypeOK, [Next]_vars PROVE TypeOK'
  OBVIOUS
<1> USE IdAssumption
<1>1. ASSUME NEW n \in Networks, AddNetwork(n) PROVE TypeOK'
  BY <1>1 DEF TypeOK, AddNetwork, portVars, routerVars
<1>2. ASSUME NEW n \in Networks, DeleteNetwork(n) PROVE TypeOK'
  BY <1>2 DEF TypeOK, DeleteNetwork, portVars, routerVars
<1>3. ASSUME NEW s \in Subnets, NEW n \in Networks, NEW g \in IPs \cup {None},
             AddSubnet(s, n, g)
      PROVE  TypeOK'
  BY <1>3 DEF TypeOK, AddSubnet, SubnetRows, portVars, routerVars
<1>4. ASSUME NEW s \in Subnets, NEW g \in IPs, UpdateSubnet(s, g) PROVE TypeOK'
  <2>1. dhcp[s] \in SubnetRows
    BY <1>4 DEF TypeOK, UpdateSubnet, LiveSubnets
  <2>2. [dhcp[s] EXCEPT !.gateway = g] \in SubnetRows
    BY <2>1 DEF SubnetRows
  <2> QED
    BY <1>4, <2>2 DEF TypeOK, UpdateSubnet, portVars, routerVars
<1>5. ASSUME NEW s \in Subnets, DeleteSubnet(s) PROVE TypeOK'
  BY <1>5 DEF TypeOK, DeleteSubnet, portVars, routerVars
<1>6. ASSUME NEW p \in Ports, NEW n \in Networks, NEW a \in IPs \cup {None},
             NEW owned \in BOOLEAN, AddPort(p, n, a, owned)
      PROVE  TypeOK'
  BY <1>6 DEF TypeOK, AddPort, PortRows, Kinds, AddressKind, routerVars
<1>7. ASSUME NEW p \in Ports, NEW a \in IPs \cup {None}, NEW owned \in BOOLEAN,
             UpdatePort(p, a, owned)
      PROVE  TypeOK'
  <2>1. lsp[p] \in PortRows
    BY <1>7 DEF TypeOK, UpdatePort, LivePorts
  <2>2. Readdressed(p, a) \in PortRows
    BY <2>1 DEF Readdressed, PortRows, Kinds, AddressKind
  <2>3. /\ [Readdressed(p, a) EXCEPT !.routerOwned = owned] \in PortRows
        /\ [lsp[p] EXCEPT !.routerOwned = owned] \in PortRows
    BY <2>1, <2>2 DEF PortRows
  <2> QED
    BY <1>7, <2>3 DEF TypeOK, UpdatePort, routerVars
<1>8. ASSUME NEW p \in Ports, NEW owned \in BOOLEAN, UpdateRouterPort(p, owned)
      PROVE  TypeOK'
  <2>1. lsp[p] \in PortRows
    BY <1>8 DEF TypeOK, UpdateRouterPort, LivePorts
  <2>2. [lsp[p] EXCEPT !.routerOwned = owned] \in PortRows
    BY <2>1 DEF PortRows
  <2> QED
    BY <1>8, <2>2 DEF TypeOK, UpdateRouterPort, routerVars
<1>9. ASSUME NEW p \in Ports, DeletePort(p) PROVE TypeOK'
  BY <1>9, RowsAfterRemoval DEF TypeOK, DeletePort, routerVars
<1>10. ASSUME NEW p \in Ports, NEW ip \in IPs, AssignAddress(p, ip) PROVE TypeOK'
  <2>1. lsp[p] \in PortRows
    BY <1>10 DEF TypeOK, AssignAddress, LivePorts
  <2>2. [lsp[p] EXCEPT !.ip = ip] \in PortRows
    BY <2>1 DEF PortRows
  <2> QED
    BY <1>10, <2>2 DEF TypeOK, AssignAddress, routerVars
<1>11. ASSUME NEW r \in Routers, NEW route \in {"none", "user"}, AddRouter(r, route)
       PROVE  TypeOK'
  BY <1>11 DEF TypeOK, AddRouter, Routes, portVars
<1>12. ASSUME NEW r \in Routers, NEW route \in {"none", "user"},
              UpdateRouterRoutes(r, route)
       PROVE  TypeOK'
  BY <1>12 DEF TypeOK, UpdateRouterRoutes, Routes, portVars
<1>13. ASSUME NEW r \in Routers, NEW p \in Ports, NEW n \in Networks, NEW ip \in IPs,
              AddGatewayPort(r, p, n, ip)
       PROVE  /\ lsp' \in [Ports -> PortRows \cup {None}]
              /\ lrp' \in [Ports -> RouterPortRows \cup {None}]
              /\ gwPort' \in [Routers -> Ports \cup {None}]
              /\ exclude' \in [Networks -> SUBSET IPs]
  BY <1>13, RouterPortType, ExcludeTypes DEF TypeOK, AddGatewayPort, RouterPortRows
<1>14. ASSUME NEW r \in Routers, NEW p \in Ports, NEW n \in Networks, NEW s \in Subnets,
              NEW ip \in IPs, AddRouterWithGateway(r, p, n, s, ip)
       PROVE  TypeOK'
  BY <1>13, <1>14 DEF TypeOK, AddRouterWithGateway, Routes
<1>15. ASSUME NEW r \in Routers, NEW p \in Ports, NEW n \in Networks, NEW s \in Subnets,
              NEW ip \in IPs, NEW cleared \in BOOLEAN,
              UpdateRouterAddGateway(r, p, n, s, ip, cleared)
       PROVE  TypeOK'
  BY <1>13, <1>15 DEF TypeOK, UpdateRouterAddGateway, Routes
<1>16. ASSUME NEW r \in Routers, NEW p \in Ports, NEW n \in Networks, NEW s \in Subnets,
              NEW ip \in IPs, UpdateRouterReplaceGateway(r, p, n, s, ip)
       PROVE  TypeOK'
  <2> DEFINE old == gwPort[r]
  <2>1. Removable(r, old) /\ old \in Ports
    BY <1>16 DEF UpdateRouterReplaceGateway
  <2>2. /\ PortsWithout({old}) \in [Ports -> PortRows \cup {None}]
        /\ RouterPortsWithout({old}) \in [Ports -> RouterPortRows \cup {None}]
    BY <2>1, RowsAfterRemoval
  <2>3. SubnetsWithout(old) \in [Subnets -> SubnetRows \cup {None}]
    BY <2>1, SubnetsAfterRemoval
  <2>4. ExcludeWithout(r, old) \in [Networks -> SUBSET IPs]
    BY <2>1, RemovalTypes
  <2>5. [router |-> r, ip |-> ip] \in RouterPortRows /\ RouterPort(n) \in PortRows
    BY RouterPortType DEF RouterPortRows
  <2> HIDE DEF old
  <2>6. /\ [PortsWithout({old}) EXCEPT ![p] = RouterPort(n)] \in [Ports -> PortRows \cup {None}]
        /\ [RouterPortsWithout({old}) EXCEPT ![p] = [router |-> r, ip |-> ip]]
             \in [Ports -> RouterPortRows \cup {None}]
        /\ [ExcludeWithout(r, old) EXCEPT ![n] = @ \cup {ip}] \in [Networks -> SUBSET IPs]
    BY <2>2, <2>4, <2>5
  <2> USE DEF old
  <2> QED
    BY <1>16, <2>3, <2>6 DEF TypeOK, UpdateRouterReplaceGateway, Routes
<1>17. ASSUME NEW r, NEW p, RemovePort(r, p)
       PROVE  /\ lsp' \in [Ports -> PortRows \cup {None}]
              /\ lrp' \in [Ports -> RouterPortRows \cup {None}]
              /\ dhcp' \in [Subnets -> SubnetRows \cup {None}]
              /\ exclude' \in [Networks -> SUBSET IPs]
  BY <1>17, RemovableRows, RowsAfterRemoval, SubnetsAfterRemoval, RemovalTypes DEF RemovePort
<1>18. ASSUME NEW r \in Routers, DeleteRouter(r) PROVE TypeOK'
  <2>1. CASE gwPort[r] = None
    BY <1>18, <2>1, RemovableRows DEF TypeOK, DeleteRouter, Routes, portVars
  <2>2. CASE gwPort[r] # None
    <3>1. RemovePort(r, gwPort[r])
      BY <1>18, <2>2 DEF DeleteRouter
    <3> QED
      BY <1>17, <1>18, <3>1 DEF TypeOK, DeleteRouter, Routes
  <2> QED
    BY <2>1, <2>2
<1>19. ASSUME NEW r \in Routers, NEW s \in Subnets, NEW p \in Ports,
              AddInterfaceBySubnet(r, s, p)
       PROVE  TypeOK'
  <2>1. dhcp[s] \in SubnetRows /\ dhcp[s].gateway # None
    BY <1>19 DEF TypeOK, AddInterfaceBySubnet, LiveSubnets
  <2>2. [dhcp[s] EXCEPT !.router = r] \in SubnetRows
    BY <2>1 DEF SubnetRows
  <2>3. RouterPort(dhcp[s].net) \in PortRows
    BY <2>1, RouterPortType DEF SubnetRows
  <2>4. [router |-> r, ip |-> dhcp[s].gateway] \in RouterPortRows
    BY <2>1 DEF SubnetRows, RouterPortRows
  <2> QED
    BY <1>19, <2>2, <2>3, <2>4 DEF TypeOK, AddInterfaceBySubnet, routerVars
<1>20. ASSUME NEW r \in Routers, NEW p \in Ports, AddInterfaceByPort(r, p) PROVE TypeOK'
  <2>1. lsp[p] \in PortRows /\ lsp[p].ip # None
    BY <1>20 DEF TypeOK, AddInterfaceByPort, LivePorts
  <2>2. RouterPort(lsp[p].net) \in PortRows
    BY <2>1, RouterPortType DEF PortRows
  <2>3. [router |-> r, ip |-> lsp[p].ip] \in RouterPortRows
    BY <2>1 DEF PortRows, RouterPortRows
  <2> QED
    BY <1>20, <2>2, <2>3 DEF TypeOK, AddInterfaceByPort, routerVars
<1>21. ASSUME NEW r \in Routers, NEW p \in Ports, DeleteInterfaceByPort(r, p) PROVE TypeOK'
  BY <1>17, <1>21 DEF TypeOK, DeleteInterfaceByPort, Routes
<1>22. ASSUME NEW r \in Routers, NEW s \in Subnets, NEW p \in Ports,
              DeleteInterfaceBySubnetAndPort(r, s, p)
       PROVE  TypeOK'
  BY <1>21, <1>22 DEF DeleteInterfaceBySubnetAndPort
<1>23. ASSUME NEW r \in Routers, NEW s \in Subnets, NEW gone \in SUBSET Ports,
              DeleteInterfaceBySubnet(r, s, gone)
       PROVE  TypeOK'
  <2>1. dhcp[s] \in SubnetRows
    BY <1>23 DEF TypeOK, DeleteInterfaceBySubnet, LiveSubnets
  <2>2. [dhcp[s] EXCEPT !.router = None] \in SubnetRows
    BY <2>1, ClearedSubnetType
  <2>3. dhcp' = [dhcp EXCEPT ![s].router = None] \/ dhcp' = dhcp
    BY <1>23 DEF DeleteInterfaceBySubnet
  <2> QED
    BY <1>23, <2>2, <2>3, RowsAfterRemoval DEF TypeOK, DeleteInterfaceBySubnet, routerVars
<1>24. CASE UNCHANGED vars
  BY <1>24 DEF TypeOK, vars
<1> QED
  BY <1>1, <1>2, <1>3, <1>4, <1>5, <1>6, <1>7, <1>8, <1>9, <1>10, <1>11, <1>12, <1>14,
     <1>15, <1>16, <1>18, <1>19, <1>20, <1>21, <1>22, <1>23, <1>24
  DEF Next

\* Type correctness, over any sequence of requests.
THEOREM TypeCorrect == Spec => []TypeOK
<1>1. Init => TypeOK
  BY InitTypeOK
<1>2. TypeOK /\ [Next]_vars => TypeOK'
  BY StepTypeOK
<1> QED
  BY <1>1, <1>2, PTL DEF Spec

-----------------------------------------------------------------------------
(* Networks, their subnets and ports *)

\* What most steps do to the rows: none is added and none moves.
SubnetsKept ==
  \A s \in Subnets : dhcp'[s] # None => dhcp[s] # None /\ dhcp'[s].net = dhcp[s].net
PortsKept ==
  \A p \in Ports : lsp'[p] # None => lsp[p] # None /\ lsp'[p].net = lsp[p].net

LEMMA KeptWellFormed ==
  ASSUME NetworksWellFormed, SubnetsKept, PortsKept, networks' = networks
  PROVE  NetworksWellFormed'
BY DEF NetworksWellFormed, SubnetsKept, PortsKept, LiveSubnets, LivePorts

LEMMA NewPortWellFormed ==
  ASSUME NetworksWellFormed, SubnetsKept, networks' = networks,
         NEW p \in Ports, lsp'[p].net \in networks,
         \A q \in Ports \ {p} : lsp'[q] # None => lsp[q] # None /\ lsp'[q].net = lsp[q].net
  PROVE  NetworksWellFormed'
BY DEF NetworksWellFormed, SubnetsKept, LiveSubnets, LivePorts

LEMMA RemovalKeepsSubnets ==
  ASSUME TypeOK, NEW p \in Ports, dhcp' = SubnetsWithout(p)
  PROVE  SubnetsKept
<1> SUFFICES ASSUME NEW s \in Subnets, dhcp'[s] # None
             PROVE  dhcp[s] # None /\ dhcp'[s].net = dhcp[s].net
  BY DEF SubnetsKept
<1>1. CASE dhcp[s] = None
  BY <1>1 DEF SubnetsWithout, SubnetsOf, LiveSubnets
<1>2. CASE dhcp[s] # None
  <2>1. dhcp[s] \in SubnetRows
    BY <1>2 DEF TypeOK
  <2>2. [dhcp[s] EXCEPT !.router = None].net = dhcp[s].net
    BY <2>1 DEF SubnetRows
  <2> QED
    BY <1>2, <2>2 DEF SubnetsWithout
<1> QED
  BY <1>1, <1>2

LEMMA RemovalKeepsPorts ==
  ASSUME NEW gone, lsp' = PortsWithout(gone)
  PROVE  PortsKept
BY DEF PortsKept, PortsWithout

LEMMA InitWellFormed == Init => NetworksWellFormed
<1>1. EmptyDb => NetworksWellFormed
  BY DEF EmptyDb, NetworksWellFormed, LiveSubnets, LivePorts
<1>2. ASSUME NEW n \in Networks, NEW s \in Subnets, NEW p \in OldPorts, NEW r \in Routers,
             NEW g \in IPs, NEW ip \in IPs, UpgradedDb(n, s, p, r, g, ip)
      PROVE  NetworksWellFormed
  BY <1>2 DEF UpgradedDb, NetworksWellFormed, LiveSubnets, LivePorts, RouterPort
<1> QED
  BY <1>1, <1>2 DEF Init

LEMMA StepWellFormed ==
  TypeOK /\ NetworksWellFormed /\ [Next]_vars => NetworksWellFormed'
<1> SUFFICES ASSUME TypeOK, NetworksWellFormed, [Next]_vars PROVE NetworksWellFormed'
  OBVIOUS
<1>a. ASSUME dhcp' = dhcp PROVE SubnetsKept
  BY <1>a DEF SubnetsKept
<1>b. ASSUME lsp' = lsp PROVE PortsKept
  BY <1>b DEF PortsKept
<1>1. ASSUME NEW n \in Networks, AddNetwork(n) PROVE NetworksWellFormed'
  BY <1>1 DEF AddNetwork, NetworksWellFormed, LiveSubnets, LivePorts, portVars
<1>2. ASSUME NEW n \in Networks, DeleteNetwork(n) PROVE NetworksWellFormed'
  <2>1. \A p \in LivePorts : lsp[p].net # n
    BY <1>2 DEF DeleteNetwork, PortsOf
  <2>2. \A s \in Subnets : dhcp'[s] # None => dhcp[s] # None /\ dhcp'[s] = dhcp[s] /\ dhcp[s].net # n
    BY <1>2 DEF DeleteNetwork, SubnetsOf, LiveSubnets
  <2> QED
    BY <1>2, <2>1, <2>2 DEF DeleteNetwork, NetworksWellFormed, LiveSubnets, LivePorts, portVars
<1>3. ASSUME NEW s \in Subnets, NEW n \in Networks, NEW g \in IPs \cup {None},
             AddSubnet(s, n, g)
      PROVE  NetworksWellFormed'
  <2>1. \A t \in LiveSubnets : dhcp[t].net # n
    BY <1>3 DEF AddSubnet, HasSubnet, SubnetsOf
  <2>2. /\ dhcp'[s] = [net |-> n, gateway |-> g, router |-> None]
        /\ \A t \in Subnets \ {s} : dhcp'[t] = dhcp[t]
    BY <1>3 DEF AddSubnet, TypeOK
  <2> QED
    BY <1>3, <2>1, <2>2 DEF AddSubnet, NetworksWellFormed, LiveSubnets, LivePorts, portVars
<1>4. ASSUME NEW s \in Subnets, NEW g \in IPs, UpdateSubnet(s, g) PROVE NetworksWellFormed'
  <2>1. dhcp[s] \in SubnetRows /\ dhcp[s] # None
    BY <1>4 DEF UpdateSubnet, LiveSubnets, TypeOK
  <2>2. [dhcp[s] EXCEPT !.gateway = g].net = dhcp[s].net
    BY <2>1 DEF SubnetRows
  <2>3. SubnetsKept
    BY <1>4, <2>1, <2>2 DEF SubnetsKept, UpdateSubnet, TypeOK
  <2> QED
    BY <1>4, <2>3, <1>b, KeptWellFormed DEF UpdateSubnet, portVars
<1>5. ASSUME NEW s \in Subnets, DeleteSubnet(s) PROVE NetworksWellFormed'
  <2>1. SubnetsKept
    BY <1>5 DEF SubnetsKept, DeleteSubnet, TypeOK
  <2> QED
    BY <1>5, <2>1, <1>b, KeptWellFormed DEF DeleteSubnet, portVars
<1>6. ASSUME NEW p \in Ports, NEW n \in Networks, NEW a \in IPs \cup {None},
             NEW owned \in BOOLEAN, AddPort(p, n, a, owned)
      PROVE  NetworksWellFormed'
  <2>1. lsp'[p].net = n /\ \A q \in Ports \ {p} : lsp'[q] = lsp[q]
    BY <1>6 DEF AddPort, TypeOK
  <2> QED
    BY <1>6, <2>1, <1>a, NewPortWellFormed DEF AddPort
<1>8. ASSUME NEW p \in Ports, NEW a \in IPs \cup {None}, NEW owned \in BOOLEAN,
             UpdatePort(p, a, owned)
      PROVE  NetworksWellFormed'
  <2>1. lsp[p] \in PortRows /\ lsp[p] # None
    BY <1>8 DEF TypeOK, UpdatePort, LivePorts
  <2>2. Readdressed(p, a) \in PortRows /\ Readdressed(p, a).net = lsp[p].net
    BY <2>1 DEF Readdressed, PortRows, Kinds, AddressKind
  <2>3. PortsKept
    BY <1>8, <2>1, <2>2 DEF PortsKept, UpdatePort, TypeOK, PortRows
  <2> QED
    BY <1>8, <2>3, <1>a, KeptWellFormed DEF UpdatePort
<1>9. ASSUME NEW p \in Ports, NEW owned \in BOOLEAN, UpdateRouterPort(p, owned)
      PROVE  NetworksWellFormed'
  <2>1. lsp[p] \in PortRows /\ lsp[p] # None
    BY <1>9 DEF TypeOK, UpdateRouterPort, LivePorts
  <2>2. PortsKept
    BY <1>9, <2>1 DEF PortsKept, UpdateRouterPort, TypeOK, PortRows
  <2> QED
    BY <1>9, <2>2, <1>a, KeptWellFormed DEF UpdateRouterPort
<1>10. ASSUME NEW p \in Ports, DeletePort(p) PROVE NetworksWellFormed'
  BY <1>10, <1>a, RemovalKeepsPorts, KeptWellFormed DEF DeletePort
<1>11. ASSUME NEW p \in Ports, NEW ip \in IPs, AssignAddress(p, ip) PROVE NetworksWellFormed'
  <2>1. lsp[p] \in PortRows /\ lsp[p] # None
    BY <1>11 DEF TypeOK, AssignAddress, LivePorts
  <2>2. PortsKept
    BY <1>11, <2>1 DEF PortsKept, AssignAddress, TypeOK, PortRows
  <2> QED
    BY <1>11, <2>2, <1>a, KeptWellFormed DEF AssignAddress
<1>12. ASSUME NEW r \in Routers, NEW route \in {"none", "user"},
              AddRouter(r, route) \/ UpdateRouterRoutes(r, route)
       PROVE  NetworksWellFormed'
  BY <1>12, <1>a, <1>b, KeptWellFormed DEF AddRouter, UpdateRouterRoutes, portVars
<1>13. ASSUME NEW r \in Routers, NEW p \in Ports, NEW n \in networks, NEW ip \in IPs,
              AddGatewayPort(r, p, n, ip), UNCHANGED <<networks, dhcp>>
       PROVE  NetworksWellFormed'
  <2>1. lsp'[p].net = n /\ \A q \in Ports \ {p} : lsp'[q] = lsp[q]
    BY <1>13 DEF AddGatewayPort, RouterPort, TypeOK
  <2> QED
    BY <1>13, <2>1, <1>a, NewPortWellFormed
<1>14. ASSUME NEW r \in Routers, NEW p \in Ports, NEW n \in Networks, NEW s \in Subnets,
              NEW ip \in IPs,
              \/ AddRouterWithGateway(r, p, n, s, ip)
              \/ \E cleared \in BOOLEAN : UpdateRouterAddGateway(r, p, n, s, ip, cleared)
       PROVE  NetworksWellFormed'
  BY <1>13, <1>14 DEF AddRouterWithGateway, UpdateRouterAddGateway, ValidGateway
<1>15. ASSUME NEW r \in Routers, NEW p \in Ports, NEW n \in Networks, NEW s \in Subnets,
              NEW ip \in IPs, UpdateRouterReplaceGateway(r, p, n, s, ip)
       PROVE  NetworksWellFormed'
  <2>1. gwPort[r] \in Ports
    BY <1>15, IdAssumption DEF UpdateRouterReplaceGateway
  <2>2. SubnetsKept
    BY <1>15, <2>1, RemovalKeepsSubnets DEF UpdateRouterReplaceGateway
  <2>3. /\ lsp'[p].net = n /\ n \in networks /\ networks' = networks
        /\ \A q \in Ports \ {p} : lsp'[q] # None => lsp'[q] = lsp[q]
    BY <1>15 DEF UpdateRouterReplaceGateway, ValidGateway, PortsWithout, RouterPort
  <2> QED
    BY <2>2, <2>3, NewPortWellFormed
<1>16. ASSUME NEW r, NEW p, RemovePort(r, p), networks' = networks PROVE NetworksWellFormed'
  <2>1. p \in Ports
    BY <1>16, RemovableRows DEF RemovePort
  <2> QED
    BY <1>16, <2>1, RemovalKeepsPorts, RemovalKeepsSubnets, KeptWellFormed DEF RemovePort
<1>17. ASSUME NEW r \in Routers, DeleteRouter(r) PROVE NetworksWellFormed'
  BY <1>17, <1>16, <1>a, <1>b, KeptWellFormed DEF DeleteRouter, portVars
<1>18. ASSUME NEW r \in Routers, NEW s \in Subnets, NEW p \in Ports,
              AddInterfaceBySubnet(r, s, p)
       PROVE  NetworksWellFormed'
  <2>1. dhcp[s] \in SubnetRows /\ dhcp[s] # None
    BY <1>18 DEF TypeOK, AddInterfaceBySubnet, LiveSubnets
  <2>2. SubnetsKept
    BY <1>18, <2>1 DEF SubnetsKept, AddInterfaceBySubnet, TypeOK, SubnetRows
  <2>3. lsp'[p].net = dhcp[s].net /\ \A q \in Ports \ {p} : lsp'[q] = lsp[q]
    BY <1>18 DEF AddInterfaceBySubnet, RouterPort, TypeOK
  <2>4. dhcp[s].net \in networks
    BY <2>1 DEF NetworksWellFormed, LiveSubnets
  <2> QED
    BY <1>18, <2>2, <2>3, <2>4, NewPortWellFormed DEF AddInterfaceBySubnet
<1>19. ASSUME NEW r \in Routers, NEW p \in Ports, AddInterfaceByPort(r, p)
       PROVE  NetworksWellFormed'
  <2>1. PortsKept
    BY <1>19 DEF PortsKept, AddInterfaceByPort, RouterPort, LivePorts, TypeOK
  <2> QED
    BY <1>19, <2>1, <1>a, KeptWellFormed DEF AddInterfaceByPort
<1>20. ASSUME NEW r \in Routers, NEW p \in Ports, DeleteInterfaceByPort(r, p)
       PROVE  NetworksWellFormed'
  BY <1>16, <1>20 DEF DeleteInterfaceByPort
<1>21. ASSUME NEW r \in Routers, NEW s \in Subnets, NEW p \in Ports,
              DeleteInterfaceBySubnetAndPort(r, s, p)
       PROVE  NetworksWellFormed'
  BY <1>20, <1>21 DEF DeleteInterfaceBySubnetAndPort
<1>22. ASSUME NEW r \in Routers, NEW s \in Subnets, NEW gone \in SUBSET Ports,
              DeleteInterfaceBySubnet(r, s, gone)
       PROVE  NetworksWellFormed'
  <2>1. dhcp[s] \in SubnetRows /\ dhcp[s] # None
    BY <1>22 DEF TypeOK, DeleteInterfaceBySubnet, LiveSubnets
  <2>2. dhcp' = [dhcp EXCEPT ![s].router = None] \/ dhcp' = dhcp
    BY <1>22 DEF DeleteInterfaceBySubnet
  <2>3. SubnetsKept
    BY <2>1, <2>2 DEF SubnetsKept, TypeOK, SubnetRows
  <2> QED
    BY <1>22, <2>3, RemovalKeepsPorts, KeptWellFormed DEF DeleteInterfaceBySubnet
<1>23. CASE UNCHANGED vars
  BY <1>23, <1>a, <1>b, KeptWellFormed DEF vars
<1> QED
  BY <1>1, <1>2, <1>3, <1>4, <1>5, <1>6, <1>8, <1>9, <1>10, <1>11, <1>12, <1>14, <1>15,
     <1>17, <1>18, <1>19, <1>20, <1>21, <1>22, <1>23
  DEF Next

-----------------------------------------------------------------------------
(* Switch ports, router ports and gateway keys *)

Paired == RouterPortsPaired /\ GatewayPortsConsistent

LEMMA InitPaired == Init => Paired
<1>1. EmptyDb => Paired
  BY DEF EmptyDb, Paired, RouterPortsPaired, GatewayPortsConsistent, LivePorts
<1>2. ASSUME NEW n \in Networks, NEW s \in Subnets, NEW p \in OldPorts, NEW r \in Routers,
             NEW g \in IPs, NEW ip \in IPs, UpgradedDb(n, s, p, r, g, ip)
      PROVE  Paired
  <2>1. p \in Ports /\ RouterPort(n) # None /\ [router |-> r, ip |-> ip] # None
    BY IdAssumption, RouterPortType DEF RouterPortRows
  <2> QED
    BY <1>2, <2>1, IdAssumption
    DEF UpgradedDb, Paired, RouterPortsPaired, GatewayPortsConsistent, LivePorts, RouterPort
<1> QED
  BY <1>1, <1>2 DEF Init

\* A step that writes no router row and plugs or unplugs no port.
LEMMA KeptPaired ==
  ASSUME TypeOK, Paired, UNCHANGED <<lrp, routers, gwPort>>,
         \A q \in Ports : lsp'[q] # None =>
            \/ lsp[q] # None /\ lsp'[q].kind = lsp[q].kind
            \/ /\ lsp'[q].kind # "router"
               /\ lrp[q] = None
               /\ \A r \in Routers : gwPort[r] # q
  PROVE  Paired'
<1>1. RouterPortsPaired'
  BY DEF Paired, RouterPortsPaired, LivePorts
<1>2. GatewayPortsConsistent'
  BY DEF Paired, GatewayPortsConsistent, LivePorts, TypeOK
<1> QED
  BY <1>1, <1>2 DEF Paired

\* A new router port, on a router that exists after the step.
LEMMA PluggedPaired ==
  ASSUME TypeOK, Paired, NEW r \in Routers, NEW p \in Ports, NEW n \in Networks, NEW ip \in IPs,
         lrp[p] = None, \A t \in Routers : gwPort[t] = p => lsp[p] = None /\ t = r,
         r \in routers', routers \subseteq routers',
         lsp'[p] = RouterPort(n), \A q \in Ports \ {p} : lsp'[q] = lsp[q],
         lrp' = [lrp EXCEPT ![p] = [router |-> r, ip |-> ip]],
         \/ gwPort' = gwPort
         \/ gwPort' = [gwPort EXCEPT ![r] = p]
  PROVE  Paired'
<1>1. RouterPort(n) # None /\ [router |-> r, ip |-> ip] # None
  BY IdAssumption, RouterPortType DEF RouterPortRows
<1>2. /\ lrp'[p] = [router |-> r, ip |-> ip]
      /\ \A q \in Ports \ {p} : lrp'[q] = lrp[q]
  BY DEF TypeOK
<1>3. RouterPortsPaired'
  BY <1>1, <1>2 DEF Paired, RouterPortsPaired, LivePorts, RouterPort
<1>4. GatewayPortsConsistent'
  BY <1>1, <1>2 DEF Paired, GatewayPortsConsistent, LivePorts, TypeOK
<1> QED
  BY <1>3, <1>4 DEF Paired

\* Router ports removed with their switch ports.  The router may go when nothing
\* is left on it, and a key may be cleared.
LEMMA UnpluggedPaired ==
  ASSUME TypeOK, Paired, NEW gone \in SUBSET Ports,
         lsp' = PortsWithout(gone), lrp' = RouterPortsWithout(gone),
         \A r \in Routers : gwPort'[r] \in {gwPort[r], None},
         \A r \in routers \ routers' : gwPort'[r] = None /\ Interfaces(r) \subseteq gone
  PROVE  Paired'
<1>1. \A q \in Ports : /\ q \in gone => lsp'[q] = None /\ lrp'[q] = None
                       /\ q \notin gone => lsp'[q] = lsp[q] /\ lrp'[q] = lrp[q]
  BY DEF PortsWithout, RouterPortsWithout
<1>2. RouterPortsPaired'
  BY <1>1 DEF Paired, RouterPortsPaired, LivePorts, Interfaces
<1>3. GatewayPortsConsistent'
  BY <1>1 DEF Paired, GatewayPortsConsistent, LivePorts, TypeOK
<1> QED
  BY <1>2, <1>3 DEF Paired

LEMMA StepPaired == TypeOK /\ Paired /\ [Next]_vars => Paired'
<1> SUFFICES ASSUME TypeOK, Paired, [Next]_vars PROVE Paired'
  OBVIOUS
<1>0. ASSUME lsp' = lsp, UNCHANGED <<lrp, routers, gwPort>> PROVE Paired'
  BY <1>0, KeptPaired
<1>1. ASSUME NEW n \in Networks, AddNetwork(n) \/ DeleteNetwork(n) PROVE Paired'
  BY <1>0, <1>1 DEF AddNetwork, DeleteNetwork, portVars, routerVars
<1>2. ASSUME NEW s \in Subnets, NEW n \in Networks, NEW g \in IPs \cup {None},
             AddSubnet(s, n, g)
      PROVE  Paired'
  BY <1>0, <1>2 DEF AddSubnet, portVars, routerVars
<1>3. ASSUME NEW s \in Subnets, NEW g \in IPs, UpdateSubnet(s, g) PROVE Paired'
  BY <1>0, <1>3 DEF UpdateSubnet, portVars, routerVars
<1>4. ASSUME NEW s \in Subnets, DeleteSubnet(s) PROVE Paired'
  BY <1>0, <1>4 DEF DeleteSubnet, portVars, routerVars
<1>5. ASSUME NEW p \in Ports, NEW n \in Networks, NEW a \in IPs \cup {None},
             NEW owned \in BOOLEAN, AddPort(p, n, a, owned)
      PROVE  Paired'
  <2>1. lsp'[p].kind # "router" /\ \A q \in Ports \ {p} : lsp'[q] = lsp[q]
    BY <1>5 DEF AddPort, AddressKind, TypeOK
  <2>2. lrp[p] = None /\ \A r \in Routers : gwPort[r] # p
    BY <1>5 DEF AddPort, FreshPort
  <2> QED
    BY <1>5, <2>1, <2>2, KeptPaired DEF AddPort, routerVars
<1>6. ASSUME NEW p \in Ports, NEW a \in IPs \cup {None}, NEW owned \in BOOLEAN,
             UpdatePort(p, a, owned)
      PROVE  Paired'
  <2>1. lsp[p] \in PortRows /\ lsp[p] # None /\ lsp[p].kind # "router"
    BY <1>6 DEF TypeOK, UpdatePort, LivePorts
  <2>2. Readdressed(p, a) \in PortRows /\ Readdressed(p, a).kind # "router"
    BY <2>1 DEF Readdressed, PortRows, Kinds, AddressKind
  <2>3. lsp'[p].kind # "router" /\ \A q \in Ports \ {p} : lsp'[q] = lsp[q]
    BY <1>6, <2>1, <2>2 DEF UpdatePort, TypeOK, PortRows
  <2>4. lrp[p] = None
    BY <2>1 DEF Paired, RouterPortsPaired, LivePorts
  <2>5. \A r \in Routers : gwPort[r] # p
    BY <2>1, <2>4, IdAssumption DEF Paired, GatewayPortsConsistent, LivePorts, TypeOK
  <2> QED
    BY <1>6, <2>3, <2>4, <2>5, KeptPaired DEF UpdatePort, routerVars
<1>7. ASSUME NEW p \in Ports, NEW owned \in BOOLEAN, UpdateRouterPort(p, owned)
      PROVE  Paired'
  <2>1. lsp[p] \in PortRows /\ lsp[p] # None
    BY <1>7 DEF TypeOK, UpdateRouterPort, LivePorts
  <2>2. lsp'[p].kind = lsp[p].kind /\ \A q \in Ports \ {p} : lsp'[q] = lsp[q]
    BY <1>7, <2>1 DEF UpdateRouterPort, TypeOK, PortRows
  <2> QED
    BY <1>7, <2>1, <2>2, KeptPaired DEF UpdateRouterPort, routerVars
<1>8. ASSUME NEW p \in Ports, DeletePort(p) PROVE Paired'
  BY <1>8, KeptPaired DEF DeletePort, PortsWithout, routerVars
<1>9. ASSUME NEW p \in Ports, NEW ip \in IPs, AssignAddress(p, ip) PROVE Paired'
  <2>1. lsp[p] \in PortRows /\ lsp[p] # None
    BY <1>9 DEF TypeOK, AssignAddress, LivePorts
  <2>2. lsp'[p].kind = lsp[p].kind /\ \A q \in Ports \ {p} : lsp'[q] = lsp[q]
    BY <1>9, <2>1 DEF AssignAddress, TypeOK, PortRows
  <2> QED
    BY <1>9, <2>1, <2>2, KeptPaired DEF AssignAddress, routerVars
<1>10. ASSUME NEW r \in Routers, NEW route \in {"none", "user"}, AddRouter(r, route)
       PROVE  Paired'
  BY <1>10 DEF AddRouter, Paired, RouterPortsPaired, GatewayPortsConsistent, LivePorts, portVars
<1>11. ASSUME NEW r \in Routers, NEW route \in {"none", "user"},
              UpdateRouterRoutes(r, route)
       PROVE  Paired'
  BY <1>0, <1>11 DEF UpdateRouterRoutes, portVars
<1>12. ASSUME NEW r \in Routers, NEW p \in Ports, NEW n \in Networks, NEW ip \in IPs,
              FreshPort(p), AddGatewayPort(r, p, n, ip),
              r \in routers', routers \subseteq routers'
       PROVE  Paired'
  <2>1. lsp'[p] = RouterPort(n) /\ \A q \in Ports \ {p} : lsp'[q] = lsp[q]
    BY <1>12 DEF AddGatewayPort, TypeOK
  <2> QED
    BY <1>12, <2>1, PluggedPaired DEF AddGatewayPort, FreshPort
<1>13. ASSUME NEW r \in Routers, NEW p \in Ports, NEW n \in Networks, NEW s \in Subnets,
              NEW ip \in IPs,
              \/ AddRouterWithGateway(r, p, n, s, ip)
              \/ \E cleared \in BOOLEAN : UpdateRouterAddGateway(r, p, n, s, ip, cleared)
       PROVE  Paired'
  BY <1>12, <1>13 DEF AddRouterWithGateway, UpdateRouterAddGateway
<1>14. ASSUME NEW r \in Routers, NEW p \in Ports, NEW n \in Networks, NEW s \in Subnets,
              NEW ip \in IPs, UpdateRouterReplaceGateway(r, p, n, s, ip)
       PROVE  Paired'
  <2> DEFINE old == gwPort[r]
  <2>1. /\ FreshPort(p) /\ r \in routers /\ old \in Ports /\ old # p
        /\ routers' = routers /\ gwPort' = [gwPort EXCEPT ![r] = p]
        /\ lsp' = [PortsWithout({old}) EXCEPT ![p] = RouterPort(n)]
        /\ lrp' = [RouterPortsWithout({old}) EXCEPT ![p] = [router |-> r, ip |-> ip]]
    BY <1>14, IdAssumption DEF UpdateRouterReplaceGateway, FreshPort
  <2>2. RouterPort(n) # None /\ [router |-> r, ip |-> ip] # None
    BY IdAssumption, RouterPortType DEF RouterPortRows
  <2>3. /\ lsp'[p] = RouterPort(n) /\ lrp'[p] = [router |-> r, ip |-> ip]
        /\ lsp'[old] = None /\ lrp'[old] = None
        /\ \A q \in Ports \ {p, old} : lsp'[q] = lsp[q] /\ lrp'[q] = lrp[q]
    BY <2>1 DEF PortsWithout, RouterPortsWithout
  <2>4. /\ gwPort'[r] = p
        /\ \A t \in Routers \ {r} : gwPort'[t] = gwPort[t] /\ gwPort[t] # p
    BY <2>1 DEF FreshPort, TypeOK
  <2>5. r \in routers /\ routers' = routers /\ RouterPort(n).kind = "router"
    BY <2>1 DEF RouterPort
  <2> HIDE DEF old
  <2>6. RouterPortsPaired'
    BY <2>2, <2>3, <2>5 DEF Paired, RouterPortsPaired, LivePorts
  <2>7. GatewayPortsConsistent'
    BY <2>2, <2>3, <2>4, <2>5 DEF Paired, GatewayPortsConsistent, LivePorts, TypeOK
  <2> QED
    BY <2>6, <2>7 DEF Paired
<1>15. ASSUME NEW r \in Routers, DeleteRouter(r) PROVE Paired'
  <2>1. /\ gwPort'[r] = None
        /\ \A t \in Routers \ {r} : gwPort'[t] = gwPort[t]
        /\ routers \ routers' \subseteq {r}
        /\ r \notin routers' => Interfaces(r) \subseteq {gwPort[r]}
    BY <1>15 DEF DeleteRouter, TypeOK
  <2>2. CASE gwPort[r] = None
    <3>1. lsp' = PortsWithout({}) /\ lrp' = RouterPortsWithout({}) /\ Interfaces(r) = {}
      BY <1>15, <2>2, RemovableRows, IdAssumption
      DEF DeleteRouter, PortsWithout, RouterPortsWithout, portVars, TypeOK
    <3> QED
      BY <2>1, <3>1, UnpluggedPaired
  <2>3. CASE gwPort[r] # None
    <3>1. RemovePort(r, gwPort[r])
      BY <1>15, <2>3 DEF DeleteRouter
    <3>2. gwPort[r] \in Ports
      BY <2>3 DEF TypeOK
    <3> QED
      BY <2>1, <3>1, <3>2, UnpluggedPaired DEF RemovePort
  <2> QED
    BY <2>2, <2>3
<1>16. ASSUME NEW r \in Routers, NEW s \in Subnets, NEW p \in Ports,
              AddInterfaceBySubnet(r, s, p)
       PROVE  Paired'
  <2>1. dhcp[s] \in SubnetRows /\ dhcp[s].gateway # None
    BY <1>16 DEF TypeOK, AddInterfaceBySubnet, LiveSubnets
  <2>2. dhcp[s].net \in Networks /\ dhcp[s].gateway \in IPs
    BY <2>1 DEF SubnetRows
  <2>3. lsp'[p] = RouterPort(dhcp[s].net) /\ \A q \in Ports \ {p} : lsp'[q] = lsp[q]
    BY <1>16 DEF AddInterfaceBySubnet, TypeOK
  <2> QED
    BY <1>16, <2>2, <2>3, PluggedPaired DEF AddInterfaceBySubnet, FreshPort, routerVars
<1>17. ASSUME NEW r \in Routers, NEW p \in Ports, AddInterfaceByPort(r, p) PROVE Paired'
  <2>1. lsp[p] \in PortRows /\ lsp[p] # None /\ lsp[p].ip # None /\ lsp[p].kind # "router"
    BY <1>17 DEF TypeOK, AddInterfaceByPort, LivePorts
  <2>2. lsp[p].net \in Networks /\ lsp[p].ip \in IPs
    BY <2>1 DEF PortRows
  <2>3. lrp[p] = None
    BY <2>1 DEF Paired, RouterPortsPaired, LivePorts
  <2>4. \A t \in Routers : gwPort[t] # p
    BY <2>1, <2>3, IdAssumption DEF Paired, GatewayPortsConsistent, LivePorts, TypeOK
  <2>5. lsp'[p] = RouterPort(lsp[p].net) /\ \A q \in Ports \ {p} : lsp'[q] = lsp[q]
    BY <1>17 DEF AddInterfaceByPort, TypeOK
  <2> QED
    BY <1>17, <2>2, <2>3, <2>4, <2>5, PluggedPaired DEF AddInterfaceByPort, routerVars
<1>18. ASSUME NEW r \in Routers, NEW p \in Ports, DeleteInterfaceByPort(r, p) PROVE Paired'
  <2>1. \A t \in Routers : gwPort'[t] \in {gwPort[t], None}
    BY <1>18 DEF DeleteInterfaceByPort, TypeOK
  <2> QED
    BY <1>18, <2>1, UnpluggedPaired DEF DeleteInterfaceByPort, RemovePort
<1>19. ASSUME NEW r \in Routers, NEW s \in Subnets, NEW p \in Ports,
              DeleteInterfaceBySubnetAndPort(r, s, p)
       PROVE  Paired'
  BY <1>18, <1>19 DEF DeleteInterfaceBySubnetAndPort
<1>20. ASSUME NEW r \in Routers, NEW s \in Subnets, NEW gone \in SUBSET Ports,
              DeleteInterfaceBySubnet(r, s, gone)
       PROVE  Paired'
  BY <1>20, UnpluggedPaired DEF DeleteInterfaceBySubnet, routerVars
<1>21. CASE UNCHANGED vars
  BY <1>0, <1>21 DEF vars
<1> QED
  BY <1>1, <1>2, <1>3, <1>4, <1>5, <1>6, <1>7, <1>8, <1>9, <1>10, <1>11, <1>13, <1>14,
     <1>15, <1>16, <1>17, <1>18, <1>19, <1>20, <1>21
  DEF Next

-----------------------------------------------------------------------------
(* Addresses.  The two invariants are proved together: a reserved address is *)
(* given back safely because no other port has it, and a new address is free *)
(* because the addresses of the gateways are reserved.                       *)

GatewaysReserved ==
  \A p \in LivePorts : IsGateway(p) => lrp[p].ip \in exclude[lsp[p].net]
AddressesDistinct ==
  \A p, q \in LivePorts :
    p # q /\ lsp[p].net = lsp[q].net /\ AddressOf(p) # None => AddressOf(p) # AddressOf(q)
Addresses == GatewaysReserved /\ AddressesDistinct

\* By port, this is what the two properties say of routers and networks.
LEMMA AddressesSuffice ==
  ASSUME TypeOK, Paired, Addresses
  PROVE  GatewayAddressReserved /\ NoAddressClash
<1>1. GatewayAddressReserved
  <2> SUFFICES ASSUME NEW r \in routers, gwPort[r] \in LivePorts
               PROVE  lrp[gwPort[r]].ip \in exclude[lsp[gwPort[r]].net]
    BY DEF GatewayAddressReserved
  <2>1. gwPort[r] \in Ports /\ gwPort[r] # None /\ r \in Routers
    BY IdAssumption DEF LivePorts, TypeOK
  <2>2. lrp[gwPort[r]] # None /\ lrp[gwPort[r]].router = r
    BY <2>1 DEF Paired, GatewayPortsConsistent
  <2>3. IsGateway(gwPort[r])
    BY <2>2 DEF IsGateway
  <2> QED
    BY <2>3 DEF Addresses, GatewaysReserved
<1>2. NoAddressClash
  BY DEF Addresses, AddressesDistinct, NoAddressClash, PortsOf
<1> QED
  BY <1>1, <1>2

\* A port that keeps its address or loses it, and its reservation with it.
KeepsAddress(q) ==
  lsp'[q] # None =>
    /\ lsp[q] # None
    /\ lsp'[q].net = lsp[q].net
    /\ AddressOf(q)' = AddressOf(q) \/ AddressOf(q)' = None
    /\ IsGateway(q)' =>
         IsGateway(q) /\ lrp'[q].ip = lrp[q].ip /\ lrp[q].ip \in exclude'[lsp[q].net]

\* A port without an address, or one whose address was available.
TakesAddress(q) ==
  /\ AddressOf(q)' # None => IpAvailable(lsp'[q].net, AddressOf(q)')
  /\ IsGateway(q)' => lrp'[q].ip \in exclude'[lsp'[q].net]

LEMMA AvailableIsUnused ==
  ASSUME Addresses, NEW n, NEW ip, IpAvailable(n, ip), NEW q \in LivePorts, lsp[q].net = n
  PROVE  AddressOf(q) # ip
BY DEF Addresses, GatewaysReserved, IpAvailable, PortsOf, AddressOf

LEMMA AddressStep ==
  ASSUME Addresses, NEW p, TakesAddress(p) \/ KeepsAddress(p),
         \A q \in Ports \ {p} : KeepsAddress(q)
  PROVE  Addresses'
<1>1. GatewaysReserved'
  BY DEF GatewaysReserved, KeepsAddress, TakesAddress, LivePorts
<1>2. ASSUME NEW q \in LivePorts', NEW t \in LivePorts', q # t, q # p, t # p,
             lsp'[q].net = lsp'[t].net, AddressOf(q)' # None
      PROVE  AddressOf(q)' # AddressOf(t)'
  BY <1>2 DEF Addresses, AddressesDistinct, KeepsAddress, LivePorts
<1>3. ASSUME NEW q \in LivePorts', q # p, p \in LivePorts',
             lsp'[q].net = lsp'[p].net, AddressOf(q)' # None
      PROVE  AddressOf(q)' # AddressOf(p)'
  <2>1. /\ q \in LivePorts /\ lsp[q].net = lsp'[p].net
        /\ AddressOf(q)' = AddressOf(q)
    BY <1>3 DEF KeepsAddress, LivePorts
  <2>2. CASE TakesAddress(p)
    <3>1. CASE AddressOf(p)' = None
      BY <1>3, <3>1
    <3>2. CASE AddressOf(p)' # None
      <4>1. IpAvailable(lsp'[p].net, AddressOf(p)')
        BY <2>2, <3>2 DEF TakesAddress
      <4>2. AddressOf(q) # AddressOf(p)'
        BY <2>1, <4>1, AvailableIsUnused
      <4> QED
        BY <2>1, <4>2
    <3> QED
      BY <3>1, <3>2
  <2>3. CASE KeepsAddress(p)
    BY <1>3, <2>1, <2>3 DEF Addresses, AddressesDistinct, KeepsAddress, LivePorts
  <2> QED
    BY <2>2, <2>3
<1>4. AddressesDistinct'
  <2> SUFFICES ASSUME NEW q \in LivePorts', NEW t \in LivePorts', q # t,
                      lsp'[q].net = lsp'[t].net, AddressOf(q)' # None
               PROVE  AddressOf(q)' # AddressOf(t)'
    BY DEF AddressesDistinct
  <2>1. CASE q = p /\ AddressOf(t)' # None
    BY <1>3, <2>1
  <2>2. CASE q = p /\ AddressOf(t)' = None
    BY <2>2
  <2>3. CASE t = p
    BY <1>3, <2>3
  <2>4. CASE q # p /\ t # p
    BY <1>2, <2>4
  <2> QED
    BY <2>1, <2>2, <2>3, <2>4
<1> QED
  BY <1>1, <1>4 DEF Addresses

\* Every port but the one a step is about, when no address is given back.
LEMMA OthersKeep ==
  ASSUME TypeOK, Addresses, NEW p,
         \A q \in Ports \ {p} : lsp'[q] = lsp[q] /\ lrp'[q] = lrp[q],
         \A t \in Routers : gwPort'[t] = gwPort[t] \/ (gwPort[t] = None /\ gwPort'[t] = p),
         \A n \in Networks : exclude[n] \subseteq exclude'[n]
  PROVE  \A q \in Ports \ {p} : KeepsAddress(q)
<1> SUFFICES ASSUME NEW q \in Ports \ {p}, lsp[q] # None PROVE KeepsAddress(q)
  BY DEF KeepsAddress
<1>1. lsp[q].net \in Networks /\ q # None /\ (lrp[q] # None => lrp[q].router \in Routers)
  BY IdAssumption DEF TypeOK, PortRows, RouterPortRows
<1>2. IsGateway(q)' <=> IsGateway(q)
  BY <1>1 DEF IsGateway
<1>3. AddressOf(q)' = AddressOf(q)
  BY <1>2 DEF AddressOf
<1> QED
  BY <1>1, <1>2, <1>3 DEF KeepsAddress, Addresses, GatewaysReserved, LivePorts

LEMMA RemovalKeepsAddresses ==
  ASSUME TypeOK, NEW gone \in SUBSET Ports,
         lsp' = PortsWithout(gone), lrp' = RouterPortsWithout(gone),
         \A t \in Routers : gwPort'[t] = gwPort[t] \/ (gwPort'[t] = None /\ gwPort[t] \in gone),
         \A q \in LivePorts \ gone : IsGateway(q) => lrp[q].ip \in exclude'[lsp[q].net]
  PROVE  \A q \in Ports : KeepsAddress(q)
<1> SUFFICES ASSUME NEW q \in Ports, lsp'[q] # None PROVE KeepsAddress(q)
  BY DEF KeepsAddress
<1>1. q \in LivePorts \ gone /\ lsp'[q] = lsp[q] /\ lrp'[q] = lrp[q]
  BY DEF PortsWithout, RouterPortsWithout, LivePorts
<1>2. q # None /\ (lrp[q] # None => lrp[q].router \in Routers)
  BY IdAssumption DEF TypeOK, RouterPortRows
<1>3. IsGateway(q)' <=> IsGateway(q)
  BY <1>1, <1>2 DEF IsGateway
<1>4. AddressOf(q)' = AddressOf(q)
  BY <1>1, <1>3 DEF AddressOf
<1> QED
  BY <1>1, <1>3, <1>4 DEF KeepsAddress, LivePorts

\* The address that goes with a gateway is no other gateway's.
LEMMA OtherGatewaysStayReserved ==
  ASSUME TypeOK, Addresses, NEW r, NEW p, Removable(r, p),
         NEW q \in LivePorts \ {p}, IsGateway(q)
  PROVE  lrp[q].ip \in ExcludeWithout(r, p)[lsp[q].net]
<1>1. /\ p \in LivePorts /\ lrp[p] # None /\ lrp[p].router = r
      /\ lsp[p].net \in Networks /\ lsp[q].net \in Networks
      /\ exclude \in [Networks -> SUBSET IPs]
  BY RemovableRows DEF Removable, Interfaces, TypeOK, LivePorts, PortRows
<1>2. lrp[q].ip \in exclude[lsp[q].net]
  BY DEF Addresses, GatewaysReserved
<1>3. CASE gwPort[r] = p /\ lsp[p].net = lsp[q].net
  <2>1. AddressOf(p) = lrp[p].ip /\ AddressOf(q) = lrp[q].ip /\ lrp[q].ip # None
    <3>1. lrp[q].ip \in IPs
      BY DEF IsGateway, TypeOK, LivePorts, RouterPortRows
    <3> QED
      BY <1>1, <1>3, <3>1, IdAssumption DEF AddressOf, IsGateway
  <2>2. lrp[p].ip # lrp[q].ip
    BY <1>1, <1>3, <2>1 DEF Addresses, AddressesDistinct
  <2> QED
    BY <1>1, <1>2, <1>3, <2>2 DEF ExcludeWithout, ReleaseIp
<1>4. CASE gwPort[r] # p \/ lsp[p].net # lsp[q].net
  BY <1>1, <1>2, <1>4 DEF ExcludeWithout, ReleaseIp
<1> QED
  BY <1>3, <1>4

LEMMA InitAddresses == Init => Addresses
<1>1. EmptyDb => Addresses
  BY DEF EmptyDb, Addresses, GatewaysReserved, AddressesDistinct, LivePorts
<1>2. ASSUME NEW n \in Networks, NEW s \in Subnets, NEW p \in OldPorts, NEW r \in Routers,
             NEW g \in IPs, NEW ip \in IPs, UpgradedDb(n, s, p, r, g, ip)
      PROVE  Addresses
  <2>1. LivePorts \subseteq {p} /\ p \in Ports /\ lsp[p].net = n /\ lrp[p].ip = ip
        /\ exclude[n] = {ip}
    BY <1>2, IdAssumption DEF UpgradedDb, LivePorts, RouterPort
  <2> QED
    BY <2>1 DEF Addresses, GatewaysReserved, AddressesDistinct
<1> QED
  BY <1>1, <1>2 DEF Init

LEMMA StepAddresses == TypeOK /\ Paired /\ Addresses /\ [Next]_vars => Addresses'
<1> SUFFICES ASSUME TypeOK, Paired, Addresses, [Next]_vars PROVE Addresses'
  OBVIOUS
<1>0. ASSUME UNCHANGED <<exclude, lsp, lrp, gwPort>> PROVE Addresses'
  BY <1>0 DEF Addresses, GatewaysReserved, AddressesDistinct, LivePorts, IsGateway, AddressOf
<1>p. ASSUME NEW p \in Ports, lsp[p] = None \/ lsp[p].kind # "router",
             lrp[p] = None \/ lsp[p] # None, UNCHANGED <<exclude, lrp, gwPort>>,
             \A q \in Ports \ {p} : lsp'[q] = lsp[q],
             \/ lsp'[p].ip = None
             \/ IpAvailable(lsp'[p].net, lsp'[p].ip)
             \/ lsp[p] # None /\ lsp'[p].ip = lsp[p].ip /\ lsp'[p].net = lsp[p].net
      PROVE  Addresses'
  <2>1. lrp[p] = None
    BY <1>p DEF Paired, RouterPortsPaired, LivePorts
  <2>2. /\ ~IsGateway(p) /\ AddressOf(p) = lsp[p].ip
        /\ ~IsGateway(p)' /\ AddressOf(p)' = lsp'[p].ip
    BY <1>p, <2>1 DEF IsGateway, AddressOf
  <2>3. TakesAddress(p) \/ KeepsAddress(p)
    BY <1>p, <2>2 DEF TakesAddress, KeepsAddress
  <2> QED
    BY <1>p, <2>3, OthersKeep, AddressStep
<1>1. ASSUME NEW n \in Networks, AddNetwork(n) PROVE Addresses'
  BY <1>0, <1>1 DEF AddNetwork, portVars, routerVars
<1>2. ASSUME NEW n \in Networks, DeleteNetwork(n) PROVE Addresses'
  <2>1. \A p \in LivePorts : lsp[p].net # n /\ lsp[p].net \in Networks
    BY <1>2 DEF DeleteNetwork, PortsOf, TypeOK, LivePorts, PortRows
  <2> QED
    BY <1>2, <2>1 DEF DeleteNetwork, Addresses, GatewaysReserved, AddressesDistinct,
                      LivePorts, IsGateway, AddressOf, portVars, routerVars, TypeOK
<1>3. ASSUME NEW s \in Subnets, NEW n \in Networks, NEW g \in IPs \cup {None},
             AddSubnet(s, n, g)
      PROVE  Addresses'
  BY <1>0, <1>3 DEF AddSubnet, portVars, routerVars
<1>4. ASSUME NEW s \in Subnets, NEW g \in IPs, UpdateSubnet(s, g) PROVE Addresses'
  BY <1>0, <1>4 DEF UpdateSubnet, portVars, routerVars
<1>5. ASSUME NEW s \in Subnets, DeleteSubnet(s) PROVE Addresses'
  BY <1>0, <1>5 DEF DeleteSubnet, portVars, routerVars
<1>6. ASSUME NEW p \in Ports, NEW n \in Networks, NEW a \in IPs \cup {None},
             NEW owned \in BOOLEAN, AddPort(p, n, a, owned)
      PROVE  Addresses'
  <2>1. /\ lsp'[p].ip = None \/ (lsp'[p].ip = a /\ lsp'[p].net = n /\ AddressAccepted(n, a))
        /\ \A q \in Ports \ {p} : lsp'[q] = lsp[q]
    BY <1>6 DEF AddPort, TypeOK
  <2> QED
    BY <1>6, <1>p, <2>1 DEF AddPort, FreshPort, AddressAccepted, routerVars
<1>7. ASSUME NEW p \in Ports, NEW a \in IPs \cup {None}, NEW owned \in BOOLEAN,
             UpdatePort(p, a, owned)
      PROVE  Addresses'
  <2>1. lsp[p] \in PortRows /\ lsp[p] # None /\ lsp[p].kind # "router"
    BY <1>7 DEF TypeOK, UpdatePort, LivePorts
  <2>2. /\ Readdressed(p, a) \in PortRows /\ Readdressed(p, a).net = lsp[p].net
        /\ Readdressed(p, a).ip \in {a, lsp[p].ip}
    BY <2>1 DEF Readdressed, PortRows, Kinds, AddressKind
  <2>3. /\ lsp'[p].net = lsp[p].net
        /\ lsp'[p].ip = lsp[p].ip \/ (lsp'[p].ip = a /\ AddressAccepted(lsp[p].net, a))
        /\ \A q \in Ports \ {p} : lsp'[q] = lsp[q]
    BY <1>7, <2>1, <2>2 DEF UpdatePort, TypeOK, PortRows
  <2> QED
    BY <1>7, <1>p, <2>1, <2>3 DEF UpdatePort, AddressAccepted, routerVars
<1>8. ASSUME NEW p \in Ports, NEW owned \in BOOLEAN, UpdateRouterPort(p, owned)
      PROVE  Addresses'
  <2>1. lsp[p] \in PortRows /\ lsp[p] # None
    BY <1>8 DEF TypeOK, UpdateRouterPort, LivePorts
  <2>2. /\ lsp'[p].net = lsp[p].net /\ lsp'[p].ip = lsp[p].ip
        /\ \A q \in Ports \ {p} : lsp'[q] = lsp[q]
    BY <1>8, <2>1 DEF UpdateRouterPort, TypeOK, PortRows
  <2>3. IsGateway(p)' <=> IsGateway(p)
    BY <1>8 DEF UpdateRouterPort, IsGateway, routerVars
  <2>4. KeepsAddress(p)
    BY <1>8, <2>1, <2>2, <2>3 DEF KeepsAddress, AddressOf, UpdateRouterPort, routerVars,
       Addresses, GatewaysReserved, LivePorts
  <2> QED
    BY <1>8, <2>2, <2>4, OthersKeep, AddressStep DEF UpdateRouterPort, routerVars
<1>9. ASSUME NEW p \in Ports, DeletePort(p) PROVE Addresses'
  <2>1. ~(lsp'[p] # None) /\ \A q \in Ports \ {p} : lsp'[q] = lsp[q]
    BY <1>9 DEF DeletePort, PortsWithout
  <2>2. KeepsAddress(p)
    BY <2>1 DEF KeepsAddress
  <2> QED
    BY <1>9, <2>1, <2>2, OthersKeep, AddressStep DEF DeletePort, routerVars
<1>10. ASSUME NEW p \in Ports, NEW ip \in IPs, AssignAddress(p, ip) PROVE Addresses'
  <2>1. lsp[p] \in PortRows /\ lsp[p] # None
    BY <1>10 DEF TypeOK, AssignAddress, LivePorts
  <2>2. /\ lsp'[p].net = lsp[p].net /\ lsp'[p].ip = ip
        /\ \A q \in Ports \ {p} : lsp'[q] = lsp[q]
    BY <1>10, <2>1 DEF AssignAddress, TypeOK, PortRows
  <2> QED
    BY <1>10, <1>p, <2>1, <2>2 DEF AssignAddress, routerVars
<1>11. ASSUME NEW r \in Routers, NEW route \in {"none", "user"},
              AddRouter(r, route) \/ UpdateRouterRoutes(r, route)
       PROVE  Addresses'
  BY <1>0, <1>11 DEF AddRouter, UpdateRouterRoutes, portVars
<1>12. ASSUME NEW r \in Routers, NEW p \in Ports, NEW n \in Networks, NEW ip \in IPs,
              gwPort[r] = None, IpAvailable(n, ip), AddGatewayPort(r, p, n, ip)
       PROVE  Addresses'
  <2>1. /\ lsp'[p] = RouterPort(n) /\ lrp'[p] = [router |-> r, ip |-> ip]
        /\ gwPort'[r] = p /\ ip \in exclude'[n]
        /\ \A q \in Ports \ {p} : lsp'[q] = lsp[q] /\ lrp'[q] = lrp[q]
        /\ \A t \in Routers \ {r} : gwPort'[t] = gwPort[t]
        /\ \A m \in Networks : exclude[m] \subseteq exclude'[m]
    BY <1>12 DEF AddGatewayPort, ReserveIp, TypeOK
  <2>2. TakesAddress(p)
    BY <1>12, <2>1 DEF TakesAddress, AddressOf, IsGateway, RouterPort
  <2> QED
    BY <1>12, <2>1, <2>2, OthersKeep, AddressStep
<1>13. ASSUME NEW r \in Routers, NEW p \in Ports, NEW n \in Networks, NEW s \in Subnets,
              NEW ip \in IPs,
              \/ AddRouterWithGateway(r, p, n, s, ip)
              \/ \E cleared \in BOOLEAN : UpdateRouterAddGateway(r, p, n, s, ip, cleared)
       PROVE  Addresses'
  <2>1. gwPort[r] = None
    BY <1>13 DEF AddRouterWithGateway, UpdateRouterAddGateway, FreshRouter, Paired,
                 GatewayPortsConsistent
  <2> QED
    BY <1>12, <1>13, <2>1 DEF AddRouterWithGateway, UpdateRouterAddGateway, ValidGateway
<1>14. ASSUME NEW r \in Routers, NEW p \in Ports, NEW n \in Networks, NEW s \in Subnets,
              NEW ip \in IPs, UpdateRouterReplaceGateway(r, p, n, s, ip)
       PROVE  Addresses'
  <2> DEFINE old == gwPort[r]
  <2>1. /\ IpAvailable(n, ip) /\ Removable(r, old) /\ FreshPort(p) /\ old \in Ports /\ p # old
        /\ gwPort' = [gwPort EXCEPT ![r] = p]
        /\ lsp' = [PortsWithout({old}) EXCEPT ![p] = RouterPort(n)]
        /\ lrp' = [RouterPortsWithout({old}) EXCEPT ![p] = [router |-> r, ip |-> ip]]
        /\ exclude' = [ExcludeWithout(r, old) EXCEPT ![n] = @ \cup {ip}]
    BY <1>14, IdAssumption DEF UpdateRouterReplaceGateway, ValidGateway, FreshPort
  <2>2. ExcludeWithout(r, old) \in [Networks -> SUBSET IPs]
    BY <2>1, RemovalTypes
  <2>3. /\ lsp'[p] = RouterPort(n) /\ lrp'[p] = [router |-> r, ip |-> ip] /\ lsp'[old] = None
        /\ \A q \in Ports \ {p, old} : lsp'[q] = lsp[q] /\ lrp'[q] = lrp[q]
    BY <2>1 DEF PortsWithout, RouterPortsWithout
  <2>4. gwPort'[r] = p /\ \A t \in Routers \ {r} : gwPort'[t] = gwPort[t]
    BY <2>1 DEF TypeOK
  <2>5. /\ ip \in exclude'[n]
        /\ \A m \in Networks : ExcludeWithout(r, old)[m] \subseteq exclude'[m]
    BY <2>1, <2>2
  <2>6. TakesAddress(p)
    <3>1. lsp'[p].net = n /\ lrp'[p].ip = ip /\ AddressOf(p)' \in {ip, None}
      BY <2>3 DEF AddressOf, RouterPort
    <3>2. IpAvailable(n, ip) /\ ip \in exclude'[n]
      BY <2>1, <2>5
    <3> QED
      BY <3>1, <3>2 DEF TakesAddress
  <2>7. ASSUME NEW q \in Ports \ {p} PROVE KeepsAddress(q)
    <3>1. CASE q = old
      BY <2>3, <3>1 DEF KeepsAddress
    <3>2. CASE q # old /\ lsp[q] = None
      BY <2>3, <2>7, <3>2 DEF KeepsAddress
    <3>3. CASE q # old /\ lsp[q] # None
      <4>1. /\ q \in LivePorts \ {old} /\ q # None /\ lsp[q].net \in Networks
            /\ lsp'[q] = lsp[q] /\ lrp'[q] = lrp[q]
            /\ lrp[q] # None => lrp[q].router \in Routers
        BY <2>3, <2>7, <3>3, IdAssumption DEF TypeOK, LivePorts, PortRows, RouterPortRows
      <4>2. IsGateway(q)' <=> IsGateway(q)
        BY <2>4, <2>7, <3>3, <4>1 DEF IsGateway
      <4>3. AddressOf(q)' = AddressOf(q)
        BY <4>1, <4>2 DEF AddressOf
      <4>4. IsGateway(q) => lrp[q].ip \in ExcludeWithout(r, old)[lsp[q].net]
        BY <2>1, <4>1, OtherGatewaysStayReserved
      <4> HIDE DEF old
      <4> QED
        BY <2>5, <4>1, <4>2, <4>3, <4>4 DEF KeepsAddress, LivePorts
    <3> QED
      BY <3>1, <3>2, <3>3
  <2> QED
    BY <2>6, <2>7, AddressStep
<1>15. ASSUME NEW r \in Routers, NEW p, RemovePort(r, p), gwPort'[r] \in {gwPort[r], None},
              gwPort'[r] # gwPort[r] => gwPort[r] = p,
              \A t \in Routers \ {r} : gwPort'[t] = gwPort[t]
       PROVE  Addresses'
  <2>1. p \in Ports /\ Removable(r, p) /\ exclude' = ExcludeWithout(r, p)
    BY <1>15, RemovableRows DEF RemovePort
  <2>2. \A q \in LivePorts \ {p} : IsGateway(q) => lrp[q].ip \in exclude'[lsp[q].net]
    BY <2>1, OtherGatewaysStayReserved
  <2>3. \A q \in Ports : KeepsAddress(q)
    BY <1>15, <2>1, <2>2, RemovalKeepsAddresses DEF RemovePort
  <2> QED
    BY <2>1, <2>3, AddressStep
<1>16. ASSUME NEW r \in Routers, DeleteRouter(r) PROVE Addresses'
  <2>1. gwPort'[r] = None /\ \A t \in Routers \ {r} : gwPort'[t] = gwPort[t]
    BY <1>16 DEF DeleteRouter, TypeOK
  <2>2. CASE gwPort[r] = None
    <3>1. UNCHANGED <<exclude, lsp, lrp, gwPort>>
      BY <1>16, <2>2, RemovableRows, IdAssumption DEF DeleteRouter, TypeOK, portVars, RemovePort
    <3> QED
      BY <3>1, <1>0
  <2>3. CASE gwPort[r] # None
    BY <1>15, <1>16, <2>1, <2>3 DEF DeleteRouter
  <2> QED
    BY <2>2, <2>3
<1>17. ASSUME NEW r \in Routers, NEW p \in Ports, NEW n \in Networks,
              \A t \in Routers : gwPort[t] # p,
              \A q \in Ports \ {p} : lsp'[q] = lsp[q] /\ lrp'[q] = lrp[q],
              lsp'[p] = RouterPort(n), lrp'[p].router = r, UNCHANGED <<exclude, gwPort>>
       PROVE  Addresses'
  <2>1. TakesAddress(p)
    BY <1>17 DEF TakesAddress, AddressOf, IsGateway, RouterPort
  <2> QED
    BY <1>17, <2>1, OthersKeep, AddressStep
<1>18. ASSUME NEW r \in Routers, NEW s \in Subnets, NEW p \in Ports,
              AddInterfaceBySubnet(r, s, p)
       PROVE  Addresses'
  <2>1. dhcp[s].net \in Networks
    BY <1>18 DEF TypeOK, AddInterfaceBySubnet, LiveSubnets, SubnetRows
  <2>2. /\ lsp'[p] = RouterPort(dhcp[s].net) /\ lrp'[p].router = r
        /\ \A q \in Ports \ {p} : lsp'[q] = lsp[q] /\ lrp'[q] = lrp[q]
    BY <1>18 DEF AddInterfaceBySubnet, TypeOK
  <2> QED
    BY <1>17, <1>18, <2>1, <2>2 DEF AddInterfaceBySubnet, FreshPort, routerVars
<1>19. ASSUME NEW r \in Routers, NEW p \in Ports, AddInterfaceByPort(r, p) PROVE Addresses'
  <2>1. lsp[p].net \in Networks /\ lsp[p] # None /\ lsp[p].kind # "router" /\ p # None
    BY <1>19, IdAssumption DEF TypeOK, AddInterfaceByPort, LivePorts, PortRows
  <2>2. /\ lsp'[p] = RouterPort(lsp[p].net) /\ lrp'[p].router = r
        /\ \A q \in Ports \ {p} : lsp'[q] = lsp[q] /\ lrp'[q] = lrp[q]
    BY <1>19 DEF AddInterfaceByPort, TypeOK
  <2>3. lrp[p] = None
    BY <2>1 DEF Paired, RouterPortsPaired, LivePorts
  <2>4. \A t \in Routers : gwPort[t] # p
    BY <2>1, <2>3 DEF Paired, GatewayPortsConsistent, LivePorts
  <2> QED
    BY <1>17, <1>19, <2>1, <2>2, <2>4 DEF AddInterfaceByPort, routerVars
<1>20. ASSUME NEW r \in Routers, NEW p \in Ports, DeleteInterfaceByPort(r, p)
       PROVE  Addresses'
  <2>1. /\ gwPort'[r] \in {gwPort[r], None} /\ (gwPort'[r] # gwPort[r] => gwPort[r] = p)
        /\ \A t \in Routers \ {r} : gwPort'[t] = gwPort[t]
    BY <1>20 DEF DeleteInterfaceByPort, TypeOK
  <2> QED
    BY <1>15, <1>20, <2>1 DEF DeleteInterfaceByPort
<1>21. ASSUME NEW r \in Routers, NEW s \in Subnets, NEW p \in Ports,
              DeleteInterfaceBySubnetAndPort(r, s, p)
       PROVE  Addresses'
  BY <1>20, <1>21 DEF DeleteInterfaceBySubnetAndPort
<1>22. ASSUME NEW r \in Routers, NEW s \in Subnets, NEW gone \in SUBSET Ports,
              DeleteInterfaceBySubnet(r, s, gone)
       PROVE  Addresses'
  <2>1. \A q \in LivePorts : IsGateway(q) => lrp[q].ip \in exclude'[lsp[q].net]
    BY <1>22 DEF DeleteInterfaceBySubnet, Addresses, GatewaysReserved
  <2>2. \A q \in Ports : KeepsAddress(q)
    BY <1>22, <2>1, RemovalKeepsAddresses DEF DeleteInterfaceBySubnet, routerVars
  <2>4. Addresses' \/ Ports = {}
    BY <2>2, AddressStep
  <2>5. Ports = {} => Addresses'
    BY DEF Addresses, GatewaysReserved, AddressesDistinct, LivePorts
  <2> QED
    BY <2>4, <2>5
<1>23. CASE UNCHANGED vars
  BY <1>0, <1>23 DEF vars
<1> QED
  BY <1>1, <1>2, <1>3, <1>4, <1>5, <1>6, <1>7, <1>8, <1>9, <1>10, <1>11, <1>13, <1>14,
     <1>16, <1>18, <1>19, <1>20, <1>21, <1>22, <1>23
  DEF Next

-----------------------------------------------------------------------------
(* Default routes *)

LEMMA StepGatewayRoute ==
  TypeOK /\ GatewayRouteNeedsGateway /\ [Next]_vars => GatewayRouteNeedsGateway'
<1> SUFFICES ASSUME TypeOK, GatewayRouteNeedsGateway, [Next]_vars
             PROVE  GatewayRouteNeedsGateway'
  OBVIOUS
<1>1. ASSUME UNCHANGED <<gwPort, defRoute>> PROVE GatewayRouteNeedsGateway'
  BY <1>1 DEF GatewayRouteNeedsGateway
<1>3. ASSUME NEW r \in Routers, NEW route \in {"none", "user"},
             AddRouter(r, route) \/ UpdateRouterRoutes(r, route)
      PROVE  GatewayRouteNeedsGateway'
  BY <1>3 DEF AddRouter, UpdateRouterRoutes, GatewayRouteNeedsGateway, TypeOK
<1>4. ASSUME NEW r \in Routers, NEW p \in Ports, NEW n \in Networks, NEW s \in Subnets,
             NEW ip \in IPs,
             \/ AddRouterWithGateway(r, p, n, s, ip)
             \/ \E cleared \in BOOLEAN : UpdateRouterAddGateway(r, p, n, s, ip, cleared)
             \/ UpdateRouterReplaceGateway(r, p, n, s, ip)
      PROVE  GatewayRouteNeedsGateway'
  <2>1. gwPort' = [gwPort EXCEPT ![r] = p] /\ p # None
    BY <1>4, IdAssumption DEF AddRouterWithGateway, UpdateRouterAddGateway,
       UpdateRouterReplaceGateway, AddGatewayPort
  <2>2. \A t \in Routers \ {r} : defRoute'[t] = defRoute[t]
    BY <1>4 DEF AddRouterWithGateway, UpdateRouterAddGateway, UpdateRouterReplaceGateway, TypeOK
  <2> QED
    BY <2>1, <2>2 DEF GatewayRouteNeedsGateway, TypeOK
<1>5. ASSUME NEW r \in Routers, DeleteRouter(r) PROVE GatewayRouteNeedsGateway'
  BY <1>5 DEF DeleteRouter, GatewayRouteNeedsGateway, TypeOK
<1>6. ASSUME NEW r \in Routers, NEW p \in Ports, DeleteInterfaceByPort(r, p)
      PROVE  GatewayRouteNeedsGateway'
  BY <1>6 DEF DeleteInterfaceByPort, GatewayRouteNeedsGateway, TypeOK
<1>7. ASSUME NEW r \in Routers, NEW s \in Subnets, NEW p \in Ports,
             DeleteInterfaceBySubnetAndPort(r, s, p)
      PROVE  GatewayRouteNeedsGateway'
  BY <1>6, <1>7 DEF DeleteInterfaceBySubnetAndPort
<1> QED
  BY <1>1, <1>3, <1>4, <1>5, <1>6, <1>7
  DEF Next, vars, routerVars, AddNetwork, DeleteNetwork, AddSubnet, UpdateSubnet, DeleteSubnet,
      AddPort, UpdatePort, UpdateRouterPort, DeletePort, AssignAddress, AddInterfaceBySubnet,
      AddInterfaceByPort, DeleteInterfaceBySubnet

LEMMA InitGatewayRoute == Init => GatewayRouteNeedsGateway
<1>1. EmptyDb => GatewayRouteNeedsGateway
  BY DEF EmptyDb, GatewayRouteNeedsGateway
<1>2. ASSUME NEW n \in Networks, NEW s \in Subnets, NEW p \in OldPorts, NEW r \in Routers,
             NEW g \in IPs, NEW ip \in IPs, UpgradedDb(n, s, p, r, g, ip)
      PROVE  GatewayRouteNeedsGateway
  BY <1>2, IdAssumption DEF UpgradedDb, GatewayRouteNeedsGateway
<1> QED
  BY <1>1, <1>2 DEF Init

-----------------------------------------------------------------------------
(* The inductive invariant and what follows from it *)

IInv ==
  /\ TypeOK
  /\ NetworksWellFormed
  /\ Paired
  /\ Addresses
  /\ GatewayRouteNeedsGateway

LEMMA InitIInv == Init => IInv
BY InitTypeOK, InitWellFormed, InitPaired, InitAddresses, InitGatewayRoute DEF IInv

LEMMA StepIInv == IInv /\ [Next]_vars => IInv'
BY StepTypeOK, StepWellFormed, StepPaired, StepAddresses, StepGatewayRoute DEF IInv

LEMMA Inductive == Spec => []IInv
BY InitIInv, StepIInv, PTL DEF Spec

\* A network never gets a second subnet, and nothing outlives its network.
THEOREM WellFormedNetworks == Spec => []NetworksWellFormed
<1>1. IInv => NetworksWellFormed
  BY DEF IInv
<1> QED
  BY <1>1, Inductive, PTL

\* Switch ports of type router and router ports stay paired by their names.
THEOREM PairedPorts == Spec => []RouterPortsPaired
<1>1. IInv => RouterPortsPaired
  BY DEF IInv, Paired
<1> QED
  BY <1>1, Inductive, PTL

\* ovirt_gateway_port never names a port of another router.
THEOREM ConsistentGateways == Spec => []GatewayPortsConsistent
<1>1. IInv => GatewayPortsConsistent
  BY DEF IInv, Paired
<1> QED
  BY <1>1, Inductive, PTL

\* External gateway addresses stay reserved as long as the gateway port exists.
THEOREM ReservedGateways == Spec => []GatewayAddressReserved
<1>1. IInv => GatewayAddressReserved
  BY AddressesSuffice DEF IInv
<1> QED
  BY <1>1, Inductive, PTL

\* No two ports of a network share a fixed, dynamic or gateway address.
THEOREM UniqueAddresses == Spec => []NoAddressClash
<1>1. IInv => NoAddressClash
  BY AddressesSuffice DEF IInv
<1> QED
  BY <1>1, Inductive, PTL

\* A gateway's default route never outlives the gateway.
THEOREM RoutesWithGateways == Spec => []GatewayRouteNeedsGateway
<1>1. IInv => GatewayRouteNeedsGateway
  BY DEF IInv
<1> QED
  BY <1>1, Inductive, PTL

-----------------------------------------------------------------------------
(* Action properties *)

LEMMA RemovalTakesRouterPort ==
  ASSUME NEW gone \in SUBSET Ports, NEW r, gone \subseteq Interfaces(r),
         lsp' = PortsWithout(gone), lrp' = RouterPortsWithout(gone),
         NEW p \in Ports, lsp[p] # None, lsp'[p] = None
  PROVE  lrp[p] # None /\ lrp'[p] = None
BY DEF PortsWithout, RouterPortsWithout, Interfaces

\* No request removes a port that belongs to a VM but the one that asks for it.
THEOREM ProperPortRemoval == Spec => PortsLeaveProperly
<1>1. ASSUME IInv, [Next]_vars, NEW p \in Ports, lsp[p] # None, lsp'[p] = None
      PROVE  ~lsp[p].routerOwned \/ (lrp[p] # None /\ lrp'[p] = None)
  <2> DEFINE Goal == ~lsp[p].routerOwned \/ (lrp[p] # None /\ lrp'[p] = None)
  <2>t. TypeOK
    BY <1>1 DEF IInv
  <2>1. ASSUME NEW q \in Ports, NEW row \in PortRows, lsp' = [lsp EXCEPT ![q] = row] PROVE Goal
    BY <1>1, <2>1, <2>t, IdAssumption DEF TypeOK
  <2>2. ASSUME NEW q \in Ports, NEW n \in Networks, NEW a \in IPs \cup {None},
               NEW owned \in BOOLEAN, AddPort(q, n, a, owned)
        PROVE  Goal
    <3>1. [net |-> n,
           kind |-> IF AddressAccepted(n, a) THEN AddressKind(n, a) ELSE "unset",
           ip |-> IF AddressAccepted(n, a) THEN a ELSE None,
           routerOwned |-> owned] \in PortRows
      BY DEF PortRows, AddressKind, Kinds
    <3> QED
      BY <2>1, <2>2, <3>1 DEF AddPort
  <2>3. ASSUME NEW q \in Ports, NEW a \in IPs \cup {None}, NEW owned \in BOOLEAN,
               UpdatePort(q, a, owned)
        PROVE  Goal
    <3>1. lsp[q] \in PortRows
      BY <2>3, <2>t DEF TypeOK, UpdatePort, LivePorts
    <3>2. Readdressed(q, a) \in PortRows
      BY <3>1 DEF Readdressed, PortRows, Kinds, AddressKind
    <3>3. /\ [Readdressed(q, a) EXCEPT !.routerOwned = owned] \in PortRows
          /\ [lsp[q] EXCEPT !.routerOwned = owned] \in PortRows
      BY <3>1, <3>2 DEF PortRows
    <3> QED
      BY <2>1, <2>3, <3>3 DEF UpdatePort
  <2>4. ASSUME NEW q \in Ports, NEW owned \in BOOLEAN, UpdateRouterPort(q, owned) PROVE Goal
    <3>1. lsp[q] \in PortRows
      BY <2>4, <2>t DEF TypeOK, UpdateRouterPort, LivePorts
    <3>2. [lsp[q] EXCEPT !.routerOwned = owned] \in PortRows
      BY <3>1 DEF PortRows
    <3> QED
      BY <2>1, <2>4, <3>2 DEF UpdateRouterPort
  <2>5. ASSUME NEW q \in Ports, DeletePort(q) PROVE Goal
    BY <1>1, <2>5 DEF DeletePort, PortsWithout
  <2>6. ASSUME NEW q \in Ports, NEW ip \in IPs, AssignAddress(q, ip) PROVE Goal
    <3>1. lsp[q] \in PortRows
      BY <2>6, <2>t DEF TypeOK, AssignAddress, LivePorts
    <3>2. [lsp[q] EXCEPT !.ip = ip] \in PortRows
      BY <3>1 DEF PortRows
    <3> QED
      BY <2>1, <2>6, <3>2 DEF AssignAddress
  <2>7. ASSUME NEW q \in Ports, NEW n \in Networks, lsp' = [lsp EXCEPT ![q] = RouterPort(n)]
        PROVE  Goal
    BY <2>1, <2>7, RouterPortType
  <2>8. ASSUME NEW r \in Routers, NEW q \in Ports, NEW n \in Networks, NEW s \in Subnets,
               NEW ip \in IPs,
               \/ AddRouterWithGateway(r, q, n, s, ip)
               \/ \E cleared \in BOOLEAN : UpdateRouterAddGateway(r, q, n, s, ip, cleared)
        PROVE  Goal
    BY <2>7, <2>8 DEF AddRouterWithGateway, UpdateRouterAddGateway, AddGatewayPort
  <2>9. ASSUME NEW r \in Routers, NEW q \in Ports, NEW n \in Networks, NEW s \in Subnets,
               NEW ip \in IPs, UpdateRouterReplaceGateway(r, q, n, s, ip)
        PROVE  Goal
    <3>1. /\ gwPort[r] \in Interfaces(r) /\ FreshPort(q)
          /\ lsp' = [PortsWithout({gwPort[r]}) EXCEPT ![q] = RouterPort(n)]
          /\ lrp' = [RouterPortsWithout({gwPort[r]}) EXCEPT ![q] = [router |-> r, ip |-> ip]]
      BY <2>9 DEF UpdateRouterReplaceGateway, Removable
    <3>2. p # q
      BY <1>1, <3>1 DEF FreshPort
    <3>3. p = gwPort[r]
      BY <1>1, <3>1, <3>2 DEF PortsWithout
    <3> QED
      BY <3>1, <3>2, <3>3 DEF RouterPortsWithout, Interfaces
  <2>10. ASSUME NEW r, NEW q, RemovePort(r, q) PROVE Goal
    BY <1>1, <2>10, <2>t, RemovableRows, RemovalTakesRouterPort DEF RemovePort, Removable
  <2>11. ASSUME NEW r \in Routers, DeleteRouter(r) PROVE Goal
    BY <1>1, <2>10, <2>11 DEF DeleteRouter, portVars
  <2>12. ASSUME NEW r \in Routers, NEW s \in Subnets, NEW q \in Ports,
                AddInterfaceBySubnet(r, s, q)
         PROVE  Goal
    <3>1. dhcp[s].net \in Networks
      BY <2>12, <2>t DEF TypeOK, AddInterfaceBySubnet, LiveSubnets, SubnetRows
    <3> QED
      BY <2>7, <2>12, <3>1 DEF AddInterfaceBySubnet
  <2>13. ASSUME NEW r \in Routers, NEW q \in Ports, AddInterfaceByPort(r, q) PROVE Goal
    <3>1. lsp[q].net \in Networks
      BY <2>13, <2>t DEF TypeOK, AddInterfaceByPort, LivePorts, PortRows
    <3> QED
      BY <2>7, <2>13, <3>1 DEF AddInterfaceByPort
  <2>14. ASSUME NEW r \in Routers, NEW q \in Ports, DeleteInterfaceByPort(r, q) PROVE Goal
    BY <2>10, <2>14 DEF DeleteInterfaceByPort
  <2>15. ASSUME NEW r \in Routers, NEW s \in Subnets, NEW q \in Ports,
                DeleteInterfaceBySubnetAndPort(r, s, q)
         PROVE  Goal
    BY <2>14, <2>15 DEF DeleteInterfaceBySubnetAndPort
  <2>16. ASSUME NEW r \in Routers, NEW s \in Subnets, NEW gone \in SUBSET Ports,
                DeleteInterfaceBySubnet(r, s, gone)
         PROVE  Goal
    BY <1>1, <2>16, RemovalTakesRouterPort DEF DeleteInterfaceBySubnet
  <2>17. ASSUME lsp' = lsp PROVE Goal
    BY <1>1, <2>17
  <2> HIDE DEF Goal
  <2>18. Goal
    BY <1>1, <2>2, <2>3, <2>4, <2>5, <2>6, <2>8, <2>9, <2>11, <2>12, <2>13, <2>14, <2>15,
       <2>16, <2>17
    DEF Next, vars, portVars, AddNetwork, DeleteNetwork, AddSubnet, UpdateSubnet,
        DeleteSubnet, AddRouter, UpdateRouterRoutes
  <2> QED
    BY <2>18 DEF Goal
<1>2. IInv /\ [Next]_vars =>
        [\A p \in Ports :
           (lsp[p] # None /\ lsp'[p] = None) =>
              \/ ~lsp[p].routerOwned
              \/ (lrp[p] # None /\ lrp'[p] = None)]_vars
  BY <1>1
<1> QED
  BY <1>2, Inductive, PTL DEF Spec, PortsLeaveProperly

\* A router leaves no port, gateway key or default route behind.
THEOREM EmptyRouterRemoval == Spec => RoutersLeaveEmpty
<1>1. ASSUME IInv, IInv', [Next]_vars, NEW r \in routers \ routers'
      PROVE  /\ \A p \in Ports : lrp'[p] # None => lrp'[p].router # r
             /\ gwPort'[r] = None
             /\ defRoute'[r] = "none"
  <2>1. r \in Routers
    BY <1>1 DEF IInv, TypeOK
  <2>2. \A p \in Ports : lrp'[p] # None => lrp'[p].router # r
    BY <1>1 DEF IInv, Paired, RouterPortsPaired
  <2>3. gwPort'[r] = None
    BY <1>1, <2>1 DEF IInv, Paired, GatewayPortsConsistent
  <2>4. DeleteRouter(r)
    <3>1. ASSUME NEW t \in Routers, DeleteRouter(t) PROVE t = r
      BY <1>1, <3>1 DEF DeleteRouter
    <3>2. ASSUME NEW t \in Routers, NEW p \in Ports, DeleteInterfaceByPort(t, p) PROVE FALSE
      BY <1>1, <3>2 DEF DeleteInterfaceByPort
    <3>3. ASSUME NEW t \in Routers, NEW p \in Ports, NEW n \in Networks, NEW s \in Subnets,
                 NEW ip \in IPs,
                 \/ AddRouterWithGateway(t, p, n, s, ip)
                 \/ \E cleared \in BOOLEAN : UpdateRouterAddGateway(t, p, n, s, ip, cleared)
                 \/ UpdateRouterReplaceGateway(t, p, n, s, ip)
          PROVE  FALSE
      BY <1>1, <3>3
      DEF AddRouterWithGateway, UpdateRouterAddGateway, UpdateRouterReplaceGateway
    <3>4. ASSUME NEW t \in Routers, NEW s \in Subnets, NEW p \in Ports,
                 DeleteInterfaceBySubnetAndPort(t, s, p)
          PROVE  FALSE
      BY <3>2, <3>4 DEF DeleteInterfaceBySubnetAndPort
    <3>5. ASSUME NEW t \in Routers, NEW s \in Subnets, NEW gone \in SUBSET Ports,
                 DeleteInterfaceBySubnet(t, s, gone)
          PROVE  FALSE
      BY <1>1, <3>5 DEF DeleteInterfaceBySubnet, routerVars
    <3>6. routers' # routers /\ ~(routers \subseteq routers')
      BY <1>1
    <3> QED
      BY <1>1, <3>1, <3>2, <3>3, <3>4, <3>5, <3>6
      DEF Next, vars, routerVars, AddNetwork, DeleteNetwork, AddSubnet, UpdateSubnet,
          DeleteSubnet, AddPort, UpdatePort, UpdateRouterPort, DeletePort, AssignAddress,
          AddRouter, UpdateRouterRoutes, AddInterfaceBySubnet, AddInterfaceByPort
  <2>5. defRoute'[r] = "none"
    BY <1>1, <2>1, <2>4 DEF DeleteRouter, IInv, TypeOK
  <2> QED
    BY <2>2, <2>3, <2>5
<1>2. IInv /\ IInv' /\ [Next]_vars =>
        [\A r \in routers \ routers' :
           /\ \A p \in Ports : lrp'[p] # None => lrp'[p].router # r
           /\ gwPort'[r] = None
           /\ defRoute'[r] = "none"]_vars
  BY <1>1
<1> QED
  BY <1>2, Inductive, PTL DEF Spec, RoutersLeaveEmpty

\* Reserved addresses are given back with the gateway they were reserved for.
THEOREM LastingReservations == Spec => ReservationsOutlastRequests
<1>1. ASSUME IInv, [Next]_vars, NEW n \in networks, NEW ip \in exclude[n] \ exclude'[n]
      PROVE  \/ n \notin networks'
             \/ \E r \in routers :
                  /\ gwPort[r] \in PortsOf(n)
                  /\ lrp[gwPort[r]].ip = ip
                  /\ gwPort'[r] # gwPort[r]
  <2> DEFINE Given(r) == /\ gwPort[r] \in PortsOf(n)
                         /\ lrp[gwPort[r]].ip = ip
                         /\ gwPort'[r] # gwPort[r]
  <2>t. TypeOK /\ n \in Networks
    BY <1>1 DEF IInv, TypeOK
  <2>1. ASSUME NEW m \in Networks, DeleteNetwork(m) PROVE n \notin networks'
    BY <1>1, <2>1, <2>t DEF DeleteNetwork, TypeOK
  <2>2. ASSUME NEW r, NEW p, Removable(r, p), ip \notin ExcludeWithout(r, p)[n],
               gwPort'[r] # p
        PROVE  r \in routers /\ Given(r)
    <3>1. gwPort[r] = p /\ ip \notin ReleaseIp(lsp[p].net, lrp[p].ip)[n]
      BY <1>1, <2>2 DEF ExcludeWithout
    <3>2. lsp[p].net = n /\ ip = lrp[p].ip
      BY <1>1, <2>t, <3>1 DEF ReleaseIp, TypeOK
    <3>3. r \in routers /\ p \in PortsOf(n)
      BY <2>2, <3>2 DEF Removable, PortsOf
    <3> QED
      BY <2>2, <3>1, <3>2, <3>3
  <2>3. ASSUME NEW r \in Routers, NEW p \in Ports, NEW m \in Networks, NEW s \in Subnets,
               NEW a \in IPs,
               \/ AddRouterWithGateway(r, p, m, s, a)
               \/ \E cleared \in BOOLEAN : UpdateRouterAddGateway(r, p, m, s, a, cleared)
        PROVE  FALSE
    BY <1>1, <2>3, <2>t
    DEF AddRouterWithGateway, UpdateRouterAddGateway, AddGatewayPort, ReserveIp, TypeOK
  <2>4. ASSUME NEW r \in Routers, NEW p \in Ports, NEW m \in Networks, NEW s \in Subnets,
               NEW a \in IPs, UpdateRouterReplaceGateway(r, p, m, s, a)
        PROVE  r \in routers /\ Given(r)
    <3>1. /\ Removable(r, gwPort[r]) /\ FreshPort(p)
          /\ exclude' = [ExcludeWithout(r, gwPort[r]) EXCEPT ![m] = @ \cup {a}]
          /\ gwPort' = [gwPort EXCEPT ![r] = p]
      BY <2>4 DEF UpdateRouterReplaceGateway
    <3>2. ip \notin ExcludeWithout(r, gwPort[r])[n]
      BY <1>1, <2>t, <3>1, RemovalTypes
    <3>3. gwPort'[r] # gwPort[r]
      BY <2>t, <3>1 DEF FreshPort, TypeOK
    <3> QED
      BY <2>2, <3>1, <3>2, <3>3
  <2>5. ASSUME NEW r \in Routers, DeleteRouter(r) PROVE r \in routers /\ Given(r)
    <3>1. gwPort[r] # None /\ RemovePort(r, gwPort[r])
      BY <1>1, <2>5 DEF DeleteRouter
    <3>2. gwPort'[r] = None
      BY <2>5, <2>t DEF DeleteRouter, TypeOK
    <3> QED
      BY <1>1, <2>2, <3>1, <3>2 DEF RemovePort
  <2>6. ASSUME NEW r \in Routers, NEW p \in Ports, DeleteInterfaceByPort(r, p)
        PROVE  r \in routers /\ Given(r)
    <3>1. gwPort'[r] # p
      BY <2>6, <2>t, IdAssumption DEF DeleteInterfaceByPort, TypeOK
    <3> QED
      BY <1>1, <2>2, <2>6, <3>1 DEF DeleteInterfaceByPort, RemovePort
  <2>7. exclude' # exclude
    BY <1>1
  <2> HIDE DEF Given
  <2>8. n \notin networks' \/ \E r \in routers : Given(r)
    BY <1>1, <2>1, <2>3, <2>4, <2>5, <2>6, <2>7
    DEF Next, vars, routerVars, AddNetwork, AddSubnet, UpdateSubnet,
        DeleteSubnet, AddPort, UpdatePort, UpdateRouterPort, DeletePort, AssignAddress,
        AddRouter, UpdateRouterRoutes, AddInterfaceBySubnet, AddInterfaceByPort,
        DeleteInterfaceBySubnetAndPort, DeleteInterfaceBySubnet
  <2> QED
    BY <2>8 DEF Given
<1>2. IInv /\ [Next]_vars =>
        [\A n \in networks : \A ip \in exclude[n] \ exclude'[n] :
           \/ n \notin networks'
           \/ \E r \in routers :
                /\ gwPort[r] \in PortsOf(n)
                /\ lrp[gwPort[r]].ip = ip
                /\ gwPort'[r] # gwPort[r]]_vars
  BY <1>1
<1> QED
  BY <1>2, Inductive, PTL DEF Spec, ReservationsOutlastRequests

=============================================================================
