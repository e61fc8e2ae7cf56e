------------------------------ MODULE Topology ------------------------------
(***************************************************************************)
(* The networks, subnets, ports and routers that the provider keeps in the *)
(* OVN northbound database, and what every Neutron request does to them.   *)
(*                                                                         *)
(* One HTTP server thread answers the Neutron requests one after the       *)
(* other, so here a request is one step: the whole handler of              *)
(* src/provider/neutron/neutron_api.py, with the writes it has already     *)
(* committed when it answers with an error.  A request refused before its  *)
(* first write changes nothing and is a stuttering step.  AssignAddress is *)
(* the one step taken by another program, ovn-northd.                      *)
(*                                                                         *)
(* A port is named by its REST id, the name of its Logical_Switch_Port     *)
(* row.  The Logical_Router_Port it is plugged into is named after it      *)
(* (_create_router_port_name), hence one identifier stands for both rows.  *)
(***************************************************************************)
EXTENDS FiniteSets

CONSTANTS
  Networks,  \* ids of Logical_Switch rows
  Subnets,   \* ids of DHCP_Options rows
  Ports,     \* names of Logical_Switch_Port rows
  OldPorts,  \* those named by a release that used the row's UUID as its name
  Routers,   \* ids of Logical_Router rows
  IPs,       \* addresses of the networks
  None       \* an absent row, an empty column, a missing request field

Kinds == {"unset", "dynamic", "static", "router"}
Routes == {"none", "gateway", "user"}

\* Of what SubnetMapper, PortMapper and RouterMapper (routerVars) write to a row
\* and read from it, the columns that other rows depend on.
SubnetRows ==
  [net : Networks, gateway : IPs \cup {None}, router : Routers \cup {None}]
PortRows ==
  [net : Networks, kind : Kinds, ip : IPs \cup {None}, routerOwned : BOOLEAN]
RouterPortRows == [router : Routers, ip : IPs]

ASSUME IdAssumption ==
  /\ OldPorts \subseteq Ports
  /\ None \notin Networks \cup Subnets \cup Ports \cup Routers \cup IPs
  /\ None \notin SubnetRows \cup PortRows \cup RouterPortRows

VARIABLES
  networks,  \* the networks that exist
  exclude,   \* other_config:exclude_ips of a network, as a set
  dhcp,      \* the row of a subnet; .router is external_ids:gateway_router
  lsp,       \* the row of a port; .ip is its fixed or dynamic address
  lrp,       \* the router port named after a port
  routers,   \* the routers that exist
  gwPort,    \* external_ids:ovirt_gateway_port of a router
  defRoute   \* who put the default route of a router

portVars == <<lsp, lrp>>
routerVars == <<routers, gwPort, defRoute>>
vars == <<networks, exclude, dhcp, lsp, lrp, routers, gwPort, defRoute>>

-----------------------------------------------------------------------------
(* Rows *)

LivePorts == {p \in Ports : lsp[p] # None}
LiveSubnets == {s \in Subnets : dhcp[s] # None}

PortsOf(n) == {p \in LivePorts : lsp[p].net = n}
SubnetsOf(n) == {s \in LiveSubnets : dhcp[s].net = n}
HasSubnet(n) == SubnetsOf(n) # {}
Interfaces(r) == {p \in Ports : lrp[p] # None /\ lrp[p].router = r}

\* Row ids and generated port names are never used twice: an identifier is
\* free again once no row mentions it.
FreshNetwork(n) == n \notin networks /\ ~HasSubnet(n)
FreshPort(p) ==
  /\ p \notin OldPorts
  /\ lsp[p] = None
  /\ lrp[p] = None
  /\ \A r \in Routers : gwPort[r] # p
FreshRouter(r) ==
  /\ r \notin routers
  /\ \A s \in LiveSubnets : dhcp[s].router # r

\* Fault: the reserved addresses are not looked at.
IpAvailable_PortsOnly(n, ip) == \A p \in PortsOf(n) : lsp[p].ip # ip

\* A port plugged into a router has addresses = ["router"], and get_port_ip
\* without the router port finds no address in it: to this check only static
\* and dynamic addresses, and the reserved ones, are in use.
IpAvailable(n, ip) ==
  /\ \A p \in PortsOf(n) : lsp[p].ip # ip
  /\ ip \notin exclude[n]

\* What _is_subnet_on_router sees of one port of a router: the lookup fails
\* when the switch port is gone, str(None.uuid) when its network has no subnet.
Resolvable(p) == p \in LivePorts /\ HasSubnet(lsp[p].net)
Broken(r) == \E p \in Interfaces(r) : ~Resolvable(p)
OnSubnet(r, s) ==
  \E p \in Interfaces(r) : Resolvable(p) /\ lsp[p].net = dhcp[s].net

-----------------------------------------------------------------------------
(* What the handlers share *)

\* get_update_port_addr_command of a port that is not a router port: a is the
\* address asked for in fixed_ips, None if there is none.
AddressAccepted(n, a) == a = None \/ (HasSubnet(n) /\ IpAvailable(n, a))

AddressKind(n, a) ==
  IF a # None THEN "static" ELSE IF HasSubnet(n) THEN "dynamic" ELSE "unset"

ReserveIp(n, ip) == [exclude EXCEPT ![n] = @ \cup {ip}]
\* Fault: the key is removed although other addresses are left in it.
ReleaseIp_Key(n, ip) == [exclude EXCEPT ![n] = {}]
ReleaseIp(n, ip) == [exclude EXCEPT ![n] = @ \ {ip}]

RouterPort(n) == [net |-> n, kind |-> "router", ip |-> None, routerOwned |-> TRUE]

\* _validate_external_gateway
ValidGateway(n, s, ip) ==
  /\ n \in networks
  /\ s \in SubnetsOf(n)
  /\ dhcp[s].gateway # None
  /\ IpAvailable(n, ip)

\* The guards of _delete_router_interface_by_port up to its first write.
Removable(r, p) ==
  /\ r \in routers
  /\ p \in LivePorts
  /\ lsp[p].kind = "router"
  /\ HasSubnet(lsp[p].net)
  /\ p \in Interfaces(r)

\* Its writes, but for the two columns that depend on what follows it.
SubnetsWithout(p) ==
  [s \in Subnets |->
     IF /\ s \in SubnetsOf(lsp[p].net)
        /\ dhcp[s].gateway = lrp[p].ip
     THEN [dhcp[s] EXCEPT !.router = None]
     ELSE dhcp[s]]

\* Fault: the switch port is forgotten when its router port is removed.
PortsWithout_Kept(gone) == lsp

PortsWithout(gone) == [p \in Ports |-> IF p \in gone THEN None ELSE lsp[p]]
RouterPortsWithout(gone) == [p \in Ports |-> IF p \in gone THEN None ELSE lrp[p]]

\* Fault: the address is released whatever the port was.
ExcludeWithout_AnyPort(r, p) == ReleaseIp(lsp[p].net, lrp[p].ip)

ExcludeWithout(r, p) ==
  IF gwPort[r] = p THEN ReleaseIp(lsp[p].net, lrp[p].ip) ELSE exclude

-----------------------------------------------------------------------------
(* Initial states *)

EmptyDb ==
  /\ networks = {}
  /\ exclude = [n \in Networks |-> {}]
  /\ dhcp = [s \in Subnets |-> None]
  /\ lsp = [p \in Ports |-> None]
  /\ lrp = [p \in Ports |-> None]
  /\ routers = {}
  /\ gwPort = [r \in Routers |-> None]
  /\ defRoute = [r \in Routers |-> "none"]

\* A router whose external gateway was added by a release that named a port
\* after the UUID of its row.
UpgradedDb(n, s, p, r, g, ip) ==
  /\ networks = {n}
  /\ exclude = [m \in Networks |-> IF m = n THEN {ip} ELSE {}]
  /\ dhcp = [t \in Subnets |->
       IF t = s THEN [net |-> n, gateway |-> g, router |-> None] ELSE None]
  /\ lsp = [q \in Ports |-> IF q = p THEN RouterPort(n) ELSE None]
  /\ lrp = [q \in Ports |-> IF q = p THEN [router |-> r, ip |-> ip] ELSE None]
  /\ routers = {r}
  /\ gwPort = [t \in Routers |-> IF t = r THEN p ELSE None]
  /\ defRoute = [t \in Routers |-> IF t = r THEN "gateway" ELSE "none"]

Init ==
  \/ EmptyDb
  \/ \E n \in Networks, s \in Subnets, p \in OldPorts, r \in Routers, g, ip \in IPs :
       UpgradedDb(n, s, p, r, g, ip)

-----------------------------------------------------------------------------
(* Networks and subnets *)

AddNetwork(n) ==
  /\ FreshNetwork(n)
  /\ networks' = networks \cup {n}
  /\ UNCHANGED <<exclude, dhcp, portVars, routerVars>>

DeleteNetwork(n) ==
  /\ n \in networks
  /\ PortsOf(n) = {}
  /\ networks' = networks \ {n}
  /\ exclude' = [exclude EXCEPT ![n] = {}]
  /\ dhcp' = [s \in Subnets |-> IF s \in SubnetsOf(n) THEN None ELSE dhcp[s]]
  /\ UNCHANGED <<portVars, routerVars>>

\* Fault: no look for a subnet that the network has.
AddSubnet_Second(s, n, g) ==
  /\ dhcp[s] = None
  /\ n \in networks
  /\ dhcp' = [dhcp EXCEPT ![s] = [net |-> n, gateway |-> g, router |-> None]]
  /\ UNCHANGED <<networks, exclude, portVars, routerVars>>

AddSubnet(s, n, g) ==
  /\ dhcp[s] = None
  /\ n \in networks
  /\ ~HasSubnet(n)
  /\ dhcp' = [dhcp EXCEPT ![s] = [net |-> n, gateway |-> g, router |-> None]]
  /\ UNCHANGED <<networks, exclude, portVars, routerVars>>

\* A request without a gateway leaves the column alone, so it is never cleared.
UpdateSubnet(s, g) ==
  /\ s \in LiveSubnets
  /\ dhcp' = [dhcp EXCEPT ![s].gateway = g]
  /\ UNCHANGED <<networks, exclude, portVars, routerVars>>

\* The loop over network.ports passes rows where a port id is expected and
\* no MAC address, so it writes nothing.
DeleteSubnet(s) ==
  /\ s \in LiveSubnets
  /\ dhcp[s].router = None
  /\ dhcp' = [dhcp EXCEPT ![s] = None]
  /\ UNCHANGED <<networks, exclude, portVars, routerVars>>

-----------------------------------------------------------------------------
(* Ports *)

\* An address that is refused is refused after the row and its owner were
\* queued, and the transaction is committed all the same.
AddPort(p, n, a, owned) ==
  /\ FreshPort(p)
  /\ n \in networks
  /\ LET ok == AddressAccepted(n, a) IN
     lsp' = [lsp EXCEPT ![p] =
       [net |-> n,
        kind |-> IF ok THEN AddressKind(n, a) ELSE "unset",
        ip |-> IF ok THEN a ELSE None,
        routerOwned |-> owned]]
  /\ UNCHANGED <<networks, exclude, dhcp, lrp, routerVars>>

\* A port keeps its dynamic address across an update that leaves it dynamic.
Readdressed(p, a) ==
  LET n == lsp[p].net
      kind == AddressKind(n, a)
  IN [lsp[p] EXCEPT
        !.kind = kind,
        !.ip = IF kind = "dynamic" /\ lsp[p].kind = "dynamic" THEN @ ELSE a]

\* Fault: the type of the port is not passed on, router ports are readdressed.
UpdatePort_AnyType(p, a, owned) ==
  /\ p \in LivePorts
  /\ AddressAccepted(lsp[p].net, a)
  /\ lsp' = [lsp EXCEPT ![p] = [Readdressed(p, a) EXCEPT !.routerOwned = owned]]
  /\ UNCHANGED <<networks, exclude, dhcp, lrp, routerVars>>

UpdatePort(p, a, owned) ==
  /\ p \in LivePorts
  /\ lsp[p].kind # "router"
  /\ LET row == IF AddressAccepted(lsp[p].net, a) THEN Readdressed(p, a) ELSE lsp[p]
     IN lsp' = [lsp EXCEPT ![p] = [row EXCEPT !.routerOwned = owned]]
  /\ UNCHANGED <<networks, exclude, dhcp, lrp, routerVars>>

\* The handler fails on every port of type router (get_dhcp finds no subnet for
\* the port's name, or None.build_command()), after device_owner was queued.
UpdateRouterPort(p, owned) ==
  /\ p \in LivePorts
  /\ lsp[p].kind = "router"
  /\ lsp' = [lsp EXCEPT ![p].routerOwned = owned]
  /\ UNCHANGED <<networks, exclude, dhcp, lrp, routerVars>>

\* Fault: no look at the owner.
DeletePort_AnyOwner(p) ==
  /\ p \in LivePorts
  /\ lsp' = PortsWithout({p})
  /\ UNCHANGED <<networks, exclude, dhcp, lrp, routerVars>>

DeletePort(p) ==
  /\ p \in LivePorts
  /\ ~lsp[p].routerOwned
  /\ lsp' = PortsWithout({p})
  /\ UNCHANGED <<networks, exclude, dhcp, lrp, routerVars>>

\* ovn-northd fills in dynamic_addresses; it also avoids the addresses of the router
\* ports that are peers of the network's ports.
AssignAddress(p, ip) ==
  /\ p \in LivePorts
  /\ lsp[p].kind = "dynamic"
  /\ lsp[p].ip = None
  /\ IpAvailable(lsp[p].net, ip)
  /\ \A q \in PortsOf(lsp[p].net) :
       lsp[q].kind = "router" /\ lrp[q] # None => lrp[q].ip # ip
  /\ lsp' = [lsp EXCEPT ![p].ip = ip]
  /\ UNCHANGED <<networks, exclude, dhcp, lrp, routerVars>>

-----------------------------------------------------------------------------
(* Routers *)

AddRouter(r, route) ==
  /\ FreshRouter(r)
  /\ routers' = routers \cup {r}
  /\ defRoute' = [defRoute EXCEPT ![r] = route]
  /\ UNCHANGED <<networks, exclude, dhcp, portVars, gwPort>>

\* _reserve_network_ip and _add_external_gateway_interface.
AddGatewayPort(r, p, n, ip) ==
  /\ lsp' = [lsp EXCEPT ![p] = RouterPort(n)]
  /\ lrp' = [lrp EXCEPT ![p] = [router |-> r, ip |-> ip]]
  /\ gwPort' = [gwPort EXCEPT ![r] = p]
  /\ exclude' = ReserveIp(n, ip)

AddRouterWithGateway(r, p, n, s, ip) ==
  /\ FreshRouter(r)
  /\ FreshPort(p)
  /\ ValidGateway(n, s, ip)
  /\ AddGatewayPort(r, p, n, ip)
  /\ routers' = routers \cup {r}
  /\ defRoute' = [defRoute EXCEPT ![r] = "gateway"]
  /\ UNCHANGED <<networks, dhcp>>

\* A request that leaves the gateway alone, or that names a gateway for a router
\* that has one: then the handler fails comparing the two (the UUID made of a
\* generated name is no row's) after it has updated the routes.
UpdateRouterRoutes(r, route) ==
  /\ r \in routers
  /\ defRoute' = [defRoute EXCEPT ![r] = route]
  /\ UNCHANGED <<networks, exclude, dhcp, portVars, routers, gwPort>>

\* The route is added last, and refused when there is a default route already.
UpdateRouterAddGateway(r, p, n, s, ip, cleared) ==
  /\ r \in routers
  /\ gwPort[r] = None
  /\ FreshPort(p)
  /\ ValidGateway(n, s, ip)
  /\ AddGatewayPort(r, p, n, ip)
  /\ defRoute' = [defRoute EXCEPT ![r] =
       IF cleared \/ @ = "none" THEN "gateway" ELSE @]
  /\ UNCHANGED <<networks, dhcp, routers>>

\* The gateway port of an old release is found by the UUID in its name, and
\* _delete_router_interface_by_port goes before the new gateway is added.
UpdateRouterReplaceGateway(r, p, n, s, ip) ==
  /\ r \in routers
  /\ gwPort[r] \in OldPorts
  /\ FreshPort(p)
  /\ ValidGateway(n, s, ip)
  /\ Removable(r, gwPort[r])
  /\ LET old == gwPort[r] IN
     /\ lsp' = [PortsWithout({old}) EXCEPT ![p] = RouterPort(n)]
     /\ lrp' = [RouterPortsWithout({old}) EXCEPT ![p] = [router |-> r, ip |-> ip]]
     /\ dhcp' = SubnetsWithout(old)
     /\ exclude' = [ExcludeWithout(r, old) EXCEPT ![n] = @ \cup {ip}]
  /\ gwPort' = [gwPort EXCEPT ![r] = p]
  /\ defRoute' = [defRoute EXCEPT ![r] = "gateway"]
  /\ UNCHANGED <<networks, routers>>

\* _delete_router_interface_by_port, of an interface or of the external gateway.
RemovePort(r, p) ==
  /\ Removable(r, p)
  /\ lsp' = PortsWithout({p})
  /\ lrp' = RouterPortsWithout({p})
  /\ dhcp' = SubnetsWithout(p)
  /\ exclude' = ExcludeWithout(r, p)

\* Fault: the router is deleted with the ports it still has.
DeleteRouter_WithPorts(r) ==
  /\ r \in routers
  /\ IF gwPort[r] = None THEN UNCHANGED <<exclude, dhcp, portVars>>
                         ELSE RemovePort(r, gwPort[r])
  /\ gwPort' = [gwPort EXCEPT ![r] = None]
  /\ defRoute' = [defRoute EXCEPT ![r] = "none"]
  /\ routers' = routers \ {r}
  /\ UNCHANGED networks

\* The external gateway goes first; the request is refused afterwards when the
\* router has other ports.
DeleteRouter(r) ==
  /\ r \in routers
  /\ \/ /\ gwPort[r] = None
        /\ Interfaces(r) = {}
        /\ UNCHANGED <<exclude, dhcp, portVars>>
     \/ /\ gwPort[r] # None
        /\ RemovePort(r, gwPort[r])
  /\ gwPort' = [gwPort EXCEPT ![r] = None]
  /\ defRoute' = [defRoute EXCEPT ![r] = "none"]
  /\ routers' = IF Interfaces(r) \subseteq {gwPort[r]} THEN routers \ {r} ELSE routers
  /\ UNCHANGED networks

-----------------------------------------------------------------------------
(* Router interfaces *)

\* _validate_create_routing_lsp_by_subnet with a router id.
AddInterfaceBySubnet(r, s, p) ==
  /\ r \in routers
  /\ s \in LiveSubnets
  /\ FreshPort(p)
  /\ dhcp[s].router = None
  /\ dhcp[s].gateway # None
  /\ ~Broken(r)
  /\ ~OnSubnet(r, s)
  /\ lsp' = [lsp EXCEPT ![p] = RouterPort(dhcp[s].net)]
  /\ lrp' = [lrp EXCEPT ![p] = [router |-> r, ip |-> dhcp[s].gateway]]
  /\ dhcp' = [dhcp EXCEPT ![s].router = r]
  /\ UNCHANGED <<networks, exclude, routerVars>>

\* Fault: no look for the address (port_ip_for_router).
AddInterfaceByPort_NoAddress(r, p) ==
  /\ r \in routers
  /\ p \in LivePorts
  /\ lsp[p].kind # "router"
  /\ HasSubnet(lsp[p].net)
  /\ ~Broken(r)
  /\ lsp' = [lsp EXCEPT ![p] = RouterPort(@.net)]
  /\ lrp' = [lrp EXCEPT ![p] = [router |-> r, ip |-> lsp[p].ip]]
  /\ UNCHANGED <<networks, exclude, dhcp, routerVars>>

\* The check that the router has no port on the subnet compares an UUID with a
\* string and never refuses; it still fails on a broken router.
AddInterfaceByPort(r, p) ==
  /\ r \in routers
  /\ p \in LivePorts
  /\ lsp[p].kind # "router"
  /\ HasSubnet(lsp[p].net)
  /\ lsp[p].ip # None
  /\ ~Broken(r)
  /\ lsp' = [lsp EXCEPT ![p] = RouterPort(@.net)]
  /\ lrp' = [lrp EXCEPT ![p] = [router |-> r, ip |-> lsp[p].ip]]
  /\ UNCHANGED <<networks, exclude, dhcp, routerVars>>

\* Fault: the default route of the gateway is left behind.
DeleteInterfaceByPort_KeepRoute(r, p) ==
  /\ RemovePort(r, p)
  /\ gwPort' = [gwPort EXCEPT ![r] = IF @ = p THEN None ELSE @]
  /\ UNCHANGED <<networks, routers, defRoute>>

DeleteInterfaceByPort(r, p) ==
  /\ RemovePort(r, p)
  /\ gwPort' = [gwPort EXCEPT ![r] = IF @ = p THEN None ELSE @]
  /\ defRoute' = [defRoute EXCEPT ![r] = IF gwPort[r] = p THEN "none" ELSE @]
  /\ UNCHANGED <<networks, routers>>

DeleteInterfaceBySubnetAndPort(r, s, p) ==
  /\ s \in LiveSubnets
  /\ p \in PortsOf(dhcp[s].net)
  /\ DeleteInterfaceByPort(r, p)

\* The loop over lr.ports takes them in any order and stops with an error at
\* one whose switch port is gone.  It never recognises the external gateway
\* (an UUID is compared with a string), so its key, route and reserved address
\* stay.  With nothing to remove the request is refused, after the
\* gateway router was cleared.
DeleteInterfaceBySubnet(r, s, gone) ==
  /\ r \in routers
  /\ s \in LiveSubnets
  /\ LET here == {p \in Interfaces(r) \cap LivePorts : lsp[p].net = dhcp[s].net}
         lost == Interfaces(r) \ LivePorts
     IN /\ gone \subseteq here
        /\ lost = {} => gone = here
        /\ dhcp' = IF lost = {} /\ dhcp[s].router = r
                   THEN [dhcp EXCEPT ![s].router = None]
                   ELSE dhcp
  /\ lsp' = PortsWithout(gone)
  /\ lrp' = RouterPortsWithout(gone)
  /\ UNCHANGED <<networks, exclude, routerVars>>

-----------------------------------------------------------------------------
Next ==
  \/ \E n \in Networks : AddNetwork(n) \/ DeleteNetwork(n)
  \/ \E s \in Subnets, n \in Networks, g \in IPs \cup {None} : AddSubnet(s, n, g)
  \/ \E s \in Subnets, g \in IPs : UpdateSubnet(s, g)
  \/ \E s \in Subnets : DeleteSubnet(s)
  \/ \E p \in Ports, n \in Networks, a \in IPs \cup {None}, owned \in BOOLEAN :
       AddPort(p, n, a, owned)
  \/ \E p \in Ports, a \in IPs \cup {None}, owned \in BOOLEAN : UpdatePort(p, a, owned)
  \/ \E p \in Ports, owned \in BOOLEAN : UpdateRouterPort(p, owned)
  \/ \E p \in Ports : DeletePort(p)
  \/ \E p \in Ports, ip \in IPs : AssignAddress(p, ip)
  \/ \E r \in Routers, route \in {"none", "user"} :
       AddRouter(r, route) \/ UpdateRouterRoutes(r, route)
  \/ \E r \in Routers, p \in Ports, n \in Networks, s \in Subnets, ip \in IPs :
       \/ AddRouterWithGateway(r, p, n, s, ip)
       \/ \E cleared \in BOOLEAN : UpdateRouterAddGateway(r, p, n, s, ip, cleared)
       \/ UpdateRouterReplaceGateway(r, p, n, s, ip)
  \/ \E r \in Routers : DeleteRouter(r)
  \/ \E r \in Routers, s \in Subnets, p \in Ports :
       \/ AddInterfaceBySubnet(r, s, p)
       \/ DeleteInterfaceBySubnetAndPort(r, s, p)
  \/ \E r \in Routers, p \in Ports : AddInterfaceByPort(r, p) \/ DeleteInterfaceByPort(r, p)
  \/ \E r \in Routers, s \in Subnets, gone \in SUBSET Ports :
       DeleteInterfaceBySubnet(r, s, gone)

Spec == Init /\ [][Next]_vars

-----------------------------------------------------------------------------
(* What holds *)

\* Every variable has its type: the columns the handlers write hold what the
\* handlers that read them expect.
TypeOK ==
  /\ networks \subseteq Networks
  /\ exclude \in [Networks -> SUBSET IPs]
  /\ dhcp \in [Subnets -> SubnetRows \cup {None}]
  /\ lsp \in [Ports -> PortRows \cup {None}]
  /\ lrp \in [Ports -> RouterPortRows \cup {None}]
  /\ routers \subseteq Routers
  /\ gwPort \in [Routers -> Ports \cup {None}]
  /\ defRoute \in [Routers -> Routes]

\* get_dhcp(ls_id) takes the first subnet of a network: there is never a second
\* one, and no port or subnet refers to a network that is gone.
NetworksWellFormed ==
  /\ \A s \in LiveSubnets : dhcp[s].net \in networks
  /\ \A s, t \in LiveSubnets : dhcp[s].net = dhcp[t].net => s = t
  /\ \A p \in LivePorts : lsp[p].net \in networks

\* The port that ovirt_gateway_port of a router names is a port of that router,
\* or gone: the key is followed without a check by get_router and delete_router.
GatewayPortsConsistent ==
  \A r \in Routers : gwPort[r] # None =>
    /\ r \in routers
    /\ gwPort[r] \in LivePorts =>
         lrp[gwPort[r]] # None /\ lrp[gwPort[r]].router = r

\* A port of type router has its router port, on a router that exists, and no
\* other port has one: the handlers go from one row to the other by name alone.
RouterPortsPaired ==
  /\ \A p \in LivePorts : lsp[p].kind = "router" <=> lrp[p] # None
  /\ \A p \in Ports : lrp[p] # None => lrp[p].router \in routers

\* The address of an external gateway stays in its network's exclude_ips as long
\* as the gateway port exists, whatever becomes of subnets, owners and routes.
GatewayAddressReserved ==
  \A r \in routers :
    gwPort[r] \in LivePorts =>
      lrp[gwPort[r]].ip \in exclude[lsp[gwPort[r]].net]

IsGateway(p) == lrp[p] # None /\ gwPort[lrp[p].router] = p
AddressOf(p) == IF IsGateway(p) THEN lrp[p].ip ELSE lsp[p].ip

\* No two ports of a network have one address, counting fixed and dynamic
\* addresses and external gateways: availability is checked by three handlers,
\* and northd allocates beside them (ip_available_in_network, exclude_ips).
NoAddressClash ==
  \A n \in networks : \A p, q \in PortsOf(n) :
    p # q /\ AddressOf(p) # None => AddressOf(p) # AddressOf(q)

\* The default route that came with an external gateway never outlives it: the
\* route is removed on each path that clears ovirt_gateway_port.
GatewayRouteNeedsGateway ==
  \A r \in Routers : defRoute[r] = "gateway" => gwPort[r] # None

\* A port goes away only through the port API while its owner is no router, or
\* together with its router port: no router request removes a VM's port.
PortsLeaveProperly ==
  [][\A p \in Ports :
       (lsp[p] # None /\ lsp'[p] = None) =>
          \/ ~lsp[p].routerOwned
          \/ (lrp[p] # None /\ lrp'[p] = None)]_vars

\* A reserved address is given back only when the external gateway it was
\* reserved for is taken off its router, or with the whole network.
ReservationsOutlastRequests ==
  [][\A n \in networks : \A ip \in exclude[n] \ exclude'[n] :
       \/ n \notin networks'
       \/ \E r \in routers :
            /\ gwPort[r] \in PortsOf(n)
            /\ lrp[gwPort[r]].ip = ip
            /\ gwPort'[r] # gwPort[r]]_vars

\* A router goes away only when no port is left on it, and takes its default
\* route and external gateway along (router_has_no_ports).
RoutersLeaveEmpty ==
  [][\A r \in routers \ routers' :
       /\ \A p \in Ports : lrp'[p] # None => lrp'[p].router # r
       /\ gwPort'[r] = None
       /\ defRoute'[r] = "none"]_vars

-----------------------------------------------------------------------------
(* What the repository says and the code does not keep *)

\* "The ip ... specified is already in use on network ...": a fixed address is
\* refused when a router interface on the network has it.
NewPortsTakeFreeAddresses ==
  [][\A p \in Ports :
       (lsp[p] = None /\ lsp'[p] # None /\ lsp'[p].ip # None) =>
          \A q \in PortsOf(lsp'[p].net) : lrp[q] # None => lrp[q].ip # lsp'[p].ip]_vars

=============================================================================
