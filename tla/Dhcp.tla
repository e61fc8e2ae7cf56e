-------------------------------- MODULE Dhcp --------------------------------
(***************************************************************************)
(* What the guests of a network are told by OVN: the lease a port is        *)
(* offered, the MTU in it, and the MTU that IPv6 routers advertise.         *)
(*                                                                         *)
(* The MTU of a network is kept in up to three rows (Logical_Switch,       *)
(* DHCP_Options, Logical_Router_Port) and a port names the DHCP_Options row *)
(* that serves it: each request keeps some of them in step.                *)
(*                                                                         *)
(* Topology has the rest of these rows. Here the owner of a router's port  *)
(* is left alone (it goes with its interface only), external gateways are  *)
(* left out (they advertise nothing, though a look-up by address could find*)
(* one), and no address is refused because it is in use. Nothing keeps two *)
(* networks from having the same addresses: a gateway address stands for   *)
(* the address with its prefix.                                            *)
(***************************************************************************)
CONSTANTS
  Networks,
  Subnets,     \* DHCP_Options rows
  Ports,       \* Logical_Switch_Port rows, with the router port of the same name
  Routers,
  IPv4, IPv6,  \* gateway addresses, which any network's subnet may have
  Modes,       \* address modes of the IPv6 subnets
  Mtus,
  Zero,        \* an MTU that Python takes for false
  DefaultMtu,  \* dhcp_mtu(); dhcp_enable_mtu() is True
  None

VARIABLES
  networks,  \* Logical_Switch rows
  netMtu,    \* external_ids:mtu of a switch, None if it is not there
  subnet,    \* DHCP_Options row of an id
  lsp,       \* Logical_Switch_Port row of a name
  lrp,       \* Logical_Router_Port row of the same name
  routers,
  ambiguous  \* history, read by properties only: see Remember

portVars == <<lsp, lrp>>
vars == <<networks, netMtu, subnet, lsp, lrp, routers, ambiguous>>

Addresses == IPv4 \cup IPv6
AddressesOf(version) == IF version = 4 THEN IPv4 ELSE IPv6

SubnetRows ==
  [net : Networks,
   version : {4, 6},
   mode : Modes \cup {"none"},  \* ovirt_ipv6_address_mode
   mtu : Mtus,
   gateway : Addresses \cup {None},
   router : Routers \cup {None}]

\* addr: the column addresses is empty, a MAC address alone, one with the word
\* dynamic or with an address, or one of the words unknown and router.
PortRows ==
  [net : Networks,
   kind : {"vif", "localnet", "router"},
   addr : {"bare", "mac", "dynamic", "fixed", "unknown", "router"},
   dhcp : Subnets \cup {None}]  \* dhcpv4_options or dhcpv6_options

RouterPortRows == [router : Routers, ip : Addresses, mtu : Mtus \cup {None}]

ASSUME DhcpAssumption ==
  /\ DefaultMtu \in Mtus
  /\ Zero # DefaultMtu
  /\ Modes \subseteq {"stateful", "stateless"}
  /\ None \notin Mtus \cup Subnets \cup Ports \cup Routers \cup Addresses
  /\ None \notin SubnetRows \cup PortRows \cup RouterPortRows

LiveSubnets == {s \in Subnets : subnet[s] # None}
LivePorts == {p \in Ports : lsp[p] # None}
SubnetsOf(n) == {s \in LiveSubnets : subnet[s].net = n}
PortsOf(n) == {p \in LivePorts : lsp[p].net = n}
Localnets(n) == {p \in PortsOf(n) : lsp[p].kind = "localnet"}
Interfaces(r) == {p \in Ports : lrp[p] # None /\ lrp[p].router = r}
Fresh(p) == lsp[p] = None /\ lrp[p] = None
IsSet(m) == m \notin {None, Zero}

\* Of the subnets connected to a router: those whose gateway address has changed since
\* they were, or was in found when a request looked for the ports that have it.
Remember(found) ==
  ambiguous' =
    {s \in LiveSubnets' :
       /\ subnet'[s].router # None
       /\ \/ s \in ambiguous
          \/ /\ s \in LiveSubnets
             /\ subnet[s].router # None
             /\ \/ subnet[s].gateway # subnet'[s].gateway
                \/ subnet[s].gateway \in found}

Row(n, kind, addr, s) == [net |-> n, kind |-> kind, addr |-> addr, dhcp |-> s]

-----------------------------------------------------------------------------
(* Networks *)

\* p is the port to a physical network, None if the request names none.
AddNetwork(n, m, p) ==
  /\ n \notin networks
  /\ SubnetsOf(n) = {}
  /\ networks' = networks \cup {n}
  /\ netMtu' = [netMtu EXCEPT ![n] = m]
  /\ lsp' = IF p = None THEN lsp ELSE [lsp EXCEPT ![p] = Row(n, "localnet", "unknown", None)]
  /\ UNCHANGED <<subnet, lrp, routers>>
  /\ Remember({})

\* get_lrp_by_subnet: the router ports that have the subnet's gateway address, of the
\* subnet's router, or of all routers if it has none.
GatewayPorts(s) ==
  {p \in Ports :
     /\ lrp[p] # None
     /\ lrp[p].ip = subnet[s].gateway
     /\ subnet[s].router # None => lrp[p].router = subnet[s].router}

Advertisers(n) ==
  UNION {GatewayPorts(s) : s \in {t \in SubnetsOf(n) : subnet[t].version = 6}}

\* The gateway address of n's subnet if a port of another network has it, too.
Mistaken(n) == {lrp[p].ip : p \in {q \in Advertisers(n) : lsp[q].net # n}}

\* The row of the subnet's router is looked up only when there are router ports.
RouterLost(s) ==
  /\ subnet[s].version = 6
  /\ subnet[s].router \notin routers \cup {None}
  /\ \E p \in Ports : lrp[p] # None

\* Fault: the MTU of a subnet that has one stays.
SubnetsWith_KeepOld(n, m) == subnet

SubnetsWith(n, m) ==
  [s \in Subnets |-> IF IsSet(m) /\ s \in SubnetsOf(n) THEN [subnet[s] EXCEPT !.mtu = m]
                                                       ELSE subnet[s]]

\* Fault: only the rows of DHCP are told.
SetAdvertised_Not(n, m) == UNCHANGED lrp

\* One port with the gateway address of the subnet is told, whichever network it is
\* of.  A request's MTU is a number, the one in the row a string: the two are never
\* equal, and it is written even if it stays the same.
SetAdvertised(n, m) ==
  IF IsSet(m) /\ Advertisers(n) # {}
  THEN \E p \in Advertisers(n) : lrp' = [lrp EXCEPT ![p].mtu = m]
  ELSE UNCHANGED lrp

\* Fault: a port is made whether or not there is one.
SetLocalnet_Another(n, p) ==
  lsp' = IF p = None THEN lsp ELSE [lsp EXCEPT ![p] = Row(n, "localnet", "unknown", None)]

\* _update_localnet_on_network: p is a name for a new port, None if the
\* request names no physical network.
SetLocalnet(n, p) ==
  LET old == Localnets(n)
  IN CASE p = None /\ old # {} ->
            \E q \in old : lsp' = [lsp EXCEPT ![q] = None]
       [] p # None /\ old = {} ->
            lsp' = [lsp EXCEPT ![p] = Row(n, "localnet", "unknown", None)]
       [] p # None /\ old # {} ->
            \E q \in old : lsp' = [lsp EXCEPT ![q].addr = "unknown"]
       [] OTHER -> UNCHANGED lsp

UpdateNetwork(n, m, p) ==
  /\ n \in networks
  /\ ~(IsSet(m) /\ \E s \in SubnetsOf(n) : RouterLost(s))
  /\ netMtu' = [netMtu EXCEPT ![n] = IF m = None THEN @ ELSE m]
  /\ subnet' = SubnetsWith(n, m)
  /\ SetAdvertised(n, m)
  /\ SetLocalnet(n, p)
  /\ UNCHANGED <<networks, routers>>
  /\ Remember(IF IsSet(m) THEN Mistaken(n) ELSE {})

\* The lookup of the router fails, and what the transaction holds by then is
\* committed: the MTU of the network and of the subnet.
UpdateNetworkCutShort(n, m) ==
  /\ n \in networks
  /\ IsSet(m)
  /\ \E s \in SubnetsOf(n) : RouterLost(s)
  /\ netMtu' = [netMtu EXCEPT ![n] = m]
  /\ subnet' = SubnetsWith(n, m)
  /\ UNCHANGED <<networks, portVars, routers>>
  /\ Remember({})

\* References to a row that goes are weak: OVSDB takes them out of the ports.
Unserved(rows, gone) ==
  [p \in Ports |-> IF rows[p] # None /\ rows[p].dhcp \in gone
                   THEN [rows[p] EXCEPT !.dhcp = None] ELSE rows[p]]
SubnetsWithout(gone) == [s \in Subnets |-> IF s \in gone THEN None ELSE subnet[s]]
PortsWithout(gone) == [p \in Ports |-> IF p \in gone THEN None ELSE lsp[p]]

\* Of the ports, the one to the physical network may be left.
DeleteNetwork(n) ==
  /\ n \in networks
  /\ \E p \in Ports \cup {None} : PortsOf(n) \subseteq {p} \cap Localnets(n)
  /\ networks' = networks \ {n}
  /\ netMtu' = [netMtu EXCEPT ![n] = None]
  /\ subnet' = SubnetsWithout(SubnetsOf(n))
  /\ lsp' = Unserved(PortsWithout(PortsOf(n)), SubnetsOf(n))
  /\ UNCHANGED <<lrp, routers>>
  /\ Remember({})

-----------------------------------------------------------------------------
(* Subnets *)

\* The loop over the ports of the network gives them neither a MAC address nor an
\* address, and get_update_port_addr_command then has nothing to write.  Without
\* a mode in the request an IPv6 subnet has the configured one.
AddSubnet(s, n, version, mode, g) ==
  /\ n \in networks
  /\ SubnetsOf(n) = {}
  /\ subnet[s] = None
  /\ (version = 4) = (mode = "none")
  /\ subnet' = [subnet EXCEPT ![s] =
       [net |-> n, version |-> version, mode |-> mode,
        mtu |-> IF netMtu[n] = None THEN DefaultMtu ELSE netMtu[n],
        gateway |-> g, router |-> None]]
  /\ UNCHANGED <<networks, netMtu, portVars, routers>>
  /\ Remember({})

UpdateSubnet(s, g) ==
  /\ s \in LiveSubnets
  /\ g # subnet[s].gateway
  /\ subnet' = [subnet EXCEPT ![s].gateway = g]
  /\ UNCHANGED <<networks, netMtu, portVars, routers>>
  /\ Remember({})

DeleteSubnet(s) ==
  /\ s \in LiveSubnets
  /\ subnet[s].router = None
  /\ subnet' = SubnetsWithout({s})
  /\ lsp' = Unserved(lsp, {s})
  /\ UNCHANGED <<networks, netMtu, lrp, routers>>
  /\ Remember({})

-----------------------------------------------------------------------------
(* Ports *)

\* get_update_port_addr_command, once there is a MAC address: the row with the
\* lease of the subnet of network n.
Served(row, n, fixed) ==
  IF SubnetsOf(n) = {}
  THEN [row EXCEPT !.addr = "mac", !.dhcp = IF @ = None \/ subnet[@].version = 4 THEN None ELSE @]
  ELSE [row EXCEPT !.addr = IF fixed THEN "fixed" ELSE "dynamic",
                   !.dhcp = CHOOSE s \in SubnetsOf(n) : TRUE]

\* An address in the request needs a subnet.  That it also needs one that is not
\* stateless is never noticed: the mode is kept as dhcpv6_stateless and compared
\* with dhcpv6-stateless.
AddressAccepted(n, fixed) == fixed => SubnetsOf(n) # {}

AddPort(p, n, fixed) ==
  /\ Fresh(p)
  /\ n \in networks
  /\ AddressAccepted(n, fixed)
  /\ lsp' = [lsp EXCEPT ![p] = Served(Row(n, "vif", "bare", None), n, fixed)]
  /\ UNCHANGED <<networks, netMtu, subnet, lrp, routers>>
  /\ Remember({})

\* The address is refused, or in use: the row is committed all the same.
AddPortRefused(p, n) ==
  /\ Fresh(p)
  /\ n \in networks
  /\ lsp' = [lsp EXCEPT ![p] = Row(n, "vif", "bare", None)]
  /\ UNCHANGED <<networks, netMtu, subnet, lrp, routers>>
  /\ Remember({})

\* Fault: the network of the request is not compared with the port's.
UpdatePort_AnyNetwork(p, n, fixed) ==
  /\ p \in LivePorts
  /\ n \in networks
  /\ lsp[p].kind # "router"
  /\ AddressAccepted(n, fixed)
  /\ lsp' = [lsp EXCEPT ![p] = Served(@, n, fixed)]
  /\ UNCHANGED <<networks, netMtu, subnet, lrp, routers>>
  /\ Remember({})

\* _get_validated_port_network_id refuses another network than the port's.  A port
\* to a physical network is a port like any other here.
UpdatePort(p, n, fixed) ==
  /\ p \in LivePorts
  /\ n = lsp[p].net
  /\ lsp[p].kind # "router"
  /\ AddressAccepted(n, fixed)
  /\ lsp' = [lsp EXCEPT ![p] = Served(@, n, fixed)]
  /\ UNCHANGED <<networks, netMtu, subnet, lrp, routers>>
  /\ Remember({})

DeletePort(p) ==
  /\ p \in LivePorts
  /\ lsp[p].kind # "router"
  /\ lsp' = PortsWithout({p})
  /\ UNCHANGED <<networks, netMtu, subnet, lrp, routers>>
  /\ Remember({})

-----------------------------------------------------------------------------
(* Routers *)

AddRouter(r) ==
  /\ r \notin routers
  /\ \A s \in LiveSubnets : subnet[s].router # r
  /\ routers' = routers \cup {r}
  /\ UNCHANGED <<networks, netMtu, subnet, portVars>>
  /\ Remember({})

DeleteRouter(r) ==
  /\ r \in routers
  /\ Interfaces(r) = {}
  /\ routers' = routers \ {r}
  /\ UNCHANGED <<networks, netMtu, subnet, portVars>>
  /\ Remember({})

\* _is_subnet_on_router fails on an interface whose network has no subnet.
Broken(r) == \E p \in Interfaces(r) : SubnetsOf(lsp[p].net) = {}

\* _get_ra_configs: nothing for IPv4, the MTU of the network if it has one.
RouterPort(r, ip, s) ==
  [router |-> r, ip |-> ip,
   mtu |-> IF subnet[s].version = 6 THEN netMtu[subnet[s].net] ELSE None]

\* Fault: no look for a gateway address (attach_network_to_router_by_subnet).
AddInterfaceBySubnet_NoGateway(r, s, p) ==
  /\ r \in routers
  /\ s \in LiveSubnets
  /\ Fresh(p)
  /\ subnet[s].router = None
  /\ ~Broken(r)
  /\ \A q \in Interfaces(r) : lsp[q].net # subnet[s].net
  /\ lsp' = [lsp EXCEPT ![p] = Row(subnet[s].net, "router", "router", None)]
  /\ lrp' = [lrp EXCEPT ![p] = RouterPort(r, subnet[s].gateway, s)]
  /\ subnet' = [subnet EXCEPT ![s].router = r]
  /\ UNCHANGED <<networks, netMtu, routers>>
  /\ Remember({})

AddInterfaceBySubnet(r, s, p) ==
  /\ r \in routers
  /\ s \in LiveSubnets
  /\ Fresh(p)
  /\ subnet[s].router = None
  /\ subnet[s].gateway # None
  /\ ~Broken(r)
  /\ \A q \in Interfaces(r) : lsp[q].net # subnet[s].net
  /\ lsp' = [lsp EXCEPT ![p] = Row(subnet[s].net, "router", "router", None)]
  /\ lrp' = [lrp EXCEPT ![p] = RouterPort(r, subnet[s].gateway, s)]
  /\ subnet' = [subnet EXCEPT ![s].router = r]
  /\ UNCHANGED <<networks, netMtu, routers>>
  /\ Remember({})

\* Only dhcpv4_options is cleared.
Plugged(row) ==
  [row EXCEPT !.kind = "router", !.addr = "router",
              !.dhcp = IF @ # None /\ subnet[@].version = 4 THEN None ELSE @]

AddInterfaceByPort(r, p, ip) ==
  /\ r \in routers
  /\ p \in LivePorts
  /\ lsp[p].kind # "router"
  /\ lsp[p].addr \in {"dynamic", "fixed"}
  /\ ~Broken(r)
  /\ \E s \in SubnetsOf(lsp[p].net) : lrp' = [lrp EXCEPT ![p] = RouterPort(r, ip, s)]
  /\ lsp' = [lsp EXCEPT ![p] = Plugged(@)]
  /\ UNCHANGED <<networks, netMtu, subnet, routers>>
  /\ Remember({})

\* By port, the subnet keeps its router when the port has not its gateway address.
DeleteInterfaceByPort(r, p) ==
  /\ r \in routers
  /\ p \in Interfaces(r)
  /\ SubnetsOf(lsp[p].net) # {}
  /\ lsp' = PortsWithout({p})
  /\ lrp' = [lrp EXCEPT ![p] = None]
  /\ subnet' = [s \in Subnets |->
       IF s \in SubnetsOf(lsp[p].net) /\ subnet[s].gateway = lrp[p].ip
       THEN [subnet[s] EXCEPT !.router = None] ELSE subnet[s]]
  /\ UNCHANGED <<networks, netMtu, routers>>
  /\ Remember({})

DeleteInterfaceBySubnet(r, s) ==
  /\ r \in routers
  /\ s \in LiveSubnets
  /\ LET gone == {p \in Interfaces(r) : lsp[p].net = subnet[s].net}
     IN /\ lsp' = PortsWithout(gone)
        /\ lrp' = [p \in Ports |-> IF p \in gone THEN None ELSE lrp[p]]
  /\ subnet' = [subnet EXCEPT ![s].router = IF @ = r THEN None ELSE @]
  /\ UNCHANGED <<networks, netMtu, routers>>
  /\ Remember({})

-----------------------------------------------------------------------------
Init ==
  /\ networks = {}
  /\ netMtu = [n \in Networks |-> None]
  /\ subnet = [s \in Subnets |-> None]
  /\ lsp = [p \in Ports |-> None]
  /\ lrp = [p \in Ports |-> None]
  /\ routers = {}
  /\ ambiguous = {}

NewNames == {p \in Ports : Fresh(p)} \cup {None}

Next ==
  \/ \E n \in Networks, m \in Mtus \cup {None}, p \in NewNames :
       AddNetwork(n, m, p) \/ UpdateNetwork(n, m, p)
  \/ \E n \in Networks, m \in Mtus : UpdateNetworkCutShort(n, m)
  \/ \E n \in Networks : DeleteNetwork(n)
  \/ \E s \in Subnets, n \in Networks, version \in {4, 6},
        mode \in Modes \cup {"none"} :
       \E g \in AddressesOf(version) \cup {None} : AddSubnet(s, n, version, mode, g)
  \/ \E s \in LiveSubnets : \E g \in AddressesOf(subnet[s].version) : UpdateSubnet(s, g)
  \/ \E s \in Subnets : DeleteSubnet(s)
  \/ \E p \in Ports, n \in Networks, fixed \in BOOLEAN :
       AddPort(p, n, fixed) \/ UpdatePort(p, n, fixed)
  \/ \E p \in Ports, n \in Networks : AddPortRefused(p, n)
  \/ \E p \in Ports : DeletePort(p)
  \/ \E r \in Routers : AddRouter(r) \/ DeleteRouter(r)
  \/ \E r \in Routers, s \in Subnets, p \in Ports : AddInterfaceBySubnet(r, s, p)
  \/ \E r \in Routers, p \in Ports, ip \in Addresses : AddInterfaceByPort(r, p, ip)
  \/ \E r \in Routers, p \in Ports : DeleteInterfaceByPort(r, p)
  \/ \E r \in Routers, s \in Subnets : DeleteInterfaceBySubnet(r, s)

Spec == Init /\ [][Next]_vars

-----------------------------------------------------------------------------
(* What holds *)

\* Every variable has its type.
TypeOK ==
  /\ networks \subseteq Networks
  /\ netMtu \in [Networks -> Mtus \cup {None}]
  /\ subnet \in [Subnets -> SubnetRows \cup {None}]
  /\ lsp \in [Ports -> PortRows \cup {None}]
  /\ lrp \in [Ports -> RouterPortRows \cup {None}]
  /\ routers \subseteq Routers
  /\ ambiguous \subseteq LiveSubnets

\* A network whose MTU was set has a subnet that offers the same: the two are
\* written by different requests, in either order, and together also by an update
\* that fails half-way (_update_network_data, _update_networks_mtu, add_subnet).
LeasesHaveNetworkMtu ==
  \A s \in LiveSubnets :
    IsSet(netMtu[subnet[s].net]) => subnet[s].mtu = netMtu[subnet[s].net]

\* A port is offered a lease of the subnet of its own network only, and a port that
\* is plugged into a router none of IPv4, whatever requests it went through
\* (update_port_subnet, _connect_port_to_router, the weak references of OVSDB).
LeasesOfOwnSubnet ==
  \A p \in LivePorts : lsp[p].dhcp # None =>
    /\ lsp[p].dhcp \in SubnetsOf(lsp[p].net)
    /\ lsp[p].kind = "router" => subnet[lsp[p].dhcp].version = 6

\* A port that connects an IPv6 subnet to its router with the gateway address
\* advertises the MTU of the network, although get_lrp_by_subnet looks for it by the
\* address alone.  Excepted are subnets whose gateway address was changed after they
\* were connected, or was looked for, for their network or for another, when a port of
\* a second network had it, too (_update_ipv6_subnet_lrp_mtu).
GatewayAdvertisesMtu ==
  \A s \in LiveSubnets \ ambiguous :
    LET m == netMtu[subnet[s].net]
    IN subnet[s].version = 6 /\ subnet[s].router # None /\ IsSet(m) =>
         \E p \in Interfaces(subnet[s].router) :
           /\ lsp[p].net = subnet[s].net
           /\ lrp[p].ip = subnet[s].gateway
           /\ lrp[p].mtu = m

\* A network has one port to a physical network at most, the one that
\* _get_localnet_lsp finds, so that delete_network can tell it from the others.
OneLocalnet ==
  \A n \in Networks : \A p, q \in Localnets(n) : p = q

\* "IPv6 address {ip} cannot be directly assigned to a port on subnet {subnet_id}
\* as the subnet is configured for automatic addresses" (validation.py:79-84).
FixedAddressesOnStateful ==
  \A p \in LivePorts :
    lsp[p].kind = "vif" /\ lsp[p].addr = "fixed" /\ lsp[p].dhcp # None =>
      subnet[lsp[p].dhcp].mode # "stateless"

=============================================================================
