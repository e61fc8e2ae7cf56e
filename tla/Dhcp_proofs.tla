----------------------------- MODULE Dhcp_proofs -----------------------------
(* Proofs about Dhcp, for every set of networks, subnets, ports, routers,   *)
(* addresses and MTUs.                                                       *)
EXTENDS Dhcp, TLAPS

\* How the rows refer to each other: the properties about leases and MTUs rest on it.
Wiring ==
  /\ \A s \in LiveSubnets : subnet[s].net \in networks
  /\ \A s, t \in LiveSubnets : subnet[s].net = subnet[t].net => s = t
  /\ \A p \in LivePorts : lsp[p].net \in networks
  /\ \A p \in Ports : lrp[p] # None =>
       /\ p \in LivePorts
       /\ lsp[p].kind = "router"
       /\ lrp[p].router \in routers

\* A port connects the subnet to its router with the gateway address, whatever the
\* version of the subnet, and advertises the MTU once there is one.
HasPort(s) ==
  LET m == netMtu[subnet[s].net]
  IN \E p \in Interfaces(subnet[s].router) :
       /\ lsp[p].net = subnet[s].net
       /\ lrp[p].ip = subnet[s].gateway
       /\ subnet[s].version = 6 /\ IsSet(m) => lrp[p].mtu = m

GatewayHasPort ==
  \A s \in LiveSubnets \ ambiguous : subnet[s].router # None => HasPort(s)

IInv ==
  /\ TypeOK
  /\ Wiring
  /\ LeasesHaveNetworkMtu
  /\ LeasesOfOwnSubnet
  /\ GatewayHasPort
  /\ OneLocalnet

-----------------------------------------------------------------------------
(* What the helpers of the requests build and leave alone *)

LEMMA SubnetRowEdits ==
  ASSUME NEW row \in SubnetRows, NEW m \in Mtus, NEW g \in Addresses \cup {None},
         NEW r \in Routers \cup {None}
  PROVE  /\ [row EXCEPT !.mtu = m] \in SubnetRows
         /\ [row EXCEPT !.gateway = g] \in SubnetRows
         /\ [row EXCEPT !.router = r] \in SubnetRows
         /\ row.net \in Networks /\ row.version \in {4, 6} /\ row.mtu \in Mtus
         /\ row.gateway \in Addresses \cup {None} /\ row.router \in Routers \cup {None}
BY DEF SubnetRows

LEMMA PortRowEdits ==
  ASSUME NEW row \in PortRows,
         NEW addr \in {"bare", "mac", "dynamic", "fixed", "unknown", "router"},
         NEW s \in Subnets \cup {None}
  PROVE  /\ [row EXCEPT !.addr = addr] \in PortRows
         /\ [row EXCEPT !.dhcp = s] \in PortRows
         /\ [row EXCEPT !.addr = addr, !.dhcp = s] \in PortRows
         /\ [row EXCEPT !.kind = "router", !.addr = addr, !.dhcp = s] \in PortRows
         /\ row.net \in Networks /\ row.dhcp \in Subnets \cup {None}
BY DEF PortRows

LEMMA NewRow ==
  ASSUME NEW n \in Networks, NEW kind \in {"vif", "localnet", "router"},
         NEW addr \in {"bare", "mac", "dynamic", "fixed", "unknown", "router"}
  PROVE  /\ Row(n, kind, addr, None) \in PortRows
         /\ Row(n, kind, addr, None) # None
         /\ Row(n, kind, addr, None).net = n
         /\ Row(n, kind, addr, None).kind = kind
         /\ Row(n, kind, addr, None).dhcp = None
BY DhcpAssumption DEF Row, PortRows

LEMMA LiveRows ==
  ASSUME TypeOK
  PROVE  /\ \A s \in LiveSubnets : s \in Subnets /\ subnet[s] \in SubnetRows
         /\ \A p \in LivePorts : p \in Ports /\ lsp[p] \in PortRows
         /\ \A p \in Ports : lrp[p] # None => lrp[p] \in RouterPortRows
         /\ LiveSubnets = {s \in Subnets : subnet[s] # None}
BY DEF TypeOK, LiveSubnets, LivePorts

\* The MTU is all that changes in the row of a subnet.
LEMMA SubnetsWithMtu ==
  ASSUME TypeOK, NEW n \in Networks, NEW m \in Mtus \cup {None}
  PROVE  /\ SubnetsWith(n, m) \in [Subnets -> SubnetRows \cup {None}]
         /\ \A s \in Subnets :
              SubnetsWith(n, m)[s] =
                IF IsSet(m) /\ s \in LiveSubnets /\ subnet[s].net = n
                THEN [subnet[s] EXCEPT !.mtu = m] ELSE subnet[s]
         /\ \A s \in LiveSubnets : SubnetsWith(n, m)[s] \in SubnetRows
<1>1. \A s \in Subnets :
        SubnetsWith(n, m)[s] =
          IF IsSet(m) /\ s \in LiveSubnets /\ subnet[s].net = n
          THEN [subnet[s] EXCEPT !.mtu = m] ELSE subnet[s]
  BY DEF SubnetsWith, SubnetsOf, LiveSubnets
<1>2. \A s \in Subnets : SubnetsWith(n, m)[s] \in SubnetRows \cup {None}
  <2> SUFFICES ASSUME NEW s \in Subnets PROVE SubnetsWith(n, m)[s] \in SubnetRows \cup {None}
    OBVIOUS
  <2>1. CASE IsSet(m) /\ s \in LiveSubnets /\ subnet[s].net = n
    <3>1. m \in Mtus /\ subnet[s] \in SubnetRows
      BY <2>1, LiveRows DEF IsSet
    <3>2. [subnet[s] EXCEPT !.mtu = m] \in SubnetRows
      BY <3>1 DEF SubnetRows
    <3> QED
      BY <2>1, <3>2, <1>1
  <2>2. CASE ~(IsSet(m) /\ s \in LiveSubnets /\ subnet[s].net = n)
    BY <2>2, <1>1 DEF TypeOK
  <2> QED
    BY <2>1, <2>2
<1>4. ASSUME NEW s \in LiveSubnets PROVE SubnetsWith(n, m)[s] \in SubnetRows
  <2>1. subnet[s] \in SubnetRows /\ s \in Subnets
    BY LiveRows
  <2>2. IsSet(m) => [subnet[s] EXCEPT !.mtu = m] \in SubnetRows
    BY <2>1 DEF IsSet, SubnetRows
  <2> QED
    BY <2>1, <2>2, <1>1
<1>3. SubnetsWith(n, m) = [s \in Subnets |-> SubnetsWith(n, m)[s]]
  BY DEF SubnetsWith
<1> QED
  BY <1>1, <1>2, <1>3, <1>4

\* After UpdateNetwork a port to the physical network of n may be gone or have new
\* addresses, or be new where there was none; no other port differs.
LEMMA LocalnetSet ==
  ASSUME TypeOK, NEW n \in Networks, NEW p \in NewNames, SetLocalnet(n, p)
  PROVE  /\ lsp' \in [Ports -> PortRows \cup {None}]
         /\ \A q \in Ports :
              \/ lsp'[q] = lsp[q]
              \/ q \in Localnets(n) /\ lsp'[q] = None
              \/ q \in Localnets(n) /\ lsp'[q] = [lsp[q] EXCEPT !.addr = "unknown"]
              \/ /\ q = p /\ Fresh(q) /\ Localnets(n) = {}
                 /\ lsp'[q] = Row(n, "localnet", "unknown", None)
<1>1. p # None => p \in Ports /\ Fresh(p)
  BY DEF NewNames
<1>2. ASSUME NEW q \in Localnets(n)
      PROVE  /\ q \in Ports /\ lsp[q] \in PortRows
             /\ [lsp[q] EXCEPT !.addr = "unknown"] \in PortRows
  BY LiveRows DEF Localnets, PortsOf, PortRows
<1>3. Row(n, "localnet", "unknown", None) \in PortRows
  BY NewRow
<1>4. CASE p = None /\ Localnets(n) # {}
  <2>1. PICK q \in Localnets(n) : lsp' = [lsp EXCEPT ![q] = None]
    BY <1>4 DEF SetLocalnet
  <2> QED
    BY <2>1, <1>2 DEF TypeOK
<1>5. CASE p # None /\ Localnets(n) = {}
  <2>1. lsp' = [lsp EXCEPT ![p] = Row(n, "localnet", "unknown", None)]
    BY <1>5 DEF SetLocalnet
  <2> QED
    BY <2>1, <1>1, <1>3, <1>5 DEF TypeOK
<1>6. CASE p # None /\ Localnets(n) # {}
  <2>1. PICK q \in Localnets(n) : lsp' = [lsp EXCEPT ![q].addr = "unknown"]
    BY <1>6 DEF SetLocalnet
  <2> QED
    BY <2>1, <1>2 DEF TypeOK
<1>7. CASE p = None /\ Localnets(n) = {}
  BY <1>7 DEF SetLocalnet, TypeOK
<1> QED
  BY <1>4, <1>5, <1>6, <1>7

\* The MTU is all that changes in a router port, and one of them has it.
LEMMA AdvertisedSet ==
  ASSUME TypeOK, NEW n \in Networks, NEW m \in Mtus \cup {None}, SetAdvertised(n, m)
  PROVE  /\ lrp' \in [Ports -> RouterPortRows \cup {None}]
         /\ \A q \in Ports :
              \/ lrp'[q] = lrp[q]
              \/ /\ IsSet(m) /\ q \in Advertisers(n) /\ lrp[q] # None
                 /\ lrp'[q] = [lrp[q] EXCEPT !.mtu = m]
         /\ IsSet(m) /\ Advertisers(n) # {} =>
              \E q \in Advertisers(n) : lrp'[q] = [lrp[q] EXCEPT !.mtu = m]
<1>1. \A q \in Advertisers(n) : q \in Ports /\ lrp[q] # None /\ lrp[q] \in RouterPortRows
  BY LiveRows DEF Advertisers, GatewayPorts
<1>2. CASE IsSet(m) /\ Advertisers(n) # {}
  <2>1. PICK q \in Advertisers(n) : lrp' = [lrp EXCEPT ![q].mtu = m]
    BY <1>2 DEF SetAdvertised
  <2>2. [lrp[q] EXCEPT !.mtu = m] \in RouterPortRows
    BY <1>1 DEF RouterPortRows
  <2>3. lrp' = [lrp EXCEPT ![q] = [lrp[q] EXCEPT !.mtu = m]]
    BY <2>1
  <2> QED
    BY <1>1, <1>2, <2>2, <2>3 DEF TypeOK
<1>3. CASE ~(IsSet(m) /\ Advertisers(n) # {})
  BY <1>3 DEF SetAdvertised, TypeOK
<1> QED
  BY <1>2, <1>3

\* A subnet that is connected and not ambiguous after a request was not so before, and
\* if it was connected its gateway address is the same and nobody looked for it in vain.
LEMMA Remembered ==
  ASSUME NEW found, Remember(found)
  PROVE  /\ ambiguous' \subseteq LiveSubnets'
         /\ \A s \in LiveSubnets' \ ambiguous' : subnet'[s].router # None =>
              /\ s \notin ambiguous
              /\ s \in LiveSubnets /\ subnet[s].router # None =>
                   subnet'[s].gateway = subnet[s].gateway /\ subnet[s].gateway \notin found
BY DEF Remember

LEMMA ServedRow ==
  ASSUME TypeOK, NEW row \in PortRows, NEW n \in Networks, NEW fixed \in BOOLEAN
  PROVE  /\ Served(row, n, fixed) \in PortRows
         /\ Served(row, n, fixed).net = row.net
         /\ Served(row, n, fixed).kind = row.kind
         /\ SubnetsOf(n) = {} => Served(row, n, fixed).dhcp \in {row.dhcp, None}
         /\ SubnetsOf(n) # {} => Served(row, n, fixed).dhcp \in SubnetsOf(n)
<1>1. SubnetsOf(n) # {} => (CHOOSE s \in SubnetsOf(n) : TRUE) \in SubnetsOf(n)
  OBVIOUS
<1>2. SubnetsOf(n) \subseteq Subnets
  BY DEF SubnetsOf, LiveSubnets
<1>3. CASE SubnetsOf(n) = {}
  BY <1>3 DEF Served, PortRows
<1>4. CASE SubnetsOf(n) # {}
  BY <1>1, <1>2, <1>4 DEF Served, PortRows
<1> QED
  BY <1>3, <1>4

LEMMA PluggedRow ==
  ASSUME NEW row \in PortRows
  PROVE  /\ Plugged(row) \in PortRows
         /\ Plugged(row).net = row.net
         /\ Plugged(row).kind = "router"
         /\ Plugged(row).dhcp \in {row.dhcp, None}
         /\ Plugged(row).dhcp # None => subnet[row.dhcp].version # 4
BY DEF Plugged, PortRows

LEMMA PortsRemoved ==
  ASSUME TypeOK, NEW gone \in SUBSET Ports, NEW rows \in SUBSET Subnets
  PROVE  /\ PortsWithout(gone) \in [Ports -> PortRows \cup {None}]
         /\ Unserved(lsp, rows) \in [Ports -> PortRows \cup {None}]
         /\ Unserved(PortsWithout(gone), rows) \in [Ports -> PortRows \cup {None}]
         /\ SubnetsWithout(rows) \in [Subnets -> SubnetRows \cup {None}]
<1>1. ASSUME NEW f \in [Ports -> PortRows \cup {None}]
      PROVE  Unserved(f, rows) \in [Ports -> PortRows \cup {None}]
  <2>1. \A p \in Ports : f[p] # None => [f[p] EXCEPT !.dhcp = None] \in PortRows
    BY PortRowEdits
  <2> QED
    BY <2>1 DEF Unserved
<1>2. PortsWithout(gone) \in [Ports -> PortRows \cup {None}]
  BY DEF TypeOK, PortsWithout
<1>3. lsp \in [Ports -> PortRows \cup {None}]
  BY DEF TypeOK
<1>4. SubnetsWithout(rows) \in [Subnets -> SubnetRows \cup {None}]
  BY DEF TypeOK, SubnetsWithout
<1> QED
  BY <1>1, <1>2, <1>3, <1>4

\* A port that loses its lease keeps the rest of its row.
LEMMA UnservedRows ==
  ASSUME NEW f \in [Ports -> PortRows \cup {None}], NEW rows
  PROVE  \A q \in Ports :
           /\ Unserved(f, rows)[q] # None <=> f[q] # None
           /\ f[q] # None => /\ Unserved(f, rows)[q].net = f[q].net
                             /\ Unserved(f, rows)[q].kind = f[q].kind
                             /\ Unserved(f, rows)[q].dhcp =
                                  IF f[q].dhcp \in rows THEN None ELSE f[q].dhcp
<1> SUFFICES ASSUME NEW q \in Ports, f[q] # None
             PROVE  /\ Unserved(f, rows)[q] # None
                    /\ Unserved(f, rows)[q].net = f[q].net
                    /\ Unserved(f, rows)[q].kind = f[q].kind
                    /\ Unserved(f, rows)[q].dhcp = IF f[q].dhcp \in rows THEN None ELSE f[q].dhcp
  BY DEF Unserved
<1>1. f[q] \in PortRows /\ [f[q] EXCEPT !.dhcp = None] \in PortRows
  BY PortRowEdits
<1> QED
  BY <1>1, DhcpAssumption DEF Unserved, PortRows

\* The router is all that changes in the row of a subnet.
LEMMA RouterCleared ==
  ASSUME TypeOK, NEW r, NEW p, DeleteInterfaceByPort(r, p)
  PROVE  /\ subnet' \in [Subnets -> SubnetRows \cup {None}]
         /\ \A s \in Subnets :
              subnet'[s] = IF s \in LiveSubnets /\ subnet[s].net = lsp[p].net
                              /\ subnet[s].gateway = lrp[p].ip
                           THEN [subnet[s] EXCEPT !.router = None] ELSE subnet[s]
         /\ \A s \in LiveSubnets : subnet'[s] \in SubnetRows
<1>1. \A s \in LiveSubnets : subnet[s] \in SubnetRows /\ [subnet[s] EXCEPT !.router = None] \in SubnetRows
  BY LiveRows DEF SubnetRows
<1> QED
  BY <1>1 DEF DeleteInterfaceByPort, SubnetsOf, LiveSubnets, TypeOK

-----------------------------------------------------------------------------
(* Type correctness *)

\* In an empty database there is nothing to be wrong.
LEMMA InitIInv == Init => IInv
BY DhcpAssumption DEF Init, IInv, TypeOK, Wiring, LeasesHaveNetworkMtu, LeasesOfOwnSubnet,
  GatewayHasPort, OneLocalnet, LiveSubnets, LivePorts, Localnets, PortsOf

LEMMA StepTypeOK == TypeOK /\ [Next]_vars => TypeOK'
<1> SUFFICES ASSUME TypeOK, [Next]_vars PROVE TypeOK'
  OBVIOUS
<1> USE DhcpAssumption
<1>1. ASSUME NEW n \in Networks, NEW m \in Mtus \cup {None}, NEW p \in NewNames,
             AddNetwork(n, m, p)
      PROVE  TypeOK'
  <2>1. lsp' \in [Ports -> PortRows \cup {None}]
    BY <1>1 DEF AddNetwork, TypeOK, PortRows, NewNames, Row
  <2>2. ambiguous' \subseteq LiveSubnets'
    BY <1>1, Remembered DEF AddNetwork
  <2> QED
    BY <1>1, <2>1, <2>2 DEF AddNetwork, TypeOK
<1>2. ASSUME NEW n \in Networks, NEW m \in Mtus \cup {None}, NEW p \in NewNames,
             UpdateNetwork(n, m, p)
      PROVE  TypeOK'
  <2>1. lsp' \in [Ports -> PortRows \cup {None}]
    BY <1>2, LocalnetSet DEF UpdateNetwork
  <2>2. lrp' \in [Ports -> RouterPortRows \cup {None}]
    BY <1>2, AdvertisedSet DEF UpdateNetwork
  <2>3. /\ subnet' \in [Subnets -> SubnetRows \cup {None}]
        /\ \A s \in LiveSubnets : subnet'[s] # None
    BY <1>2, SubnetsWithMtu, DhcpAssumption DEF UpdateNetwork
  <2>4. ambiguous' \subseteq LiveSubnets'
    BY <1>2, Remembered DEF UpdateNetwork
  <2> QED
    BY <1>2, <2>1, <2>2, <2>3, <2>4 DEF UpdateNetwork, TypeOK
<1>3. ASSUME NEW n \in Networks, NEW m \in Mtus,
             UpdateNetworkCutShort(n, m)
      PROVE  TypeOK'
  <2>1. /\ subnet' \in [Subnets -> SubnetRows \cup {None}]
        /\ \A s \in LiveSubnets : subnet'[s] # None
    BY <1>3, SubnetsWithMtu, DhcpAssumption DEF UpdateNetworkCutShort
  <2> QED
    BY <1>3, <2>1, Remembered DEF UpdateNetworkCutShort, TypeOK, LiveSubnets, portVars
<1>4. ASSUME NEW n \in Networks,
             DeleteNetwork(n)
      PROVE  TypeOK'
  <2>1. PortsOf(n) \in SUBSET Ports /\ SubnetsOf(n) \in SUBSET Subnets
    BY DEF PortsOf, LivePorts, SubnetsOf, LiveSubnets
  <2>2. /\ lsp' \in [Ports -> PortRows \cup {None}]
        /\ subnet' \in [Subnets -> SubnetRows \cup {None}]
    BY <1>4, <2>1, PortsRemoved DEF DeleteNetwork
  <2> QED
    BY <1>4, <2>2, Remembered DEF DeleteNetwork, TypeOK, LiveSubnets, SubnetsWithout
<1>5. ASSUME NEW s \in Subnets, NEW n \in Networks, NEW version \in {4, 6},
             NEW mode \in Modes \cup {"none"}, NEW g \in AddressesOf(version) \cup {None},
             AddSubnet(s, n, version, mode, g)
      PROVE  TypeOK'
  BY <1>5, Remembered
  DEF AddSubnet, TypeOK, SubnetRows, PortRows, LiveSubnets, portVars,
      Addresses, AddressesOf
<1>6. ASSUME NEW s \in LiveSubnets, NEW g \in AddressesOf(subnet[s].version),
             UpdateSubnet(s, g)
      PROVE  TypeOK'
  <2>1. subnet[s] \in SubnetRows /\ s \in Subnets
    BY LiveRows
  <2>2. g \in Addresses
    BY DEF Addresses, AddressesOf
  <2>3. [subnet[s] EXCEPT !.gateway = g] \in SubnetRows
    BY <2>1, <2>2 DEF SubnetRows
  <2> QED
    BY <1>6, <2>1, <2>3, Remembered DEF UpdateSubnet, TypeOK, LiveSubnets, portVars
<1>7. ASSUME NEW s \in Subnets,
             DeleteSubnet(s)
      PROVE  TypeOK'
  <2>1. {s} \in SUBSET Subnets /\ {} \in SUBSET Ports
    OBVIOUS
  <2>2. /\ lsp' \in [Ports -> PortRows \cup {None}]
        /\ subnet' \in [Subnets -> SubnetRows \cup {None}]
    BY <1>7, <2>1, PortsRemoved DEF DeleteSubnet
  <2> QED
    BY <1>7, <2>2, Remembered DEF DeleteSubnet, TypeOK, LiveSubnets, SubnetsWithout
<1>8. ASSUME NEW p \in Ports, NEW n \in Networks, NEW fixed \in BOOLEAN,
             AddPort(p, n, fixed)
      PROVE  TypeOK'
  <2>1. Served(Row(n, "vif", "bare", None), n, fixed) \in PortRows
    BY NewRow, ServedRow
  <2> QED
    BY <1>8, <2>1, Remembered DEF AddPort, TypeOK, LiveSubnets
<1>9. ASSUME NEW p \in Ports, NEW n \in Networks, NEW fixed \in BOOLEAN,
             UpdatePort(p, n, fixed)
      PROVE  TypeOK'
  <2>1. Served(lsp[p], n, fixed) \in PortRows
    BY <1>9, LiveRows, ServedRow DEF UpdatePort
  <2> QED
    BY <1>9, <2>1, Remembered DEF UpdatePort, TypeOK, LiveSubnets
<1>10. ASSUME NEW p \in Ports, NEW n \in Networks,
             AddPortRefused(p, n)
      PROVE  TypeOK'
  BY <1>10, Remembered
  DEF AddPortRefused, TypeOK, PortRows, LiveSubnets, Row
<1>11. ASSUME NEW p \in Ports,
             DeletePort(p)
      PROVE  TypeOK'
  BY <1>11, Remembered
  DEF DeletePort, PortsWithout, TypeOK, LiveSubnets, portVars
<1>12. ASSUME NEW r \in Routers,
             AddRouter(r)
      PROVE  TypeOK'
  BY <1>12, Remembered
  DEF AddRouter, TypeOK, LiveSubnets, portVars
<1>13. ASSUME NEW r \in Routers,
             DeleteRouter(r)
      PROVE  TypeOK'
  BY <1>13, Remembered
  DEF DeleteRouter, TypeOK, SubnetRows, PortRows, RouterPortRows, LiveSubnets, portVars
<1>14. ASSUME NEW r \in Routers, NEW s \in Subnets, NEW p \in Ports,
             AddInterfaceBySubnet(r, s, p)
      PROVE  TypeOK'
  BY <1>14, Remembered
  DEF AddInterfaceBySubnet, RouterPort, Fresh, TypeOK, SubnetRows, PortRows,
      RouterPortRows, LiveSubnets, Row
<1>15. ASSUME NEW r \in Routers, NEW p \in Ports, NEW ip \in Addresses,
             AddInterfaceByPort(r, p, ip)
      PROVE  TypeOK'
  <2>1. Plugged(lsp[p]) \in PortRows
    BY <1>15, LiveRows, PluggedRow DEF AddInterfaceByPort
  <2>2. PICK s \in SubnetsOf(lsp[p].net) : lrp' = [lrp EXCEPT ![p] = RouterPort(r, ip, s)]
    BY <1>15 DEF AddInterfaceByPort
  <2>3. subnet[s] \in SubnetRows
    BY LiveRows DEF SubnetsOf
  <2>4. RouterPort(r, ip, s) \in RouterPortRows
    BY <2>3 DEF RouterPort, RouterPortRows, SubnetRows, TypeOK
  <2> QED
    BY <1>15, <2>1, <2>2, <2>4, Remembered DEF AddInterfaceByPort, TypeOK, LiveSubnets
<1>16. ASSUME NEW r \in Routers, NEW p \in Ports,
             DeleteInterfaceByPort(r, p)
      PROVE  TypeOK'
  <2>1. /\ subnet' \in [Subnets -> SubnetRows \cup {None}]
        /\ \A s \in LiveSubnets : subnet'[s] # None
    BY <1>16, RouterCleared, DhcpAssumption
  <2> QED
    BY <1>16, <2>1, Remembered DEF DeleteInterfaceByPort, TypeOK, LiveSubnets, PortsWithout
<1>17. ASSUME NEW r \in Routers, NEW s \in Subnets,
             DeleteInterfaceBySubnet(r, s)
      PROVE  TypeOK'
  <2>1. subnet[s] \in SubnetRows
    BY <1>17, LiveRows DEF DeleteInterfaceBySubnet
  <2>2. [subnet[s] EXCEPT !.router = IF @ = r THEN None ELSE @] \in SubnetRows
    BY <2>1 DEF SubnetRows
  <2>3. lsp' \in [Ports -> PortRows \cup {None}] /\ lrp' \in [Ports -> RouterPortRows \cup {None}]
    BY <1>17 DEF DeleteInterfaceBySubnet, TypeOK, PortsWithout
  <2> QED
    BY <1>17, <2>2, <2>3, Remembered DEF DeleteInterfaceBySubnet, TypeOK, LiveSubnets
<1>18. CASE UNCHANGED vars
  BY <1>18 DEF vars, NewNames, TypeOK, LiveSubnets, LivePorts
<1> QED
  BY <1>1, <1>2, <1>3, <1>4, <1>5, <1>6, <1>7, <1>8, <1>9, <1>10, <1>11, <1>12, <1>13,
     <1>14, <1>15, <1>16, <1>17, <1>18
  DEF Next

-----------------------------------------------------------------------------
(* What a request leaves of the rows of all subnets and ports *)

\* No subnet comes or goes, and none changes its network, version or gateway.
SubnetsKept ==
  /\ LiveSubnets' = LiveSubnets
  /\ \A s \in LiveSubnets : /\ subnet'[s].net = subnet[s].net
                            /\ subnet'[s].version = subnet[s].version
                            /\ subnet'[s].gateway = subnet[s].gateway

\* No router port comes or goes, and none changes its router or address.
RouterPortsKept ==
  \A q \in Ports : /\ lrp'[q] # None <=> lrp[q] # None
                   /\ lrp[q] # None => lrp'[q].router = lrp[q].router /\ lrp'[q].ip = lrp[q].ip

LEMMA MtuKeepsSubnets ==
  ASSUME TypeOK, NEW n \in Networks, NEW m \in Mtus \cup {None}, subnet' = SubnetsWith(n, m)
  PROVE  /\ SubnetsKept
         /\ \A s \in LiveSubnets :
              /\ subnet'[s].router = subnet[s].router
              /\ subnet'[s].mtu = IF IsSet(m) /\ subnet[s].net = n THEN m ELSE subnet[s].mtu
<1>1. \A s \in LiveSubnets : s \in Subnets /\ subnet[s] \in SubnetRows
  BY LiveRows
<1>2. \A s \in LiveSubnets : subnet'[s] # None
  BY SubnetsWithMtu, DhcpAssumption
<1>3. \A s \in Subnets \ LiveSubnets : subnet'[s] = None
  <2>1. ASSUME NEW s \in Subnets, s \notin LiveSubnets PROVE SubnetsWith(n, m)[s] = subnet[s]
    BY <2>1 DEF SubnetsWith, SubnetsOf
  <2>2. \A s \in Subnets \ LiveSubnets : subnet[s] = None
    BY DEF LiveSubnets
  <2> QED
    BY <2>1, <2>2
<1>4. LiveSubnets' = LiveSubnets
  BY <1>1, <1>2, <1>3 DEF LiveSubnets
<1>5. \A s \in LiveSubnets :
        subnet'[s] = IF IsSet(m) /\ subnet[s].net = n THEN [subnet[s] EXCEPT !.mtu = m] ELSE subnet[s]
  BY <1>1, SubnetsWithMtu
<1> QED
  BY <1>1, <1>4, <1>5 DEF SubnetsKept, SubnetRows

LEMMA AdvertisingKeepsRouterPorts ==
  ASSUME TypeOK, NEW n \in Networks, NEW m \in Mtus \cup {None}, SetAdvertised(n, m)
  PROVE  RouterPortsKept
<1> SUFFICES ASSUME NEW q \in Ports
             PROVE  /\ lrp'[q] # None <=> lrp[q] # None
                    /\ lrp[q] # None => lrp'[q].router = lrp[q].router /\ lrp'[q].ip = lrp[q].ip
  BY DEF RouterPortsKept
<1>1. CASE lrp'[q] = lrp[q]
  BY <1>1
<1>2. CASE /\ IsSet(m)
           /\ lrp[q] # None
           /\ lrp'[q] = [lrp[q] EXCEPT !.mtu = m]
  <2>1. lrp[q] # None /\ lrp[q] \in RouterPortRows /\ m \in Mtus
    BY <1>2, LiveRows DEF IsSet
  <2>2. /\ lrp'[q] \in RouterPortRows
        /\ lrp'[q].router = lrp[q].router /\ lrp'[q].ip = lrp[q].ip
    BY <1>2, <2>1 DEF RouterPortRows
  <2> QED
    BY <2>1, <2>2, DhcpAssumption
<1> QED
  BY <1>1, <1>2, AdvertisedSet

\* The ports after UpdateNetwork.
LEMMA LocalnetKeepsPorts ==
  ASSUME TypeOK, NEW n \in Networks, NEW p \in NewNames, SetLocalnet(n, p)
  PROVE  /\ \A q \in LivePorts' :
              \/ /\ q \in LivePorts
                 /\ lsp'[q].net = lsp[q].net /\ lsp'[q].kind = lsp[q].kind /\ lsp'[q].dhcp = lsp[q].dhcp
              \/ /\ q = p /\ Fresh(q) /\ Localnets(n) = {}
                 /\ lsp'[q].net = n /\ lsp'[q].kind = "localnet" /\ lsp'[q].dhcp = None
         /\ \A q \in LivePorts : lsp[q].kind = "router" => lsp'[q] = lsp[q]
<1>1. ASSUME NEW q \in Localnets(n)
      PROVE  /\ q \in LivePorts /\ lsp[q] \in PortRows /\ lsp[q].kind = "localnet" 
             /\ LET new == [lsp[q] EXCEPT !.addr = "unknown"]
                IN new.net = lsp[q].net /\ new.kind = lsp[q].kind /\ new.dhcp = lsp[q].dhcp
  <2>1. q \in LivePorts /\ lsp[q].kind = "localnet" /\ lsp[q] \in PortRows
    BY LiveRows DEF Localnets, PortsOf
  <2> QED
    BY <2>1 DEF PortRows
<1>2. ASSUME NEW q \in LivePorts'
      PROVE  \/ /\ q \in LivePorts
                /\ lsp'[q].net = lsp[q].net /\ lsp'[q].kind = lsp[q].kind /\ lsp'[q].dhcp = lsp[q].dhcp
             \/ /\ q = p /\ Fresh(q) /\ Localnets(n) = {}
                /\ lsp'[q].net = n /\ lsp'[q].kind = "localnet" /\ lsp'[q].dhcp = None
  <2>1. q \in Ports /\ lsp'[q] # None
    BY DEF LivePorts
  <2>2. \/ lsp'[q] = lsp[q]
        \/ q \in Localnets(n) /\ lsp'[q] = [lsp[q] EXCEPT !.addr = "unknown"]
        \/ /\ q = p /\ Fresh(q) /\ Localnets(n) = {}
           /\ lsp'[q] = Row(n, "localnet", "unknown", None)
    BY <2>1, LocalnetSet
  <2>3. CASE lsp'[q] = lsp[q]
    BY <2>1, <2>3 DEF LivePorts
  <2>4. CASE q \in Localnets(n) /\ lsp'[q] = [lsp[q] EXCEPT !.addr = "unknown"]
    BY <2>4, <1>1
  <2>5. CASE /\ q = p /\ Fresh(q) /\ Localnets(n) = {}
             /\ lsp'[q] = Row(n, "localnet", "unknown", None)
    BY <2>5, NewRow
  <2> QED
    BY <2>2, <2>3, <2>4, <2>5
<1>3. ASSUME NEW q \in LivePorts, lsp[q].kind = "router" PROVE lsp'[q] = lsp[q]
  <2>1. q \in Ports /\ q \notin Localnets(n) /\ ~Fresh(q)
    BY <1>3 DEF LivePorts, Localnets, Fresh
  <2> QED
    BY <2>1, LocalnetSet
<1> QED
  BY <1>2, <1>3

LEMMA RemovalKeepsSubnets ==
  ASSUME TypeOK, NEW r, NEW p, DeleteInterfaceByPort(r, p)
  PROVE  /\ SubnetsKept
         /\ \A s \in LiveSubnets :
              /\ subnet'[s].mtu = subnet[s].mtu
              /\ subnet'[s].router = IF subnet[s].net = lsp[p].net /\ subnet[s].gateway = lrp[p].ip
                                     THEN None ELSE subnet[s].router
<1>1. \A s \in LiveSubnets : s \in Subnets /\ subnet[s] \in SubnetRows
  BY LiveRows
<1>2. \A s \in LiveSubnets : subnet'[s] # None
  BY RouterCleared, DhcpAssumption
<1>3. \A s \in Subnets \ LiveSubnets : subnet'[s] = None
  BY RouterCleared DEF LiveSubnets
<1>4. LiveSubnets' = LiveSubnets
  BY <1>1, <1>2, <1>3 DEF LiveSubnets
<1>5. \A s \in LiveSubnets :
        subnet'[s] = IF subnet[s].net = lsp[p].net /\ subnet[s].gateway = lrp[p].ip
                     THEN [subnet[s] EXCEPT !.router = None] ELSE subnet[s]
  BY <1>1, RouterCleared
<1> QED
  BY <1>1, <1>4, <1>5 DEF SubnetsKept, SubnetRows

LEMMA ReleaseKeepsSubnets ==
  ASSUME TypeOK, NEW r \in Routers, NEW s \in Subnets, DeleteInterfaceBySubnet(r, s)
  PROVE  /\ SubnetsKept
         /\ \A t \in LiveSubnets :
              /\ subnet'[t].mtu = subnet[t].mtu
              /\ subnet'[t].router = IF t = s /\ subnet[t].router = r THEN None ELSE subnet[t].router
<1>1. s \in LiveSubnets /\ subnet[s] \in SubnetRows
  BY LiveRows DEF DeleteInterfaceBySubnet
<1>2. [subnet[s] EXCEPT !.router = IF @ = r THEN None ELSE @] \in SubnetRows
  BY <1>1 DEF SubnetRows
<1>3. subnet' = [subnet EXCEPT ![s] = [subnet[s] EXCEPT !.router = IF @ = r THEN None ELSE @]]
  BY DEF DeleteInterfaceBySubnet
<1>4. LiveSubnets' = LiveSubnets
  BY <1>1, <1>2, <1>3, DhcpAssumption DEF LiveSubnets, TypeOK
<1> QED
  BY <1>1, <1>3, <1>4 DEF SubnetsKept, TypeOK, LiveSubnets, SubnetRows

\* Connecting a subnet changes nothing else in its row.
LEMMA ConnectingKeepsSubnets ==
  ASSUME TypeOK, NEW r \in Routers, NEW s \in Subnets, NEW p \in Ports,
         AddInterfaceBySubnet(r, s, p)
  PROVE  /\ SubnetsKept
         /\ \A t \in LiveSubnets :
              /\ subnet'[t].mtu = subnet[t].mtu
              /\ subnet'[t].router = IF t = s THEN r ELSE subnet[t].router
<1>1. s \in LiveSubnets /\ subnet[s] \in SubnetRows
  BY LiveRows DEF AddInterfaceBySubnet
<1>2. [subnet[s] EXCEPT !.router = r] \in SubnetRows
  BY <1>1 DEF SubnetRows
<1>3. subnet' = [subnet EXCEPT ![s] = [subnet[s] EXCEPT !.router = r]]
  BY DEF AddInterfaceBySubnet
<1>4. LiveSubnets' = LiveSubnets
  BY <1>1, <1>2, <1>3, DhcpAssumption DEF LiveSubnets, TypeOK
<1> QED
  BY <1>1, <1>3, <1>4 DEF SubnetsKept, TypeOK, LiveSubnets, SubnetRows


\* A new gateway changes nothing else in the row of a subnet.
LEMMA MovingKeepsSubnets ==
  ASSUME TypeOK, NEW s \in LiveSubnets, NEW g \in AddressesOf(subnet[s].version), UpdateSubnet(s, g)
  PROVE  /\ LiveSubnets' = LiveSubnets
         /\ \A t \in LiveSubnets :
              /\ subnet'[t].net = subnet[t].net /\ subnet'[t].version = subnet[t].version
              /\ subnet'[t].mtu = subnet[t].mtu /\ subnet'[t].router = subnet[t].router
              /\ subnet'[t].gateway = IF t = s THEN g ELSE subnet[t].gateway
<1>1. /\ subnet[s] \in SubnetRows /\ s \in Subnets
      /\ [subnet[s] EXCEPT !.gateway = g] \in SubnetRows
  BY LiveRows DEF SubnetRows, Addresses, AddressesOf
<1>2. subnet' = [subnet EXCEPT ![s] = [subnet[s] EXCEPT !.gateway = g]]
  BY DEF UpdateSubnet
<1> QED
  BY <1>1, <1>2, DhcpAssumption DEF LiveSubnets, TypeOK, SubnetRows

\* The subnets and ports that are not the network's stay, but for their leases.
LEMMA DeletingKeepsRows ==
  ASSUME TypeOK, NEW n \in Networks, DeleteNetwork(n)
  PROVE  /\ LiveSubnets' = LiveSubnets \ SubnetsOf(n)
         /\ \A t \in LiveSubnets' : subnet'[t] = subnet[t]
         /\ LivePorts' = LivePorts \ PortsOf(n)
         /\ \A q \in LivePorts' :
              /\ lsp'[q].net = lsp[q].net /\ lsp'[q].kind = lsp[q].kind
              /\ lsp'[q].dhcp = IF lsp[q].dhcp \in SubnetsOf(n) THEN None ELSE lsp[q].dhcp
         /\ \A q \in PortsOf(n) : lsp[q].kind # "router"
<1>1. /\ LiveSubnets' = LiveSubnets \ SubnetsOf(n)
      /\ \A t \in LiveSubnets' : subnet'[t] = subnet[t]
  BY DEF DeleteNetwork, SubnetsWithout, LiveSubnets, SubnetsOf
<1>2. PortsWithout(PortsOf(n)) \in [Ports -> PortRows \cup {None}]
  BY PortsRemoved DEF PortsOf, LivePorts
<1>3. \A q \in Ports :
        /\ lsp'[q] # None <=> PortsWithout(PortsOf(n))[q] # None
        /\ lsp'[q] # None =>
             /\ lsp'[q].net = PortsWithout(PortsOf(n))[q].net
             /\ lsp'[q].kind = PortsWithout(PortsOf(n))[q].kind
             /\ lsp'[q].dhcp = IF PortsWithout(PortsOf(n))[q].dhcp \in SubnetsOf(n) THEN None
                               ELSE PortsWithout(PortsOf(n))[q].dhcp
  BY <1>2, UnservedRows DEF DeleteNetwork
<1>4. LivePorts' = LivePorts \ PortsOf(n)
  BY <1>3 DEF PortsWithout, LivePorts
<1>5. \A q \in LivePorts' :
        /\ lsp'[q].net = lsp[q].net /\ lsp'[q].kind = lsp[q].kind
        /\ lsp'[q].dhcp = IF lsp[q].dhcp \in SubnetsOf(n) THEN None ELSE lsp[q].dhcp
  BY <1>3, <1>4 DEF PortsWithout, LivePorts
<1>6. \A q \in PortsOf(n) : lsp[q].kind # "router"
  BY DEF DeleteNetwork, Localnets
<1> QED
  BY <1>1, <1>4, <1>5, <1>6

LEMMA DroppingKeepsRows ==
  ASSUME TypeOK, NEW s \in Subnets, DeleteSubnet(s)
  PROVE  /\ LiveSubnets' = LiveSubnets \ {s}
         /\ \A t \in LiveSubnets' : subnet'[t] = subnet[t]
         /\ LivePorts' = LivePorts
         /\ \A q \in LivePorts :
              /\ lsp'[q].net = lsp[q].net /\ lsp'[q].kind = lsp[q].kind
              /\ lsp'[q].dhcp = IF lsp[q].dhcp = s THEN None ELSE lsp[q].dhcp
<1>1. /\ LiveSubnets' = LiveSubnets \ {s}
      /\ \A t \in LiveSubnets' : subnet'[t] = subnet[t]
  BY DEF DeleteSubnet, SubnetsWithout, LiveSubnets
<1>2. \A q \in Ports :
        /\ lsp'[q] # None <=> lsp[q] # None
        /\ lsp[q] # None =>
             /\ lsp'[q].net = lsp[q].net /\ lsp'[q].kind = lsp[q].kind
             /\ lsp'[q].dhcp = IF lsp[q].dhcp = s THEN None ELSE lsp[q].dhcp
  BY UnservedRows DEF DeleteSubnet, TypeOK
<1>3. LivePorts' = LivePorts
  BY <1>2 DEF LivePorts
<1> QED
  BY <1>1, <1>2, <1>3 DEF LivePorts

-----------------------------------------------------------------------------
(* The wiring of the rows *)

LEMMA StepWiring == TypeOK /\ Wiring /\ [Next]_vars => Wiring'
<1> SUFFICES ASSUME TypeOK, Wiring, [Next]_vars PROVE Wiring'
  OBVIOUS
<1> USE DhcpAssumption
<1>1. ASSUME NEW n \in Networks, NEW m \in Mtus \cup {None}, NEW p \in NewNames,
             AddNetwork(n, m, p)
      PROVE  Wiring'
  BY <1>1
  DEF AddNetwork, SubnetsOf, NewNames, Wiring, LiveSubnets, LivePorts, Fresh, SubnetsOf, Row
<1>2. ASSUME NEW n \in Networks, NEW m \in Mtus \cup {None}, NEW p \in NewNames,
             UpdateNetwork(n, m, p)
      PROVE  Wiring'
  <2>1. SubnetsKept /\ RouterPortsKept
    BY <1>2, MtuKeepsSubnets, AdvertisingKeepsRouterPorts DEF UpdateNetwork
  <2>2. /\ \A q \in LivePorts' : lsp'[q].net \in networks
        /\ \A q \in LivePorts : lsp[q].kind = "router" => q \in LivePorts' /\ lsp'[q] = lsp[q]
    BY <1>2, LocalnetKeepsPorts, LiveRows DEF UpdateNetwork, Wiring, LivePorts
  <2>3. networks' = networks /\ routers' = routers
    BY <1>2 DEF UpdateNetwork
  <2> QED
    BY <2>1, <2>2, <2>3 DEF Wiring, SubnetsKept, RouterPortsKept
<1>3. ASSUME NEW n \in Networks, NEW m \in Mtus,
             UpdateNetworkCutShort(n, m)
      PROVE  Wiring'
  <2>1. SubnetsKept
    BY <1>3, MtuKeepsSubnets DEF UpdateNetworkCutShort
  <2> QED
    BY <1>3, <2>1 DEF UpdateNetworkCutShort, Wiring, SubnetsKept, LivePorts, portVars
<1>4. ASSUME NEW n \in Networks,
             DeleteNetwork(n)
      PROVE  Wiring'
  <2>1. UNCHANGED <<lrp, routers>> /\ networks' = networks \ {n}
    BY <1>4 DEF DeleteNetwork
  <2> QED
    BY <1>4, <2>1, DeletingKeepsRows DEF Wiring, SubnetsOf, PortsOf
<1>5. ASSUME NEW s \in Subnets, NEW n \in Networks, NEW version \in {4, 6},
             NEW mode \in Modes \cup {"none"}, NEW g \in AddressesOf(version) \cup {None},
             AddSubnet(s, n, version, mode, g)
      PROVE  Wiring'
  BY <1>5
  DEF AddSubnet, Wiring, LiveSubnets, LivePorts, portVars, SubnetsOf
<1>6. ASSUME NEW s \in LiveSubnets, NEW g \in AddressesOf(subnet[s].version),
             UpdateSubnet(s, g)
      PROVE  Wiring'
  <2>1. UNCHANGED <<networks, portVars, routers>>
    BY <1>6 DEF UpdateSubnet
  <2> QED
    BY <1>6, <2>1, MovingKeepsSubnets DEF Wiring, LivePorts, portVars
<1>7. ASSUME NEW s \in Subnets,
             DeleteSubnet(s)
      PROVE  Wiring'
  <2>1. UNCHANGED <<networks, lrp, routers>>
    BY <1>7 DEF DeleteSubnet
  <2> QED
    BY <1>7, <2>1, DroppingKeepsRows DEF Wiring
<1>8. ASSUME NEW p \in Ports, NEW n \in Networks, NEW fixed \in BOOLEAN,
             AddPort(p, n, fixed)
      PROVE  Wiring'
  <2>1. LET row == Served(Row(n, "vif", "bare", None), n, fixed)
        IN row # None /\ row.net = n /\ row.kind = "vif"
    BY NewRow, ServedRow, DhcpAssumption
  <2> QED
    BY <1>8, <2>1 DEF AddPort, Wiring, LivePorts, LiveSubnets, Fresh
<1>9. ASSUME NEW p \in Ports, NEW n \in Networks, NEW fixed \in BOOLEAN,
             UpdatePort(p, n, fixed)
      PROVE  Wiring'
  <2>1. LET row == Served(lsp[p], n, fixed)
        IN row # None /\ row.net = lsp[p].net /\ row.kind = lsp[p].kind
    BY <1>9, LiveRows, ServedRow, DhcpAssumption DEF UpdatePort
  <2> QED
    BY <1>9, <2>1 DEF UpdatePort, Wiring, LivePorts, LiveSubnets
<1>10. ASSUME NEW p \in Ports, NEW n \in Networks,
             AddPortRefused(p, n)
      PROVE  Wiring'
  BY <1>10
  DEF AddPortRefused, Wiring, LiveSubnets, LivePorts, Fresh, Row
<1>11. ASSUME NEW p \in Ports,
             DeletePort(p)
      PROVE  Wiring'
  BY <1>11
  DEF DeletePort, PortsWithout, Wiring, LiveSubnets, LivePorts, portVars
<1>12. ASSUME NEW r \in Routers,
             AddRouter(r)
      PROVE  Wiring'
  BY <1>12
  DEF AddRouter, Wiring, LiveSubnets, LivePorts, portVars, Interfaces
<1>13. ASSUME NEW r \in Routers,
             DeleteRouter(r)
      PROVE  Wiring'
  BY <1>13
  DEF DeleteRouter, Wiring, LiveSubnets, LivePorts, portVars, Interfaces
<1>14. ASSUME NEW r \in Routers, NEW s \in Subnets, NEW p \in Ports,
             AddInterfaceBySubnet(r, s, p)
      PROVE  Wiring'
  <2>1. SubnetsKept
    BY <1>14, ConnectingKeepsSubnets
  <2>2. subnet[s].net \in networks
    BY <1>14 DEF AddInterfaceBySubnet, Wiring
  <2>3. RouterPort(r, subnet[s].gateway, s).ip = subnet[s].gateway /\ RouterPort(r, subnet[s].gateway, s).router = r
    BY DEF RouterPort
  <2>4. /\ lsp' = [lsp EXCEPT ![p] = Row(subnet[s].net, "router", "router", None)]
        /\ lrp' = [lrp EXCEPT ![p] = RouterPort(r, subnet[s].gateway, s)]
        /\ networks' = networks /\ routers' = routers /\ r \in routers
    BY <1>14 DEF AddInterfaceBySubnet
  <2>5. subnet[s].net \in Networks
    BY <2>2 DEF TypeOK
  <2>6. LET row == Row(subnet[s].net, "router", "router", None)
        IN row # None /\ row.net = subnet[s].net /\ row.kind = "router"
    BY <2>5, NewRow
  <2> QED
    BY <2>1, <2>2, <2>3, <2>4, <2>6 DEF Wiring, SubnetsKept, LivePorts, TypeOK
<1>15. ASSUME NEW r \in Routers, NEW p \in Ports, NEW ip \in Addresses,
             AddInterfaceByPort(r, p, ip)
      PROVE  Wiring'
  <2>1. PICK s : lrp' = [lrp EXCEPT ![p] = RouterPort(r, ip, s)]
    BY <1>15 DEF AddInterfaceByPort
  <2>2. RouterPort(r, ip, s).ip = ip /\ RouterPort(r, ip, s).router = r
    BY DEF RouterPort
  <2>3. /\ lsp[p] \in PortRows /\ Plugged(lsp[p]) # None
        /\ Plugged(lsp[p]).net = lsp[p].net /\ Plugged(lsp[p]).kind = "router"
    BY <1>15, LiveRows, PluggedRow, DhcpAssumption DEF AddInterfaceByPort
  <2>4. /\ lsp' = [lsp EXCEPT ![p] = Plugged(lsp[p])]
        /\ UNCHANGED <<networks, subnet, routers>>
        /\ r \in routers /\ p \in LivePorts
    BY <1>15 DEF AddInterfaceByPort
  <2> QED
    BY <2>1, <2>2, <2>3, <2>4 DEF Wiring, LivePorts, LiveSubnets, TypeOK
<1>16. ASSUME NEW r \in Routers, NEW p \in Ports,
             DeleteInterfaceByPort(r, p)
      PROVE  Wiring'
  <2>1. SubnetsKept
    BY <1>16, RemovalKeepsSubnets
  <2> QED
    BY <1>16, <2>1
    DEF DeleteInterfaceByPort, Wiring, SubnetsKept, LivePorts, PortsWithout, TypeOK
<1>17. ASSUME NEW r \in Routers, NEW s \in Subnets,
             DeleteInterfaceBySubnet(r, s)
      PROVE  Wiring'
  <2>1. SubnetsKept
    BY <1>17, ReleaseKeepsSubnets
  <2> QED
    BY <1>17, <2>1 DEF DeleteInterfaceBySubnet, Wiring, SubnetsKept, LivePorts, PortsWithout
<1>18. CASE UNCHANGED vars
  BY <1>18 DEF vars, Wiring, LiveSubnets, LivePorts, Interfaces, SubnetsOf
<1> QED
  BY <1>1, <1>2, <1>3, <1>4, <1>5, <1>6, <1>7, <1>8, <1>9, <1>10, <1>11, <1>12, <1>13,
     <1>14, <1>15, <1>16, <1>17, <1>18
  DEF Next

-----------------------------------------------------------------------------
(* Leases, MTUs and the port to the physical network *)

LEMMA StepLeasesHaveNetworkMtu == TypeOK /\ LeasesHaveNetworkMtu /\ [Next]_vars => LeasesHaveNetworkMtu'
<1> SUFFICES ASSUME TypeOK, LeasesHaveNetworkMtu, [Next]_vars PROVE LeasesHaveNetworkMtu'
  OBVIOUS
<1> USE DhcpAssumption
<1>1. ASSUME NEW n \in Networks, NEW m \in Mtus \cup {None}, NEW p \in NewNames,
             AddNetwork(n, m, p)
      PROVE  LeasesHaveNetworkMtu'
  <2>1. \A s \in LiveSubnets : subnet[s].net # n
    BY <1>1 DEF AddNetwork, SubnetsOf
  <2>2. netMtu' = [netMtu EXCEPT ![n] = m] /\ subnet' = subnet /\ LiveSubnets' = LiveSubnets
    BY <1>1 DEF AddNetwork, LiveSubnets
  <2> QED
    BY <2>1, <2>2, LiveRows DEF LeasesHaveNetworkMtu, TypeOK, SubnetRows
<1>2. ASSUME NEW n \in Networks, NEW m \in Mtus \cup {None}, NEW p \in NewNames,
             UpdateNetwork(n, m, p)
      PROVE  LeasesHaveNetworkMtu'
  <2>1. /\ LiveSubnets' = LiveSubnets
        /\ \A s \in LiveSubnets :
             /\ subnet'[s].net = subnet[s].net /\ subnet[s].net \in Networks
             /\ subnet'[s].mtu = IF IsSet(m) /\ subnet[s].net = n THEN m ELSE subnet[s].mtu
    BY <1>2, MtuKeepsSubnets, LiveRows, SubnetRowEdits
    DEF UpdateNetwork, SubnetsKept, SubnetRows
  <2>2. netMtu' = [netMtu EXCEPT ![n] = IF m = None THEN netMtu[n] ELSE m]
    BY <1>2 DEF UpdateNetwork
  <2> QED
    BY <2>1, <2>2 DEF LeasesHaveNetworkMtu, TypeOK, IsSet
<1>3. ASSUME NEW n \in Networks, NEW m \in Mtus,
             UpdateNetworkCutShort(n, m)
      PROVE  LeasesHaveNetworkMtu'
  <2>1. /\ LiveSubnets' = LiveSubnets
        /\ \A s \in LiveSubnets :
             /\ subnet'[s].net = subnet[s].net /\ subnet[s].net \in Networks
             /\ subnet'[s].mtu = IF IsSet(m) /\ subnet[s].net = n THEN m ELSE subnet[s].mtu
    BY <1>3, MtuKeepsSubnets, LiveRows DEF UpdateNetworkCutShort, SubnetsKept, SubnetRows
  <2>2. netMtu' = [netMtu EXCEPT ![n] = m] /\ IsSet(m)
    BY <1>3 DEF UpdateNetworkCutShort
  <2> QED
    BY <2>1, <2>2 DEF LeasesHaveNetworkMtu, TypeOK
<1>4. ASSUME NEW n \in Networks,
             DeleteNetwork(n)
      PROVE  LeasesHaveNetworkMtu'
  <2>1. netMtu' = [netMtu EXCEPT ![n] = None]
    BY <1>4 DEF DeleteNetwork
  <2> QED
    BY <1>4, <2>1, DeletingKeepsRows, LiveRows
    DEF LeasesHaveNetworkMtu, TypeOK, SubnetRows, SubnetsOf
<1>5. ASSUME NEW s \in Subnets, NEW n \in Networks, NEW version \in {4, 6},
             NEW mode \in Modes \cup {"none"}, NEW g \in AddressesOf(version) \cup {None},
             AddSubnet(s, n, version, mode, g)
      PROVE  LeasesHaveNetworkMtu'
  <2>1. LiveSubnets' \subseteq LiveSubnets \cup {s} /\ \A t \in LiveSubnets : t # s
    BY <1>5 DEF AddSubnet, LiveSubnets
  <2>2. /\ subnet'[s].net = n /\ netMtu' = netMtu
        /\ subnet'[s].mtu = IF netMtu[n] = None THEN DefaultMtu ELSE netMtu[n]
        /\ \A t \in LiveSubnets : subnet'[t] = subnet[t]
    BY <1>5, <2>1 DEF AddSubnet, TypeOK, LiveSubnets
  <2> QED
    BY <2>1, <2>2 DEF LeasesHaveNetworkMtu, IsSet
<1>6. ASSUME NEW s \in LiveSubnets, NEW g \in AddressesOf(subnet[s].version),
             UpdateSubnet(s, g)
      PROVE  LeasesHaveNetworkMtu'
  <2>1. netMtu' = netMtu
    BY <1>6 DEF UpdateSubnet
  <2> QED
    BY <1>6, <2>1, MovingKeepsSubnets DEF LeasesHaveNetworkMtu
<1>7. ASSUME NEW s \in Subnets,
             DeleteSubnet(s)
      PROVE  LeasesHaveNetworkMtu'
  <2>1. netMtu' = netMtu
    BY <1>7 DEF DeleteSubnet
  <2> QED
    BY <1>7, <2>1, DroppingKeepsRows DEF LeasesHaveNetworkMtu
<1>8. ASSUME NEW p \in Ports, NEW n \in Networks, NEW fixed \in BOOLEAN,
             AddPort(p, n, fixed)
      PROVE  LeasesHaveNetworkMtu'
  BY <1>8
  DEF AddPort, LeasesHaveNetworkMtu, LiveSubnets
<1>9. ASSUME NEW p \in Ports, NEW n \in Networks, NEW fixed \in BOOLEAN,
             UpdatePort(p, n, fixed)
      PROVE  LeasesHaveNetworkMtu'
  BY <1>9
  DEF UpdatePort, LeasesHaveNetworkMtu, LiveSubnets
<1>10. ASSUME NEW p \in Ports, NEW n \in Networks,
             AddPortRefused(p, n)
      PROVE  LeasesHaveNetworkMtu'
  BY <1>10
  DEF AddPortRefused, LeasesHaveNetworkMtu, LiveSubnets, Row
<1>11. ASSUME NEW p \in Ports,
             DeletePort(p)
      PROVE  LeasesHaveNetworkMtu'
  BY <1>11
  DEF DeletePort, PortsWithout, LeasesHaveNetworkMtu, LiveSubnets
<1>12. ASSUME NEW r \in Routers,
             AddRouter(r)
      PROVE  LeasesHaveNetworkMtu'
  BY <1>12
  DEF AddRouter, LeasesHaveNetworkMtu, LiveSubnets, portVars
<1>13. ASSUME NEW r \in Routers,
             DeleteRouter(r)
      PROVE  LeasesHaveNetworkMtu'
  BY <1>13
  DEF DeleteRouter, LeasesHaveNetworkMtu, LiveSubnets, portVars
<1>14. ASSUME NEW r \in Routers, NEW s \in Subnets, NEW p \in Ports,
             AddInterfaceBySubnet(r, s, p)
      PROVE  LeasesHaveNetworkMtu'
  <2>1. SubnetsKept /\ \A t \in LiveSubnets : subnet'[t].mtu = subnet[t].mtu
    BY <1>14, ConnectingKeepsSubnets
  <2>2. netMtu' = netMtu
    BY <1>14 DEF AddInterfaceBySubnet
  <2> QED
    BY <2>1, <2>2 DEF LeasesHaveNetworkMtu, SubnetsKept
<1>15. ASSUME NEW r \in Routers, NEW p \in Ports, NEW ip \in Addresses,
             AddInterfaceByPort(r, p, ip)
      PROVE  LeasesHaveNetworkMtu'
  BY <1>15
  DEF AddInterfaceByPort, LeasesHaveNetworkMtu, LiveSubnets, portVars
<1>16. ASSUME NEW r \in Routers, NEW p \in Ports,
             DeleteInterfaceByPort(r, p)
      PROVE  LeasesHaveNetworkMtu'
  <2>1. SubnetsKept /\ \A t \in LiveSubnets : subnet'[t].mtu = subnet[t].mtu
    BY <1>16, RemovalKeepsSubnets
  <2>2. netMtu' = netMtu
    BY <1>16 DEF DeleteInterfaceByPort
  <2> QED
    BY <2>1, <2>2 DEF LeasesHaveNetworkMtu, SubnetsKept
<1>17. ASSUME NEW r \in Routers, NEW s \in Subnets,
             DeleteInterfaceBySubnet(r, s)
      PROVE  LeasesHaveNetworkMtu'
  <2>1. SubnetsKept /\ \A t \in LiveSubnets : subnet'[t].mtu = subnet[t].mtu
    BY <1>17, ReleaseKeepsSubnets
  <2>2. netMtu' = netMtu
    BY <1>17 DEF DeleteInterfaceBySubnet
  <2> QED
    BY <2>1, <2>2 DEF LeasesHaveNetworkMtu, SubnetsKept
<1>18. CASE UNCHANGED vars
  BY <1>18 DEF vars, portVars, LeasesHaveNetworkMtu, LiveSubnets, portVars
<1> QED
  BY <1>1, <1>2, <1>3, <1>4, <1>5, <1>6, <1>7, <1>8, <1>9, <1>10, <1>11, <1>12, <1>13,
     <1>14, <1>15, <1>16, <1>17, <1>18
  DEF Next

LEMMA StepOneLocalnet == TypeOK /\ Wiring /\ OneLocalnet /\ [Next]_vars => OneLocalnet'
<1> SUFFICES ASSUME TypeOK, Wiring, OneLocalnet, [Next]_vars PROVE OneLocalnet'
  OBVIOUS
<1> USE DhcpAssumption
<1>1. ASSUME NEW n \in Networks, NEW m \in Mtus \cup {None}, NEW p \in NewNames,
             AddNetwork(n, m, p)
      PROVE  OneLocalnet'
  <2>1. \A q \in LivePorts : lsp[q].net # n
    BY <1>1 DEF AddNetwork, Wiring
  <2>2. p # None => p \in Ports
    BY DEF NewNames
  <2>3. LET row == Row(n, "localnet", "unknown", None)
        IN row # None /\ row.net = n /\ row.kind = "localnet"
    BY NewRow
  <2> QED
    BY <1>1, <2>1, <2>2, <2>3 DEF AddNetwork, OneLocalnet, Localnets, PortsOf, LivePorts
<1>2. ASSUME NEW n \in Networks, NEW m \in Mtus \cup {None}, NEW p \in NewNames,
             UpdateNetwork(n, m, p)
      PROVE  OneLocalnet'
  <2>1. SetLocalnet(n, p)
    BY <1>2 DEF UpdateNetwork
  <2> QED
    BY <2>1, LocalnetKeepsPorts DEF OneLocalnet, Localnets, PortsOf
<1>3. ASSUME NEW n \in Networks, NEW m \in Mtus,
             UpdateNetworkCutShort(n, m)
      PROVE  OneLocalnet'
  BY <1>3
  DEF UpdateNetworkCutShort, OneLocalnet, Localnets, PortsOf, LivePorts, portVars
<1>4. ASSUME NEW n \in Networks,
             DeleteNetwork(n)
      PROVE  OneLocalnet'
  BY <1>4, DeletingKeepsRows DEF OneLocalnet, Localnets, PortsOf
<1>5. ASSUME NEW s \in Subnets, NEW n \in Networks, NEW version \in {4, 6},
             NEW mode \in Modes \cup {"none"}, NEW g \in AddressesOf(version) \cup {None},
             AddSubnet(s, n, version, mode, g)
      PROVE  OneLocalnet'
  BY <1>5
  DEF AddSubnet, OneLocalnet, Localnets, PortsOf, LivePorts, portVars
<1>6. ASSUME NEW s \in LiveSubnets, NEW g \in AddressesOf(subnet[s].version),
             UpdateSubnet(s, g)
      PROVE  OneLocalnet'
  BY <1>6
  DEF UpdateSubnet, OneLocalnet, Localnets, PortsOf, LivePorts, portVars
<1>7. ASSUME NEW s \in Subnets,
             DeleteSubnet(s)
      PROVE  OneLocalnet'
  BY <1>7, DroppingKeepsRows DEF OneLocalnet, Localnets, PortsOf
<1>8. ASSUME NEW p \in Ports, NEW n \in Networks, NEW fixed \in BOOLEAN,
             AddPort(p, n, fixed)
      PROVE  OneLocalnet'
  <2>1. LET row == Served(Row(n, "vif", "bare", None), n, fixed)
        IN row # None /\ row.net = n /\ row.kind = "vif"
    BY NewRow, ServedRow
  <2> QED
    BY <1>8, <2>1 DEF AddPort, OneLocalnet, Localnets, PortsOf, LivePorts
<1>9. ASSUME NEW p \in Ports, NEW n \in Networks, NEW fixed \in BOOLEAN,
             UpdatePort(p, n, fixed)
      PROVE  OneLocalnet'
  <2>1. LET row == Served(lsp[p], n, fixed)
        IN row # None /\ row.net = lsp[p].net /\ row.kind = lsp[p].kind
    BY <1>9, LiveRows, ServedRow DEF UpdatePort
  <2> QED
    BY <1>9, <2>1 DEF UpdatePort, OneLocalnet, Localnets, PortsOf, LivePorts
<1>10. ASSUME NEW p \in Ports, NEW n \in Networks,
             AddPortRefused(p, n)
      PROVE  OneLocalnet'
  BY <1>10
  DEF AddPortRefused, OneLocalnet, Localnets, PortsOf, LivePorts, Row
<1>11. ASSUME NEW p \in Ports,
             DeletePort(p)
      PROVE  OneLocalnet'
  BY <1>11
  DEF DeletePort, PortsWithout, OneLocalnet, Localnets, PortsOf, LivePorts, portVars
<1>12. ASSUME NEW r \in Routers,
             AddRouter(r)
      PROVE  OneLocalnet'
  BY <1>12
  DEF AddRouter, OneLocalnet, Localnets, PortsOf, LivePorts, portVars
<1>13. ASSUME NEW r \in Routers,
             DeleteRouter(r)
      PROVE  OneLocalnet'
  BY <1>13
  DEF DeleteRouter, OneLocalnet, Localnets, PortsOf, LivePorts, portVars
<1>14. ASSUME NEW r \in Routers, NEW s \in Subnets, NEW p \in Ports,
             AddInterfaceBySubnet(r, s, p)
      PROVE  OneLocalnet'
  BY <1>14
  DEF AddInterfaceBySubnet, OneLocalnet, Localnets, PortsOf, LivePorts, Row
<1>15. ASSUME NEW r \in Routers, NEW p \in Ports, NEW ip \in Addresses,
             AddInterfaceByPort(r, p, ip)
      PROVE  OneLocalnet'
  <2>1. Plugged(lsp[p]).kind = "router"
    BY <1>15, LiveRows, PluggedRow DEF AddInterfaceByPort
  <2> QED
    BY <1>15, <2>1 DEF AddInterfaceByPort, OneLocalnet, Localnets, PortsOf, LivePorts
<1>16. ASSUME NEW r \in Routers, NEW p \in Ports,
             DeleteInterfaceByPort(r, p)
      PROVE  OneLocalnet'
  BY <1>16
  DEF DeleteInterfaceByPort, PortsWithout, OneLocalnet, Localnets, PortsOf, LivePorts
<1>17. ASSUME NEW r \in Routers, NEW s \in Subnets,
             DeleteInterfaceBySubnet(r, s)
      PROVE  OneLocalnet'
  <2>1. \A q \in LivePorts' : q \in LivePorts /\ lsp'[q] = lsp[q]
    BY <1>17 DEF DeleteInterfaceBySubnet, PortsWithout, LivePorts
  <2> QED
    BY <2>1 DEF OneLocalnet, Localnets, PortsOf
<1>18. CASE UNCHANGED vars
  BY <1>18 DEF vars, OneLocalnet, Localnets, PortsOf, LivePorts
<1> QED
  BY <1>1, <1>2, <1>3, <1>4, <1>5, <1>6, <1>7, <1>8, <1>9, <1>10, <1>11, <1>12, <1>13,
     <1>14, <1>15, <1>16, <1>17, <1>18
  DEF Next

LEMMA StepLeasesOfOwnSubnet == TypeOK /\ LeasesOfOwnSubnet /\ [Next]_vars => LeasesOfOwnSubnet'
<1> SUFFICES ASSUME TypeOK, LeasesOfOwnSubnet, [Next]_vars PROVE LeasesOfOwnSubnet'
  OBVIOUS
<1> USE DhcpAssumption
<1>1. ASSUME NEW n \in Networks, NEW m \in Mtus \cup {None}, NEW p \in NewNames,
             AddNetwork(n, m, p)
      PROVE  LeasesOfOwnSubnet'
  BY <1>1
  DEF AddNetwork, SubnetsOf, LeasesOfOwnSubnet, SubnetsOf, LiveSubnets, LivePorts, Row
<1>2. ASSUME NEW n \in Networks, NEW m \in Mtus \cup {None}, NEW p \in NewNames,
             UpdateNetwork(n, m, p)
      PROVE  LeasesOfOwnSubnet'
  <2>1. SubnetsKept
    BY <1>2, MtuKeepsSubnets DEF UpdateNetwork
  <2>2. SetLocalnet(n, p)
    BY <1>2 DEF UpdateNetwork
  <2> QED
    BY <2>1, <2>2, LocalnetKeepsPorts DEF LeasesOfOwnSubnet, SubnetsOf, SubnetsKept
<1>3. ASSUME NEW n \in Networks, NEW m \in Mtus,
             UpdateNetworkCutShort(n, m)
      PROVE  LeasesOfOwnSubnet'
  <2>1. SubnetsKept
    BY <1>3, MtuKeepsSubnets DEF UpdateNetworkCutShort
  <2>2. lsp' = lsp
    BY <1>3 DEF UpdateNetworkCutShort, portVars
  <2> QED
    BY <2>1, <2>2 DEF LeasesOfOwnSubnet, SubnetsOf, SubnetsKept, LivePorts
<1>4. ASSUME NEW n \in Networks,
             DeleteNetwork(n)
      PROVE  LeasesOfOwnSubnet'
  BY <1>4, DeletingKeepsRows DEF LeasesOfOwnSubnet, SubnetsOf
<1>5. ASSUME NEW s \in Subnets, NEW n \in Networks, NEW version \in {4, 6},
             NEW mode \in Modes \cup {"none"}, NEW g \in AddressesOf(version) \cup {None},
             AddSubnet(s, n, version, mode, g)
      PROVE  LeasesOfOwnSubnet'
  <2>1. LiveSubnets \subseteq LiveSubnets' /\ \A t \in LiveSubnets : subnet'[t] = subnet[t]
    BY <1>5 DEF AddSubnet, LiveSubnets, TypeOK
  <2>2. lsp' = lsp
    BY <1>5 DEF AddSubnet, portVars
  <2> QED
    BY <2>1, <2>2 DEF LeasesOfOwnSubnet, SubnetsOf, LivePorts
<1>6. ASSUME NEW s \in LiveSubnets, NEW g \in AddressesOf(subnet[s].version),
             UpdateSubnet(s, g)
      PROVE  LeasesOfOwnSubnet'
  <2>1. lsp' = lsp
    BY <1>6 DEF UpdateSubnet, portVars
  <2> QED
    BY <1>6, <2>1, MovingKeepsSubnets DEF LeasesOfOwnSubnet, SubnetsOf, LivePorts
<1>7. ASSUME NEW s \in Subnets,
             DeleteSubnet(s)
      PROVE  LeasesOfOwnSubnet'
  BY <1>7, DroppingKeepsRows DEF LeasesOfOwnSubnet, SubnetsOf
<1>8. ASSUME NEW p \in Ports, NEW n \in Networks, NEW fixed \in BOOLEAN,
             AddPort(p, n, fixed)
      PROVE  LeasesOfOwnSubnet'
  <2>1. LET row == Served(Row(n, "vif", "bare", None), n, fixed)
        IN /\ row.net = n /\ row.kind = "vif"
           /\ row.dhcp # None => row.dhcp \in SubnetsOf(n)
    BY NewRow, ServedRow
  <2>2. subnet' = subnet /\ lsp' = [lsp EXCEPT ![p] = Served(Row(n, "vif", "bare", None), n, fixed)]
    BY <1>8 DEF AddPort
  <2> QED
    BY <2>1, <2>2 DEF LeasesOfOwnSubnet, SubnetsOf, LiveSubnets, LivePorts
<1>9. ASSUME NEW p \in Ports, NEW n \in Networks, NEW fixed \in BOOLEAN,
             UpdatePort(p, n, fixed)
      PROVE  LeasesOfOwnSubnet'
  <2>1. p \in LivePorts /\ n = lsp[p].net /\ lsp[p].kind # "router"
    BY <1>9 DEF UpdatePort
  <2>2. LET row == Served(lsp[p], n, fixed)
        IN /\ row.net = n /\ row.kind # "router"
           /\ row.dhcp # None => row.dhcp \in SubnetsOf(n)
    BY <2>1, LiveRows, ServedRow DEF LeasesOfOwnSubnet
  <2>3. subnet' = subnet /\ lsp' = [lsp EXCEPT ![p] = Served(lsp[p], n, fixed)]
    BY <1>9 DEF UpdatePort
  <2> QED
    BY <2>1, <2>2, <2>3 DEF LeasesOfOwnSubnet, SubnetsOf, LiveSubnets, LivePorts
<1>10. ASSUME NEW p \in Ports, NEW n \in Networks,
             AddPortRefused(p, n)
      PROVE  LeasesOfOwnSubnet'
  BY <1>10
  DEF AddPortRefused, LeasesOfOwnSubnet, SubnetsOf, LiveSubnets, LivePorts, Row
<1>11. ASSUME NEW p \in Ports,
             DeletePort(p)
      PROVE  LeasesOfOwnSubnet'
  BY <1>11
  DEF DeletePort, PortsWithout, LeasesOfOwnSubnet, SubnetsOf, LiveSubnets, LivePorts,
      portVars
<1>12. ASSUME NEW r \in Routers,
             AddRouter(r)
      PROVE  LeasesOfOwnSubnet'
  BY <1>12
  DEF AddRouter, LeasesOfOwnSubnet, SubnetsOf, LiveSubnets, LivePorts, portVars
<1>13. ASSUME NEW r \in Routers,
             DeleteRouter(r)
      PROVE  LeasesOfOwnSubnet'
  BY <1>13
  DEF DeleteRouter, LeasesOfOwnSubnet, SubnetsOf, LiveSubnets, LivePorts, portVars
<1>14. ASSUME NEW r \in Routers, NEW s \in Subnets, NEW p \in Ports,
             AddInterfaceBySubnet(r, s, p)
      PROVE  LeasesOfOwnSubnet'
  <2>1. SubnetsKept
    BY <1>14, ConnectingKeepsSubnets
  <2>2. subnet[s].net \in Networks
    BY <1>14, LiveRows DEF AddInterfaceBySubnet, SubnetRows
  <2>3. Row(subnet[s].net, "router", "router", None).dhcp = None
    BY <2>2, NewRow
  <2>4. lsp' = [lsp EXCEPT ![p] = Row(subnet[s].net, "router", "router", None)]
    BY <1>14 DEF AddInterfaceBySubnet
  <2> QED
    BY <2>1, <2>3, <2>4 DEF LeasesOfOwnSubnet, SubnetsOf, SubnetsKept, LivePorts
<1>15. ASSUME NEW r \in Routers, NEW p \in Ports, NEW ip \in Addresses,
             AddInterfaceByPort(r, p, ip)
      PROVE  LeasesOfOwnSubnet'
  <2>1. p \in LivePorts /\ lsp' = [lsp EXCEPT ![p] = Plugged(lsp[p])] /\ subnet' = subnet
    BY <1>15 DEF AddInterfaceByPort
  <2>2. /\ Plugged(lsp[p]).net = lsp[p].net
        /\ Plugged(lsp[p]).dhcp \in {lsp[p].dhcp, None}
        /\ Plugged(lsp[p]).dhcp # None => subnet[lsp[p].dhcp].version # 4
    BY <2>1, LiveRows, PluggedRow
  <2>3. \A s \in LiveSubnets : subnet[s].version \in {4, 6}
    BY LiveRows DEF SubnetRows
  <2> QED
    BY <2>1, <2>2, <2>3 DEF LeasesOfOwnSubnet, SubnetsOf, LiveSubnets, LivePorts
<1>16. ASSUME NEW r \in Routers, NEW p \in Ports,
             DeleteInterfaceByPort(r, p)
      PROVE  LeasesOfOwnSubnet'
  <2>1. SubnetsKept
    BY <1>16, RemovalKeepsSubnets
  <2>2. lsp' = PortsWithout({p})
    BY <1>16 DEF DeleteInterfaceByPort
  <2> QED
    BY <2>1, <2>2 DEF LeasesOfOwnSubnet, SubnetsOf, SubnetsKept, LivePorts, PortsWithout
<1>17. ASSUME NEW r \in Routers, NEW s \in Subnets,
             DeleteInterfaceBySubnet(r, s)
      PROVE  LeasesOfOwnSubnet'
  <2>1. SubnetsKept
    BY <1>17, ReleaseKeepsSubnets
  <2>2. \A q \in LivePorts' : q \in LivePorts /\ lsp'[q] = lsp[q]
    BY <1>17 DEF DeleteInterfaceBySubnet, PortsWithout, LivePorts
  <2> QED
    BY <2>1, <2>2 DEF LeasesOfOwnSubnet, SubnetsOf, SubnetsKept
<1>18. CASE UNCHANGED vars
  BY <1>18 DEF vars, LeasesOfOwnSubnet, SubnetsOf, LiveSubnets, LivePorts
<1> QED
  BY <1>1, <1>2, <1>3, <1>4, <1>5, <1>6, <1>7, <1>8, <1>9, <1>10, <1>11, <1>12, <1>13,
     <1>14, <1>15, <1>16, <1>17, <1>18
  DEF Next

\* What is asked of a request for a subnet that stays connected: the MTU of its network
\* and the ports that connect it with the gateway address stay as they are.
LEMMA SteadyPort ==
  ASSUME GatewayHasPort, NEW found, Remember(found),
         NEW s \in LiveSubnets' \ ambiguous', s \in LiveSubnets,
         subnet'[s].router # None,
         subnet'[s].router = subnet[s].router,
         subnet'[s].net = subnet[s].net,
         subnet'[s].version = subnet[s].version,
         netMtu'[subnet[s].net] = netMtu[subnet[s].net],
         \A q \in Interfaces(subnet[s].router) :
           lsp[q].net = subnet[s].net /\ lrp[q].ip = subnet[s].gateway =>
             lrp'[q] = lrp[q] /\ lsp'[q].net = lsp[q].net
  PROVE  HasPort(s)'
<1>1. s \notin ambiguous /\ subnet'[s].gateway = subnet[s].gateway
  BY Remembered
<1>2. PICK q \in Interfaces(subnet[s].router) :
        /\ lsp[q].net = subnet[s].net
        /\ lrp[q].ip = subnet[s].gateway
        /\ subnet[s].version = 6 /\ IsSet(netMtu[subnet[s].net]) =>
             lrp[q].mtu = netMtu[subnet[s].net]
  BY <1>1 DEF GatewayHasPort, HasPort
<1>3. q \in Ports /\ lrp'[q] = lrp[q] /\ lrp[q] # None /\ lsp'[q].net = lsp[q].net
  BY <1>2 DEF Interfaces
<1>4. q \in Interfaces(subnet[s].router)'
  BY <1>2, <1>3 DEF Interfaces
<1> QED
  BY <1>1, <1>2, <1>3, <1>4 DEF HasPort

\* The same of a request that leaves the router ports alone, and of their switch ports the
\* network.
RouterSidesKept ==
  \A q \in Ports : lrp[q] # None => lrp'[q] = lrp[q] /\ lsp'[q].net = lsp[q].net

LEMMA SteadyPorts ==
  ASSUME GatewayHasPort, NEW found, Remember(found), RouterSidesKept, LiveSubnets' \subseteq LiveSubnets,
         \A s \in LiveSubnets' :
           /\ subnet'[s].router \in {None, subnet[s].router}
           /\ subnet'[s].net = subnet[s].net
           /\ subnet'[s].version = subnet[s].version
           /\ s \notin ambiguous' => netMtu'[subnet[s].net] = netMtu[subnet[s].net]
  PROVE  GatewayHasPort'
BY SteadyPort DEF GatewayHasPort, RouterSidesKept, Interfaces

LEMMA StepGatewayHasPort == TypeOK /\ Wiring /\ GatewayHasPort /\ [Next]_vars => GatewayHasPort'
<1> SUFFICES ASSUME TypeOK, Wiring, GatewayHasPort, [Next]_vars PROVE GatewayHasPort'
  OBVIOUS
<1> USE DhcpAssumption
<1>1. ASSUME NEW n \in Networks, NEW m \in Mtus \cup {None}, NEW p \in NewNames,
             AddNetwork(n, m, p)
      PROVE  GatewayHasPort'
  <2>1. \A s \in LiveSubnets : subnet[s].net # n /\ subnet[s].net \in Networks
    BY <1>1, LiveRows DEF AddNetwork, SubnetsOf, SubnetRows
  <2>2. /\ netMtu' = [netMtu EXCEPT ![n] = m]
        /\ Remember({})
        /\ UNCHANGED <<subnet, lrp>>
    BY <1>1 DEF AddNetwork
  <2>3. RouterSidesKept
    BY <1>1 DEF AddNetwork, RouterSidesKept, Wiring, LivePorts, NewNames, Fresh, TypeOK
  <2>4. \A s \in LiveSubnets : netMtu'[subnet[s].net] = netMtu[subnet[s].net]
    BY <2>1, <2>2 DEF TypeOK
  <2>5. LiveSubnets' = LiveSubnets
    BY <2>2 DEF LiveSubnets
  <2> QED
    BY <2>2, <2>3, <2>4, <2>5, SteadyPorts
<1>2. ASSUME NEW n \in Networks, NEW m \in Mtus \cup {None}, NEW p \in NewNames,
             UpdateNetwork(n, m, p)
      PROVE  GatewayHasPort'
  <2> DEFINE found == IF IsSet(m) THEN Mistaken(n) ELSE {}
  <2>1. /\ netMtu' = [netMtu EXCEPT ![n] = IF m = None THEN netMtu[n] ELSE m]
        /\ SetAdvertised(n, m) /\ SetLocalnet(n, p)
        /\ Remember(found)
    BY <1>2 DEF UpdateNetwork
  <2>2. /\ SubnetsKept /\ RouterPortsKept
        /\ \A s \in LiveSubnets : subnet'[s].router = subnet[s].router
    BY <1>2, MtuKeepsSubnets, AdvertisingKeepsRouterPorts DEF UpdateNetwork
  <2>3. \A q \in Ports : lrp[q] # None => q \in LivePorts /\ lsp'[q] = lsp[q]
    BY <2>1, LocalnetKeepsPorts DEF Wiring
  <2> SUFFICES ASSUME NEW s \in LiveSubnets', s \notin ambiguous', subnet'[s].router # None
               PROVE  HasPort(s)'
    BY DEF GatewayHasPort
  <2>4. /\ s \in LiveSubnets /\ subnet[s].router # None /\ s \notin ambiguous
        /\ subnet'[s].gateway = subnet[s].gateway /\ subnet[s].gateway \notin found
        /\ subnet'[s].net = subnet[s].net /\ subnet'[s].version = subnet[s].version
        /\ subnet'[s].router = subnet[s].router
    BY <2>1, <2>2, Remembered DEF SubnetsKept
  <2>5. /\ s \in Subnets /\ subnet[s].net \in Networks /\ s \in SubnetsOf(subnet[s].net)
    BY <2>4, LiveRows DEF SubnetsOf, SubnetRows
  <2>6. CASE subnet[s].net = n /\ IsSet(m) /\ subnet[s].version = 6
    <3>1. PICK p0 \in Interfaces(subnet[s].router) : lrp[p0].ip = subnet[s].gateway
      BY <2>4 DEF GatewayHasPort, HasPort
    <3>2. p0 \in GatewayPorts(s)
      BY <3>1 DEF GatewayPorts, Interfaces
    <3>3. Advertisers(n) = GatewayPorts(s)
      BY <2>4, <2>5, <2>6 DEF Advertisers, Wiring, SubnetsOf
    <3>4. PICK q \in GatewayPorts(s) : lrp'[q] = [lrp[q] EXCEPT !.mtu = m]
      BY <2>1, <2>6, <3>2, <3>3, AdvertisedSet
    <3>5. /\ q \in Ports /\ lrp[q] # None /\ lrp[q] \in RouterPortRows
          /\ lrp[q].ip = subnet[s].gateway /\ lrp[q].router = subnet[s].router
      BY <2>4, <3>4, LiveRows DEF GatewayPorts
    <3>6. lsp[q].net = n
      BY <2>4, <2>6, <3>3, <3>4, <3>5 DEF Mistaken
    <3>7. /\ lrp'[q].ip = subnet[s].gateway /\ lrp'[q].mtu = m
          /\ lrp'[q] # None /\ lrp'[q].router = subnet[s].router /\ lsp'[q].net = n
      BY <2>2, <2>3, <3>4, <3>5, <3>6 DEF RouterPortRows, RouterPortsKept
    <3>8. netMtu'[subnet[s].net] = m
      BY <2>1, <2>6 DEF TypeOK, IsSet
    <3> QED
      BY <2>4, <2>6, <3>5, <3>7, <3>8 DEF HasPort, Interfaces
  <2>7. CASE subnet[s].net # n
    <3>1. ASSUME NEW q \in Ports, lrp[q] # None,
                 lsp[q].net = subnet[s].net, lrp[q].ip = subnet[s].gateway
          PROVE  lrp'[q] = lrp[q]
      <4>1. ASSUME IsSet(m), q \in Advertisers(n) PROVE FALSE
        BY <2>4, <2>7, <3>1, <4>1 DEF Mistaken
      <4> QED
        BY <2>1, <4>1, AdvertisedSet
    <3>2. netMtu'[subnet[s].net] = netMtu[subnet[s].net]
      BY <2>1, <2>5, <2>7 DEF TypeOK
    <3> QED
      BY <2>1, <2>3, <2>4, <3>1, <3>2, SteadyPort DEF Interfaces
  <2>8. CASE subnet[s].net = n /\ ~IsSet(m)
    <3>1. lrp' = lrp
      BY <2>1, <2>8 DEF SetAdvertised
    <3>2. PICK q \in Interfaces(subnet[s].router) :
            /\ lsp[q].net = n /\ lrp[q].ip = subnet[s].gateway
            /\ subnet[s].version = 6 /\ IsSet(netMtu[n]) => lrp[q].mtu = netMtu[n]
      BY <2>4, <2>8 DEF GatewayHasPort, HasPort
    <3>3. IsSet(netMtu'[n]) => netMtu'[n] = netMtu[n]
      BY <2>1, <2>8 DEF TypeOK, IsSet
    <3>4. q \in Ports /\ lrp[q] # None /\ lsp'[q] = lsp[q]
      BY <2>3, <3>2 DEF Interfaces
    <3> QED
      BY <2>4, <2>8, <3>1, <3>2, <3>3, <3>4 DEF HasPort, Interfaces
  <2>9. CASE subnet[s].net = n /\ subnet[s].version # 6
    <3>1. PICK q \in Interfaces(subnet[s].router) :
            lsp[q].net = n /\ lrp[q].ip = subnet[s].gateway
      BY <2>4, <2>9 DEF GatewayHasPort, HasPort
    <3>2. /\ q \in Ports /\ lrp[q] # None /\ lsp'[q] = lsp[q]
          /\ lrp'[q] # None /\ lrp'[q].router = lrp[q].router /\ lrp'[q].ip = lrp[q].ip
      BY <2>2, <2>3, <3>1 DEF Interfaces, RouterPortsKept
    <3> QED
      BY <2>4, <2>9, <3>1, <3>2 DEF HasPort, Interfaces
  <2> QED
    BY <2>6, <2>7, <2>8, <2>9
<1>3. ASSUME NEW n \in Networks, NEW m \in Mtus,
             UpdateNetworkCutShort(n, m)
      PROVE  GatewayHasPort'
  <2>1. /\ netMtu' = [netMtu EXCEPT ![n] = m]
        /\ Remember({})
        /\ UNCHANGED <<lrp, lsp>>
    BY <1>3 DEF UpdateNetworkCutShort, portVars
  <2>2. /\ SubnetsKept
        /\ \A s \in LiveSubnets : subnet'[s].router = subnet[s].router
    BY <1>3, MtuKeepsSubnets DEF UpdateNetworkCutShort
  <2>3. PICK t \in SubnetsOf(n) : RouterLost(t)
    BY <1>3 DEF UpdateNetworkCutShort
  <2>4. t \in LiveSubnets /\ subnet[t].net = n /\ subnet[t].router \notin routers \cup {None}
    BY <2>3 DEF SubnetsOf, RouterLost
  <2>5. \A q \in Interfaces(subnet[t].router) : FALSE
    BY <2>4 DEF Wiring, Interfaces
  <2>6. t \in ambiguous
    BY <2>4, <2>5 DEF GatewayHasPort, HasPort
  <2>7. t \in ambiguous'
    BY <2>1, <2>2, <2>4, <2>6 DEF Remember, SubnetsKept
  <2>8. \A s \in LiveSubnets : s \notin ambiguous' => netMtu'[subnet[s].net] = netMtu[subnet[s].net]
    BY <2>1, <2>4, <2>7, LiveRows DEF Wiring, SubnetRows, TypeOK
  <2>9. RouterSidesKept
    BY <2>1 DEF RouterSidesKept
  <2> QED
    BY <2>1, <2>2, <2>8, <2>9, SteadyPorts DEF SubnetsKept
<1>4. ASSUME NEW n \in Networks,
             DeleteNetwork(n)
      PROVE  GatewayHasPort'
  <2>1. /\ netMtu' = [netMtu EXCEPT ![n] = None]
        /\ Remember({})
        /\ UNCHANGED lrp
    BY <1>4 DEF DeleteNetwork
  <2>2. RouterSidesKept
    BY <1>4, <2>1, DeletingKeepsRows DEF RouterSidesKept, Wiring
  <2>3. \A s \in LiveSubnets \ SubnetsOf(n) : subnet[s].net # n /\ subnet[s].net \in Networks
    BY LiveRows DEF SubnetsOf, SubnetRows
  <2>4. \A s \in LiveSubnets' : s \in LiveSubnets /\ netMtu'[subnet[s].net] = netMtu[subnet[s].net]
    BY <1>4, <2>1, <2>3, DeletingKeepsRows DEF TypeOK
  <2>5. /\ LiveSubnets' \subseteq LiveSubnets
        /\ \A s \in LiveSubnets' : subnet'[s] = subnet[s]
    BY <1>4, DeletingKeepsRows
  <2> QED
    BY <2>1, <2>2, <2>4, <2>5, SteadyPorts
<1>5. ASSUME NEW s \in Subnets, NEW n \in Networks, NEW version \in {4, 6},
             NEW mode \in Modes \cup {"none"}, NEW g \in AddressesOf(version) \cup {None},
             AddSubnet(s, n, version, mode, g)
      PROVE  GatewayHasPort'
  <2>1. /\ LiveSubnets' \subseteq LiveSubnets \cup {s}
        /\ subnet'[s].router = None
        /\ \A t \in LiveSubnets : t # s /\ subnet'[t] = subnet[t]
        /\ Remember({})
        /\ UNCHANGED <<netMtu, lrp, lsp>>
    BY <1>5 DEF AddSubnet, LiveSubnets, TypeOK, portVars
  <2> SUFFICES ASSUME NEW t \in LiveSubnets' \ ambiguous', subnet'[t].router # None
               PROVE  HasPort(t)'
    BY DEF GatewayHasPort
  <2>2. t \in LiveSubnets /\ subnet'[t] = subnet[t]
    BY <2>1
  <2> QED
    BY <2>1, <2>2, SteadyPort
<1>6. ASSUME NEW s \in LiveSubnets, NEW g \in AddressesOf(subnet[s].version),
             UpdateSubnet(s, g)
      PROVE  GatewayHasPort'
  <2>1. Remember({}) /\ UNCHANGED <<netMtu, lrp, lsp>>
    BY <1>6 DEF UpdateSubnet, portVars
  <2>2. RouterSidesKept
    BY <2>1 DEF RouterSidesKept
  <2> QED
    BY <1>6, <2>1, <2>2, MovingKeepsSubnets, SteadyPorts
<1>7. ASSUME NEW s \in Subnets,
             DeleteSubnet(s)
      PROVE  GatewayHasPort'
  <2>1. Remember({}) /\ UNCHANGED <<netMtu, lrp>>
    BY <1>7 DEF DeleteSubnet
  <2>2. RouterSidesKept
    BY <1>7, <2>1, DroppingKeepsRows DEF RouterSidesKept, Wiring
  <2> QED
    BY <1>7, <2>1, <2>2, DroppingKeepsRows, SteadyPorts
<1>8. ASSUME NEW p \in Ports, NEW n \in Networks, NEW fixed \in BOOLEAN,
             AddPort(p, n, fixed)
      PROVE  GatewayHasPort'
  <2>1. Remember({}) /\ UNCHANGED <<netMtu, subnet, lrp>> /\ LiveSubnets' = LiveSubnets
    BY <1>8 DEF AddPort, LiveSubnets
  <2>2. RouterSidesKept
    BY <1>8 DEF AddPort, RouterSidesKept, Fresh, TypeOK
  <2> QED
    BY <2>1, <2>2, SteadyPorts
<1>9. ASSUME NEW p \in Ports, NEW n \in Networks, NEW fixed \in BOOLEAN,
             UpdatePort(p, n, fixed)
      PROVE  GatewayHasPort'
  <2>1. Remember({}) /\ UNCHANGED <<netMtu, subnet, lrp>> /\ LiveSubnets' = LiveSubnets
    BY <1>9 DEF UpdatePort, LiveSubnets
  <2>2. RouterSidesKept
    BY <1>9 DEF UpdatePort, RouterSidesKept, Wiring, TypeOK
  <2> QED
    BY <2>1, <2>2, SteadyPorts
<1>10. ASSUME NEW p \in Ports, NEW n \in Networks,
             AddPortRefused(p, n)
      PROVE  GatewayHasPort'
  <2>1. Remember({}) /\ UNCHANGED <<netMtu, subnet, lrp>> /\ LiveSubnets' = LiveSubnets
    BY <1>10 DEF AddPortRefused, LiveSubnets
  <2>2. RouterSidesKept
    BY <1>10 DEF AddPortRefused, RouterSidesKept, Fresh, TypeOK
  <2> QED
    BY <2>1, <2>2, SteadyPorts
<1>11. ASSUME NEW p \in Ports,
             DeletePort(p)
      PROVE  GatewayHasPort'
  <2>1. Remember({}) /\ UNCHANGED <<netMtu, subnet, lrp>> /\ LiveSubnets' = LiveSubnets
    BY <1>11 DEF DeletePort, LiveSubnets
  <2>2. RouterSidesKept
    BY <1>11 DEF DeletePort, PortsWithout, RouterSidesKept, Wiring
  <2> QED
    BY <2>1, <2>2, SteadyPorts
<1>12. ASSUME NEW r \in Routers,
             AddRouter(r)
      PROVE  GatewayHasPort'
  <2>1. Remember({}) /\ UNCHANGED <<netMtu, subnet, lrp, lsp>> /\ LiveSubnets' = LiveSubnets
    BY <1>12 DEF AddRouter, LiveSubnets, portVars
  <2> QED
    BY <2>1, SteadyPorts DEF RouterSidesKept
<1>13. ASSUME NEW r \in Routers,
             DeleteRouter(r)
      PROVE  GatewayHasPort'
  <2>1. Remember({}) /\ UNCHANGED <<netMtu, subnet, lrp, lsp>> /\ LiveSubnets' = LiveSubnets
    BY <1>13 DEF DeleteRouter, LiveSubnets, portVars
  <2> QED
    BY <2>1, SteadyPorts DEF RouterSidesKept
<1>14. ASSUME NEW r \in Routers, NEW s \in Subnets, NEW p \in Ports,
             AddInterfaceBySubnet(r, s, p)
      PROVE  GatewayHasPort'
  <2>1. /\ s \in LiveSubnets /\ subnet[s] \in SubnetRows
        /\ lrp[p] = None /\ lsp[p] = None /\ subnet[s].gateway # None
        /\ lrp' = [lrp EXCEPT ![p] = RouterPort(r, subnet[s].gateway, s)]
        /\ lsp' = [lsp EXCEPT ![p] = Row(subnet[s].net, "router", "router", None)]
        /\ Remember({})
        /\ netMtu' = netMtu
    BY <1>14, LiveRows DEF AddInterfaceBySubnet, Fresh
  <2>2. /\ SubnetsKept
        /\ \A t \in LiveSubnets : subnet'[t].router = IF t = s THEN r ELSE subnet[t].router
    BY <1>14, ConnectingKeepsSubnets
  <2>3. RouterPort(r, subnet[s].gateway, s) \in RouterPortRows
    BY <1>14, <2>1 DEF AddInterfaceBySubnet, RouterPort, RouterPortRows, SubnetRows, TypeOK
  <2>4. /\ p \in Interfaces(r)' /\ lrp'[p].ip = subnet[s].gateway /\ lsp'[p].net = subnet[s].net
        /\ subnet[s].version = 6 => lrp'[p].mtu = netMtu[subnet[s].net]
    <3>1. subnet[s].net \in Networks
      BY <2>1 DEF SubnetRows
    <3> QED
      BY <2>1, <2>3, <3>1, NewRow DEF Interfaces, RouterPort, TypeOK
  <2>5. \A q \in Ports : lrp[q] # None => lrp'[q] = lrp[q] /\ lsp'[q] = lsp[q]
    BY <2>1 DEF TypeOK
  <2> SUFFICES ASSUME NEW t \in LiveSubnets' \ ambiguous', subnet'[t].router # None
               PROVE  HasPort(t)'
    BY DEF GatewayHasPort
  <2>6. CASE t = s
    BY <2>1, <2>2, <2>4, <2>6 DEF HasPort, SubnetsKept
  <2>7. CASE t # s
    BY <2>1, <2>2, <2>5, <2>7, SteadyPort DEF SubnetsKept, Interfaces
  <2> QED
    BY <2>6, <2>7
<1>15. ASSUME NEW r \in Routers, NEW p \in Ports, NEW ip \in Addresses,
             AddInterfaceByPort(r, p, ip)
      PROVE  GatewayHasPort'
  <2>1. PICK t : lrp' = [lrp EXCEPT ![p] = RouterPort(r, ip, t)]
    BY <1>15 DEF AddInterfaceByPort
  <2>2. /\ lrp[p] = None /\ Remember({}) /\ UNCHANGED <<netMtu, subnet>>
        /\ lsp' = [lsp EXCEPT ![p] = Plugged(lsp[p])]
    BY <1>15 DEF AddInterfaceByPort, Wiring
  <2>3. RouterSidesKept
    BY <2>1, <2>2 DEF RouterSidesKept, TypeOK
  <2> QED
    BY <2>2, <2>3, SteadyPorts DEF LiveSubnets
<1>16. ASSUME NEW r \in Routers, NEW p \in Ports,
             DeleteInterfaceByPort(r, p)
      PROVE  GatewayHasPort'
  <2>1. /\ SubnetsKept
        /\ \A s \in LiveSubnets :
             subnet'[s].router = IF subnet[s].net = lsp[p].net /\ subnet[s].gateway = lrp[p].ip
                                 THEN None ELSE subnet[s].router
    BY <1>16, RemovalKeepsSubnets
  <2>2. /\ lrp' = [lrp EXCEPT ![p] = None] /\ lsp' = PortsWithout({p})
        /\ Remember({}) /\ netMtu' = netMtu
    BY <1>16 DEF DeleteInterfaceByPort
  <2>3. \A q \in Ports \ {p} : lrp'[q] = lrp[q] /\ lsp'[q] = lsp[q]
    BY <2>2 DEF PortsWithout, TypeOK
  <2> SUFFICES ASSUME NEW s \in LiveSubnets' \ ambiguous', subnet'[s].router # None
               PROVE  HasPort(s)'
    BY DEF GatewayHasPort
  <2>4. /\ s \in LiveSubnets /\ subnet'[s].router = subnet[s].router
        /\ ~(subnet[s].net = lsp[p].net /\ subnet[s].gateway = lrp[p].ip)
    BY <2>1 DEF SubnetsKept
  <2> QED
    BY <2>1, <2>2, <2>3, <2>4, SteadyPort DEF SubnetsKept, Interfaces
<1>17. ASSUME NEW r \in Routers, NEW s \in Subnets,
             DeleteInterfaceBySubnet(r, s)
      PROVE  GatewayHasPort'
  <2> DEFINE gone == {q \in Interfaces(r) : lsp[q].net = subnet[s].net}
  <2>1. /\ SubnetsKept
        /\ \A t \in LiveSubnets :
             subnet'[t].router = IF t = s /\ subnet[t].router = r THEN None ELSE subnet[t].router
    BY <1>17, ReleaseKeepsSubnets
  <2>2. /\ s \in LiveSubnets
        /\ lrp' = [q \in Ports |-> IF q \in gone THEN None ELSE lrp[q]]
        /\ lsp' = PortsWithout(gone)
        /\ Remember({}) /\ netMtu' = netMtu
    BY <1>17 DEF DeleteInterfaceBySubnet
  <2>3. \A q \in Ports \ gone : lrp'[q] = lrp[q] /\ lsp'[q] = lsp[q]
    BY <2>2 DEF PortsWithout
  <2> SUFFICES ASSUME NEW t \in LiveSubnets' \ ambiguous', subnet'[t].router # None
               PROVE  HasPort(t)'
    BY DEF GatewayHasPort
  <2>4. t \in LiveSubnets /\ subnet'[t].router = subnet[t].router /\ ~(t = s /\ subnet[t].router = r)
    BY <2>1 DEF SubnetsKept
  <2>5. ASSUME NEW q \in Interfaces(subnet[t].router), lsp[q].net = subnet[t].net
        PROVE  q \in Ports \ gone
    <3>1. q \in Ports /\ lrp[q].router = subnet[t].router
      BY DEF Interfaces
    <3>2. ASSUME q \in gone PROVE FALSE
      <4>1. lrp[q].router = r /\ lsp[q].net = subnet[s].net
        BY <3>2 DEF Interfaces
      <4>2. t = s
        BY <2>2, <2>4, <2>5, <4>1 DEF Wiring
      <4> QED
        BY <2>4, <3>1, <4>1, <4>2
    <3> QED
      BY <3>1, <3>2
  <2> HIDE DEF gone
  <2> QED
    BY <2>1, <2>2, <2>3, <2>4, <2>5, SteadyPort DEF SubnetsKept
<1>18. CASE UNCHANGED vars
  BY <1>18 DEF vars, GatewayHasPort, HasPort, LiveSubnets, Interfaces
<1> QED
  BY <1>1, <1>2, <1>3, <1>4, <1>5, <1>6, <1>7, <1>8, <1>9, <1>10, <1>11, <1>12, <1>13,
     <1>14, <1>15, <1>16, <1>17, <1>18
  DEF Next

-----------------------------------------------------------------------------
(* The theorems *)

LEMMA StepIInv == IInv /\ [Next]_vars => IInv'
BY StepTypeOK, StepWiring, StepLeasesHaveNetworkMtu, StepOneLocalnet, StepLeasesOfOwnSubnet,
   StepGatewayHasPort
DEF IInv

LEMMA Invariance == Spec => []IInv
BY InitIInv, StepIInv, PTL DEF Spec

\* Every reachable state has the types of the rows.
THEOREM TypeCorrect == Spec => []TypeOK
<1>1. IInv => TypeOK
  BY DEF IInv
<1> QED
  BY <1>1, Invariance, PTL

\* Whatever requests come in whatever order, those that fail half-way included, a subnet
\* offers the MTU of its network once that was set.
THEOREM LeasesKeepUp == Spec => []LeasesHaveNetworkMtu
<1>1. IInv => LeasesHaveNetworkMtu
  BY DEF IInv
<1> QED
  BY <1>1, Invariance, PTL

\* No port is offered the lease of another network's subnet, and none on a router one
\* of IPv4.
THEOREM LeasesStayHome == Spec => []LeasesOfOwnSubnet
<1>1. IInv => LeasesOfOwnSubnet
  BY DEF IInv
<1> QED
  BY <1>1, Invariance, PTL

\* A connected IPv6 subnet whose gateway address was neither changed since nor taken for
\* that of another network, though another may have the same, has a router port with that
\* address which advertises the MTU of its network.
THEOREM GatewaysKeepUp == Spec => []GatewayAdvertisesMtu
<1>1. ASSUME GatewayHasPort PROVE GatewayAdvertisesMtu
  BY <1>1 DEF GatewayHasPort, HasPort, GatewayAdvertisesMtu
<1>2. IInv => GatewayAdvertisesMtu
  BY <1>1 DEF IInv
<1> QED
  BY <1>2, Invariance, PTL

\* No network has two ports to physical networks.
THEOREM LocalnetsUnique == Spec => []OneLocalnet
<1>1. IInv => OneLocalnet
  BY DEF IInv
<1> QED
  BY <1>1, Invariance, PTL

=============================================================================
