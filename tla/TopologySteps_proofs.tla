------------------------ MODULE TopologySteps_proofs ------------------------
(* Proofs about TopologySteps: requests as jobs of one transaction each, for *)
(* every set of rows and whatever faults there are, but for those a theorem  *)
(* names.                                                                    *)
EXTENDS TopologySteps, Topology_proofs

\* Requests that give a router an external gateway, and that take a port off a
\* router in _delete_router_interface_by_port.
GatewayOps == {"addRouter", "updateRouter"}
RemovalOps == {"updateRouter", "deleteRouter", "removePort"}
AttachOps == {"attachSubnet", "attachPort"}
RemovalPlaces == {"dropRouterPort", "dropPort", "disconnect", "unkey", "unroute", "release"}

\* Which requests come to which write.
Placed(op, at) ==
  /\ at = "row" => op \in {"addSubnet", "addSubnetAtOnce"}
  /\ at = "options" => op = "addSubnet"
  /\ at = "dropSubnet" => op \in {"deleteSubnet", "deleteNetwork"}
  /\ at = "dropNetwork" => op = "deleteNetwork"
  /\ at = "setPort" => op = "updatePort"
  /\ at = "clear" => op \in {"updateRoutes", "updateRouter"}
  /\ at = "reserve" => op \in GatewayOps
  /\ at = "router" => op \in {"addRouter", "addRouterRoute"}
  /\ at = "userRoute" => op \in {"addRouterRoute", "updateRoutes"}
  /\ at = "port" => op \in GatewayOps \cup {"addPort", "attachSubnet"}
  /\ at \in {"routerPort", "own", "plug"} => op \in GatewayOps \cup AttachOps
  /\ at = "connect" => op = "attachSubnet"
  /\ at \in {"key", "route"} => op \in GatewayOps
  /\ at \in {"dropRouterPort", "disconnect"} => op \in RemovalOps \cup {"detachSubnet"}
  /\ at = "dropPort" => op \in RemovalOps \cup {"detachSubnet", "deletePort"}
  /\ at \in {"unkey", "unroute", "release"} => op \in RemovalOps
  /\ at = "visit" => op = "detachSubnet"
  /\ at = "dropRouter" => op = "deleteRouter"

NeedsOld(op, at) ==
  at \in {"dropRouterPort", "dropPort"} \/ (op \in RemovalOps /\ at \in RemovalPlaces)

\* The local variables that a request has set before its first write.
Filled(j) ==
  /\ j.op \in {"addSubnet", "addSubnetAtOnce", "deleteSubnet", "attachSubnet", "detachSubnet"}
       => j.sub # None
  /\ j.op \in GatewayOps \cup AttachOps \cup
              {"addSubnet", "addSubnetAtOnce", "deleteNetwork", "addPort"}
       => j.net # None
  /\ j.op \in GatewayOps \cup AttachOps \cup {"addPort", "updatePort"} => j.port # None
  /\ j.op \in GatewayOps \cup {"attachSubnet", "addPort", "updatePort"} => j.row # None
  /\ j.op \in GatewayOps \cup AttachOps => j.ip # None
  /\ j.op \in GatewayOps \cup AttachOps \cup RemovalOps \cup
              {"addRouterRoute", "updateRoutes", "detachSubnet"}
       => j.router # None
  /\ NeedsOld(j.op, j.at) => j.old # None
  /\ j.op \in RemovalOps /\ j.old # None => j.oldNet # None /\ j.oldIp # None

GoodJobs == {j \in Jobs : Placed(j.op, j.at) /\ Filled(j)}

\* The inductive form of StepsTypeOK: a write finds in the local variables what it
\* needs, also when it is committed long after its request.
TypedSteps == TypeOK /\ job \in GoodJobs \cup {None} /\ late \in Seq(GoodJobs)

-----------------------------------------------------------------------------
(* Jobs *)

LEMMA JobIsJob ==
  ASSUME NEW op \in Ops, NEW at \in Places
  PROVE  Job(op, at) \in Jobs
BY DEF Job, Jobs

LEMMA JobSet ==
  ASSUME NEW j \in Jobs
  PROVE  /\ \A v \in Routers \cup {None} : [j EXCEPT !.router = v] \in Jobs
         /\ \A v \in Ports \cup {None} : [j EXCEPT !.port = v] \in Jobs
         /\ \A v \in PortRows \cup {None} : [j EXCEPT !.row = v] \in Jobs
         /\ \A v \in Networks \cup {None} : [j EXCEPT !.net = v] \in Jobs
         /\ \A v \in IPs \cup {None} : [j EXCEPT !.ip = v] \in Jobs
         /\ \A v \in Subnets \cup {None} : [j EXCEPT !.sub = v] \in Jobs
         /\ \A v \in Ports \cup {None} : [j EXCEPT !.old = v] \in Jobs
         /\ \A v \in Networks \cup {None} : [j EXCEPT !.oldNet = v] \in Jobs
         /\ \A v \in IPs \cup {None} : [j EXCEPT !.oldIp = v] \in Jobs
         /\ \A v \in SUBSET Ports : [j EXCEPT !.todo = v] \in Jobs
         /\ \A v \in SUBSET IPs : [j EXCEPT !.value = v] \in Jobs
         /\ \A v \in Places : [j EXCEPT !.at = v] \in Jobs
<1>1. \A v \in Routers \cup {None} : [j EXCEPT !.router = v] \in Jobs
  BY DEF Jobs
<1>2. \A v \in Ports \cup {None} : [j EXCEPT !.port = v] \in Jobs
  BY DEF Jobs
<1>3. \A v \in PortRows \cup {None} : [j EXCEPT !.row = v] \in Jobs
  BY DEF Jobs
<1>4. \A v \in Networks \cup {None} : [j EXCEPT !.net = v] \in Jobs
  BY DEF Jobs
<1>5. \A v \in IPs \cup {None} : [j EXCEPT !.ip = v] \in Jobs
  BY DEF Jobs
<1>6. \A v \in Subnets \cup {None} : [j EXCEPT !.sub = v] \in Jobs
  BY DEF Jobs
<1>7. \A v \in Ports \cup {None} : [j EXCEPT !.old = v] \in Jobs
  BY DEF Jobs
<1>8. \A v \in Networks \cup {None} : [j EXCEPT !.oldNet = v] \in Jobs
  BY DEF Jobs
<1>9. \A v \in IPs \cup {None} : [j EXCEPT !.oldIp = v] \in Jobs
  BY DEF Jobs
<1>10. \A v \in SUBSET Ports : [j EXCEPT !.todo = v] \in Jobs
  BY DEF Jobs
<1>11. \A v \in SUBSET IPs : [j EXCEPT !.value = v] \in Jobs
  BY DEF Jobs
<1>12. \A v \in Places : [j EXCEPT !.at = v] \in Jobs
  BY DEF Jobs
<1> QED
  BY <1>1, <1>2, <1>3, <1>4, <1>5, <1>6, <1>7, <1>8, <1>9, <1>10, <1>11, <1>12

\* Where a request goes next it is expected, and it has set what it needs there.
LEMMA FollowingPlaced ==
  ASSUME NEW j \in GoodJobs, Following(j) # "done"
  PROVE  /\ Following(j) \in Places
         /\ Placed(j.op, Following(j))
         /\ NeedsOld(j.op, Following(j)) => j.old # None
<1>1. j \in Jobs /\ Placed(j.op, j.at) /\ Filled(j)
  BY DEF GoodJobs
<1>2. j.op \in Ops /\ j.at \in Places
  BY <1>1 DEF Jobs
<1>a. NeedsOld(j.op, j.at) => j.old # None
  BY <1>1 DEF Filled
<1> USE <1>1, <1>2, <1>a
    DEF Following, Placed, Places, GatewayOps, RemovalOps, AttachOps, RemovalPlaces, NeedsOld
<1>3. CASE j.at = "row" \/ j.at = "options"
  BY <1>3
<1>4. CASE j.at = "dropSubnet"
  BY <1>4
<1>5. CASE j.at = "clear"
  BY <1>5 DEF AfterClear
<1>6. CASE j.at = "reserve"
  BY <1>6
<1>7. CASE j.at = "router"
  BY <1>7
<1>8. CASE j.at = "port"
  BY <1>8
<1>9. CASE j.at = "routerPort"
  BY <1>9 DEF AfterRouterPort
<1>10. CASE j.at = "own"
  BY <1>10
<1>11. CASE j.at = "plug"
  BY <1>11 DEF AfterPlug
<1>12. CASE j.at = "connect"
  BY <1>12
<1>13. CASE j.at = "key"
  BY <1>13
<1>14. CASE j.at = "dropRouterPort"
  BY <1>14
<1>15. CASE j.at = "dropPort"
  BY <1>15 DEF AfterDropPort, AfterDisconnect, AfterRemoval
<1>16. CASE j.at = "disconnect"
  BY <1>16 DEF AfterDisconnect, AfterRemoval
<1>17. CASE j.at = "unkey"
  BY <1>17
<1>18. CASE j.at = "unroute"
  BY <1>18
<1>19. CASE j.at = "release"
  BY <1>19 DEF AfterRemoval
<1>20. CASE j.at \in {"dropNetwork", "setPort", "route", "userRoute", "visit", "dropRouter"}
  BY <1>20
<1> QED
  <2>1. j.at \in Places
    BY <1>2
  <2> HIDE DEF Following, Placed, GatewayOps, RemovalOps, AttachOps, RemovalPlaces, NeedsOld
  <2> QED
    BY ONLY <2>1, <1>3, <1>4, <1>5, <1>6, <1>7, <1>8, <1>9, <1>10, <1>11, <1>12, <1>13, <1>14,
       <1>15, <1>16, <1>17, <1>18, <1>19, <1>20
    DEF Places

LEMMA MovedJob ==
  ASSUME NEW j \in GoodJobs, NEW at \in Places, NEW value \in SUBSET IPs,
         Placed(j.op, at),
         NeedsOld(j.op, at) => j.old # None
  PROVE  /\ [j EXCEPT !.at = at] \in GoodJobs
         /\ [j EXCEPT !.at = at, !.value = value] \in GoodJobs
<1>1. j \in Jobs /\ Filled(j)
  BY DEF GoodJobs
<1>2. /\ [j EXCEPT !.at = at] \in Jobs
      /\ [[j EXCEPT !.at = at] EXCEPT !.value = value] \in Jobs
  <2>1. [j EXCEPT !.at = at] \in Jobs
    BY <1>1 DEF Jobs
  <2>2. \A k \in Jobs : [k EXCEPT !.value = value] \in Jobs
    BY DEF Jobs
  <2> QED
    BY <2>1, <2>2
<1>3. /\ Placed([j EXCEPT !.at = at].op, [j EXCEPT !.at = at].at)
      /\ Filled([j EXCEPT !.at = at])
  BY <1>1, SMTT(30) DEF Jobs, Filled
<1>4. /\ Placed([j EXCEPT !.at = at, !.value = value].op, [j EXCEPT !.at = at, !.value = value].at)
      /\ Filled([j EXCEPT !.at = at, !.value = value])
  BY <1>1, SMTT(30) DEF Jobs, Filled
<1> QED
  BY <1>2, <1>3, <1>4 DEF GoodJobs

LEMMA ArriveGood ==
  ASSUME TypeOK', NEW j \in GoodJobs
  PROVE  Arrive(j, Following(j)) \in GoodJobs \cup {None}
<1> DEFINE at == Following(j)
<1>1. CASE at = "done"
  BY <1>1 DEF Arrive
<1>2. CASE at # "done"
  <2>1. /\ at \in Places
        /\ Placed(j.op, at)
        /\ NeedsOld(j.op, at) => j.old # None
    BY <1>2, FollowingPlaced
  <2>2. j \in Jobs /\ Filled(j)
    BY DEF GoodJobs
  <2>3. at = "reserve" => exclude'[j.net] \cup {j.ip} \in SUBSET IPs
    BY <2>1, <2>2 DEF Placed, Filled, GatewayOps, Jobs, TypeOK
  <2>4. at = "release" => exclude'[j.oldNet] \ {j.oldIp} \in SUBSET IPs
    BY <2>1, <2>2 DEF Placed, Filled, RemovalOps, RemovalPlaces, NeedsOld, Jobs, TypeOK
  <2>5. [j EXCEPT !.at = at] \in GoodJobs
    BY <2>1, MovedJob
  <2>6. at = "reserve" => [j EXCEPT !.at = at, !.value = exclude'[j.net] \cup {j.ip}] \in GoodJobs
    BY <2>1, <2>3, MovedJob
  <2>7. at = "release" =>
          [j EXCEPT !.at = at, !.value = exclude'[j.oldNet] \ {j.oldIp}] \in GoodJobs
    BY <2>1, <2>4, MovedJob
  <2> QED
    BY <1>2, <2>5, <2>6, <2>7 DEF Arrive
<1> QED
  BY <1>1, <1>2

-----------------------------------------------------------------------------
(* Type correctness *)

LEMMA CommitTypeOK ==
  ASSUME TypeOK, NEW j \in GoodJobs, Commit(j)
  PROVE  TypeOK'
<1> USE DEF portVars, routerVars
<1>0. j \in Jobs /\ Placed(j.op, j.at) /\ Filled(j)
  BY DEF GoodJobs
<1>1. CASE SubnetRow(j)
  <2>1. [net |-> j.net, gateway |-> IF j.op = "addSubnet" THEN None ELSE j.ip, router |-> None]
          \in SubnetRows
    BY <1>0, <1>1 DEF SubnetRow, Placed, Filled, Jobs, SubnetRows
  <2> QED
    BY <1>1, <2>1 DEF SubnetRow, TypeOK
<1>2. CASE SubnetOptions(j)
  <2>1. ASSUME dhcp[j.sub] \in SubnetRows PROVE [dhcp[j.sub] EXCEPT !.gateway = j.ip] \in SubnetRows
    BY <1>0, <2>1 DEF SubnetRows, Jobs
  <2>2. dhcp' \in [Subnets -> SubnetRows \cup {None}]
    <3>1. CASE j.sub \in Subnets
      BY <1>2, <2>1, <3>1 DEF SubnetOptions, TypeOK
    <3>2. CASE j.sub \notin Subnets
      BY <1>2, <3>2 DEF SubnetOptions, TypeOK
    <3> QED
      BY <3>1, <3>2
  <2> QED
    BY <1>2, <2>2 DEF SubnetOptions, TypeOK
<1>3. CASE DropSubnet(j)
  BY <1>3 DEF DropSubnet, TypeOK
<1>4. CASE DropNetwork(j)
  BY <1>4, RowsAfterRemoval DEF DropNetwork, PortsOf, LivePorts, TypeOK
<1>5. ASSUME NEW n, WriteExclude(j, n) PROVE TypeOK'
  <2>1. j.value \in SUBSET IPs
    BY <1>0 DEF Jobs
  <2>2. exclude' \in [Networks -> SUBSET IPs]
    BY <1>5, <2>1 DEF WriteExclude, TypeOK
  <2> QED
    BY <1>5, <2>2 DEF WriteExclude, TypeOK
<1>6. CASE CreateRouter(j)
  BY <1>0, <1>6 DEF CreateRouter, TypeOK, Jobs, Placed, Filled, GatewayOps
<1>7. CASE CreatePort(j)
  BY <1>0, <1>7 DEF CreatePort, TypeOK, Jobs
<1>8. CASE SetPort(j)
  <2>1. j.row \in PortRows
    BY <1>0, <1>8 DEF SetPort, Placed, Filled, Jobs
  <2>2. ASSUME lsp[j.port] \in PortRows PROVE [j.row EXCEPT !.ip = lsp[j.port].ip] \in PortRows
    BY <2>1, <2>2 DEF PortRows
  <2> QED
    BY <1>8, <2>1, <2>2 DEF SetPort, TypeOK
<1>9. CASE CreateRouterPort(j)
  <2>1. [router |-> j.router, ip |-> j.ip] \in RouterPortRows
    BY <1>0, <1>9
    DEF CreateRouterPort, Placed, Filled, Jobs, RouterPortRows, GatewayOps, AttachOps
  <2> QED
    BY <1>9, <2>1 DEF CreateRouterPort, TypeOK
<1>10. CASE Own(j)
  <2>1. ASSUME lsp[j.port] \in PortRows
        PROVE  [lsp[j.port] EXCEPT !.routerOwned = TRUE] \in PortRows
    BY <2>1 DEF PortRows
  <2> QED
    BY <1>10, <2>1 DEF Own, TypeOK
<1>11. CASE Plug(j)
  <2>1. ASSUME lsp[j.port] \in PortRows
        PROVE  [[lsp[j.port] EXCEPT !.kind = "router"] EXCEPT !.ip = None] \in PortRows
    BY <2>1 DEF PortRows, Kinds
  <2> QED
    BY <1>11, <2>1 DEF Plug, TypeOK
<1>12. ASSUME NEW s, NEW r \in Routers \cup {None}, SetGatewayRouter(s, r) PROVE TypeOK'
  <2>1. ASSUME dhcp[s] \in SubnetRows PROVE [dhcp[s] EXCEPT !.router = r] \in SubnetRows
    BY <2>1 DEF SubnetRows
  <2> QED
    BY <1>12, <2>1 DEF SetGatewayRouter, TypeOK
<1>13. CASE SetKey(j)
  BY <1>0, <1>13 DEF SetKey, TypeOK, Jobs
<1>14. CASE Unkey(j)
  BY <1>14 DEF Unkey, TypeOK
<1>15. ASSUME NEW route \in Routes, SetRoute(j, route) PROVE TypeOK'
  BY <1>15 DEF SetRoute, TypeOK
<1>16. CASE ClearRoute(j)
  BY <1>16 DEF ClearRoute, TypeOK, Routes
<1>17. CASE DropRouterPort(j)
  BY <1>17 DEF DropRouterPort, RouterPortsWithout, TypeOK
<1>18. CASE DropPort(j)
  BY <1>18 DEF DropPort, PortsWithout, TypeOK
<1>19. CASE DropRouter(j)
  BY <1>19, RowsAfterRemoval DEF DropRouter, Interfaces, TypeOK, Routes
<1> QED
  BY <1>0, <1>1, <1>2, <1>3, <1>4, <1>5, <1>6, <1>7, <1>8, <1>9, <1>10, <1>11, <1>12, <1>13,
     <1>14, <1>15, <1>16, <1>17, <1>18, <1>19
  DEF Commit, Reserve, Release, Connect, Disconnect, AddRoute, AddUserRoute, Jobs, Routes

LEMMA NewRowType ==
  ASSUME NEW n \in Networks
  PROVE  NewRow(n) \in PortRows
BY DEF NewRow, PortRows, Kinds

\* The subnet whose gateway a removed router port was.
Served(s, n, ip) ==
  IF s = None THEN \A t \in SubnetsOf(n) : dhcp[t].gateway # ip
              ELSE s \in SubnetsOf(n) /\ dhcp[s].gateway = ip

\* What a request that removes a port has set, and one that adds a gateway.
LEMMA RemovingGood ==
  ASSUME TypeOK, NEW op \in RemovalOps, NEW r, NEW p, Removable(r, p)
  PROVE  /\ Removing(op, r, p) \in Jobs
         /\ Removing(op, r, p).op = op
         /\ Removing(op, r, p).at = "dropRouterPort"
         /\ Removing(op, r, p).router = r
         /\ Removing(op, r, p).port = None
         /\ Removing(op, r, p).old = p
         /\ Removing(op, r, p).oldNet = lsp[p].net
         /\ Removing(op, r, p).oldIp = lrp[p].ip
         /\ Served(Removing(op, r, p).sub, lsp[p].net, lrp[p].ip)
<1> DEFINE served == {s \in SubnetsOf(lsp[p].net) : dhcp[s].gateway = lrp[p].ip}
           sub == IF served = {} THEN None ELSE CHOOSE s \in served : TRUE
<1>1. sub \in Subnets \cup {None}
  BY DEF SubnetsOf, LiveSubnets
<1>2. /\ r \in Routers /\ p \in Ports /\ lsp[p].net \in Networks /\ lrp[p].ip \in IPs
  BY RemovableRows
<1>3. Job(op, "dropRouterPort") \in Jobs
  BY JobIsJob DEF RemovalOps, Ops, Places
<1>4. Removing(op, r, p) =
        [[[[[Job(op, "dropRouterPort") EXCEPT !.router = r] EXCEPT !.old = p]
            EXCEPT !.oldNet = lsp[p].net] EXCEPT !.oldIp = lrp[p].ip] EXCEPT !.sub = sub]
  BY DEF Removing
<1>a. Served(sub, lsp[p].net, lrp[p].ip)
  <2>1. CASE served = {}
    BY <2>1 DEF Served
  <2>2. CASE served # {}
    <3>1. sub \in served
      BY <2>2
    <3> QED
      BY <3>1, IdAssumption DEF Served, SubnetsOf, LiveSubnets
  <2> QED
    BY <2>1, <2>2
<1> HIDE DEF sub
<1>5. Removing(op, r, p) \in Jobs
  <2>1. [Job(op, "dropRouterPort") EXCEPT !.router = r] \in Jobs
    BY <1>2, <1>3, JobSet
  <2>2. [[Job(op, "dropRouterPort") EXCEPT !.router = r] EXCEPT !.old = p] \in Jobs
    BY <1>2, <2>1, JobSet
  <2>3. [[[Job(op, "dropRouterPort") EXCEPT !.router = r] EXCEPT !.old = p]
           EXCEPT !.oldNet = lsp[p].net] \in Jobs
    BY <1>2, <2>2, JobSet
  <2>4. [[[[Job(op, "dropRouterPort") EXCEPT !.router = r] EXCEPT !.old = p]
            EXCEPT !.oldNet = lsp[p].net] EXCEPT !.oldIp = lrp[p].ip] \in Jobs
    BY <1>2, <2>3, JobSet
  <2> QED
    BY <1>1, <1>4, <2>4, JobSet
<1>6. Removing(op, r, p).sub = sub
  BY <1>4 DEF Job
<1> QED
  BY <1>4, <1>5, <1>6, <1>a DEF Job

LEMMA PluggingGood ==
  ASSUME TypeOK, NEW j \in Jobs, NEW r \in Routers, NEW p \in Ports, NEW n \in Networks,
         NEW ip \in IPs
  PROVE  LET k == Plugging(j, r, p, n, ip)
         IN /\ k \in Jobs
            /\ k.op = j.op /\ k.at = j.at
            /\ k.router = r /\ k.port = p /\ k.row = NewRow(n) /\ k.net = n /\ k.ip = ip
            /\ k.old = j.old /\ k.oldNet = j.oldNet /\ k.oldIp = j.oldIp /\ k.sub = j.sub
            /\ k.value = exclude[n] \cup {ip}
<1>1. NewRow(n) \in PortRows /\ exclude[n] \cup {ip} \in SUBSET IPs
  BY NewRowType DEF TypeOK
<1>2. Plugging(j, r, p, n, ip) \in Jobs
  BY <1>1, JobSet DEF Plugging
<1> QED
  BY <1>2 DEF Plugging, Jobs

\* update_router may clear the routes and take an old gateway away before it adds one.
LEMMA UpdateRouterStarts ==
  ASSUME TypeOK, NEW r \in Routers, NEW p \in Ports, NEW n \in Networks, NEW s \in Subnets,
         NEW ip \in IPs, NEW cleared \in BOOLEAN, StartUpdateRouter(r, p, n, s, ip, cleared)
  PROVE  LET old == gwPort[r]
         IN /\ job' \in Jobs
            /\ job'.op = "updateRouter" /\ job'.router = r /\ job'.port = p
            /\ job'.row = NewRow(n) /\ job'.net = n /\ job'.ip = ip /\ job'.old = old
            /\ job'.at = IF cleared THEN "clear"
                         ELSE IF old = None THEN "reserve" ELSE "dropRouterPort"
            /\ job'.value = exclude[n] \cup {ip}
            /\ old # None =>
                 /\ Removable(r, old)
                 /\ job'.oldNet = lsp[old].net /\ job'.oldNet \in Networks
                 /\ job'.oldIp = lrp[old].ip /\ job'.oldIp \in IPs
                 /\ Served(job'.sub, lsp[old].net, lrp[old].ip)
<1> USE IdAssumption
<1> DEFINE old == gwPort[r]
           new == IF old = None THEN Job("updateRouter", "reserve")
                                ELSE Removing("updateRouter", r, old)
           k == Plugging(new, r, p, n, ip)
<1>0. job' = [k EXCEPT !.at = IF cleared THEN "clear" ELSE k.at]
  BY DEF StartUpdateRouter
<1>1. /\ new \in Jobs /\ new.op = "updateRouter"
      /\ new.at = IF old = None THEN "reserve" ELSE "dropRouterPort"
      /\ new.old = old
      /\ old # None =>
           /\ Removable(r, old)
           /\ new.oldNet = lsp[old].net /\ new.oldNet \in Networks
           /\ new.oldIp = lrp[old].ip /\ new.oldIp \in IPs
           /\ Served(new.sub, lsp[old].net, lrp[old].ip)
  <2>1. CASE old = None
    BY <2>1, JobIsJob DEF Job, Ops, Places
  <2>2. CASE old # None
    <3>1. "updateRouter" \in RemovalOps /\ Removable(r, old)
      BY <2>2 DEF StartUpdateRouter, RemovalOps
    <3>2. lsp[old].net \in Networks /\ lrp[old].ip \in IPs
      BY <3>1, RemovableRows
    <3> QED
      BY <2>2, <3>1, <3>2, RemovingGood
  <2> QED
    BY <2>1, <2>2
<1> HIDE DEF new
<1>2. /\ k \in Jobs /\ k.op = new.op /\ k.at = new.at /\ k.row = NewRow(n) /\ k.router = r
      /\ k.port = p /\ k.net = n /\ k.ip = ip
      /\ k.old = new.old /\ k.oldNet = new.oldNet /\ k.oldIp = new.oldIp
      /\ k.sub = new.sub
      /\ k.value = exclude[n] \cup {ip}
  BY <1>1, PluggingGood
<1> HIDE DEF k
<1>3. "clear" \in Places /\ k.at \in Places
  BY <1>2 DEF Places, Jobs
<1>4. job' \in Jobs
  BY <1>0, <1>2, <1>3, JobSet
<1> QED
  BY <1>0, <1>1, <1>2, <1>4 DEF Jobs

LEMMA StartGood ==
  ASSUME TypeOK, Start
  PROVE  job' \in GoodJobs
<1> USE IdAssumption
<1>1. ASSUME NEW s \in Subnets, NEW n \in Networks, NEW g \in IPs \cup {None},
             StartAddSubnet(s, n, g)
      PROVE  job' \in GoodJobs
  <2>1. Job("addSubnet", "row") \in Jobs /\ Job("addSubnetAtOnce", "row") \in Jobs
    BY JobIsJob DEF Ops, Places
  <2>a. [[Job("addSubnet", "row") EXCEPT !.sub = s] EXCEPT !.net = n] \in Jobs
    BY <2>1, JobSet
  <2>b. [[Job("addSubnetAtOnce", "row") EXCEPT !.sub = s] EXCEPT !.net = n] \in Jobs
    BY <2>1, JobSet
  <2>2. job' \in Jobs
    BY <1>1, <2>a, <2>b, JobSet DEF StartAddSubnet
  <2>3. job'.op \in {"addSubnet", "addSubnetAtOnce"} /\ job'.at = "row"
        /\ job'.sub = s /\ job'.net = n
    BY <1>1 DEF StartAddSubnet, Job
  <2> QED
    BY <2>2, <2>3
    DEF GoodJobs, Placed, Filled, GatewayOps, RemovalOps, AttachOps, RemovalPlaces, NeedsOld
<1>2. ASSUME NEW s \in Subnets,
             StartDeleteSubnet(s)
      PROVE  job' \in GoodJobs
  BY <1>2 DEF StartDeleteSubnet, Job, Jobs, Ops, Places, LivePorts,
     GoodJobs, Placed, Filled, GatewayOps, RemovalOps, AttachOps, RemovalPlaces, NeedsOld
<1>3. ASSUME NEW n \in Networks,
             StartDeleteNetwork(n)
      PROVE  job' \in GoodJobs
  <2>1. Job("deleteNetwork", "dropSubnet") \in Jobs
       /\ Job("deleteNetwork", "dropNetwork") \in Jobs
    BY JobIsJob DEF Ops, Places
  <2>a. \A t \in Subnets : [Job("deleteNetwork", "dropSubnet") EXCEPT !.sub = t] \in Jobs
    BY <2>1, JobSet
  <2>2. job' \in Jobs
    <3>1. \/ job' = [Job("deleteNetwork", "dropNetwork") EXCEPT !.net = n]
          \/ \E t \in Subnets :
               job' = [[Job("deleteNetwork", "dropSubnet") EXCEPT !.sub = t] EXCEPT !.net = n]
      BY <1>3 DEF StartDeleteNetwork, SubnetsOf, LiveSubnets
    <3>2. \A t \in Subnets :
            [[Job("deleteNetwork", "dropSubnet") EXCEPT !.sub = t] EXCEPT !.net = n] \in Jobs
      BY <2>a, JobSet
    <3>3. [Job("deleteNetwork", "dropNetwork") EXCEPT !.net = n] \in Jobs
      BY <2>1, JobSet
    <3> QED
      BY <3>1, <3>2, <3>3
  <2>3. job'.op = "deleteNetwork" /\ job'.at \in {"dropSubnet", "dropNetwork"} /\ job'.net = n
    BY <1>3 DEF StartDeleteNetwork, SubnetsOf, LiveSubnets, Job
  <2> QED
    BY <2>2, <2>3
    DEF GoodJobs, Placed, Filled, GatewayOps, RemovalOps, AttachOps, RemovalPlaces, NeedsOld
<1>4. ASSUME NEW p \in Ports, NEW n \in Networks, NEW a \in IPs \cup {None},
             NEW owned \in BOOLEAN,
             StartAddPort(p, n, a, owned)
      PROVE  job' \in GoodJobs
  <2>0. \A ok \in BOOLEAN :
          [net |-> n, kind |-> IF ok THEN AddressKind(n, a) ELSE "unset",
           ip |-> IF ok THEN a ELSE None, routerOwned |-> owned] \in PortRows
    BY DEF PortRows, Kinds, AddressKind
  <2>1. Job("addPort", "port") \in Jobs
    BY JobIsJob DEF Ops, Places
  <2>2. job' \in Jobs
    BY <1>4, <2>1, <2>0, JobSet DEF StartAddPort
  <2>3. job'.op = "addPort" /\ job'.at = "port" /\ job'.port = p
        /\ job'.row \in PortRows /\ job'.net = n
    BY <1>4, <2>0 DEF StartAddPort, Job
  <2> QED
    BY <2>2, <2>3, <2>0
    DEF GoodJobs, Placed, Filled, GatewayOps, RemovalOps, AttachOps, RemovalPlaces, NeedsOld
<1>5. ASSUME NEW p \in Ports, NEW a \in IPs \cup {None}, NEW owned \in BOOLEAN,
             StartUpdatePort(p, a, owned)
      PROVE  job' \in GoodJobs
  <2>a. lsp[p] \in PortRows
    BY <1>5 DEF StartUpdatePort, LivePorts, TypeOK
  <2>b. Readdressed(p, a) \in PortRows
    BY <2>a DEF Readdressed, PortRows, Kinds, AddressKind
  <2>0. /\ [lsp[p] EXCEPT !.routerOwned = owned] \in PortRows
        /\ [Readdressed(p, a) EXCEPT !.routerOwned = owned] \in PortRows
    BY <2>a, <2>b DEF PortRows
  <2>1. Job("updatePort", "setPort") \in Jobs
    BY JobIsJob DEF Ops, Places
  <2>2. job' \in Jobs
    BY <1>5, <2>1, <2>0, JobSet DEF StartUpdatePort
  <2>3. job'.op = "updatePort" /\ job'.at = "setPort" /\ job'.port = p /\ job'.row \in PortRows
    BY <1>5, <2>0 DEF StartUpdatePort, Job
  <2> QED
    BY <2>2, <2>3, <2>0
    DEF GoodJobs, Placed, Filled, GatewayOps, RemovalOps, AttachOps, RemovalPlaces, NeedsOld
<1>6. ASSUME NEW p \in Ports,
             StartDeletePort(p)
      PROVE  job' \in GoodJobs
  BY <1>6 DEF StartDeletePort, Job, Jobs, Ops, Places, LivePorts,
     GoodJobs, Placed, Filled, GatewayOps, RemovalOps, AttachOps, RemovalPlaces, NeedsOld
<1>7. ASSUME NEW r \in Routers,
             StartAddRouterRoute(r)
      PROVE  job' \in GoodJobs
  BY <1>7 DEF StartAddRouterRoute, Job, Jobs, Ops, Places, LivePorts,
     GoodJobs, Placed, Filled, GatewayOps, RemovalOps, AttachOps, RemovalPlaces, NeedsOld
<1>8. ASSUME NEW r \in Routers,
             StartUpdateRoutes(r)
      PROVE  job' \in GoodJobs
  BY <1>8 DEF StartUpdateRoutes, Job, Jobs, Ops, Places, LivePorts,
     GoodJobs, Placed, Filled, GatewayOps, RemovalOps, AttachOps, RemovalPlaces, NeedsOld
<1>9. ASSUME NEW r \in Routers,
             StartDeleteRouter(r)
      PROVE  job' \in GoodJobs
  <2>1. CASE gwPort[r] = None
    BY <1>9, <2>1 DEF StartDeleteRouter, Job, Jobs, Ops, Places,
       GoodJobs, Placed, Filled, GatewayOps, RemovalOps, AttachOps, RemovalPlaces, NeedsOld
  <2>2. CASE gwPort[r] # None
    <3>1. "deleteRouter" \in RemovalOps /\ Removable(r, gwPort[r])
             /\ job' = Removing("deleteRouter", r, gwPort[r])
      BY <1>9, <2>2 DEF StartDeleteRouter, RemovalOps
    <3>2. lsp[gwPort[r]].net \in Networks /\ lrp[gwPort[r]].ip \in IPs
      BY <3>1, RemovableRows
    <3> QED
      BY <2>2, <3>1, <3>2, RemovingGood
      DEF GoodJobs, Placed, Filled, GatewayOps, RemovalOps, AttachOps, RemovalPlaces, NeedsOld
  <2> QED
    BY <2>1, <2>2
<1>10. ASSUME NEW r \in Routers, NEW p \in Ports, NEW n \in Networks,
             NEW s \in Subnets, NEW ip \in IPs,
             StartAddRouter(r, p, n, s, ip)
      PROVE  job' \in GoodJobs
  <2>1. Job("addRouter", "reserve") \in Jobs
    BY JobIsJob DEF Ops, Places
  <2>2. /\ Job("addRouter", "reserve").op = "addRouter"
        /\ Job("addRouter", "reserve").at = "reserve"
    BY DEF Job
  <2>3. job' = Plugging(Job("addRouter", "reserve"), r, p, n, ip)
    BY <1>10 DEF StartAddRouter
  <2>4. /\ job' \in Jobs /\ job'.op = "addRouter" /\ job'.at = "reserve" /\ job'.row = NewRow(n)
        /\ job'.router = r /\ job'.port = p /\ job'.net = n /\ job'.ip = ip
    BY <2>1, <2>2, <2>3, PluggingGood
  <2> QED
    BY <2>4, NewRowType
    DEF GoodJobs, Placed, Filled, GatewayOps, RemovalOps, AttachOps, RemovalPlaces, NeedsOld
<1>11. ASSUME NEW r \in Routers, NEW p \in Ports, NEW n \in Networks,
             NEW s \in Subnets, NEW ip \in IPs, NEW cleared \in BOOLEAN,
             StartUpdateRouter(r, p, n, s, ip, cleared)
      PROVE  job' \in GoodJobs
  BY <1>11, UpdateRouterStarts, NewRowType
  DEF GoodJobs, Placed, Filled, GatewayOps, RemovalOps, AttachOps, RemovalPlaces, NeedsOld
<1>12. ASSUME NEW r \in Routers, NEW p \in Ports,
             StartDeleteInterface(r, p)
      PROVE  job' \in GoodJobs
  <2>1. "removePort" \in RemovalOps /\ Removable(r, p)
          /\ job' = Removing("removePort", r, p)
    BY <1>12 DEF StartDeleteInterface, RemovalOps
  <2>2. lsp[p].net \in Networks /\ lrp[p].ip \in IPs
    BY <2>1, RemovableRows
  <2> QED
    BY <2>1, <2>2, RemovingGood
    DEF GoodJobs, Placed, Filled, GatewayOps, RemovalOps, AttachOps, RemovalPlaces, NeedsOld
<1>13. ASSUME NEW r \in Routers, NEW p \in Ports,
             StartAddInterfaceByPort(r, p)
      PROVE  job' \in GoodJobs
  <2>0. lsp[p].net \in Networks /\ lsp[p].ip \in IPs
    BY <1>13 DEF StartAddInterfaceByPort, LivePorts, TypeOK, PortRows
  <2>1. Job("attachPort", "own") \in Jobs
    BY JobIsJob DEF Ops, Places
  <2>2. job' \in Jobs
    BY <1>13, <2>1, <2>0, JobSet DEF StartAddInterfaceByPort
  <2>3. job'.op = "attachPort" /\ job'.at = "own" /\ job'.router = r /\ job'.port = p
        /\ job'.net = lsp[p].net /\ job'.ip = lsp[p].ip
    BY <1>13, <2>0 DEF StartAddInterfaceByPort, Job
  <2> QED
    BY <2>2, <2>3, <2>0
    DEF GoodJobs, Placed, Filled, GatewayOps, RemovalOps, AttachOps, RemovalPlaces, NeedsOld
<1>14. ASSUME NEW r \in Routers, NEW s \in Subnets, NEW p \in Ports,
             StartAddInterfaceBySubnet(r, s, p)
      PROVE  job' \in GoodJobs
  <2>a. dhcp[s] \in SubnetRows
    BY <1>14 DEF StartAddInterfaceBySubnet, LiveSubnets, TypeOK
  <2>0. /\ dhcp[s].net \in Networks /\ dhcp[s].gateway \in IPs
        /\ NewRow(dhcp[s].net) \in PortRows
    BY <1>14, <2>a, NewRowType DEF StartAddInterfaceBySubnet, SubnetRows
  <2>1. Job("attachSubnet", "port") \in Jobs
    BY JobIsJob DEF Ops, Places
  <2>2. job' \in Jobs
    BY <1>14, <2>1, <2>0, JobSet DEF StartAddInterfaceBySubnet
  <2>3. job'.op = "attachSubnet" /\ job'.at = "port" /\ job'.router = r /\ job'.port = p
        /\ job'.row \in PortRows /\ job'.net = dhcp[s].net /\ job'.ip = dhcp[s].gateway
        /\ job'.sub = s
    BY <1>14, <2>0 DEF StartAddInterfaceBySubnet, Job
  <2> QED
    BY <2>2, <2>3, <2>0
    DEF GoodJobs, Placed, Filled, GatewayOps, RemovalOps, AttachOps, RemovalPlaces, NeedsOld
<1>15. ASSUME NEW r \in Routers, NEW s \in Subnets,
             StartDeleteInterfaceBySubnet(r, s)
      PROVE  job' \in GoodJobs
  BY <1>15 DEF StartDeleteInterfaceBySubnet, Job, Jobs, Ops, Places, LivePorts,
     GoodJobs, Placed, Filled, GatewayOps, RemovalOps, AttachOps, RemovalPlaces, NeedsOld
<1> QED
  BY <1>1, <1>2, <1>3, <1>4, <1>5, <1>6, <1>7, <1>8, <1>9, <1>10, <1>11, <1>12, <1>13, <1>14, <1>15
  DEF Start

\* A loop over lr.ports that goes on finds a job that is set up.
LEMMA VisitGood ==
  ASSUME TypedSteps, VisitPort
  PROVE  job' \in GoodJobs \cup {None}
<1>1. job \in GoodJobs /\ job \in Jobs /\ Filled(job) /\ Placed(job.op, job.at) /\ job.at = "visit"
  BY DEF TypedSteps, VisitPort, GoodJobs
<1>2. job.op = "detachSubnet"
  BY <1>1 DEF Placed
<1>3. ASSUME NEW p \in job.todo,
             job' = [job EXCEPT !.at = "dropRouterPort", !.old = p, !.todo = @ \ {p}]
      PROVE  job' \in GoodJobs
  <2>1. p \in Ports /\ p # None /\ job.todo \ {p} \in SUBSET Ports /\ "dropRouterPort" \in Places
    BY <1>1, IdAssumption DEF Jobs, Places
  <2>2. [job EXCEPT !.at = "dropRouterPort"] \in Jobs
    BY <1>1, <2>1, JobSet
  <2>3. [[job EXCEPT !.at = "dropRouterPort"] EXCEPT !.old = p] \in Jobs
    BY <2>1, <2>2, JobSet
  <2>4. [[[job EXCEPT !.at = "dropRouterPort"] EXCEPT !.old = p] EXCEPT !.todo = job.todo \ {p}]
          \in Jobs
    BY <2>1, <2>3, JobSet
  <2>5. job' = [[[job EXCEPT !.at = "dropRouterPort"] EXCEPT !.old = p]
                  EXCEPT !.todo = job.todo \ {p}]
    BY <1>1, <1>3 DEF Jobs
  <2>6. /\ job' \in Jobs /\ job'.op = "detachSubnet" /\ job'.at = "dropRouterPort" /\ job'.old = p
        /\ job'.sub = job.sub /\ job'.router = job.router
    BY <1>1, <1>2, <2>4, <2>5 DEF Jobs
  <2> QED
    BY <1>1, <1>2, <2>1, <2>6 DEF GoodJobs, Placed, Filled, GatewayOps, RemovalOps, AttachOps
<1>4. [job EXCEPT !.at = "disconnect"] \in GoodJobs
  <2>1. /\ "disconnect" \in Places /\ Placed(job.op, "disconnect")
        /\ ~NeedsOld(job.op, "disconnect")
    BY <1>2 DEF Places, Placed, RemovalOps, NeedsOld
  <2> QED
    BY <1>1, <2>1, MovedJob
<1> QED
  BY <1>3, <1>4 DEF VisitPort

\* What is done in one transaction is one step of Topology.
LEMMA OneWriteIsNext == OneWrite => Next
BY DEF OneWrite, Next

LEMMA NorthdIsNext == Northd => Next
BY DEF Northd, Next

\* A write that is logged as failed, and one nobody waits for, are followed by what
\* would have followed them.
LEMMA UncheckedGood ==
  ASSUME NEW j \in GoodJobs, Unchecked(j)
  PROVE  [j EXCEPT !.at = Following(j)] \in GoodJobs
<1>1. Following(j) # "done"
  <2>1. j.at \in {"plug", "key"}
    BY DEF Unchecked
  <2>2. CASE j.at = "plug"
    BY <2>2 DEF Following, AfterPlug
  <2>3. CASE j.at = "key"
    BY <2>3 DEF Following
  <2> QED
    BY <2>1, <2>2, <2>3
<1> QED
  BY <1>1, FollowingPlaced, MovedJob

LEMMA StepTyped == TypedSteps /\ [StepsNext]_stepVars => TypedSteps'
<1> SUFFICES ASSUME TypedSteps, [StepsNext]_stepVars PROVE TypedSteps'
  OBVIOUS
<1> USE DEF TypedSteps
<1>1. CASE OneWrite /\ UNCHANGED <<job, late>>
  BY <1>1, OneWriteIsNext, StepTypeOK
<1>2. CASE Start
  BY <1>2, StartGood DEF Start, dbVars, vars, TypeOK
<1>3. CASE Write
  <2>1. job \in GoodJobs /\ Commit(job)
    BY <1>3 DEF Write
  <2>2. TypeOK'
    BY <2>1, CommitTypeOK
  <2> QED
    BY <1>3, <2>1, <2>2, ArriveGood DEF Write
<1>4. CASE VisitPort
  BY <1>4, VisitGood DEF VisitPort, dbVars, vars, TypeOK
<1>5. CASE Northd
  BY <1>5, NorthdIsNext, StepTypeOK DEF Northd
<1>6. CASE Abandon
  BY <1>6 DEF Abandon, dbVars, vars, TypeOK
<1>7. CASE Skip
  BY <1>7, UncheckedGood DEF Skip, dbVars, vars, TypeOK
<1>8. CASE TimeOut
  BY <1>8, UncheckedGood DEF TimeOut, dbVars, vars, TypeOK
<1>9. CASE LateCommit
  <2>1. Head(late) \in GoodJobs /\ Tail(late) \in Seq(GoodJobs)
    BY <1>9 DEF LateCommit
  <2> QED
    BY <1>9, <2>1, CommitTypeOK DEF LateCommit
<1>10. CASE UNCHANGED stepVars
  BY <1>10 DEF stepVars, TypeOK
<1> QED
  BY <1>1, <1>2, <1>3, <1>4, <1>5, <1>6, <1>7, <1>8, <1>9, <1>10 DEF StepsNext

LEMMA AlwaysTyped == StepsSpec => []TypedSteps
<1>1. StepsInit => TypedSteps
  BY InitTypeOK DEF StepsInit, TypedSteps
<1> QED
  BY <1>1, StepTyped, PTL DEF StepsSpec

\* Type correctness: whatever faults there are, and however late a write is.
THEOREM StepsTypeCorrect == StepsSpec => []StepsTypeOK
<1>1. TypedSteps => StepsTypeOK
  BY DEF TypedSteps, StepsTypeOK, GoodJobs
<1> QED
  BY <1>1, AlwaysTyped, PTL

-----------------------------------------------------------------------------
(* What a handler may rely on between its writes, as long as no transaction is *)
(* late: the provider has one job at a time, and ovn-northd only fills in      *)
(* addresses.                                                                *)

\* The network of a new subnet is still there, and still has none.
SubnetAwaited(j) ==
  j.at = "row" => j.net \in networks /\ ~HasSubnet(j.net)

\* The network that is deleted got no port, and no subnet but the one that goes.
NetworkEmptied(j) ==
  j.op = "deleteNetwork" =>
    /\ PortsOf(j.net) = {}
    /\ SubnetsOf(j.net) \subseteq {j.sub}
    /\ j.at = "dropNetwork" => SubnetsOf(j.net) = {}

\* The row that is written keeps the port in its network.
RowFits(j) ==
  /\ j.op \in GatewayOps \cup {"addPort", "attachSubnet"} => j.row.net = j.net
  /\ j.at = "setPort" => j.port \in LivePorts /\ j.row.net = lsp[j.port].net

\* A port that goes is nobody's, or its router port is gone already.
RouterPortGone(j) ==
  j.at = "dropPort" =>
    IF j.op = "deletePort" THEN j.old \in LivePorts /\ ~lsp[j.old].routerOwned
                           ELSE lrp[j.old] = None

\* The router that is deleted loses its key first, and then has no port.
RouterBare(j) ==
  j.op = "deleteRouter" =>
    /\ j.at \in {"dropRouterPort", "dropPort", "disconnect", "unkey"} => gwPort[j.router] = j.old
    /\ j.at \in {"unroute", "release", "dropRouter"} => gwPort[j.router] = None
    /\ j.at = "dropRouter" => Interfaces(j.router) = {}

Expected(j) ==
  SubnetAwaited(j) /\ NetworkEmptied(j) /\ RowFits(j) /\ RouterPortGone(j) /\ RouterBare(j)

OrderedSteps ==
  /\ TypedSteps
  /\ late = <<>>
  /\ NetworksWellFormed
  /\ job # None => Expected(job)

LEMMA ArriveFields ==
  ASSUME NEW j \in Jobs, NEW at, Arrive(j, at) # None
  PROVE  LET k == Arrive(j, at)
         IN /\ at # "done" /\ k.at = at
            /\ k.op = j.op /\ k.router = j.router /\ k.port = j.port /\ k.row = j.row
            /\ k.net = j.net /\ k.ip = j.ip /\ k.sub = j.sub /\ k.old = j.old
            /\ k.oldNet = j.oldNet /\ k.oldIp = j.oldIp /\ k.todo = j.todo
            /\ at = "reserve" => k.value = exclude'[j.net] \cup {j.ip}
            /\ at = "release" => k.value = exclude'[j.oldNet] \ {j.oldIp}
<1>1. CASE at = "reserve"
  BY <1>1 DEF Arrive, Jobs
<1>2. CASE at = "release"
  BY <1>2 DEF Arrive, Jobs
<1>3. CASE at \notin {"reserve", "release"}
  BY <1>3 DEF Arrive, Jobs
<1> QED
  BY <1>1, <1>2, <1>3

\* ovn-northd leaves everything but the address of one port alone.
LEMMA NorthdKeeps ==
  ASSUME TypeOK, Northd
  PROVE  /\ UNCHANGED <<networks, exclude, dhcp, lrp, routers, gwPort, defRoute, job, late>>
         /\ \A p \in Ports : lsp[p] = None <=> lsp'[p] = None
         /\ \A p \in Ports : lsp[p] # None =>
              /\ lsp'[p].net = lsp[p].net
              /\ lsp'[p].kind = lsp[p].kind
              /\ lsp'[p].routerOwned = lsp[p].routerOwned
<1>1. PICK p \in Ports, ip \in IPs : AssignAddress(p, ip)
  BY DEF Northd
<1>2. lsp[p] \in PortRows /\ lsp[p] # None
  BY <1>1 DEF AssignAddress, LivePorts, TypeOK
<1>3. /\ [lsp[p] EXCEPT !.ip = ip] \in PortRows
      /\ [lsp[p] EXCEPT !.ip = ip].net = lsp[p].net
      /\ [lsp[p] EXCEPT !.ip = ip].kind = lsp[p].kind
      /\ [lsp[p] EXCEPT !.ip = ip].routerOwned = lsp[p].routerOwned
  BY <1>2 DEF PortRows
<1>4. lsp' = [lsp EXCEPT ![p] = [lsp[p] EXCEPT !.ip = ip]]
  BY <1>1 DEF AssignAddress
<1> QED
  BY <1>1, <1>2, <1>3, <1>4, IdAssumption DEF AssignAddress, TypeOK, routerVars, Northd

\* Whatever is expected of the rows outlasts ovn-northd.
LEMMA NorthdExpected ==
  ASSUME OrderedSteps, Northd, job # None
  PROVE  Expected(job)'
<1> USE NorthdKeeps DEF OrderedSteps, TypedSteps
<1>0. job \in Jobs /\ Placed(job.op, job.at) /\ Filled(job) /\ Expected(job)
  BY DEF GoodJobs
<1>1. /\ \A n : PortsOf(n)' = PortsOf(n) /\ SubnetsOf(n)' = SubnetsOf(n)
      /\ \A r : Interfaces(r)' = Interfaces(r)
      /\ LivePorts' = LivePorts
  BY DEF PortsOf, SubnetsOf, LivePorts, LiveSubnets, Interfaces
<1>2. SubnetAwaited(job)' /\ NetworkEmptied(job)' /\ RouterBare(job)'
  BY <1>0, <1>1 DEF Expected, SubnetAwaited, NetworkEmptied, RouterBare, HasSubnet
<1>3. RowFits(job)'
  BY <1>0, <1>1 DEF Expected, RowFits, LivePorts
<1>4. RouterPortGone(job)'
  BY <1>0, <1>1 DEF Expected, RouterPortGone, LivePorts
<1> QED
  BY <1>2, <1>3, <1>4 DEF Expected

\* A request starts only where its first write is expected.
LEMMA StartExpected ==
  ASSUME OrderedSteps, Start
  PROVE  Expected(job')
<1> USE IdAssumption DEF OrderedSteps, TypedSteps
<1>0. job' \in GoodJobs /\ job' \in Jobs /\ UNCHANGED dbVars
  BY StartGood DEF Start, GoodJobs
<1>a. ASSUME job'.at \notin {"row", "setPort", "dropPort"},
             job'.op \notin GatewayOps \cup
               {"deleteNetwork", "addPort", "attachSubnet", "deleteRouter"}
      PROVE  Expected(job')
  BY <1>a DEF Expected, SubnetAwaited, NetworkEmptied, RowFits, RouterPortGone, RouterBare
<1>1. ASSUME NEW s \in Subnets, NEW n \in Networks, NEW g \in IPs \cup {None},
             StartAddSubnet(s, n, g)
      PROVE  Expected(job')
  <2>1. /\ job'.op \in {"addSubnet", "addSubnetAtOnce"} /\ job'.at = "row"
        /\ job'.sub = s /\ job'.net = n
    BY <1>1 DEF StartAddSubnet, Job
  <2> QED
    BY <1>1, <2>1 DEF StartAddSubnet, Expected, SubnetAwaited, NetworkEmptied, RowFits,
       RouterPortGone, RouterBare, GatewayOps
<1>2. ASSUME NEW s \in Subnets, StartDeleteSubnet(s) PROVE Expected(job')
  BY <1>a, <1>2 DEF StartDeleteSubnet, Job, GatewayOps
<1>3. ASSUME NEW n \in Networks, StartDeleteNetwork(n) PROVE Expected(job')
  <2>1. /\ job'.op = "deleteNetwork" /\ job'.net = n /\ PortsOf(n) = {}
        /\ \/ job'.at = "dropNetwork" /\ SubnetsOf(n) = {}
           \/ job'.at = "dropSubnet" /\ job'.sub \in SubnetsOf(n)
    BY <1>3 DEF StartDeleteNetwork, Job
  <2>2. \A s, t \in SubnetsOf(n) : s = t
    BY DEF NetworksWellFormed, SubnetsOf
  <2> QED
    BY <2>1, <2>2 DEF Expected, SubnetAwaited, NetworkEmptied, RowFits, RouterPortGone,
       RouterBare, GatewayOps
<1>4. ASSUME NEW p \in Ports, NEW n \in Networks, NEW a \in IPs \cup {None},
             NEW owned \in BOOLEAN, StartAddPort(p, n, a, owned)
      PROVE  Expected(job')
  <2>1. job'.op = "addPort" /\ job'.at = "port" /\ job'.net = n /\ job'.row.net = n
    BY <1>4 DEF StartAddPort, Job
  <2> QED
    BY <2>1 DEF Expected, SubnetAwaited, NetworkEmptied, RowFits, RouterPortGone, RouterBare
<1>5. ASSUME NEW p \in Ports, NEW a \in IPs \cup {None}, NEW owned \in BOOLEAN,
             StartUpdatePort(p, a, owned)
      PROVE  Expected(job')
  <2>1. lsp[p] \in PortRows /\ p \in LivePorts
    BY <1>5 DEF StartUpdatePort, LivePorts, TypeOK
  <2>2. /\ Readdressed(p, a) \in PortRows
        /\ Readdressed(p, a).net = lsp[p].net
    BY <2>1 DEF Readdressed, PortRows, Kinds, AddressKind
  <2>3. /\ [lsp[p] EXCEPT !.routerOwned = owned].net = lsp[p].net
        /\ [Readdressed(p, a) EXCEPT !.routerOwned = owned].net = lsp[p].net
    BY <2>1, <2>2 DEF PortRows
  <2>4. job'.op = "updatePort" /\ job'.at = "setPort" /\ job'.port = p /\ job'.row.net = lsp[p].net
    BY <1>5, <2>3 DEF StartUpdatePort, Job
  <2> QED
    BY <2>1, <2>4 DEF Expected, SubnetAwaited, NetworkEmptied, RowFits, RouterPortGone,
       RouterBare, GatewayOps
<1>6. ASSUME NEW p \in Ports, StartDeletePort(p) PROVE Expected(job')
  <2>1. job'.op = "deletePort" /\ job'.at = "dropPort" /\ job'.old = p
    BY <1>6 DEF StartDeletePort, Job
  <2> QED
    BY <1>6, <2>1 DEF StartDeletePort, Expected, SubnetAwaited, NetworkEmptied, RowFits,
       RouterPortGone, RouterBare, GatewayOps
<1>7. ASSUME NEW r \in Routers, StartAddRouterRoute(r) \/ StartUpdateRoutes(r)
      PROVE  Expected(job')
  BY <1>a, <1>7 DEF StartAddRouterRoute, StartUpdateRoutes, Job, GatewayOps
<1>8. ASSUME NEW r \in Routers, StartDeleteRouter(r) PROVE Expected(job')
  <2>1. CASE gwPort[r] = None
    <3>1. /\ job'.op = "deleteRouter" /\ job'.at = "dropRouter" /\ job'.router = r
          /\ Interfaces(r) = {}
      BY <1>8, <2>1 DEF StartDeleteRouter, Job
    <3> QED
      BY <2>1, <3>1 DEF Expected, SubnetAwaited, NetworkEmptied, RowFits, RouterPortGone,
         RouterBare, GatewayOps
  <2>2. CASE gwPort[r] # None
    <3>1. "deleteRouter" \in RemovalOps /\ Removable(r, gwPort[r])
             /\ job' = Removing("deleteRouter", r, gwPort[r])
      BY <1>8, <2>2 DEF StartDeleteRouter, RemovalOps
    <3>2. /\ job'.op = "deleteRouter" /\ job'.at = "dropRouterPort" /\ job'.router = r
          /\ job'.old = gwPort[r]
      BY <3>1, RemovingGood
    <3> QED
      BY <3>2 DEF Expected, SubnetAwaited, NetworkEmptied, RowFits, RouterPortGone,
         RouterBare, GatewayOps
  <2> QED
    BY <2>1, <2>2
<1>9. ASSUME NEW r \in Routers, NEW p \in Ports, NEW n \in Networks, NEW s \in Subnets,
             NEW ip \in IPs, StartAddRouter(r, p, n, s, ip)
      PROVE  Expected(job')
  <2>1. Job("addRouter", "reserve") \in Jobs
    BY JobIsJob DEF Ops, Places
  <2>2. /\ job'.op = "addRouter" /\ job'.at = "reserve" /\ job'.net = n /\ job'.row = NewRow(n)
    BY <1>9, <2>1, PluggingGood DEF StartAddRouter, Job
  <2> QED
    BY <2>2 DEF Expected, SubnetAwaited, NetworkEmptied, RowFits, RouterPortGone, RouterBare,
       NewRow
<1>10. ASSUME NEW r \in Routers, NEW p \in Ports, NEW n \in Networks, NEW s \in Subnets,
              NEW ip \in IPs, NEW cleared \in BOOLEAN,
              StartUpdateRouter(r, p, n, s, ip, cleared)
       PROVE  Expected(job')
  <2>1. /\ job'.op = "updateRouter" /\ job'.at \in {"clear", "reserve", "dropRouterPort"}
        /\ job'.net = n /\ job'.row = NewRow(n)
    BY <1>10, UpdateRouterStarts
  <2> QED
    BY <2>1 DEF Expected, SubnetAwaited, NetworkEmptied, RowFits, RouterPortGone, RouterBare,
       NewRow
<1>11. ASSUME NEW r \in Routers, NEW p \in Ports, StartDeleteInterface(r, p)
       PROVE  Expected(job')
  <2>1. "removePort" \in RemovalOps /\ Removable(r, p) /\ job' = Removing("removePort", r, p)
    BY <1>11 DEF StartDeleteInterface, RemovalOps
  <2>2. job'.op = "removePort" /\ job'.at = "dropRouterPort"
    BY <2>1, RemovingGood
  <2> QED
    BY <1>a, <2>2 DEF GatewayOps
<1>12. ASSUME NEW r \in Routers, NEW p \in Ports, StartAddInterfaceByPort(r, p)
       PROVE  Expected(job')
  BY <1>a, <1>12 DEF StartAddInterfaceByPort, Job, GatewayOps
<1>13. ASSUME NEW r \in Routers, NEW s \in Subnets, NEW p \in Ports,
              StartAddInterfaceBySubnet(r, s, p)
       PROVE  Expected(job')
  <2>1. /\ job'.op = "attachSubnet" /\ job'.at = "port" /\ job'.net = dhcp[s].net
        /\ job'.row.net = dhcp[s].net
    BY <1>13 DEF StartAddInterfaceBySubnet, Job, NewRow
  <2> QED
    BY <2>1 DEF Expected, SubnetAwaited, NetworkEmptied, RowFits, RouterPortGone, RouterBare
<1>14. ASSUME NEW r \in Routers, NEW s \in Subnets, StartDeleteInterfaceBySubnet(r, s)
       PROVE  Expected(job')
  BY <1>a, <1>14 DEF StartDeleteInterfaceBySubnet, Job, GatewayOps
<1> QED
  BY <1>1, <1>2, <1>3, <1>4, <1>5, <1>6, <1>7, <1>8, <1>9, <1>10, <1>11, <1>12, <1>13, <1>14
  DEF Start

\* There is one write at each place.
LEMMA CommitsAt ==
  ASSUME NEW j, Commit(j)
  PROVE  /\ j.at = "row" => SubnetRow(j)
         /\ j.at = "options" => SubnetOptions(j)
         /\ j.at = "dropSubnet" => DropSubnet(j)
         /\ j.at = "dropNetwork" => DropNetwork(j)
         /\ j.at = "reserve" => Reserve(j)
         /\ j.at = "release" => Release(j)
         /\ j.at = "router" => CreateRouter(j)
         /\ j.at = "port" => CreatePort(j)
         /\ j.at = "setPort" => SetPort(j)
         /\ j.at = "routerPort" => CreateRouterPort(j)
         /\ j.at = "own" => Own(j)
         /\ j.at = "plug" => Plug(j)
         /\ j.at = "connect" => Connect(j)
         /\ j.at = "disconnect" => Disconnect(j)
         /\ j.at = "key" => SetKey(j)
         /\ j.at = "unkey" => Unkey(j)
         /\ j.at = "route" => AddRoute(j)
         /\ j.at = "userRoute" => AddUserRoute(j)
         /\ j.at = "dropRouterPort" => DropRouterPort(j)
         /\ j.at = "dropPort" => DropPort(j)
         /\ j.at = "dropRouter" => DropRouter(j)
         /\ j.at \in {"clear", "unroute"} => ClearRoute(j)
         /\ j.at # "visit"
BY
DEF Commit, SubnetRow, SubnetOptions, DropSubnet, DropNetwork, Reserve, Release, CreateRouter,
   CreatePort, SetPort, CreateRouterPort, Own, Plug, Connect, Disconnect, SetKey, Unkey, AddRoute,
   AddUserRoute, ClearRoute, DropRouterPort, DropPort, DropRouter

\* Every write leaves the networks, subnets and ports in order.
LEMMA CommitWellFormed ==
  ASSUME OrderedSteps, job # None, Commit(job)
  PROVE  NetworksWellFormed'
<1> USE IdAssumption DEF portVars, routerVars
<1>0. /\ job \in Jobs /\ Placed(job.op, job.at) /\ Filled(job) /\ Expected(job)
      /\ TypeOK /\ NetworksWellFormed
  BY DEF OrderedSteps, TypedSteps, GoodJobs
<1>a. ASSUME dhcp' = dhcp PROVE SubnetsKept
  BY <1>a DEF SubnetsKept
<1>b. ASSUME lsp' = lsp PROVE PortsKept
  BY <1>b DEF PortsKept
<1>c. ASSUME networks' = networks, dhcp' = dhcp, lsp' = lsp PROVE NetworksWellFormed'
  BY <1>0, <1>a, <1>b, <1>c, KeptWellFormed
<1>1. CASE SubnetRow(job)
  <2>1. job.net \in networks /\ \A s \in LiveSubnets : dhcp[s].net # job.net
    BY <1>0, <1>1 DEF SubnetRow, Expected, SubnetAwaited, HasSubnet, SubnetsOf
  <2>2. dhcp'[job.sub] # None => dhcp'[job.sub].net = job.net
    <3>1. job.sub \in Subnets
      BY <1>0, <1>1 DEF SubnetRow, Placed, Filled, Jobs
    <3> QED
      BY <1>0, <1>1, <3>1 DEF SubnetRow, TypeOK
  <2>3. \A s \in Subnets \ {job.sub} : dhcp'[s] = dhcp[s]
    BY <1>0, <1>1 DEF SubnetRow, TypeOK
  <2> QED
    BY <1>0, <1>1, <2>1, <2>2, <2>3 DEF SubnetRow, NetworksWellFormed, LiveSubnets, LivePorts
<1>2. CASE SubnetOptions(job)
  <2>1. SubnetsKept
    <3> SUFFICES ASSUME NEW s \in Subnets, dhcp'[s] # None
                 PROVE  dhcp[s] # None /\ dhcp'[s].net = dhcp[s].net
      BY DEF SubnetsKept
    <3>1. dhcp[s] # None => dhcp[s] \in SubnetRows
      BY <1>0 DEF TypeOK
    <3>2. dhcp[s] # None => [dhcp[s] EXCEPT !.gateway = job.ip].net = dhcp[s].net
      BY <3>1 DEF SubnetRows
    <3> QED
      BY <1>0, <1>2, <3>2 DEF SubnetOptions, TypeOK
  <2> QED
    BY <1>0, <1>2, <1>b, <2>1, KeptWellFormed DEF SubnetOptions
<1>3. CASE DropSubnet(job)
  <2>1. SubnetsKept
    BY <1>0, <1>3 DEF DropSubnet, SubnetsKept, TypeOK
  <2> QED
    BY <1>0, <1>3, <1>b, <2>1, KeptWellFormed DEF DropSubnet
<1>4. CASE DropNetwork(job)
  <2>1. PortsOf(job.net) = {} /\ SubnetsOf(job.net) = {}
    BY <1>0, <1>4 DEF DropNetwork, Placed, Expected, NetworkEmptied
  <2>2. /\ \A p \in LivePorts : lsp[p].net # job.net
        /\ \A s \in LiveSubnets : dhcp[s].net # job.net
    BY <2>1 DEF PortsOf, SubnetsOf
  <2>3. \A p \in Ports : lsp'[p] = lsp[p]
    BY <1>4, <2>1 DEF DropNetwork, PortsWithout
  <2> QED
    BY <1>0, <1>4, <2>2, <2>3 DEF DropNetwork, NetworksWellFormed, LiveSubnets, LivePorts
<1>5. CASE CreatePort(job)
  <2>1. CASE job.net \in networks
    <3>1. job.row.net = job.net /\ job.port \in Ports
      BY <1>0, <1>5 DEF CreatePort, Placed, Filled, Expected, RowFits, GatewayOps, AttachOps,
         Jobs
    <3>2. lsp'[job.port] = job.row /\ \A q \in Ports \ {job.port} : lsp'[q] = lsp[q]
      BY <1>0, <1>5, <2>1, <3>1 DEF CreatePort, TypeOK
    <3>3. lsp'[job.port].net \in networks
      BY <2>1, <3>1, <3>2
    <3> QED
      BY <1>0, <1>5, <1>a, <3>1, <3>2, <3>3, NewPortWellFormed DEF CreatePort
  <2>2. CASE job.net \notin networks
    BY <1>5, <1>c, <2>2 DEF CreatePort
  <2> QED
    BY <2>1, <2>2
<1>6. CASE SetPort(job)
  <2>1. job.port \in LivePorts /\ job.row.net = lsp[job.port].net /\ job.row \in PortRows
    BY <1>0, <1>6 DEF SetPort, Placed, Filled, Expected, RowFits, Jobs
  <2>2. [job.row EXCEPT !.ip = lsp[job.port].ip].net = job.row.net
    BY <2>1 DEF PortRows
  <2>3. lsp'[job.port].net = lsp[job.port].net /\ \A q \in Ports \ {job.port} : lsp'[q] = lsp[q]
    BY <1>0, <1>6, <2>1, <2>2 DEF SetPort, TypeOK, LivePorts
  <2>4. PortsKept
    BY <2>1, <2>3 DEF PortsKept, LivePorts
  <2> QED
    BY <1>0, <1>6, <1>a, <2>4, KeptWellFormed DEF SetPort
<1>7. CASE Own(job) \/ Plug(job)
  <2>1. PortsKept
    <3> SUFFICES ASSUME NEW p \in Ports, lsp'[p] # None
                 PROVE  lsp[p] # None /\ lsp'[p].net = lsp[p].net
      BY DEF PortsKept
    <3>1. lsp[p] # None => lsp[p] \in PortRows
      BY <1>0 DEF TypeOK
    <3>2. lsp[p] # None =>
            /\ [lsp[p] EXCEPT !.routerOwned = TRUE].net = lsp[p].net
            /\ [[lsp[p] EXCEPT !.kind = "router"] EXCEPT !.ip = None].net = lsp[p].net
      BY <3>1 DEF PortRows
    <3>3. lsp'[p] = lsp[p] \/ lsp'[p] = [lsp[p] EXCEPT !.routerOwned = TRUE]
            \/ lsp'[p] = [[lsp[p] EXCEPT !.kind = "router"] EXCEPT !.ip = None]
      <4>1. CASE p # job.port
        BY <1>0, <1>7, <4>1 DEF Own, Plug, TypeOK
      <4>2. CASE p = job.port /\ Own(job)
        BY <1>0, <4>2 DEF Own, TypeOK
      <4>3. CASE p = job.port /\ Plug(job)
        BY <1>0, <4>3 DEF Plug, TypeOK
      <4> QED
        BY <1>7, <4>1, <4>2, <4>3
    <3>4. lsp[p] = None => lsp'[p] = None
      BY <1>0, <1>7 DEF Own, Plug, TypeOK
    <3> QED
      BY <3>2, <3>3, <3>4
  <2> QED
    BY <1>0, <1>7, <1>a, <2>1, KeptWellFormed DEF Own, Plug
<1>8. ASSUME NEW r, SetGatewayRouter(job.sub, r) PROVE NetworksWellFormed'
  <2>1. SubnetsKept
    <3> SUFFICES ASSUME NEW s \in Subnets, dhcp'[s] # None
                 PROVE  dhcp[s] # None /\ dhcp'[s].net = dhcp[s].net
      BY DEF SubnetsKept
    <3>1. dhcp[s] # None => dhcp[s] \in SubnetRows
      BY <1>0 DEF TypeOK
    <3>2. dhcp[s] # None => [dhcp[s] EXCEPT !.router = r].net = dhcp[s].net
      BY <3>1 DEF SubnetRows
    <3> QED
      BY <1>0, <1>8, <3>2 DEF SetGatewayRouter, TypeOK
  <2> QED
    BY <1>0, <1>8, <1>b, <2>1, KeptWellFormed DEF SetGatewayRouter
<1>9. CASE DropPort(job)
  BY <1>0, <1>9, <1>a, RemovalKeepsPorts, KeptWellFormed DEF DropPort
<1>10. CASE \/ Reserve(job) \/ Release(job) \/ CreateRouter(job) \/ CreateRouterPort(job)
            \/ SetKey(job) \/ Unkey(job) \/ AddRoute(job) \/ AddUserRoute(job)
            \/ ClearRoute(job) \/ DropRouterPort(job) \/ DropRouter(job)
  BY <1>10, <1>c
  DEF Reserve, Release, WriteExclude, CreateRouter, CreateRouterPort, SetKey, Unkey, AddRoute,
      AddUserRoute, SetRoute, ClearRoute, DropRouterPort, DropRouter
<1> QED
  BY <1>1, <1>2, <1>3, <1>4, <1>5, <1>6, <1>7, <1>8, <1>9, <1>10
  DEF Commit, Connect, Disconnect

\* A write leaves behind what the next one expects.
LEMMA WriteExpected ==
  ASSUME OrderedSteps, Write, job' # None
  PROVE  Expected(job)'
<1> USE IdAssumption
<1>0. /\ job \in GoodJobs /\ job \in Jobs /\ Placed(job.op, job.at) /\ Filled(job)
      /\ Expected(job) /\ TypeOK /\ Commit(job)
  BY DEF OrderedSteps, TypedSteps, GoodJobs, Write
<1>1. /\ job'.at = Following(job) /\ Following(job) # "done"
      /\ job'.op = job.op /\ job'.router = job.router /\ job'.port = job.port
      /\ job'.row = job.row /\ job'.net = job.net /\ job'.sub = job.sub /\ job'.old = job.old
  BY <1>0, ArriveFields DEF Write
<1>2. SubnetAwaited(job)'
  <2>1. Following(job) # "row"
    BY FollowingPlaced, <1>0, <1>1
    DEF Following, AfterRemoval, AfterDisconnect, AfterDropPort, AfterClear, AfterPlug,
        AfterRouterPort
  <2> QED
    BY <1>1, <2>1 DEF SubnetAwaited
<1>3. NetworkEmptied(job)'
  <2> SUFFICES ASSUME job.op = "deleteNetwork" PROVE NetworkEmptied(job)'
    BY <1>1 DEF NetworkEmptied
  <2>1. job.at = "dropSubnet" /\ DropSubnet(job)
    <3>1. job.at \in {"dropSubnet", "dropNetwork"}
      BY <1>0 DEF Placed, GatewayOps, RemovalOps, AttachOps, Jobs, Places
    <3>2. job.at # "dropNetwork"
      BY <1>1 DEF Following
    <3> QED
      BY <1>0, <3>1, <3>2, CommitsAt
  <2>2. PortsOf(job.net)' = PortsOf(job.net) /\ SubnetsOf(job.net)' = {}
    BY <1>0, <1>1, <2>1
    DEF DropSubnet, Expected, NetworkEmptied, PortsOf, LivePorts, SubnetsOf, LiveSubnets, TypeOK,
        portVars
  <2> QED
    BY <1>0, <1>1, <2>2 DEF Expected, NetworkEmptied
<1>4. RowFits(job)'
  <2>1. Following(job) # "setPort"
    BY FollowingPlaced, <1>0, <1>1
    DEF Following, AfterRemoval, AfterDisconnect, AfterDropPort, AfterClear, AfterPlug,
        AfterRouterPort
  <2> QED
    BY <1>0, <1>1, <2>1 DEF Expected, RowFits
<1>5. RouterPortGone(job)'
  <2> SUFFICES ASSUME Following(job) = "dropPort" PROVE RouterPortGone(job)'
    BY <1>1 DEF RouterPortGone
  <2>1. job.at = "dropRouterPort"
    BY <1>0
    DEF Following, AfterRemoval, AfterDisconnect, AfterDropPort, AfterClear, AfterPlug,
        AfterRouterPort
  <2>2. DropRouterPort(job)
    BY <1>0, <2>1, CommitsAt
  <2>3. job.op # "deletePort" /\ job.old \in Ports
    BY <1>0, <2>1 DEF Placed, Filled, RemovalOps, RemovalPlaces, NeedsOld, Jobs
  <2> QED
    BY <1>1, <2>2, <2>3 DEF DropRouterPort, RouterPortsWithout, RouterPortGone
<1>6. RouterBare(job)'
  <2> SUFFICES ASSUME job.op = "deleteRouter" PROVE RouterBare(job)'
    BY <1>1 DEF RouterBare
  <2>1. job.router \in Routers /\ job.old \in Ports \cup {None}
    BY <1>0 DEF Filled, RemovalOps, Jobs
  <2>2. CASE job.at \in {"dropRouterPort", "dropPort", "disconnect"}
    <3>1. gwPort' = gwPort /\ gwPort[job.router] = job.old
      BY <1>0, <2>2, CommitsAt
      DEF DropRouterPort, DropPort, Disconnect, SetGatewayRouter, routerVars, Expected, RouterBare
    <3>2. Following(job) \in {"dropPort", "disconnect", "unkey"}
      BY <2>2, <3>1 DEF Following, AfterDropPort, AfterDisconnect
    <3> QED
      BY <1>1, <3>1, <3>2 DEF RouterBare
  <2>3. CASE job.at = "unkey"
    <3>1. gwPort'[job.router] = None
      BY <1>0, <2>1, <2>3, CommitsAt DEF Unkey, TypeOK
    <3>2. Following(job) = "unroute"
      BY <2>3 DEF Following
    <3> QED
      BY <1>1, <3>1, <3>2 DEF RouterBare
  <2>4. CASE job.at \in {"unroute", "release"}
    <3>1. gwPort' = gwPort /\ gwPort[job.router] = None /\ lrp' = lrp
      BY <1>0, <2>4, CommitsAt
      DEF ClearRoute, Release, WriteExclude, portVars, routerVars, Expected, RouterBare
    <3>2. \/ Following(job) = "release"
          \/ Following(job) = "dropRouter" /\ Interfaces(job.router) = {}
      BY <1>1, <2>4 DEF Following, AfterRemoval
    <3> QED
      BY <1>1, <3>1, <3>2 DEF RouterBare, Interfaces
  <2> QED
    <3>1. job.at \in RemovalPlaces \cup {"dropRouter"}
      BY <1>0 DEF Placed, GatewayOps, RemovalOps, RemovalPlaces, AttachOps, Jobs, Places
    <3>2. job.at # "dropRouter"
      BY <1>1 DEF Following
    <3> QED
      BY <2>2, <2>3, <2>4, <3>1, <3>2 DEF RemovalPlaces
<1> QED
  BY <1>2, <1>3, <1>4, <1>5, <1>6 DEF Expected

\* Nothing is expected of a job that has not changed when nothing it looks at has.
LEMMA UnchangedExpected ==
  ASSUME UNCHANGED dbVars, Expected(job')
  PROVE  Expected(job)'
BY DEF dbVars, vars, Expected, SubnetAwaited, NetworkEmptied, RowFits, RouterPortGone,
   RouterBare, HasSubnet, PortsOf, SubnetsOf, LivePorts, LiveSubnets, Interfaces

LEMMA VisitExpected ==
  ASSUME OrderedSteps, VisitPort, job' # None
  PROVE  Expected(job)'
<1>1. job \in Jobs /\ job.op = "detachSubnet"
  BY DEF OrderedSteps, TypedSteps, GoodJobs, VisitPort, Placed
<1>2. job'.op = "detachSubnet" /\ job'.at \in {"dropRouterPort", "disconnect"}
  BY <1>1 DEF VisitPort, Jobs
<1>3. Expected(job')
  BY <1>2 DEF Expected, SubnetAwaited, NetworkEmptied, RowFits, RouterPortGone, RouterBare,
     GatewayOps
<1> QED
  BY <1>3, UnchangedExpected DEF VisitPort

LEMMA SkipExpected ==
  ASSUME OrderedSteps, Skip
  PROVE  Expected(job)'
<1>1. /\ job \in Jobs /\ job.at \in {"plug", "key"} /\ Expected(job)
      /\ job.op \in GatewayOps \cup AttachOps
  BY DEF OrderedSteps, TypedSteps, GoodJobs, Placed, Skip, Unchecked
<1>2. Following(job) \in {"connect", "routerPort", "key", "route"}
  <2>1. CASE job.at = "plug"
    BY <2>1 DEF Following, AfterPlug
  <2>2. CASE job.at = "key"
    BY <2>2 DEF Following
  <2> QED
    BY <1>1, <2>1, <2>2
<1>3. /\ job'.at = Following(job) /\ job'.op = job.op /\ job'.row = job.row /\ job'.net = job.net
  BY <1>1 DEF Skip, Jobs
<1>4. Expected(job')
  BY <1>1, <1>2, <1>3
  DEF Expected, SubnetAwaited, NetworkEmptied, RowFits, RouterPortGone, RouterBare, GatewayOps,
      AttachOps
<1> QED
  BY <1>4, UnchangedExpected DEF Skip

LEMMA StepOrdered ==
  ASSUME "late" \notin Faults
  PROVE  OrderedSteps /\ [StepsNext]_stepVars => OrderedSteps'
<1> SUFFICES ASSUME OrderedSteps, [StepsNext]_stepVars PROVE OrderedSteps'
  OBVIOUS
<1>0. TypedSteps /\ TypedSteps' /\ TypeOK /\ late = <<>> /\ NetworksWellFormed
  BY StepTyped DEF OrderedSteps, TypedSteps
<1>a. ASSUME UNCHANGED dbVars PROVE NetworksWellFormed'
  BY <1>0, <1>a, StepWellFormed DEF dbVars
<1>1. CASE job = None /\ OneWrite /\ UNCHANGED <<job, late>>
  BY <1>0, <1>1, OneWriteIsNext, StepWellFormed DEF OrderedSteps
<1>2. CASE Start
  BY <1>0, <1>2, <1>a, StartExpected, UnchangedExpected DEF OrderedSteps, Start
<1>3. CASE Write
  BY <1>0, <1>3, CommitWellFormed, WriteExpected DEF OrderedSteps, Write
<1>4. CASE VisitPort
  BY <1>0, <1>4, <1>a, VisitExpected DEF OrderedSteps, VisitPort
<1>5. CASE Northd
  BY <1>0, <1>5, NorthdIsNext, StepWellFormed, NorthdExpected, NorthdKeeps DEF OrderedSteps
<1>6. CASE Abandon
  BY <1>0, <1>6, <1>a DEF OrderedSteps, Abandon
<1>7. CASE Skip
  BY <1>0, <1>7, <1>a, SkipExpected DEF OrderedSteps, Skip
<1>8. CASE TimeOut \/ LateCommit
  BY <1>0, <1>8 DEF TimeOut, LateCommit
<1>9. CASE UNCHANGED stepVars
  <2>1. UNCHANGED <<dbVars, job, late>>
    BY <1>9 DEF stepVars, dbVars, vars
  <2>2. job' # None => Expected(job')
    BY <2>1 DEF OrderedSteps
  <2> QED
    BY <1>0, <1>a, <2>1, <2>2, UnchangedExpected DEF OrderedSteps
<1> QED
  BY <1>1, <1>2, <1>3, <1>4, <1>5, <1>6, <1>7, <1>8, <1>9 DEF StepsNext

LEMMA AlwaysOrdered ==
  ASSUME "late" \notin Faults
  PROVE  StepsSpec => []OrderedSteps
<1>1. StepsInit => OrderedSteps
  BY InitTypeOK, InitWellFormed DEF StepsInit, OrderedSteps, TypedSteps
<1>2. OrderedSteps /\ [StepsNext]_stepVars => OrderedSteps'
  BY StepOrdered
<1> QED
  BY <1>1, <1>2, PTL DEF StepsSpec

\* A network has at most one subnet and nothing outlives it, also between the
\* transactions of a request and after requests that were cut short or lost writes.
THEOREM StepsWellFormed ==
  ASSUME "late" \notin Faults
  PROVE  StepsSpec => []NetworksWellFormed
<1>1. OrderedSteps => NetworksWellFormed
  BY DEF OrderedSteps
<1> QED
  BY <1>1, AlwaysOrdered, PTL

-----------------------------------------------------------------------------
(* The order in which rows go away *)

\* Only the write of that place removes ports.
LEMMA OnlyDropPortRemoves ==
  ASSUME OrderedSteps, job # None, Commit(job), NEW p \in Ports, lsp[p] # None, lsp'[p] = None
  PROVE  DropPort(job) /\ p = job.old
<1> USE IdAssumption DEF portVars
<1>0. /\ job \in Jobs /\ Placed(job.op, job.at) /\ Filled(job) /\ Expected(job) /\ TypeOK
  BY DEF OrderedSteps, TypedSteps, GoodJobs
<1>a. lsp[p] \in PortRows
  BY <1>0 DEF TypeOK
<1>1. ~DropNetwork(job)
  <2> SUFFICES ASSUME DropNetwork(job) PROVE FALSE
    OBVIOUS
  <2>1. PortsOf(job.net) = {}
    BY <1>0 DEF DropNetwork, Placed, Expected, NetworkEmptied
  <2> QED
    BY <2>1 DEF DropNetwork, PortsWithout
<1>2. ~CreatePort(job)
  <2>1. CreatePort(job) => job.row # None
    BY <1>0 DEF CreatePort, Placed, Filled, GatewayOps
  <2> QED
    BY <1>0, <2>1 DEF CreatePort, TypeOK
<1>3. ~SetPort(job)
  <2> SUFFICES ASSUME SetPort(job) PROVE FALSE
    OBVIOUS
  <2>1. job.row \in PortRows /\ job.port \in LivePorts
    BY <1>0 DEF SetPort, Placed, Filled, Jobs, Expected, RowFits
  <2>2. lsp[job.port] \in PortRows
    BY <1>0, <2>1 DEF LivePorts, TypeOK
  <2>3. [job.row EXCEPT !.ip = lsp[job.port].ip] \in PortRows
    BY <2>1, <2>2 DEF PortRows
  <2>4. lsp'[job.port] \in PortRows
    BY <1>0, <2>1, <2>3 DEF SetPort, TypeOK, LivePorts
  <2>5. p # job.port => lsp'[p] = lsp[p]
    BY <1>0 DEF SetPort, TypeOK
  <2> QED
    BY <2>4, <2>5
<1>4. ~Own(job) /\ ~Plug(job)
  <2>1. [lsp[p] EXCEPT !.routerOwned = TRUE] \in PortRows
    BY <1>a DEF PortRows
  <2>2. [[lsp[p] EXCEPT !.kind = "router"] EXCEPT !.ip = None] \in PortRows
    BY <1>a DEF PortRows, Kinds
  <2>3. CASE p # job.port
    BY <1>0, <2>3 DEF Own, Plug, TypeOK
  <2>4. CASE p = job.port
    <3>1. Own(job) => lsp'[p] = [lsp[p] EXCEPT !.routerOwned = TRUE]
      BY <1>0, <2>4 DEF Own, TypeOK
    <3>2. Plug(job) => lsp'[p] = [[lsp[p] EXCEPT !.kind = "router"] EXCEPT !.ip = None]
      BY <1>0, <2>4 DEF Plug, TypeOK
    <3> QED
      BY <2>1, <2>2, <3>1, <3>2
  <2> QED
    BY <2>3, <2>4
<1>5. lsp' # lsp
  OBVIOUS
<1>6. DropPort(job)
  BY <1>1, <1>2, <1>3, <1>4, <1>5
  DEF Commit, SubnetRow, SubnetOptions, DropSubnet, Reserve, Release, WriteExclude, CreateRouter,
      CreateRouterPort, Connect, Disconnect, SetGatewayRouter, SetKey, Unkey, AddRoute,
      AddUserRoute, SetRoute, ClearRoute, DropRouterPort, DropRouter
<1> QED
  BY <1>6 DEF DropPort, PortsWithout

\* No request that is cut short leaves a router port without its switch port.
THEOREM RouterPortsFirst ==
  ASSUME "late" \notin Faults
  PROVE  StepsSpec => RouterPortsLeaveFirst
<1>1. ASSUME OrderedSteps, [StepsNext]_stepVars, NEW p \in Ports, lsp[p] # None, lsp'[p] = None
      PROVE  ~lsp[p].routerOwned \/ lrp[p] = None
  <2>0. TypeOK /\ late = <<>>
    BY <1>1 DEF OrderedSteps, TypedSteps
  <2>1. CASE Write
    BY <1>1, <2>1, OnlyDropPortRemoves
    DEF Write, DropPort, OrderedSteps, Expected, RouterPortGone
  <2>2. CASE OneWrite
    <3>1. CASE \E q \in Ports, owned \in BOOLEAN : UpdateRouterPort(q, owned)
      <4>1. lsp[p] \in PortRows
        BY <1>1, <2>0 DEF TypeOK
      <4>2. \A owned \in BOOLEAN : [lsp[p] EXCEPT !.routerOwned = owned] \in PortRows
        BY <4>1 DEF PortRows
      <4> QED
        BY <1>1, <2>0, <3>1, <4>2, IdAssumption DEF UpdateRouterPort, TypeOK
    <3>2. CASE lsp' = lsp
      BY <1>1, <3>2
    <3> QED
      BY <2>2, <3>1, <3>2
      DEF OneWrite, AddNetwork, UpdateSubnet, AddRouter, UpdateRouterRoutes, portVars
  <2>3. CASE Northd
    BY <1>1, <2>0, <2>3, NorthdKeeps
  <2>4. CASE LateCommit
    BY <2>0, <2>4 DEF LateCommit
  <2>5. CASE lsp' = lsp
    BY <1>1, <2>5
  <2> QED
    BY <1>1, <2>1, <2>2, <2>3, <2>4, <2>5
    DEF StepsNext, Start, VisitPort, Abandon, Skip, TimeOut, dbVars, vars, stepVars
<1>2. OrderedSteps /\ [StepsNext]_stepVars =>
        [\A p \in Ports :
           (lsp[p] # None /\ lsp'[p] = None) => ~lsp[p].routerOwned \/ lrp[p] = None]_stepVars
  BY <1>1
<1> QED
  BY <1>2, AlwaysOrdered, PTL DEF StepsSpec, RouterPortsLeaveFirst

\* A router takes no port and no key along, also when requests were cut short before.
THEOREM BareRouterRemoval ==
  ASSUME "late" \notin Faults
  PROVE  StepsSpec => RoutersLeaveBare
<1>1. ASSUME OrderedSteps, [StepsNext]_stepVars, NEW r \in routers \ routers'
      PROVE  Interfaces(r) = {} /\ gwPort[r] = None
  <2>0. TypeOK /\ late = <<>>
    BY <1>1 DEF OrderedSteps, TypedSteps
  <2>1. CASE Write
    <3>1. job # None /\ Commit(job) /\ job \in GoodJobs /\ Expected(job)
      BY <1>1, <2>1 DEF Write, OrderedSteps, TypedSteps
    <3>2. DropRouter(job) /\ r = job.router
      BY <1>1, <3>1
      DEF Commit, SubnetRow, SubnetOptions, DropSubnet, DropNetwork, Reserve, Release,
          WriteExclude, CreateRouter, CreatePort, SetPort, CreateRouterPort, Own, Plug, Connect,
          Disconnect, SetGatewayRouter, SetKey, Unkey, AddRoute, AddUserRoute, SetRoute,
          ClearRoute, DropRouterPort, DropPort, DropRouter, routerVars
    <3> QED
      BY <3>1, <3>2 DEF DropRouter, GoodJobs, Placed, Expected, RouterBare
  <2>2. CASE OneWrite
    BY <1>1, <2>2
    DEF OneWrite, AddNetwork, UpdateSubnet, UpdateRouterPort, AddRouter, UpdateRouterRoutes,
        routerVars
  <2>3. CASE Northd
    BY <1>1, <2>0, <2>3, NorthdKeeps
  <2>4. CASE LateCommit
    BY <2>0, <2>4 DEF LateCommit
  <2>5. CASE routers' = routers
    BY <1>1, <2>5
  <2> QED
    BY <1>1, <2>1, <2>2, <2>3, <2>4, <2>5
    DEF StepsNext, Start, VisitPort, Abandon, Skip, TimeOut, dbVars, vars, stepVars
<1>2. OrderedSteps /\ [StepsNext]_stepVars =>
        [\A r \in routers \ routers' : Interfaces(r) = {} /\ gwPort[r] = None]_stepVars
  BY <1>1
<1> QED
  BY <1>2, AlwaysOrdered, PTL DEF StepsSpec, RoutersLeaveBare

-----------------------------------------------------------------------------
(* External gateways and their reserved addresses, as long as requests are not *)
(* both cut short and go on after a write that failed                        *)

\* The external gateway of r is plugged in, in network n and with address ip.
GatewayAt(r, n, ip) ==
  LET p == gwPort[r]
  IN p \in LivePorts /\ lrp[p] # None /\ lsp[p].net = n /\ lrp[p].ip = ip

\* The key is written after type and addresses of the port.  If neither is lost, a
\* port that a key names is no port that a request updates or plugs in.
KeysNameRouterPorts ==
  "skip" \notin Faults =>
    \A r \in Routers : gwPort[r] \in LivePorts => lsp[gwPort[r]].kind = "router"

\* A port that a key names has its router port, but between the two writes that take
\* them away.  If no request ends there, it cannot be plugged in a second time.
KeysPlugged ==
  "abandon" \notin Faults =>
    \A r \in Routers :
      gwPort[r] \in LivePorts /\ lrp[gwPort[r]] = None =>
        job # None /\ job.at = "dropPort" /\ job.old = gwPort[r]

\* What is given back when one gateway goes is not another's.
GatewaysApart ==
  \A r, t \in Routers, n \in Networks, ip \in IPs :
    GatewayAt(r, n, ip) /\ GatewayAt(t, n, ip) => r = t

\* The new port of the request is nobody's external gateway before the key is written,
\* and neither is one that it updates or plugs in.
PortFree(j) ==
  /\ j.op \in GatewayOps \cup {"addPort", "attachSubnet"} /\ j.at # "route" =>
       \A r \in Routers : gwPort[r] # j.port
  /\ j.op \in {"updatePort", "attachPort"} /\ "skip" \notin Faults =>
       \A r \in Routers : gwPort[r] # j.port

\* From its reservation to its key, the address of a new gateway is nobody else's.
AddressHeld(j) ==
  j.op \in GatewayOps /\ j.at # "route" =>
    /\ j.net \in networks
    /\ \A r \in Routers : ~GatewayAt(r, j.net, j.ip)
    /\ j.at = "reserve" => j.value = exclude[j.net] \cup {j.ip}
    /\ j.at \in {"router", "port", "routerPort", "own", "plug", "key"} => j.ip \in exclude[j.net]
    /\ j.at \in {"routerPort", "own", "plug", "key"} =>
         j.port \in LivePorts /\ lsp[j.port].net = j.net
    /\ j.at \in {"own", "plug", "key"} => lrp[j.port] # None /\ lrp[j.port].ip = j.ip
    /\ j.at = "key" /\ "skip" \notin Faults => lsp[j.port].kind = "router"

\* The address that is given back is no other gateway's, and no longer this one's.
ReleaseSafe(j) ==
  j.op \in RemovalOps /\ j.old # None =>
    /\ j.at \in {"clear", "dropRouterPort", "dropPort", "disconnect"}
         /\ gwPort[j.router] = j.old =>
           \A r \in Routers \ {j.router} : ~GatewayAt(r, j.oldNet, j.oldIp)
    /\ j.at = "unkey" => \A r \in Routers \ {j.router} : ~GatewayAt(r, j.oldNet, j.oldIp)
    /\ j.at \in {"unroute", "release"} => \A r \in Routers : ~GatewayAt(r, j.oldNet, j.oldIp)
    /\ j.at = "release" => j.value = exclude[j.oldNet] \ {j.oldIp}

Careful(j) == PortFree(j) /\ AddressHeld(j) /\ ReleaseSafe(j)

ReservedSteps ==
  /\ OrderedSteps
  /\ KeysNameRouterPorts
  /\ KeysPlugged
  /\ GatewaysApart
  /\ GatewaysStayReserved
  /\ job # None => Careful(job)

\* The faults under which all this holds.  With both, a gateway whose port was not
\* turned into a router port can lose its router port only, be given an address like
\* any port and be plugged in with that one, which is not reserved.
GatewayFaults == "late" \notin Faults /\ ~({"abandon", "skip"} \subseteq Faults)

\* GatewaysStayReserved, said of GatewayAt.
LEMMA ReservedAt ==
  ASSUME TypeOK
  PROVE  GatewaysStayReserved <=>
           \A r \in Routers, n \in Networks, ip \in IPs : GatewayAt(r, n, ip) => ip \in exclude[n]
<1>1. \A p \in LivePorts : lsp[p].net \in Networks
  BY DEF LivePorts, TypeOK, PortRows
<1>2. \A p \in Ports : lrp[p] # None => lrp[p].ip \in IPs
  BY DEF TypeOK, RouterPortRows
<1>3. \A p \in LivePorts : p \in Ports
  BY DEF LivePorts
<1> QED
  BY <1>1, <1>2, <1>3 DEF GatewaysStayReserved, GatewayAt

LEMMA ReservedAfter ==
  ASSUME TypeOK'
  PROVE  GatewaysStayReserved' <=>
           \A r \in Routers, n \in Networks, ip \in IPs : GatewayAt(r, n, ip)' => ip \in exclude'[n]
<1>1. \A p \in LivePorts' : lsp'[p].net \in Networks
  BY DEF LivePorts, TypeOK, PortRows
<1>2. \A p \in Ports : lrp'[p] # None => lrp'[p].ip \in IPs
  BY DEF TypeOK, RouterPortRows
<1>3. \A p \in LivePorts' : p \in Ports
  BY DEF LivePorts
<1> QED
  BY <1>1, <1>2, <1>3 DEF GatewaysStayReserved, GatewayAt

\* A step after which every gateway that is plugged in was so before.
GatewaysKept ==
  \A r \in Routers : gwPort'[r] \in LivePorts' =>
    /\ gwPort'[r] = gwPort[r] /\ gwPort[r] \in LivePorts
    /\ lsp'[gwPort[r]].net = lsp[gwPort[r]].net
    /\ "skip" \notin Faults => lsp'[gwPort[r]].kind = lsp[gwPort[r]].kind
    /\ lrp'[gwPort[r]] # None => lrp'[gwPort[r]] = lrp[gwPort[r]]

LEMMA KeptGateways ==
  ASSUME GatewaysKept
  PROVE  /\ \A n, ip : \A r \in Routers : GatewayAt(r, n, ip)' => GatewayAt(r, n, ip)
         /\ KeysNameRouterPorts => KeysNameRouterPorts'
         /\ GatewaysApart => GatewaysApart'
<1>1. \A n, ip : \A r \in Routers : GatewayAt(r, n, ip)' => GatewayAt(r, n, ip)
  BY DEF GatewaysKept, GatewayAt
<1>2. KeysNameRouterPorts => KeysNameRouterPorts'
  BY DEF GatewaysKept, KeysNameRouterPorts
<1>3. GatewaysApart => GatewaysApart'
  BY <1>1 DEF GatewaysApart
<1> QED
  BY <1>1, <1>2, <1>3

\* A request that is done in one transaction, and northd, keep every gateway.
LEMMA OthersKeepGateways ==
  ASSUME TypeOK, OneWrite \/ Northd
  PROVE  GatewaysKept /\ exclude' = exclude /\ lrp' = lrp
<1>1. CASE Northd
  BY <1>1, NorthdKeeps DEF GatewaysKept, LivePorts
<1>2. CASE OneWrite
  <2>1. CASE \E p \in Ports, owned \in BOOLEAN : UpdateRouterPort(p, owned)
    <3>1. PICK p \in Ports, owned \in BOOLEAN : UpdateRouterPort(p, owned)
      BY <2>1
    <3>2. lsp[p] \in PortRows /\ lsp[p] # None
      BY <3>1 DEF UpdateRouterPort, LivePorts, TypeOK
    <3>3. /\ [lsp[p] EXCEPT !.routerOwned = owned].net = lsp[p].net
          /\ [lsp[p] EXCEPT !.routerOwned = owned].kind = lsp[p].kind
      BY <3>2 DEF PortRows
    <3>4. lsp' = [lsp EXCEPT ![p] = [lsp[p] EXCEPT !.routerOwned = owned]]
      BY <3>1 DEF UpdateRouterPort
    <3>5. \A q \in Ports : lsp'[q] # None =>
            lsp[q] # None /\ lsp'[q].net = lsp[q].net /\ lsp'[q].kind = lsp[q].kind
      BY <3>2, <3>3, <3>4 DEF TypeOK
    <3> QED
      BY <3>1, <3>5 DEF UpdateRouterPort, routerVars, GatewaysKept, LivePorts
  <2>2. CASE UNCHANGED <<exclude, lsp, lrp, gwPort>>
    BY <2>2, Zenon DEF GatewaysKept, LivePorts
  <2> QED
    BY <1>2, <2>1, <2>2
    DEF OneWrite, AddNetwork, UpdateSubnet, AddRouter, UpdateRouterRoutes, portVars, routerVars
<1> QED
  BY <1>1, <1>2

\* A write to a port that is there leaves it in its network.
LEMMA RewritesKeepNet ==
  ASSUME OrderedSteps, job # None, SetPort(job) \/ Own(job) \/ Plug(job)
  PROVE  \A q \in LivePorts' :
           /\ q \in LivePorts /\ lsp'[q].net = lsp[q].net
           /\ q # job.port => lsp'[q] = lsp[q]
<1>0. job \in Jobs /\ Placed(job.op, job.at) /\ Filled(job) /\ Expected(job) /\ TypeOK
  BY DEF OrderedSteps, TypedSteps, GoodJobs
<1> SUFFICES ASSUME NEW q \in LivePorts', q = job.port
             PROVE  lsp[q] # None /\ lsp'[q].net = lsp[q].net
  BY <1>0 DEF SetPort, Own, Plug, TypeOK, LivePorts
<1>1. q \in Ports /\ lsp'[q] # None
  BY DEF LivePorts
<1>2. lsp[q] # None /\ lsp[q] \in PortRows
  BY <1>0, <1>1 DEF SetPort, Own, Plug, TypeOK
<1>3. CASE Own(job)
  <2>1. lsp'[q] = [lsp[q] EXCEPT !.routerOwned = TRUE]
    BY <1>0, <1>1, <1>2, <1>3 DEF Own, TypeOK
  <2> QED
    BY <1>2, <2>1 DEF PortRows
<1>4. CASE Plug(job)
  <2>1. lsp'[q] = [[lsp[q] EXCEPT !.kind = "router"] EXCEPT !.ip = None]
    BY <1>0, <1>1, <1>2, <1>4 DEF Plug, TypeOK
  <2> QED
    BY <1>2, <2>1 DEF PortRows
<1>5. CASE SetPort(job)
  <2>1. job.row \in PortRows /\ job.row.net = lsp[q].net
    BY <1>0, <1>5, IdAssumption DEF SetPort, Expected, RowFits, Placed, Filled, Jobs
  <2>2. [job.row EXCEPT !.ip = lsp[q].ip].net = job.row.net
    BY <2>1 DEF PortRows
  <2>3. lsp'[q] \in {job.row, [job.row EXCEPT !.ip = lsp[q].ip]}
    BY <1>0, <1>1, <1>2, <1>5 DEF SetPort, TypeOK
  <2> QED
    BY <1>2, <2>1, <2>2, <2>3
<1> QED
  BY <1>2, <1>3, <1>4, <1>5

\* No port is plugged in while it is an external gateway.
LEMMA PlugsNoGateway ==
  ASSUME GatewayFaults, ReservedSteps, job # None, CreateRouterPort(job), RouterPortAdded(job),
         NEW r \in Routers, job.port \in LivePorts
  PROVE  gwPort[r] # job.port
<1>0. /\ Placed(job.op, job.at) /\ PortFree(job) /\ job.at = "routerPort" /\ lrp[job.port] = None
      /\ KeysPlugged
  BY DEF ReservedSteps, OrderedSteps, TypedSteps, GoodJobs, Careful, CreateRouterPort,
         RouterPortAdded
<1>1. CASE job.op # "attachPort" \/ "skip" \notin Faults
  BY <1>0, <1>1 DEF Placed, PortFree, GatewayOps, AttachOps
<1>2. CASE "abandon" \notin Faults
  BY <1>0, <1>2 DEF KeysPlugged
<1> QED
  BY <1>1, <1>2 DEF GatewayFaults

\* So does every write but that of a key.
LEMMA CommitKeepsGateways ==
  ASSUME GatewayFaults, ReservedSteps, job # None, Commit(job), job.at # "key"
  PROVE  GatewaysKept
<1> USE IdAssumption DEF portVars, routerVars
<1>0. /\ job \in Jobs /\ Placed(job.op, job.at) /\ Filled(job) /\ Careful(job) /\ TypeOK
      /\ OrderedSteps
  BY DEF ReservedSteps, OrderedSteps, TypedSteps, GoodJobs
<1>a. ASSUME \/ job.at = "port"
             \/ job.at \in {"setPort", "own", "plug", "routerPort"} /\ "skip" \notin Faults,
             NEW r \in Routers
      PROVE  gwPort[r] # job.port
  BY <1>0, <1>a DEF Placed, Careful, PortFree, GatewayOps, AttachOps
<1>1. CASE CreatePort(job)
  <2>1. \A r \in Routers : gwPort[r] # job.port
    BY <1>1, <1>a DEF CreatePort
  <2>2. \A p \in Ports \ {job.port} : lsp'[p] = lsp[p]
    BY <1>0, <1>1 DEF CreatePort, TypeOK
  <2> QED
    BY <1>1, <2>1, <2>2 DEF CreatePort, GatewaysKept, LivePorts
<1>b. CASE SetPort(job) \/ Own(job) \/ Plug(job)
  <2>1. \A q \in LivePorts' : /\ q \in LivePorts /\ lsp'[q].net = lsp[q].net
                              /\ q # job.port => lsp'[q] = lsp[q]
    BY <1>0, <1>b, RewritesKeepNet
  <2>2. "skip" \notin Faults => \A r \in Routers : gwPort[r] # job.port
    BY <1>a, <1>b DEF SetPort, Own, Plug
  <2>3. UNCHANGED <<lrp, gwPort>>
    BY <1>b DEF SetPort, Own, Plug
  <2> QED
    BY <2>1, <2>2, <2>3 DEF GatewaysKept
<1>2. CASE CreateRouterPort(job)
  <2>1. CASE ~RouterPortAdded(job)
    BY <1>2, <2>1 DEF CreateRouterPort, GatewaysKept, LivePorts
  <2>2. CASE RouterPortAdded(job)
    <3>1. \A r \in Routers : gwPort[r] \in LivePorts => gwPort[r] # job.port
      BY <1>2, <2>2, PlugsNoGateway
    <3>2. \A p \in Ports \ {job.port} : lrp'[p] = lrp[p]
      BY <1>0, <1>2 DEF CreateRouterPort, TypeOK
    <3> QED
      BY <1>2, <3>1, <3>2 DEF CreateRouterPort, GatewaysKept, LivePorts
  <2> QED
    BY <2>1, <2>2
<1>3. CASE DropNetwork(job) \/ DropPort(job)
  <2>1. \A p \in Ports : lsp'[p] # None => lsp'[p] = lsp[p]
    BY <1>3 DEF DropNetwork, DropPort, PortsWithout
  <2> QED
    BY <1>3, <2>1 DEF DropNetwork, DropPort, GatewaysKept, LivePorts
<1>4. CASE DropRouterPort(job)
  <2>1. \A p \in Ports : lrp'[p] # None => lrp'[p] = lrp[p]
    BY <1>4 DEF DropRouterPort, RouterPortsWithout
  <2> QED
    BY <1>4, <2>1 DEF DropRouterPort, GatewaysKept, LivePorts
<1>5. CASE DropRouter(job)
  <2>1. \A p \in Ports : lrp'[p] # None => lrp'[p] = lrp[p]
    BY <1>5 DEF DropRouter, RouterPortsWithout
  <2>2. \A r \in Routers : gwPort'[r] = gwPort[r] \/ gwPort'[r] = None
    BY <1>0, <1>5 DEF DropRouter, TypeOK
  <2>3. None \notin Ports
    OBVIOUS
  <2> QED
    BY <1>5, <2>1, <2>2, <2>3 DEF DropRouter, GatewaysKept, LivePorts
<1>6. CASE Unkey(job)
  <2>1. \A r \in Routers : gwPort'[r] = gwPort[r] \/ gwPort'[r] = None
    BY <1>0, <1>6 DEF Unkey, TypeOK
  <2>2. None \notin Ports
    OBVIOUS
  <2> QED
    BY <1>6, <2>1, <2>2 DEF Unkey, GatewaysKept, LivePorts
<1>7. CASE UNCHANGED <<lsp, lrp, gwPort>>
  BY <1>7 DEF GatewaysKept, LivePorts
<1>8. ~SetKey(job)
  BY DEF SetKey
<1> QED
  BY <1>b, <1>1, <1>2, <1>3, <1>4, <1>5, <1>6, <1>7, <1>8
  DEF Commit, SubnetRow, SubnetOptions, DropSubnet, Reserve, Release, WriteExclude, CreateRouter,
      Connect, Disconnect, SetGatewayRouter, AddRoute, AddUserRoute, SetRoute, ClearRoute

\* No write but the one that a removal begins with takes the router port of a gateway.
LEMMA CommitPlugged ==
  ASSUME GatewayFaults, ReservedSteps, Write
  PROVE  KeysPlugged'
<1> USE IdAssumption
<1>0. /\ job \in Jobs /\ Expected(job) /\ Careful(job) /\ TypeOK /\ Commit(job) /\ job # None
      /\ Placed(job.op, job.at) /\ KeysPlugged
  BY DEF ReservedSteps, OrderedSteps, TypedSteps, GoodJobs, Write
<1> SUFFICES ASSUME "abandon" \notin Faults, NEW r \in Routers,
                    gwPort'[r] \in LivePorts', lrp'[gwPort'[r]] = None
             PROVE  job' # None /\ job'.at = "dropPort" /\ job'.old = gwPort'[r]
  BY DEF KeysPlugged
<1> DEFINE p == gwPort'[r]
<1>a. p \in Ports
  BY DEF LivePorts
<1>1. CASE job.at = "key" /\ lrp[p] = None
  <2>1. SetKey(job)
    BY <1>0, <1>1, CommitsAt
  <2>2. UNCHANGED <<lsp, lrp>> /\ gwPort'[r] \in {gwPort[r], job.port}
    BY <1>0, <2>1 DEF SetKey, portVars, TypeOK
  <2>3. lrp[job.port] # None
    BY <1>0, <1>1 DEF Placed, Careful, AddressHeld
  <2> QED
    BY <1>0, <1>1, <2>2, <2>3 DEF KeysPlugged, LivePorts
<1>2. CASE job.at # "key" /\ lrp[p] = None
  <2>1. gwPort[r] = p /\ p \in LivePorts
    BY <1>0, <1>2, CommitKeepsGateways DEF GatewaysKept
  <2>2. job.at = "dropPort" /\ job.old = p
    BY <1>0, <1>2, <2>1 DEF KeysPlugged
  <2>3. lsp'[p] = None
    BY <1>0, <1>a, <2>2, CommitsAt DEF DropPort, PortsWithout
  <2> QED
    BY <2>3 DEF LivePorts
<1>3. CASE lrp[p] # None
  <2>1. CASE DropRouterPort(job)
    <3>1. job.old = p /\ gwPort' = gwPort
      BY <1>0, <1>a, <1>3, <2>1 DEF DropRouterPort, RouterPortsWithout, routerVars
    <3>2. Following(job) = "dropPort"
      BY <2>1 DEF DropRouterPort, Following
    <3>3. job' = [job EXCEPT !.at = "dropPort"]
      BY <3>2 DEF Write, Arrive
    <3>4. job'.at = "dropPort" /\ job'.old = p
      BY <1>0, <3>1, <3>3 DEF Jobs
    <3>5. job' # None
      BY <1>0, <3>3, JobAssumption, JobSet DEF Places
    <3> QED
      BY <3>4, <3>5
  <2>2. CASE DropRouter(job)
    <3>1. Interfaces(job.router) = {}
      BY <1>0, <2>2 DEF DropRouter, Placed, Expected, RouterBare
    <3> QED
      BY <1>a, <1>3, <2>2, <3>1 DEF DropRouter, RouterPortsWithout
  <2>3. CASE CreateRouterPort(job)
    <3>1. lrp'[p] = lrp[p]
      BY <1>0, <1>a, <1>3, <2>3 DEF CreateRouterPort, RouterPortAdded, TypeOK
    <3> QED
      BY <1>3, <3>1
  <2>4. CASE lrp' = lrp
    BY <1>3, <2>4
  <2> QED
    BY <1>0, <2>1, <2>2, <2>3, <2>4
    DEF Commit, SubnetRow, SubnetOptions, DropSubnet, DropNetwork, Reserve, Release,
        WriteExclude, CreateRouter, CreatePort, SetPort, Own, Plug, Connect, Disconnect,
        SetGatewayRouter, SetKey, Unkey, AddRoute, AddUserRoute, SetRoute, ClearRoute, DropPort,
        portVars
<1> QED
  BY <1>1, <1>2, <1>3

\* The write of the key: the gateway is reserved, its port has its type, and no other
\* gateway of the network has its address.
LEMMA KeyedGateways ==
  ASSUME ReservedSteps, job # None, SetKey(job)
  PROVE  KeysNameRouterPorts' /\ GatewaysApart' /\ GatewaysStayReserved'
<1>0. /\ job \in GoodJobs /\ job \in Jobs /\ Placed(job.op, job.at) /\ Filled(job)
      /\ Careful(job) /\ TypeOK /\ KeysNameRouterPorts /\ GatewaysApart /\ GatewaysStayReserved
  BY DEF ReservedSteps, OrderedSteps, TypedSteps, GoodJobs
<1>1. job.op \in GatewayOps /\ job.at = "key"
  BY <1>0 DEF SetKey, Placed
<1>2. /\ job.ip \in exclude[job.net]
      /\ \A r \in Routers : ~GatewayAt(r, job.net, job.ip)
      /\ lsp[job.port].net = job.net /\ lrp[job.port].ip = job.ip
      /\ "skip" \notin Faults => lsp[job.port].kind = "router"
  BY <1>0, <1>1 DEF Careful, AddressHeld
<1>3. UNCHANGED <<exclude, lsp, lrp>> /\ LivePorts' = LivePorts
  BY DEF SetKey, portVars, LivePorts
<1>4. \A r \in Routers : gwPort'[r] = gwPort[r] \/ (r = job.router /\ gwPort'[r] = job.port)
  BY <1>0 DEF SetKey, TypeOK
<1>5. \A n, ip : \A r \in Routers :
        GatewayAt(r, n, ip)' =>
          GatewayAt(r, n, ip) \/ (r = job.router /\ n = job.net /\ ip = job.ip)
  BY <1>2, <1>3, <1>4 DEF GatewayAt
<1>6. KeysNameRouterPorts'
  BY <1>0, <1>2, <1>3, <1>4 DEF KeysNameRouterPorts
<1>7. GatewaysApart'
  BY <1>0, <1>2, <1>5 DEF GatewaysApart
<1>8. TypeOK'
  BY <1>0, CommitTypeOK DEF Commit
<1>9. GatewaysStayReserved'
  <2>1. \A r \in Routers, n \in Networks, ip \in IPs : GatewayAt(r, n, ip) => ip \in exclude[n]
    BY <1>0, ReservedAt
  <2>2. \A r \in Routers, n \in Networks, ip \in IPs : GatewayAt(r, n, ip)' => ip \in exclude'[n]
    BY <1>2, <1>3, <1>5, <2>1
  <2>3. GatewaysStayReserved' <=>
          \A r \in Routers, n \in Networks, ip \in IPs : GatewayAt(r, n, ip)' => ip \in exclude'[n]
    BY <1>8, ReservedAfter
  <2> QED
    BY <2>2, <2>3
<1> QED
  BY <1>6, <1>7, <1>9

\* A write that keeps the gateways keeps their addresses reserved: what is taken out
\* of exclude_ips is the address of a gateway that is gone, or the network's.
LEMMA KeptReserved ==
  ASSUME GatewayFaults, ReservedSteps, job # None, Commit(job), job.at # "key"
  PROVE  GatewaysStayReserved'
<1>0. /\ job \in GoodJobs /\ job \in Jobs /\ Placed(job.op, job.at) /\ Filled(job)
      /\ Careful(job) /\ Expected(job) /\ TypeOK /\ GatewaysStayReserved
  BY DEF ReservedSteps, OrderedSteps, TypedSteps, GoodJobs
<1>1. \A n, ip : \A r \in Routers : GatewayAt(r, n, ip)' => GatewayAt(r, n, ip)
  BY CommitKeepsGateways, KeptGateways
<1>2. \A r \in Routers, n \in Networks, ip \in IPs : GatewayAt(r, n, ip) => ip \in exclude[n]
  BY <1>0, ReservedAt
<1>3. \A r \in Routers, n \in Networks, ip \in IPs : GatewayAt(r, n, ip)' => ip \in exclude'[n]
  <2> SUFFICES ASSUME NEW r \in Routers, NEW n \in Networks, NEW ip \in IPs, GatewayAt(r, n, ip)'
               PROVE  ip \in exclude'[n]
    OBVIOUS
  <2>0. GatewayAt(r, n, ip) /\ ip \in exclude[n]
    BY <1>1, <1>2
  <2>1. CASE exclude' = exclude
    BY <2>0, <2>1
  <2>2. CASE Reserve(job)
    <3>1. job.value = exclude[job.net] \cup {job.ip}
      BY <1>0, <2>2 DEF Reserve, Placed, Careful, AddressHeld
    <3> QED
      BY <1>0, <2>0, <2>2, <3>1 DEF Reserve, WriteExclude, TypeOK
  <2>3. CASE Release(job)
    <3>1. /\ job.value = exclude[job.oldNet] \ {job.oldIp}
          /\ ~GatewayAt(r, job.oldNet, job.oldIp)
      BY <1>0, <2>3
      DEF Release, Placed, Filled, NeedsOld, RemovalPlaces, Careful, ReleaseSafe
    <3> QED
      BY <1>0, <2>0, <2>3, <3>1 DEF Release, WriteExclude, TypeOK
  <2>4. CASE DropNetwork(job)
    <3>1. PortsOf(job.net) = {}
      BY <1>0, <2>4 DEF DropNetwork, Placed, Expected, NetworkEmptied
    <3>2. n # job.net
      BY <2>0, <3>1 DEF GatewayAt, PortsOf
    <3> QED
      BY <1>0, <2>0, <2>4, <3>2 DEF DropNetwork, TypeOK
  <2> QED
    BY <2>1, <2>2, <2>3, <2>4
    DEF Commit, SubnetRow, SubnetOptions, DropSubnet, CreateRouter, CreatePort, SetPort,
        CreateRouterPort, Own, Plug, Connect, Disconnect, SetGatewayRouter, SetKey, Unkey,
        AddRoute, AddUserRoute, SetRoute, ClearRoute, DropRouterPort, DropPort, DropRouter
<1>4. TypeOK'
  BY <1>0, CommitTypeOK
<1>5. GatewaysStayReserved' <=>
        \A r \in Routers, n \in Networks, ip \in IPs : GatewayAt(r, n, ip)' => ip \in exclude'[n]
  BY <1>4, ReservedAfter
<1> QED
  BY <1>3, <1>5

LEMMA CommitGateways ==
  ASSUME GatewayFaults, ReservedSteps, job # None, Commit(job)
  PROVE  KeysNameRouterPorts' /\ GatewaysApart' /\ GatewaysStayReserved'
<1>1. CASE job.at = "key"
  BY <1>1, CommitsAt, KeyedGateways
<1>2. CASE job.at # "key"
  BY <1>2, CommitKeepsGateways, KeptGateways, KeptReserved DEF ReservedSteps
<1> QED
  BY <1>1, <1>2

\* Before it writes the key of its gateway a request only takes keys away.
LEMMA KeysKept ==
  ASSUME TypeOK, NEW j, Commit(j), j.at # "key"
  PROVE  \A r \in Routers : gwPort'[r] = gwPort[r] \/ gwPort'[r] = None
<1>1. CASE Unkey(j) \/ DropRouter(j)
  BY <1>1 DEF Unkey, DropRouter, TypeOK
<1>2. CASE gwPort' = gwPort
  BY <1>2
<1> QED
  BY <1>1, <1>2
  DEF Commit, SubnetRow, SubnetOptions, DropSubnet, DropNetwork, Reserve, Release, WriteExclude,
      CreateRouter, CreatePort, SetPort, CreateRouterPort, Own, Plug, Connect, Disconnect,
      SetGatewayRouter, SetKey, AddRoute, AddUserRoute, SetRoute, ClearRoute, DropRouterPort,
      DropPort, routerVars

\* The next write to the key, the route or the reservation finds its address held.
LEMMA WriteHeld ==
  ASSUME GatewayFaults, ReservedSteps, Write, job' # None
  PROVE  AddressHeld(job)'
<1> USE IdAssumption DEF portVars, routerVars
<1>0. /\ job \in GoodJobs /\ job \in Jobs /\ Placed(job.op, job.at) /\ Filled(job)
      /\ Expected(job) /\ Careful(job) /\ TypeOK /\ Commit(job) /\ job # None
  BY DEF ReservedSteps, OrderedSteps, TypedSteps, GoodJobs, Write
<1>1. /\ job'.at = Following(job) /\ Following(job) # "done"
      /\ job'.op = job.op /\ job'.port = job.port /\ job'.net = job.net /\ job'.ip = job.ip
      /\ job'.at = "reserve" => job'.value = exclude'[job.net] \cup {job.ip}
  BY <1>0, ArriveFields DEF Write
<1> SUFFICES ASSUME job.op \in GatewayOps, Following(job) # "route"
             PROVE  AddressHeld(job)'
  BY <1>1 DEF AddressHeld
<1>2. job.at \notin {"key", "route"}
  BY <1>1 DEF Following
<1>3. AddressHeld(job)
  BY <1>0 DEF Careful
<1>4. job.net \in Networks /\ job.port \in Ports /\ job.ip \in IPs
  BY <1>0 DEF Filled, Jobs
<1>5. job.at \in {"clear", "reserve", "router", "port", "routerPort", "own", "plug"}
               \cup RemovalPlaces
  BY <1>0, <1>2 DEF Placed, GatewayOps, RemovalOps, AttachOps, RemovalPlaces, Jobs, Places
<1>6. networks' = networks
  BY <1>0, <1>5, CommitsAt
  DEF RemovalPlaces, ClearRoute, Reserve, Release, WriteExclude, CreateRouter, CreatePort,
      CreateRouterPort, Own, Plug, DropRouterPort, DropPort, Disconnect, SetGatewayRouter, Unkey
<1>7. \A r \in Routers : ~GatewayAt(r, job.net, job.ip)'
  <2>1. \A r \in Routers : ~GatewayAt(r, job.net, job.ip)
    BY <1>2, <1>3 DEF AddressHeld
  <2> QED
    BY <1>0, <1>1, <1>2, <2>1, CommitKeepsGateways, KeptGateways DEF GatewayAt
<1>8. CASE job.at \in RemovalPlaces \cup {"clear"}
  <2>1. Following(job) \in RemovalPlaces \cup {"reserve"}
    BY <1>0, <1>1, <1>8
    DEF RemovalPlaces, GatewayOps, Placed, Following, AfterClear, AfterDropPort, AfterDisconnect,
        AfterRemoval
  <2> QED
    BY <1>1, <1>2, <1>3, <1>6, <1>7, <2>1 DEF AddressHeld, RemovalPlaces
<1>9. CASE job.at = "reserve"
  <2>1. Following(job) \in {"router", "port"}
    BY <1>9 DEF Following
  <2>2. job.ip \in exclude'[job.net]
    BY <1>0, <1>3, <1>4, <1>9, CommitsAt DEF AddressHeld, Reserve, WriteExclude, TypeOK
  <2> QED
    BY <1>1, <1>3, <1>6, <1>7, <1>9, <2>1, <2>2 DEF AddressHeld
<1>10. CASE job.at = "router"
  <2>1. Following(job) = "port"
    BY <1>0, <1>10 DEF Following, GatewayOps, Placed
  <2> QED
    BY <1>0, <1>1, <1>3, <1>6, <1>7, <1>10, <2>1, CommitsAt DEF AddressHeld, CreateRouter
<1>11. CASE job.at = "port"
  <2>1. Following(job) = "routerPort"
    BY <1>11 DEF Following, GatewayOps
  <2>2. /\ job.net \in networks /\ job.ip \in exclude[job.net]
        /\ job.row \in PortRows /\ job.row.net = job.net /\ job.row # None
    BY <1>0, <1>3, <1>11 DEF AddressHeld, Expected, RowFits, Filled, Jobs
  <2>3. lsp' = [lsp EXCEPT ![job.port] = job.row] /\ exclude' = exclude
    BY <1>0, <1>11, <2>2, CommitsAt DEF CreatePort
  <2>4. lsp'[job.port] = job.row
    BY <1>0, <1>4, <2>3 DEF TypeOK
  <2>5. job.port \in LivePorts'
    BY <1>4, <2>2, <2>4 DEF LivePorts
  <2> QED
    BY <1>1, <1>6, <1>7, <2>1, <2>2, <2>3, <2>4, <2>5 DEF AddressHeld
<1>12. CASE job.at = "routerPort"
  <2>1. Following(job) = "own" /\ RouterPortAdded(job)
    BY <1>1, <1>12 DEF Following, AfterRouterPort
  <2>2. /\ UNCHANGED <<exclude, lsp>> /\ LivePorts' = LivePorts
        /\ lrp' = [lrp EXCEPT ![job.port] = [router |-> job.router, ip |-> job.ip]]
    BY <1>0, <1>12, <2>1, CommitsAt DEF CreateRouterPort, LivePorts
  <2>3. lrp'[job.port] = [router |-> job.router, ip |-> job.ip]
    BY <1>0, <1>4, <2>2 DEF TypeOK
  <2>4. [router |-> job.router, ip |-> job.ip] \in RouterPortRows
    BY <1>0, <1>4 DEF RouterPortRows, Filled, Jobs
  <2>5. lrp'[job.port] # None /\ lrp'[job.port].ip = job.ip
    BY <2>3, <2>4
  <2> QED
    BY <1>1, <1>3, <1>6, <1>7, <1>12, <2>1, <2>2, <2>5 DEF AddressHeld
<1>13. CASE job.at \in {"own", "plug"}
  <2>1. Following(job) = IF job.at = "own" THEN "plug" ELSE "key"
    BY <1>13 DEF Following, AfterPlug, GatewayOps
  <2>2. /\ job.port \in LivePorts /\ lsp[job.port].net = job.net
        /\ lrp[job.port] # None /\ lrp[job.port].ip = job.ip /\ job.ip \in exclude[job.net]
    BY <1>3, <1>13 DEF AddressHeld
  <2>3. lsp[job.port] \in PortRows
    BY <1>0, <1>4, <2>2 DEF LivePorts, TypeOK
  <2>4. UNCHANGED <<exclude, lrp>>
    BY <1>0, <1>13, CommitsAt DEF Own, Plug
  <2>5. /\ lsp'[job.port] \in PortRows /\ lsp'[job.port].net = job.net
        /\ job.at = "plug" => lsp'[job.port].kind = "router"
    <3>1. CASE job.at = "own"
      <4>1. lsp'[job.port] = [lsp[job.port] EXCEPT !.routerOwned = TRUE]
        BY <1>0, <1>4, <2>2, <3>1, CommitsAt DEF Own, LivePorts, TypeOK
      <4> QED
        BY <2>2, <2>3, <3>1, <4>1 DEF PortRows
    <3>2. CASE job.at = "plug"
      <4>1. lsp'[job.port] = [[lsp[job.port] EXCEPT !.kind = "router"] EXCEPT !.ip = None]
        <5>1. Plug(job) /\ lsp[job.port] # None /\ lsp \in [Ports -> PortRows \cup {None}]
          BY <1>0, <2>2, <3>2, CommitsAt DEF LivePorts, TypeOK
        <5> QED
          BY <1>4, <5>1 DEF Plug
      <4> QED
        BY <2>2, <2>3, <3>2, <4>1 DEF PortRows, Kinds
    <3> QED
      BY <1>13, <3>1, <3>2
  <2>6. job.port \in LivePorts'
    BY <1>4, <2>5 DEF LivePorts
  <2>7. job.net \in networks'
    BY <1>2, <1>3, <1>6 DEF AddressHeld
  <2> QED
    BY <1>1, <1>7, <1>13, <2>1, <2>2, <2>4, <2>5, <2>6, <2>7 DEF AddressHeld
<1> QED
  BY <1>5, <1>8, <1>9, <1>10, <1>11, <1>12, <1>13

\* What a request gives back is nobody's, after the next write as well.
LEMMA WriteReleases ==
  ASSUME GatewayFaults, ReservedSteps, Write, job' # None
  PROVE  ReleaseSafe(job)'
<1> USE IdAssumption
<1>0. /\ job \in GoodJobs /\ job \in Jobs /\ Placed(job.op, job.at) /\ Filled(job)
      /\ Careful(job) /\ TypeOK /\ Commit(job) /\ job # None
  BY DEF ReservedSteps, OrderedSteps, TypedSteps, GoodJobs, Write
<1>1. /\ job'.at = Following(job) /\ Following(job) # "done"
      /\ job'.op = job.op /\ job'.router = job.router /\ job'.old = job.old
      /\ job'.oldNet = job.oldNet /\ job'.oldIp = job.oldIp
      /\ job'.at = "release" => job'.value = exclude'[job.oldNet] \ {job.oldIp}
  BY <1>0, ArriveFields DEF Write
<1> SUFFICES ASSUME job.op \in RemovalOps, job.old # None
             PROVE  ReleaseSafe(job)'
  BY <1>1 DEF ReleaseSafe
<1>2. ReleaseSafe(job) /\ job.router \in Routers
  BY <1>0 DEF Careful, Filled, Jobs
<1>3. ASSUME job.at # "key"
      PROVE  \A r \in Routers, n \in Networks, ip \in IPs :
               GatewayAt(r, n, ip)' => GatewayAt(r, n, ip)
  BY <1>0, <1>3, CommitKeepsGateways, KeptGateways
<1>4. job.oldNet \in Networks /\ job.oldIp \in IPs
  BY <1>0 DEF Filled, Jobs
<1>5. CASE job.at \in {"clear", "dropRouterPort", "dropPort", "disconnect"}
  <2>1. gwPort' = gwPort
    BY <1>0, <1>5, CommitsAt
    DEF ClearRoute, DropRouterPort, DropPort, Disconnect, SetGatewayRouter, routerVars
  <2>2. /\ Following(job) \notin {"clear", "unroute", "release"}
        /\ Following(job) = "unkey" => gwPort[job.router] = job.old
    BY <1>5
    DEF Following, RemovalOps, AfterClear, AfterDropPort, AfterDisconnect, AfterRemoval
  <2> QED
    BY <1>1, <1>2, <1>3, <1>4, <1>5, <2>1, <2>2 DEF ReleaseSafe
<1>6. CASE job.at = "unkey"
  <2>1. Following(job) = "unroute"
    BY <1>6 DEF Following
  <2>2. gwPort'[job.router] = None
    BY <1>0, <1>2, <1>6, CommitsAt DEF Unkey, TypeOK
  <2>3. ~GatewayAt(job.router, job.oldNet, job.oldIp)'
    BY <1>1, <2>2 DEF GatewayAt, LivePorts
  <2> QED
    BY <1>1, <1>2, <1>3, <1>4, <1>6, <2>1, <2>3 DEF ReleaseSafe
<1>7. CASE job.at = "unroute"
  <2>1. Following(job) = "release"
    BY <1>7 DEF Following
  <2> QED
    BY <1>1, <1>2, <1>3, <1>4, <1>7, <2>1 DEF ReleaseSafe
<1>8. CASE job.at \notin {"clear", "dropRouterPort", "dropPort", "disconnect", "unkey", "unroute"}
  <2>1. Following(job) \notin {"clear", "dropRouterPort", "dropPort", "disconnect", "unkey",
                               "unroute", "release"}
    BY <1>0, <1>8
    DEF Following, RemovalOps, GatewayOps, AttachOps, Placed, AfterRemoval, AfterPlug,
        AfterRouterPort
  <2> QED
    BY <1>1, <2>1 DEF ReleaseSafe
<1> QED
  BY <1>5, <1>6, <1>7, <1>8

LEMMA WriteCareful ==
  ASSUME GatewayFaults, ReservedSteps, Write, job' # None
  PROVE  Careful(job)'
<1> USE IdAssumption
<1>0. /\ job \in GoodJobs /\ job \in Jobs /\ Placed(job.op, job.at) /\ Filled(job)
      /\ Careful(job) /\ TypeOK /\ Commit(job) /\ job # None
  BY DEF ReservedSteps, OrderedSteps, TypedSteps, GoodJobs, Write
<1>1. /\ job'.at = Following(job) /\ Following(job) # "done"
      /\ job'.op = job.op /\ job'.port = job.port
  BY <1>0, ArriveFields DEF Write
<1>2. PortFree(job)'
  <2> SUFFICES ASSUME \/ /\ job.op \in GatewayOps \cup {"addPort", "attachSubnet"}
                         /\ Following(job) # "route"
                      \/ job.op \in {"updatePort", "attachPort"} /\ "skip" \notin Faults,
                      NEW r \in Routers
               PROVE  gwPort'[r] # job.port
    BY <1>1 DEF PortFree
  <2>1. job.at # "key" /\ job.at # "route"
    BY <1>0, <1>1 DEF Following, Placed, GatewayOps
  <2>2. gwPort[r] # job.port /\ job.port # None
    BY <1>0, <2>1 DEF Careful, PortFree, Filled, AttachOps
  <2> QED
    BY <1>0, <2>1, <2>2, KeysKept
<1> QED
  BY <1>2, WriteHeld, WriteReleases DEF Careful

\* Nothing is plugged in with an address that is free in the network.
LEMMA FreeAddress ==
  ASSUME TypeOK, GatewaysStayReserved, NEW n \in Networks, NEW ip \in IPs, ip \notin exclude[n]
  PROVE  \A r \in Routers : ~GatewayAt(r, n, ip)
BY ReservedAt

\* A gateway that goes shares its address with no other.
LEMMA GatewayAlone ==
  ASSUME TypeOK, GatewaysApart, NEW r, NEW p, Removable(r, p), gwPort[r] = p
  PROVE  \A t \in Routers \ {r} : ~GatewayAt(t, lsp[p].net, lrp[p].ip)
<1>1. /\ r \in Routers /\ lsp[p].net \in Networks /\ lrp[p].ip \in IPs /\ lrp[p] # None
  BY RemovableRows DEF Removable, Interfaces
<1>2. GatewayAt(r, lsp[p].net, lrp[p].ip)
  BY <1>1 DEF GatewayAt, Removable
<1> QED
  BY <1>1, <1>2 DEF GatewaysApart

\* A request starts with an address that is free, and with a port that is no gateway.
LEMMA StartCareful ==
  ASSUME ReservedSteps, Start
  PROVE  Careful(job')
<1> USE IdAssumption
<1>0. /\ TypeOK /\ KeysNameRouterPorts /\ GatewaysApart /\ GatewaysStayReserved
  BY DEF ReservedSteps, OrderedSteps, TypedSteps
<1>a. ASSUME job'.op \notin GatewayOps \cup AttachOps \cup RemovalOps \cup {"addPort", "updatePort"}
      PROVE  Careful(job')
  BY <1>a DEF Careful, PortFree, AddressHeld, ReleaseSafe, GatewayOps, AttachOps
<1>b. ASSUME job'.op \in AttachOps \cup {"addPort", "updatePort"},
             \/ job'.op \in {"updatePort", "attachPort"} /\ "skip" \in Faults
             \/ \A r \in Routers : gwPort[r] # job'.port
      PROVE  Careful(job')
  BY <1>b DEF Careful, PortFree, AddressHeld, ReleaseSafe, GatewayOps, AttachOps, RemovalOps
<1>c. ASSUME NEW r, NEW p, Removable(r, p), job'.op \in RemovalOps \ GatewayOps,
             job'.at = "dropRouterPort", job'.router = r, job'.old = p,
             job'.oldNet = lsp[p].net, job'.oldIp = lrp[p].ip
      PROVE  Careful(job')
  <2>1. ReleaseSafe(job')
    BY <1>0, <1>c, GatewayAlone DEF ReleaseSafe
  <2>2. PortFree(job') /\ AddressHeld(job')
    BY <1>c DEF PortFree, AddressHeld, GatewayOps, AttachOps, RemovalOps
  <2> QED
    BY <2>1, <2>2 DEF Careful
<1>d. ASSUME NEW n \in Networks, NEW s \in Subnets, NEW ip \in IPs, ValidGateway(n, s, ip),
             NEW p \in Ports, NewPort(p),
             job'.op \in GatewayOps, job'.at \in {"reserve", "clear", "dropRouterPort"},
             job'.port = p, job'.net = n, job'.ip = ip, job'.value = exclude[n] \cup {ip}
      PROVE  PortFree(job') /\ AddressHeld(job')
  <2>1. PortFree(job')
    BY <1>d DEF PortFree, NewPort, FreshPort
  <2>2. n \in networks /\ ip \notin exclude[n]
    BY <1>d DEF ValidGateway, IpAvailable
  <2>3. \A r \in Routers : ~GatewayAt(r, n, ip)
    BY <1>0, <2>2, FreeAddress
  <2> QED
    BY <1>d, <2>1, <2>2, <2>3 DEF AddressHeld
<1>1. ASSUME NEW s \in Subnets, NEW n \in Networks, NEW g \in IPs \cup {None},
             StartAddSubnet(s, n, g)
      PROVE  Careful(job')
  BY <1>a, <1>1 DEF StartAddSubnet, Job, GatewayOps, AttachOps, RemovalOps
<1>2. ASSUME NEW s \in Subnets, StartDeleteSubnet(s) PROVE Careful(job')
  BY <1>a, <1>2 DEF StartDeleteSubnet, Job, GatewayOps, AttachOps, RemovalOps
<1>3. ASSUME NEW n \in Networks, StartDeleteNetwork(n) PROVE Careful(job')
  BY <1>a, <1>3 DEF StartDeleteNetwork, Job, GatewayOps, AttachOps, RemovalOps
<1>4. ASSUME NEW p \in Ports, NEW n \in Networks, NEW a \in IPs \cup {None},
             NEW owned \in BOOLEAN, StartAddPort(p, n, a, owned)
      PROVE  Careful(job')
  <2>1. job'.op = "addPort" /\ job'.port = p
    BY <1>4 DEF StartAddPort, Job
  <2> QED
    BY <1>b, <1>4, <2>1 DEF StartAddPort, NewPort, FreshPort
<1>5. ASSUME NEW p \in Ports, NEW a \in IPs \cup {None}, NEW owned \in BOOLEAN,
             StartUpdatePort(p, a, owned)
      PROVE  Careful(job')
  <2>1. job'.op = "updatePort" /\ job'.port = p
    BY <1>5 DEF StartUpdatePort, Job
  <2>2. "skip" \notin Faults => \A r \in Routers : gwPort[r] # p
    BY <1>0, <1>5 DEF StartUpdatePort, KeysNameRouterPorts
  <2> QED
    BY <1>b, <2>1, <2>2
<1>6. ASSUME NEW p \in Ports, StartDeletePort(p) PROVE Careful(job')
  BY <1>a, <1>6 DEF StartDeletePort, Job, GatewayOps, AttachOps, RemovalOps
<1>7. ASSUME NEW r \in Routers, StartAddRouterRoute(r) \/ StartUpdateRoutes(r)
      PROVE  Careful(job')
  BY <1>a, <1>7
  DEF StartAddRouterRoute, StartUpdateRoutes, Job, GatewayOps, AttachOps, RemovalOps
<1>8. ASSUME NEW r \in Routers, StartDeleteRouter(r) PROVE Careful(job')
  <2>1. CASE gwPort[r] = None
    <3>1. job'.op = "deleteRouter" /\ job'.old = None
      BY <1>8, <2>1 DEF StartDeleteRouter, Job
    <3> QED
      BY <3>1 DEF Careful, PortFree, AddressHeld, ReleaseSafe, GatewayOps, AttachOps
  <2>2. CASE gwPort[r] # None
    <3>1. "deleteRouter" \in RemovalOps \ GatewayOps /\ Removable(r, gwPort[r])
             /\ job' = Removing("deleteRouter", r, gwPort[r])
      BY <1>8, <2>2 DEF StartDeleteRouter, RemovalOps, GatewayOps
    <3> QED
      BY <1>0, <1>c, <3>1, RemovingGood
  <2> QED
    BY <2>1, <2>2
<1>9. ASSUME NEW r \in Routers, NEW p \in Ports, NEW n \in Networks, NEW s \in Subnets,
             NEW ip \in IPs, StartAddRouter(r, p, n, s, ip)
      PROVE  Careful(job')
  <2>1. Job("addRouter", "reserve") \in Jobs
    BY JobIsJob DEF Ops, Places
  <2>2. /\ job'.op = "addRouter" /\ job'.at = "reserve" /\ job'.port = p /\ job'.net = n
        /\ job'.ip = ip /\ job'.value = exclude[n] \cup {ip}
    <3>1. job' = Plugging(Job("addRouter", "reserve"), r, p, n, ip)
      BY <1>9 DEF StartAddRouter
    <3>2. Job("addRouter", "reserve").op = "addRouter" /\ Job("addRouter", "reserve").at = "reserve"
      BY DEF Job
    <3> QED
      BY <1>0, <2>1, <3>1, <3>2, PluggingGood
  <2>3. PortFree(job') /\ AddressHeld(job')
    BY <1>d, <1>9, <2>2 DEF StartAddRouter, GatewayOps
  <2> QED
    BY <2>2, <2>3 DEF Careful, ReleaseSafe, RemovalOps
<1>10. ASSUME NEW r \in Routers, NEW p \in Ports, NEW n \in Networks, NEW s \in Subnets,
              NEW ip \in IPs, NEW cleared \in BOOLEAN,
              StartUpdateRouter(r, p, n, s, ip, cleared)
       PROVE  Careful(job')
  <2> DEFINE old == gwPort[r]
  <2>1. /\ job'.op = "updateRouter" /\ job'.at \in {"clear", "reserve", "dropRouterPort"}
        /\ job'.router = r /\ job'.port = p /\ job'.net = n /\ job'.ip = ip /\ job'.old = old
        /\ job'.value = exclude[n] \cup {ip}
        /\ old # None => /\ Removable(r, old)
                         /\ job'.oldNet = lsp[old].net /\ job'.oldIp = lrp[old].ip
    BY <1>0, <1>10, UpdateRouterStarts
  <2>2. PortFree(job') /\ AddressHeld(job')
    BY <1>d, <1>10, <2>1 DEF StartUpdateRouter, GatewayOps
  <2>3. ReleaseSafe(job')
    BY <1>0, <2>1, GatewayAlone DEF ReleaseSafe
  <2> QED
    BY <2>2, <2>3 DEF Careful
<1>11. ASSUME NEW r \in Routers, NEW p \in Ports, StartDeleteInterface(r, p)
       PROVE  Careful(job')
  <2>1. "removePort" \in RemovalOps \ GatewayOps /\ Removable(r, p)
          /\ job' = Removing("removePort", r, p)
    BY <1>11 DEF StartDeleteInterface, RemovalOps, GatewayOps
  <2> QED
    BY <1>0, <1>c, <2>1, RemovingGood
<1>12. ASSUME NEW r \in Routers, NEW p \in Ports, StartAddInterfaceByPort(r, p)
       PROVE  Careful(job')
  <2>1. job'.op = "attachPort" /\ job'.port = p
    BY <1>12 DEF StartAddInterfaceByPort, Job
  <2>2. "skip" \notin Faults => \A t \in Routers : gwPort[t] # p
    BY <1>0, <1>12 DEF StartAddInterfaceByPort, KeysNameRouterPorts
  <2> QED
    BY <1>b, <2>1, <2>2 DEF AttachOps
<1>13. ASSUME NEW r \in Routers, NEW s \in Subnets, NEW p \in Ports,
              StartAddInterfaceBySubnet(r, s, p)
       PROVE  Careful(job')
  <2>1. job'.op = "attachSubnet" /\ job'.port = p
    BY <1>13 DEF StartAddInterfaceBySubnet, Job
  <2> QED
    BY <1>b, <1>13, <2>1 DEF StartAddInterfaceBySubnet, NewPort, FreshPort, AttachOps
<1>14. ASSUME NEW r \in Routers, NEW s \in Subnets, StartDeleteInterfaceBySubnet(r, s)
       PROVE  Careful(job')
  BY <1>a, <1>14 DEF StartDeleteInterfaceBySubnet, Job, GatewayOps, AttachOps, RemovalOps
<1> QED
  BY <1>1, <1>2, <1>3, <1>4, <1>5, <1>6, <1>7, <1>8, <1>9, <1>10, <1>11, <1>12, <1>13, <1>14
  DEF Start

\* Neither a step that leaves the rows alone nor ovn-northd makes a request careless.
LEMMA UnchangedReserved ==
  ASSUME ReservedSteps, UNCHANGED dbVars
  PROVE  /\ KeysNameRouterPorts' /\ GatewaysApart' /\ GatewaysStayReserved'
         /\ (job # None /\ job.at = "dropPort" /\ "abandon" \notin Faults => job' = job)
              => KeysPlugged'
         /\ Careful(job') => Careful(job)'
<1> USE DEF dbVars, vars, LivePorts, GatewayAt
<1>1. KeysNameRouterPorts' /\ GatewaysApart' /\ GatewaysStayReserved'
  BY DEF ReservedSteps, KeysNameRouterPorts, GatewaysApart, GatewaysStayReserved
<1>2. Careful(job') => Careful(job)'
  BY DEF Careful, PortFree, AddressHeld, ReleaseSafe
<1>3. (job # None /\ job.at = "dropPort" /\ "abandon" \notin Faults => job' = job)
        => KeysPlugged'
  BY DEF ReservedSteps, KeysPlugged
<1> QED
  BY <1>1, <1>2, <1>3

LEMMA NorthdReserved ==
  ASSUME ReservedSteps, Northd
  PROVE  /\ KeysNameRouterPorts' /\ KeysPlugged' /\ GatewaysApart' /\ GatewaysStayReserved'
         /\ job # None => Careful(job)'
<1>0. /\ TypeOK /\ KeysNameRouterPorts /\ KeysPlugged /\ GatewaysApart /\ GatewaysStayReserved
      /\ job # None => Careful(job) /\ job \in GoodJobs /\ job \in Jobs
  BY DEF ReservedSteps, OrderedSteps, TypedSteps, GoodJobs
<1>1. /\ UNCHANGED <<networks, exclude, lrp, gwPort, job>> /\ LivePorts' = LivePorts
      /\ \A p \in LivePorts : lsp'[p].net = lsp[p].net /\ lsp'[p].kind = lsp[p].kind
  BY <1>0, NorthdKeeps DEF LivePorts
<1>2. \A n, ip : \A r \in Routers : GatewayAt(r, n, ip)' <=> GatewayAt(r, n, ip)
  BY <1>1 DEF GatewayAt
<1>3. KeysNameRouterPorts' /\ KeysPlugged' /\ GatewaysApart'
  BY <1>0, <1>1, <1>2 DEF KeysNameRouterPorts, KeysPlugged, GatewaysApart
<1>4. GatewaysStayReserved'
  BY <1>0, <1>1 DEF GatewaysStayReserved
<1>5. ASSUME job # None PROVE Careful(job)'
  <2>1. PortFree(job)' /\ ReleaseSafe(job)'
    BY <1>0, <1>1, <1>5 DEF Careful, PortFree, ReleaseSafe, GatewayAt
  <2>2. AddressHeld(job)'
    BY <1>0, <1>1, <1>5 DEF Careful, AddressHeld, GatewayAt
  <2> QED
    BY <2>1, <2>2 DEF Careful
<1> QED
  BY <1>3, <1>4, <1>5

\* A write that fails unnoticed leaves a request careful: the key names a port that is
\* no router port, but has one.
LEMMA SkipReserved ==
  ASSUME ReservedSteps, Skip
  PROVE  Careful(job')
<1>0. /\ job \in Jobs /\ job # None /\ Placed(job.op, job.at) /\ Careful(job) /\ "skip" \in Faults
      /\ job.at \in {"plug", "key"}
  BY DEF ReservedSteps, OrderedSteps, TypedSteps, GoodJobs, Skip, Unchecked
<1>1. job' = [job EXCEPT !.at = Following(job)]
  BY DEF Skip
<1>2. /\ job'.at = Following(job) /\ job'.op = job.op /\ job'.port = job.port
      /\ job'.net = job.net /\ job'.ip = job.ip
  BY <1>0, <1>1 DEF Jobs
<1>3. /\ job.op \in GatewayOps => Following(job) = IF job.at = "plug" THEN "key" ELSE "route"
      /\ Following(job) \in {"key", "route", "connect", "routerPort"}
      /\ job.op \in GatewayOps \cup AttachOps
  BY <1>0 DEF Following, AfterPlug, Placed, GatewayOps, AttachOps
<1>4. PortFree(job')
  BY <1>0, <1>2, <1>3 DEF Careful, PortFree, GatewayOps, AttachOps
<1>5. AddressHeld(job')
  BY <1>0, <1>2, <1>3 DEF Careful, AddressHeld
<1>6. ReleaseSafe(job')
  BY <1>2, <1>3 DEF ReleaseSafe
<1> QED
  BY <1>4, <1>5, <1>6 DEF Careful

LEMMA StepReserved ==
  ASSUME GatewayFaults
  PROVE  ReservedSteps /\ [StepsNext]_stepVars => ReservedSteps'
<1> SUFFICES ASSUME ReservedSteps, [StepsNext]_stepVars PROVE ReservedSteps'
  OBVIOUS
<1>0. "late" \notin Faults
  BY DEF GatewayFaults
<1>1. OrderedSteps' /\ late = <<>> /\ TypeOK /\ TypeOK'
  BY <1>0, StepOrdered DEF ReservedSteps, OrderedSteps, TypedSteps
<1>2. CASE job = None /\ OneWrite /\ UNCHANGED <<job, late>>
  <2>1. GatewaysKept /\ exclude' = exclude /\ lrp' = lrp
    BY <1>1, <1>2, OthersKeepGateways
  <2>2. KeysNameRouterPorts' /\ GatewaysApart'
    BY <2>1, KeptGateways DEF ReservedSteps
  <2>3. GatewaysStayReserved'
    BY <1>1, <2>1, KeptGateways, ReservedAt, ReservedAfter DEF ReservedSteps
  <2>4. KeysPlugged'
    BY <1>2, <2>1 DEF ReservedSteps, GatewaysKept, KeysPlugged
  <2> QED
    BY <1>1, <1>2, <2>2, <2>3, <2>4 DEF ReservedSteps
<1>3. CASE Start
  BY <1>1, <1>3, StartCareful, UnchangedReserved DEF ReservedSteps, Start
<1>4. CASE Write
  BY <1>1, <1>4, CommitGateways, CommitPlugged, WriteCareful DEF ReservedSteps, Write
<1>5. CASE VisitPort
  <2>1. job \in Jobs /\ job.op = "detachSubnet"
    BY <1>5 DEF ReservedSteps, OrderedSteps, TypedSteps, GoodJobs, VisitPort, Placed
  <2>2. job' # None => job'.op = "detachSubnet"
    BY <1>5, <2>1 DEF VisitPort, Jobs
  <2>3. job' # None => Careful(job')
    BY <2>2
    DEF Careful, PortFree, AddressHeld, ReleaseSafe, GatewayOps, AttachOps, RemovalOps
  <2>4. job.at # "dropPort"
    BY <1>5 DEF VisitPort
  <2>5. UNCHANGED dbVars
    BY <1>5 DEF VisitPort
  <2> QED
    BY <1>1, <2>3, <2>4, <2>5, UnchangedReserved DEF ReservedSteps
<1>6. CASE Northd
  BY <1>1, <1>6, NorthdReserved, NorthdKeeps DEF ReservedSteps
<1>7. CASE Abandon
  BY <1>1, <1>7, UnchangedReserved DEF ReservedSteps, Abandon
<1>8. CASE Skip
  BY <1>1, <1>8, SkipReserved, UnchangedReserved DEF ReservedSteps, Skip, Unchecked
<1>9. CASE TimeOut \/ LateCommit
  BY <1>0, <1>1, <1>9 DEF TimeOut, LateCommit
<1>10. CASE UNCHANGED stepVars
  <2>1. UNCHANGED dbVars /\ job' = job
    BY <1>10 DEF stepVars, dbVars, vars
  <2>2. job' # None => Careful(job')
    <3>1. job # None => Careful(job')
      BY <2>1 DEF ReservedSteps
    <3> QED
      BY <2>1, <3>1
  <2> QED
    BY <1>1, <2>1, <2>2, UnchangedReserved DEF ReservedSteps
<1> QED
  BY <1>2, <1>3, <1>4, <1>5, <1>6, <1>7, <1>8, <1>9, <1>10 DEF StepsNext

LEMMA InitReserved == StepsInit => ReservedSteps
<1> SUFFICES ASSUME StepsInit PROVE ReservedSteps
  OBVIOUS
<1> USE IdAssumption
<1>1. TypeOK /\ NetworksWellFormed /\ job = None /\ late = <<>>
  BY InitTypeOK, InitWellFormed DEF StepsInit
<1>2. OrderedSteps
  BY <1>1 DEF OrderedSteps, TypedSteps
<1>3. CASE EmptyDb
  <2>1. \A r \in Routers : gwPort[r] \notin LivePorts
    BY <1>3 DEF EmptyDb, LivePorts
  <2> QED
    BY <1>1, <1>2, <2>1
    DEF ReservedSteps, KeysNameRouterPorts, KeysPlugged, GatewaysApart, GatewaysStayReserved,
        GatewayAt
<1>4. ASSUME NEW n \in Networks, NEW s \in Subnets, NEW p \in OldPorts, NEW r \in Routers,
             NEW g \in IPs, NEW ip \in IPs, UpgradedDb(n, s, p, r, g, ip)
      PROVE  ReservedSteps
  <2>1. p \in Ports /\ p # None
    OBVIOUS
  <2>2. \A t \in Routers : gwPort[t] \in LivePorts => t = r /\ gwPort[t] = p
    BY <1>4, <2>1 DEF UpgradedDb, LivePorts
  <2>3. /\ lsp[p] = RouterPort(n) /\ lrp[p] = [router |-> r, ip |-> ip] /\ lrp[p].ip = ip
        /\ exclude[n] = {ip}
    BY <1>4, <2>1 DEF UpgradedDb
  <2>5. lrp[p] # None
    BY <2>3 DEF RouterPortRows
  <2>4. lsp[p].net = n /\ lsp[p].kind = "router"
    BY <2>3 DEF RouterPort
  <2> QED
    BY <1>1, <1>2, <2>2, <2>3, <2>4, <2>5
    DEF ReservedSteps, KeysNameRouterPorts, KeysPlugged, GatewaysApart, GatewaysStayReserved,
        GatewayAt
<1> QED
  BY <1>3, <1>4 DEF StepsInit, Init

\* While a router has its external gateway the address of it is reserved, at every
\* instant of every request and whenever ovn-northd gives out an address, as long as no
\* write is late, whatever requests are cut short or whatever writes fail unnoticed, but
\* not both.
THEOREM StepsReserveGateways ==
  ASSUME "late" \notin Faults, ~({"abandon", "skip"} \subseteq Faults)
  PROVE  StepsSpec => []GatewaysStayReserved
<1>1. ReservedSteps /\ [StepsNext]_stepVars => ReservedSteps'
  BY StepReserved DEF GatewayFaults
<1>2. ReservedSteps => GatewaysStayReserved
  BY DEF ReservedSteps
<1> QED
  BY <1>1, <1>2, InitReserved, PTL DEF StepsSpec

-----------------------------------------------------------------------------
(* Addresses, as long as ovn-northd gives out none during a request either     *)

\* The addresses of a port: that of its row and, if it is an external gateway, that of
\* its router port.  It has both when the write that was to empty the row was lost.
Held(q) == {lsp[q].ip, AddressOf(q)} \ {None}

\* No port of network n has this address.
Unused(n, ip) == \A q \in LivePorts : lsp[q].net = n => ip \notin Held(q)

\* The strengthening of NoAddressClash: a port that is no gateway any more falls back on
\* the address of its row.
AddressesApart ==
  \A q, t \in LivePorts :
    q # t /\ lsp[q].net = lsp[t].net => \A a \in Held(q) : a \notin Held(t)

\* A new port that is to be plugged in has no address.
RowBare(j) == j.row # None /\ j.op \notin {"addPort", "updatePort"} => j.row.ip = None

\* The address a request was found to be free is still so when it is written.
AddressFree(j) ==
  /\ j.op = "addPort" /\ j.row.ip # None => Unused(j.net, j.row.ip)
  /\ j.op = "updatePort" /\ j.row.ip # None =>
       j.row.ip = lsp[j.port].ip \/ Unused(lsp[j.port].net, j.row.ip)
  /\ j.op \in GatewayOps /\ j.at # "route" => Unused(j.net, j.ip)

DistinctSteps ==
  /\ ReservedSteps
  /\ AddressesApart
  /\ job # None => RowBare(job) /\ AddressFree(job)

LEMMA AvailableUnused ==
  ASSUME TypeOK, GatewaysStayReserved, NEW n, NEW ip, IpAvailable(n, ip)
  PROVE  Unused(n, ip)
<1> SUFFICES ASSUME NEW q \in LivePorts, lsp[q].net = n PROVE ip \notin Held(q)
  BY DEF Unused
<1>1. lsp[q].ip # ip /\ ip \notin exclude[n]
  BY DEF IpAvailable, PortsOf
<1>2. IsGateway(q) => lrp[q].ip \in exclude[n]
  <2> SUFFICES ASSUME IsGateway(q) PROVE lrp[q].ip \in exclude[n]
    OBVIOUS
  <2>1. lrp[q] \in RouterPortRows
    BY DEF IsGateway, LivePorts, TypeOK
  <2>2. lrp[q].router \in Routers
    BY <2>1 DEF RouterPortRows
  <2> QED
    BY <2>2 DEF IsGateway, GatewaysStayReserved
<1> QED
  BY <1>1, <1>2 DEF AddressOf, Held

\* A port has had this address before.
Had(q, a) == q \in LivePorts /\ lsp'[q].net = lsp[q].net /\ a \in Held(q)

\* A port that has the addresses it had, or fewer.
Settled(q) == \A a \in Held(q)' : Had(q, a)

\* Addresses stay distinct when one port takes unused ones.
LEMMA DistinctStep ==
  ASSUME AddressesApart, NEW p,
         \A q \in LivePorts' \ {p} : Settled(q),
         p \in LivePorts' =>
           \A a \in Held(p)' :
             Had(p, a) \/ \A q \in LivePorts \ {p} : lsp[q].net = lsp'[p].net => a \notin Held(q)
  PROVE  AddressesApart'
<1> SUFFICES ASSUME NEW q \in LivePorts', NEW t \in LivePorts', q # t,
                    lsp'[q].net = lsp'[t].net, NEW a \in Held(q)', a \in Held(t)'
             PROVE  FALSE
  BY DEF AddressesApart
<1>1. CASE Had(q, a) /\ Had(t, a)
  BY <1>1 DEF Had, AddressesApart
<1>2. CASE ~Had(q, a)
  <2>1. q = p /\ Had(t, a)
    BY <1>2 DEF Settled
  <2>2. t \in LivePorts \ {p} /\ lsp[t].net = lsp'[p].net /\ a \in Held(t)
    BY <2>1 DEF Had
  <2> QED
    BY <1>2, <2>1, <2>2
<1>3. CASE ~Had(t, a)
  <2>1. t = p /\ Had(q, a)
    BY <1>3 DEF Settled
  <2>2. q \in LivePorts \ {p} /\ lsp[q].net = lsp'[p].net /\ a \in Held(q)
    BY <2>1 DEF Had
  <2> QED
    BY <1>3, <2>1, <2>2
<1> QED
  BY <1>1, <1>2, <1>3

\* A gateway that is taken away falls back on the address of its row.
LEMMA UnpluggedSettled ==
  ASSUME lsp' = lsp, NEW q \in LivePorts', IsGateway(q)' => IsGateway(q) /\ lrp'[q] = lrp[q]
  PROVE  Settled(q)
BY DEF Settled, Had, Held, AddressOf, LivePorts

\* A port that is no gateway has the address of its row.
LEMMA NoGatewayAfter ==
  ASSUME TypeOK', NEW p \in Ports, \A r \in Routers : gwPort'[r] # p
  PROVE  ~IsGateway(p)' /\ AddressOf(p)' = lsp'[p].ip
<1>1. lrp'[p] # None => lrp'[p].router \in Routers
  BY DEF TypeOK, RouterPortRows
<1> QED
  BY <1>1 DEF IsGateway, AddressOf

\* A write leaves every port the addresses it has or takes some away, but for the port of
\* the request.
LEMMA CommitSettles ==
  ASSUME GatewayFaults, DistinctSteps, job # None, Commit(job), NEW q \in LivePorts'
  PROVE  \/ Settled(q)
         \/ q = job.port /\ (job.op \in {"addPort", "updatePort"} \/ job.at = "key")
<1> USE IdAssumption DEF portVars, routerVars
<1>0. /\ job \in Jobs /\ Placed(job.op, job.at) /\ Filled(job) /\ Careful(job) /\ RowBare(job)
      /\ TypeOK /\ ReservedSteps /\ OrderedSteps
  BY DEF DistinctSteps, ReservedSteps, OrderedSteps, TypedSteps, GoodJobs
<1>a. TypeOK'
  BY <1>0, CommitTypeOK DEF OrderedSteps, TypedSteps, GoodJobs
<1>b. q \in Ports /\ lsp'[q] # None
  BY DEF LivePorts
<1>c. ASSUME lsp'[q] = lsp[q], lrp'[q] = lrp[q], gwPort' = gwPort PROVE Settled(q)
  BY <1>b, <1>c DEF Settled, Had, Held, LivePorts, AddressOf, IsGateway
<1>1. CASE CreatePort(job)
  <2>1. q # job.port => Settled(q)
    BY <1>0, <1>1, <1>b, <1>c DEF CreatePort, TypeOK
  <2>2. CASE q = job.port /\ job.net \in networks /\ job.op # "addPort"
    <3>1. lsp'[q] = job.row
      BY <1>0, <1>1, <1>b, <2>2 DEF CreatePort, TypeOK
    <3>2. job.row.ip = None
      BY <1>0, <1>1, <1>b, <2>2, <3>1 DEF RowBare, CreatePort, Placed, GatewayOps
    <3>3. \A r \in Routers : gwPort'[r] # q
      BY <1>0, <1>1, <2>2 DEF CreatePort, Placed, Careful, PortFree, GatewayOps
    <3>4. AddressOf(q)' = lsp'[q].ip
      BY <1>a, <1>b, <3>3, NoGatewayAfter
    <3> QED
      BY <3>1, <3>2, <3>4 DEF Settled, Held
  <2>3. CASE job.net \notin networks
    BY <1>1, <1>c, <2>3 DEF CreatePort
  <2> QED
    BY <2>1, <2>2, <2>3
<1>2. CASE SetPort(job)
  <2>1. job.op = "updatePort"
    BY <1>0, <1>2 DEF SetPort, Placed
  <2>2. q # job.port => Settled(q)
    BY <1>0, <1>2, <1>b, <1>c DEF SetPort, TypeOK
  <2> QED
    BY <2>1, <2>2
<1>3. CASE Own(job) \/ Plug(job)
  <2>1. /\ q \in LivePorts /\ lsp'[q].net = lsp[q].net /\ UNCHANGED <<lrp, gwPort>>
        /\ q # job.port => lsp'[q] = lsp[q]
    BY <1>0, <1>3, RewritesKeepNet DEF Own, Plug
  <2>2. lsp'[q].ip \in {lsp[q].ip, None}
    <3>1. lsp[q] \in PortRows /\ lsp[q] # None
      BY <1>0, <1>b, <2>1 DEF TypeOK, LivePorts
    <3>2. CASE q = job.port /\ Own(job)
      <4>1. lsp'[q] = [lsp[q] EXCEPT !.routerOwned = TRUE]
        BY <1>0, <1>b, <3>1, <3>2 DEF Own, TypeOK
      <4> QED
        BY <3>1, <4>1 DEF PortRows
    <3>3. CASE q = job.port /\ Plug(job)
      <4>1. lsp'[q] = [[lsp[q] EXCEPT !.kind = "router"] EXCEPT !.ip = None]
        BY <1>0, <1>b, <3>1, <3>3 DEF Plug, TypeOK
      <4> QED
        BY <3>1, <4>1 DEF PortRows
    <3> QED
      BY <1>3, <2>1, <3>2, <3>3
  <2> QED
    BY <2>1, <2>2 DEF Settled, Had, Held, AddressOf, IsGateway
<1>5. CASE CreateRouterPort(job)
  <2>1. CASE q # job.port \/ ~RouterPortAdded(job)
    BY <1>0, <1>5, <1>b, <1>c, <2>1 DEF CreateRouterPort, TypeOK
  <2>2. CASE q = job.port /\ RouterPortAdded(job)
    <3>1. \A r \in Routers : gwPort[r] # q
      BY <1>0, <1>5, <2>2, PlugsNoGateway DEF CreateRouterPort, LivePorts
    <3>2. AddressOf(q)' = lsp'[q].ip
      BY <1>5, <1>a, <1>b, <3>1, NoGatewayAfter DEF CreateRouterPort
    <3> QED
      BY <1>5, <1>b, <3>2 DEF CreateRouterPort, Settled, Had, Held, LivePorts
  <2> QED
    BY <2>1, <2>2
<1>6. CASE DropNetwork(job) \/ DropPort(job)
  <2>1. lsp'[q] = lsp[q]
    BY <1>6, <1>b DEF DropNetwork, DropPort, PortsWithout
  <2> QED
    BY <1>6, <1>c, <2>1 DEF DropNetwork, DropPort
<1>7. CASE DropRouterPort(job)
  <2>1. lrp'[q] # None => lrp'[q] = lrp[q]
    BY <1>7, <1>b DEF DropRouterPort, RouterPortsWithout
  <2>2. IsGateway(q)' => IsGateway(q) /\ lrp'[q] = lrp[q]
    BY <1>7, <2>1 DEF DropRouterPort, IsGateway
  <2> QED
    BY <1>7, <2>2, UnpluggedSettled DEF DropRouterPort
<1>8. CASE DropRouter(job) \/ Unkey(job) \/ SetKey(job)
  <2>1. CASE q = job.port /\ SetKey(job)
    BY <2>1 DEF SetKey
  <2>2. CASE q # job.port \/ ~SetKey(job)
    <3>1. lrp'[q] # None => lrp'[q] = lrp[q]
      BY <1>8, <1>b DEF DropRouter, RouterPortsWithout, Unkey, SetKey
    <3>2. \A r \in Routers : gwPort'[r] = q => gwPort[r] = q
      BY <1>0, <1>8, <1>b, <2>2 DEF DropRouter, Unkey, SetKey, TypeOK
    <3>3. lrp'[q] # None => lrp'[q].router \in Routers
      BY <1>a, <1>b DEF TypeOK, RouterPortRows
    <3>4. IsGateway(q)' => IsGateway(q) /\ lrp'[q] = lrp[q]
      BY <3>1, <3>2, <3>3 DEF IsGateway
    <3>5. lsp' = lsp
      BY <1>8 DEF DropRouter, Unkey, SetKey
    <3> QED
      BY <3>4, <3>5, UnpluggedSettled
  <2> QED
    BY <2>1, <2>2
<1>9. CASE UNCHANGED <<lsp, lrp, gwPort>>
  BY <1>9, <1>c
<1> QED
  BY <1>1, <1>2, <1>3, <1>5, <1>6, <1>7, <1>8, <1>9
  DEF Commit, SubnetRow, SubnetOptions, DropSubnet, Reserve, Release, WriteExclude, CreateRouter,
      Connect, Disconnect, SetGatewayRouter, AddRoute, AddUserRoute, SetRoute, ClearRoute

\* The three writes that give a port an address: of a new port, of an updated one and
\* of the key of a gateway.
LEMMA CommitApart ==
  ASSUME GatewayFaults, DistinctSteps, job # None, Commit(job)
  PROVE  AddressesApart'
<1> USE IdAssumption DEF portVars, routerVars
<1>p. PICK p : p = job.port
  OBVIOUS
<1> USE <1>p
<1>0. /\ job \in GoodJobs /\ job \in Jobs /\ Placed(job.op, job.at) /\ Filled(job)
      /\ Expected(job) /\ Careful(job) /\ AddressFree(job) /\ TypeOK /\ AddressesApart
      /\ OrderedSteps
  BY DEF DistinctSteps, ReservedSteps, OrderedSteps, TypedSteps, GoodJobs
<1>a. TypeOK'
  BY <1>0, CommitTypeOK
<1>b. \A q \in LivePorts' \ {p} : Settled(q)
  BY CommitSettles
<1>c. ASSUME p \in LivePorts', NEW a \in Held(p)'
      PROVE  Had(p, a) \/ \A q \in LivePorts \ {p} : lsp[q].net = lsp'[p].net => a \notin Held(q)
  <2>0. p \in Ports /\ lsp'[p] # None /\ a # None
    BY <1>c DEF LivePorts, Held
  <2>1. CASE job.op = "addPort"
    <3>1. CreatePort(job)
      <4>1. job.at = "port"
        BY <1>0, <2>1
        DEF Placed, GatewayOps, AttachOps, RemovalOps, Jobs, Places
      <4> QED
        BY <4>1, CommitsAt
    <3>2. CASE job.net \in networks
      <4>1. lsp'[p] = job.row /\ job.row.net = job.net
        BY <1>0, <2>0, <2>1, <3>1, <3>2 DEF CreatePort, TypeOK, Expected, RowFits
      <4>2. \A r \in Routers : gwPort'[r] # p
        BY <1>0, <2>1, <3>1 DEF CreatePort, Careful, PortFree
      <4>3. a = job.row.ip
        BY <1>a, <1>c, <2>0, <4>1, <4>2, NoGatewayAfter DEF Held
      <4> QED
        BY <1>0, <2>0, <2>1, <4>1, <4>3 DEF AddressFree, Unused
    <3>3. CASE job.net \notin networks
      <4>1. UNCHANGED <<lsp, lrp, gwPort>>
        BY <3>1, <3>3 DEF CreatePort
      <4> QED
        BY <1>c, <2>0, <4>1 DEF Had, Held, LivePorts, AddressOf, IsGateway
    <3> QED
      BY <3>2, <3>3
  <2>2. CASE job.op = "updatePort"
    <3>1. SetPort(job)
      <4>1. job.at = "setPort"
        BY <1>0, <2>2
        DEF Placed, GatewayOps, AttachOps, RemovalOps, Jobs, Places
      <4> QED
        BY <4>1, CommitsAt
    <3>2. /\ p \in LivePorts /\ lsp'[p].net = lsp[p].net /\ UNCHANGED <<lrp, gwPort>>
          /\ job.row \in PortRows
      BY <1>0, <1>c, <3>1, RewritesKeepNet DEF SetPort, Placed, Filled, Jobs
    <3>3. [job.row EXCEPT !.ip = lsp[p].ip].ip = lsp[p].ip
      BY <3>2 DEF PortRows
    <3>4. lsp'[p].ip \in {job.row.ip, lsp[p].ip}
      BY <1>0, <2>0, <3>1, <3>2, <3>3 DEF SetPort, TypeOK, LivePorts
    <3>5. a \in Held(p) \/ a = job.row.ip
      BY <1>c, <2>0, <3>2, <3>4 DEF Held, AddressOf, IsGateway
    <3>6. CASE a \in Held(p)
      BY <3>2, <3>6 DEF Had
    <3>7. CASE a = job.row.ip /\ a \notin Held(p)
      <4>1. Unused(lsp[p].net, a)
        BY <1>0, <2>0, <2>2, <3>7 DEF AddressFree, Held
      <4> QED
        BY <3>2, <4>1 DEF Unused
    <3> QED
      BY <3>5, <3>6, <3>7
  <2>3. CASE job.at = "key"
    <3>1. SetKey(job) /\ job.op \in GatewayOps
      BY <1>0, <2>3, CommitsAt DEF Placed
    <3>2. /\ p \in LivePorts /\ lsp[p].net = job.net /\ lrp[p].ip = job.ip
          /\ Unused(job.net, job.ip)
      BY <1>0, <2>3, <3>1 DEF Careful, AddressHeld, AddressFree
    <3>3. UNCHANGED <<lsp, lrp>>
      BY <3>1 DEF SetKey
    <3>4. a \in {lsp[p].ip, job.ip}
      BY <1>c, <3>2, <3>3 DEF Held, AddressOf
    <3>5. CASE a = lsp[p].ip
      BY <2>0, <3>2, <3>3, <3>5 DEF Had, Held
    <3>6. CASE a = job.ip
      BY <3>2, <3>3, <3>6 DEF Unused
    <3> QED
      BY <3>4, <3>5, <3>6
  <2>4. CASE job.op \notin {"addPort", "updatePort"} /\ job.at # "key"
    BY <1>c, <2>4, CommitSettles DEF Settled
  <2> QED
    BY <2>1, <2>2, <2>3, <2>4
<1> QED
  BY <1>0, <1>b, <1>c, DistinctStep

\* The address of a gateway stays unused until the key is written.
LEMMA WriteFree ==
  ASSUME GatewayFaults, DistinctSteps, Write, job' # None
  PROVE  RowBare(job)' /\ AddressFree(job)'
<1> USE IdAssumption
<1>0. /\ job \in GoodJobs /\ job \in Jobs /\ Placed(job.op, job.at) /\ Filled(job)
      /\ RowBare(job) /\ AddressFree(job) /\ Commit(job) /\ job # None
  BY DEF DistinctSteps, ReservedSteps, OrderedSteps, TypedSteps, GoodJobs, Write
<1>1. /\ job'.at = Following(job) /\ Following(job) # "done"
      /\ job'.op = job.op /\ job'.net = job.net /\ job'.ip = job.ip /\ job'.row = job.row
  BY <1>0, ArriveFields DEF Write
<1>2. RowBare(job)'
  BY <1>0, <1>1 DEF RowBare
<1>3. job.op \notin {"addPort", "updatePort"}
  <2>1. job.op \in {"addPort", "updatePort"} => job.at \in {"port", "setPort"}
    BY <1>0 DEF Placed, GatewayOps, AttachOps, RemovalOps, Jobs, Places
  <2> QED
    BY <1>1, <2>1 DEF Following, GatewayOps
<1>4. ASSUME job.op \in GatewayOps, Following(job) # "route"
      PROVE  \A q \in LivePorts' : lsp'[q].net = job.net => job.ip \notin Held(q)'
  <2>1. job.at # "key" /\ job.at # "route"
    BY <1>1, <1>4 DEF Following
  <2>2. Unused(job.net, job.ip) /\ job.ip # None
    BY <1>0, <1>4, <2>1 DEF AddressFree, Filled
  <2>3. \A q \in LivePorts' : Settled(q)
    BY <1>0, <1>3, <2>1, CommitSettles
  <2> QED
    BY <2>2, <2>3 DEF Settled, Had, Unused
<1>5. AddressFree(job)'
  BY <1>1, <1>3, <1>4 DEF AddressFree, Unused
<1> QED
  BY <1>2, <1>5

\* A request starts with an address that no port has.
LEMMA StartFree ==
  ASSUME ReservedSteps, Start
  PROVE  RowBare(job') /\ AddressFree(job')
<1> USE IdAssumption
<1>0. TypeOK /\ GatewaysStayReserved /\ job' \in Jobs
  BY StartGood DEF ReservedSteps, OrderedSteps, TypedSteps, GoodJobs
<1>a. ASSUME job'.row = None, job'.op \notin GatewayOps \cup {"addPort", "updatePort"}
      PROVE  RowBare(job') /\ AddressFree(job')
  BY <1>a DEF RowBare, AddressFree
<1>b. ASSUME NEW n \in Networks, NEW s \in Subnets, NEW ip \in IPs, ValidGateway(n, s, ip),
             job'.op \in GatewayOps, job'.row = NewRow(n), job'.net = n, job'.ip = ip
      PROVE  RowBare(job') /\ AddressFree(job')
  <2>1. Unused(n, ip)
    BY <1>0, <1>b, AvailableUnused DEF ValidGateway
  <2> QED
    BY <1>b, <2>1 DEF RowBare, AddressFree, NewRow, GatewayOps
<1>c. ASSUME NEW op \in RemovalOps, NEW r, NEW p, job' = Removing(op, r, p), op \notin GatewayOps
      PROVE  RowBare(job') /\ AddressFree(job')
  <2>1. job'.row = None /\ job'.op = op
    BY <1>c DEF Removing, Job
  <2> QED
    BY <1>a, <1>c, <2>1 DEF RemovalOps
<1>1. ASSUME NEW s \in Subnets, NEW n \in Networks, NEW g \in IPs \cup {None},
             StartAddSubnet(s, n, g)
      PROVE  RowBare(job') /\ AddressFree(job')
  BY <1>a, <1>1 DEF StartAddSubnet, Job, GatewayOps
<1>2. ASSUME NEW s \in Subnets, StartDeleteSubnet(s) PROVE RowBare(job') /\ AddressFree(job')
  BY <1>a, <1>2 DEF StartDeleteSubnet, Job, GatewayOps
<1>3. ASSUME NEW n \in Networks, StartDeleteNetwork(n) PROVE RowBare(job') /\ AddressFree(job')
  BY <1>a, <1>3 DEF StartDeleteNetwork, Job, GatewayOps
<1>4. ASSUME NEW p \in Ports, NEW n \in Networks, NEW a \in IPs \cup {None},
             NEW owned \in BOOLEAN, StartAddPort(p, n, a, owned)
      PROVE  RowBare(job') /\ AddressFree(job')
  <2>1. /\ job'.op = "addPort" /\ job'.net = n /\ job'.row.kind # "router"
        /\ job'.row.ip = None \/ (job'.row.ip = a /\ AddressAccepted(n, a))
    BY <1>4 DEF StartAddPort, Job, AddressKind
  <2>2. AddressAccepted(n, a) /\ a # None => Unused(n, a)
    BY <1>0, AvailableUnused DEF AddressAccepted
  <2> QED
    BY <2>1, <2>2 DEF RowBare, AddressFree, GatewayOps
<1>5. ASSUME NEW p \in Ports, NEW a \in IPs \cup {None}, NEW owned \in BOOLEAN,
             StartUpdatePort(p, a, owned)
      PROVE  RowBare(job') /\ AddressFree(job')
  <2>1. lsp[p] \in PortRows /\ lsp[p].kind # "router"
    BY <1>0, <1>5 DEF StartUpdatePort, LivePorts, TypeOK
  <2>2. /\ Readdressed(p, a) \in PortRows /\ Readdressed(p, a).kind # "router"
        /\ Readdressed(p, a).ip \in {a, lsp[p].ip}
    BY <2>1 DEF Readdressed, PortRows, Kinds, AddressKind
  <2> DEFINE accepted == AddressAccepted(lsp[p].net, a)
             row == IF accepted THEN Readdressed(p, a) ELSE lsp[p]
  <2>3. row \in PortRows /\ row.kind # "router" /\ row.ip \in {lsp[p].ip, a}
        /\ (row.ip # lsp[p].ip => accepted)
    BY <2>1, <2>2
  <2>4. job'.op = "updatePort" /\ job'.port = p /\ job'.row = [row EXCEPT !.routerOwned = owned]
    BY <1>5 DEF StartUpdatePort, Job
  <2>5. job'.row.kind = row.kind /\ job'.row.ip = row.ip
    BY <2>3, <2>4 DEF PortRows
  <2>6. accepted /\ a # None => Unused(lsp[p].net, a)
    BY <1>0, AvailableUnused DEF AddressAccepted
  <2> HIDE DEF accepted, row
  <2> QED
    BY <2>3, <2>4, <2>5, <2>6 DEF RowBare, AddressFree, GatewayOps
<1>6. ASSUME NEW p \in Ports, StartDeletePort(p) PROVE RowBare(job') /\ AddressFree(job')
  BY <1>a, <1>6 DEF StartDeletePort, Job, GatewayOps
<1>7. ASSUME NEW r \in Routers, StartAddRouterRoute(r) \/ StartUpdateRoutes(r)
      PROVE  RowBare(job') /\ AddressFree(job')
  BY <1>a, <1>7 DEF StartAddRouterRoute, StartUpdateRoutes, Job, GatewayOps
<1>8. ASSUME NEW r \in Routers, StartDeleteRouter(r) PROVE RowBare(job') /\ AddressFree(job')
  <2>1. CASE gwPort[r] = None
    BY <1>a, <1>8, <2>1 DEF StartDeleteRouter, Job, GatewayOps
  <2>2. CASE gwPort[r] # None
    BY <1>c, <1>8, <2>2 DEF StartDeleteRouter, RemovalOps, GatewayOps
  <2> QED
    BY <2>1, <2>2
<1>9. ASSUME NEW r \in Routers, NEW p \in Ports, NEW n \in Networks, NEW s \in Subnets,
             NEW ip \in IPs, StartAddRouter(r, p, n, s, ip)
      PROVE  RowBare(job') /\ AddressFree(job')
  <2>1. Job("addRouter", "reserve") \in Jobs
    BY JobIsJob DEF Ops, Places
  <2>2. job' = Plugging(Job("addRouter", "reserve"), r, p, n, ip)
    BY <1>9 DEF StartAddRouter
  <2>3. Job("addRouter", "reserve").op = "addRouter"
    BY DEF Job
  <2>4. job'.op = "addRouter" /\ job'.row = NewRow(n) /\ job'.net = n /\ job'.ip = ip
    BY <1>0, <2>1, <2>2, <2>3, PluggingGood
  <2> QED
    BY <1>b, <1>9, <2>4 DEF StartAddRouter, GatewayOps
<1>10. ASSUME NEW r \in Routers, NEW p \in Ports, NEW n \in Networks, NEW s \in Subnets,
              NEW ip \in IPs, NEW cleared \in BOOLEAN,
              StartUpdateRouter(r, p, n, s, ip, cleared)
       PROVE  RowBare(job') /\ AddressFree(job')
  <2>1. job'.op = "updateRouter" /\ job'.row = NewRow(n) /\ job'.net = n /\ job'.ip = ip
    BY <1>0, <1>10, UpdateRouterStarts
  <2> QED
    BY <1>b, <1>10, <2>1 DEF StartUpdateRouter, GatewayOps
<1>11. ASSUME NEW r \in Routers, NEW p \in Ports, StartDeleteInterface(r, p)
       PROVE  RowBare(job') /\ AddressFree(job')
  BY <1>c, <1>11 DEF StartDeleteInterface, RemovalOps, GatewayOps
<1>12. ASSUME NEW r \in Routers, NEW p \in Ports, StartAddInterfaceByPort(r, p)
       PROVE  RowBare(job') /\ AddressFree(job')
  BY <1>a, <1>12 DEF StartAddInterfaceByPort, Job, GatewayOps
<1>13. ASSUME NEW r \in Routers, NEW s \in Subnets, NEW p \in Ports,
              StartAddInterfaceBySubnet(r, s, p)
       PROVE  RowBare(job') /\ AddressFree(job')
  <2>1. job'.op = "attachSubnet" /\ job'.row = NewRow(dhcp[s].net)
    BY <1>13 DEF StartAddInterfaceBySubnet, Job
  <2> QED
    BY <2>1 DEF RowBare, AddressFree, NewRow, GatewayOps
<1>14. ASSUME NEW r \in Routers, NEW s \in Subnets, StartDeleteInterfaceBySubnet(r, s)
       PROVE  RowBare(job') /\ AddressFree(job')
  BY <1>a, <1>14 DEF StartDeleteInterfaceBySubnet, Job, GatewayOps
<1> QED
  BY <1>1, <1>2, <1>3, <1>4, <1>5, <1>6, <1>7, <1>8, <1>9, <1>10, <1>11, <1>12, <1>13, <1>14
  DEF Start

LEMMA UnchangedDistinct ==
  ASSUME DistinctSteps, UNCHANGED dbVars
  PROVE  /\ AddressesApart'
         /\ RowBare(job') /\ AddressFree(job') => RowBare(job)' /\ AddressFree(job)'
<1>0. UNCHANGED <<lsp, lrp, gwPort>> /\ LivePorts' = LivePorts
  BY DEF dbVars, vars, LivePorts
<1>a. \A q \in LivePorts : Held(q)' = Held(q)
  BY <1>0 DEF Held, AddressOf, IsGateway
<1>1. AddressesApart'
  BY <1>0, <1>a DEF DistinctSteps, AddressesApart
<1>2. RowBare(job') /\ AddressFree(job') => RowBare(job)' /\ AddressFree(job)'
  BY <1>0, <1>a DEF RowBare, AddressFree, Unused
<1> QED
  BY <1>1, <1>2

\* Between requests ovn-northd gives a port an address that no other port has.
LEMMA NorthdApart ==
  ASSUME DistinctSteps, Northd
  PROVE  AddressesApart'
<1>0. TypeOK /\ GatewaysStayReserved /\ AddressesApart
  BY DEF DistinctSteps, ReservedSteps, OrderedSteps, TypedSteps
<1>1. PICK p \in Ports, ip \in IPs : AssignAddress(p, ip)
  BY DEF Northd
<1>2. /\ p \in LivePorts /\ lsp[p] \in PortRows
      /\ lsp' = [lsp EXCEPT ![p] = [lsp[p] EXCEPT !.ip = ip]]
      /\ UNCHANGED <<lrp, gwPort>>
  BY <1>0, <1>1 DEF AssignAddress, LivePorts, TypeOK, routerVars
<1>3. /\ lsp'[p].ip = ip /\ lsp'[p].net = lsp[p].net
      /\ \A q \in Ports \ {p} : lsp'[q] = lsp[q]
  BY <1>0, <1>2 DEF PortRows, TypeOK
<1>4. \A q \in LivePorts' \ {p} : Settled(q)
  BY <1>2, <1>3 DEF Settled, Had, Held, LivePorts, AddressOf, IsGateway
<1>5. \A a \in Held(p)' : a \in Held(p) \/ a = ip
  BY <1>2, <1>3 DEF Held, AddressOf, IsGateway
<1>6. Unused(lsp[p].net, ip)
  BY <1>0, <1>1, AvailableUnused DEF AssignAddress
<1> QED
  BY <1>0, <1>2, <1>3, <1>4, <1>5, <1>6, DistinctStep DEF Unused, Had

LEMMA OneWriteApart ==
  ASSUME DistinctSteps, OneWrite
  PROVE  AddressesApart'
<1>0. TypeOK /\ AddressesApart
  BY DEF DistinctSteps, ReservedSteps, OrderedSteps, TypedSteps
<1>1. CASE \E p \in Ports, owned \in BOOLEAN : UpdateRouterPort(p, owned)
  <2>1. PICK p \in Ports, owned \in BOOLEAN : UpdateRouterPort(p, owned)
    BY <1>1
  <2>2. lsp[p] \in PortRows /\ lsp[p] # None /\ UNCHANGED <<lrp, gwPort>>
        /\ lsp' = [lsp EXCEPT ![p] = [lsp[p] EXCEPT !.routerOwned = owned]]
    BY <1>0, <2>1 DEF UpdateRouterPort, LivePorts, TypeOK, routerVars
  <2>3. /\ [lsp[p] EXCEPT !.routerOwned = owned].net = lsp[p].net
        /\ [lsp[p] EXCEPT !.routerOwned = owned].ip = lsp[p].ip
    BY <2>2 DEF PortRows
  <2>4. \A q \in LivePorts' : q \in LivePorts /\ lsp'[q].net = lsp[q].net /\ lsp'[q].ip = lsp[q].ip
    BY <1>0, <2>2, <2>3 DEF LivePorts, TypeOK
  <2>5. \A q \in LivePorts' : Held(q)' = Held(q)
    BY <2>2, <2>4 DEF Held, AddressOf, IsGateway
  <2> QED
    BY <1>0, <2>4, <2>5 DEF AddressesApart
<1>2. CASE UNCHANGED <<lsp, lrp, gwPort>>
  BY <1>0, <1>2 DEF AddressesApart, LivePorts, Held, AddressOf, IsGateway
<1> QED
  BY <1>1, <1>2
  DEF OneWrite, AddNetwork, UpdateSubnet, AddRouter, UpdateRouterRoutes, portVars, routerVars

LEMMA StepDistinct ==
  ASSUME GatewayFaults, "northd" \notin Faults
  PROVE  DistinctSteps /\ [StepsNext]_stepVars => DistinctSteps'
<1> SUFFICES ASSUME DistinctSteps, [StepsNext]_stepVars PROVE DistinctSteps'
  OBVIOUS
<1>0. "late" \notin Faults
  BY DEF GatewayFaults
<1>1. ReservedSteps' /\ ReservedSteps /\ late = <<>>
  BY StepReserved DEF DistinctSteps, ReservedSteps, OrderedSteps
<1>2. CASE job = None /\ OneWrite /\ UNCHANGED <<job, late>>
  BY <1>1, <1>2, OneWriteApart DEF DistinctSteps
<1>3. CASE Start
  BY <1>1, <1>3, StartFree, UnchangedDistinct DEF DistinctSteps, Start
<1>4. CASE Write
  BY <1>1, <1>4, CommitApart, WriteFree DEF DistinctSteps, Write
<1>5. CASE VisitPort
  <2>1. job \in Jobs /\ job.op = "detachSubnet" /\ RowBare(job)
    BY <1>1, <1>5
    DEF DistinctSteps, ReservedSteps, OrderedSteps, TypedSteps, GoodJobs, VisitPort, Placed
  <2>2. job' # None => job'.op = "detachSubnet" /\ job'.row = job.row
    BY <1>5, <2>1 DEF VisitPort, Jobs
  <2>3. job' # None => RowBare(job') /\ AddressFree(job')
    BY <2>1, <2>2 DEF RowBare, AddressFree, GatewayOps
  <2> QED
    BY <1>1, <1>5, <2>3, UnchangedDistinct DEF DistinctSteps, VisitPort
<1>6. CASE Northd
  <2>1. job = None /\ job' = None
    BY <1>6 DEF Northd
  <2> QED
    BY <1>1, <1>6, <2>1, NorthdApart DEF DistinctSteps
<1>7. CASE Abandon
  BY <1>1, <1>7, UnchangedDistinct DEF DistinctSteps, Abandon
<1>8. CASE Skip
  <2>1. /\ job \in Jobs /\ job # None /\ Placed(job.op, job.at) /\ job.at \in {"plug", "key"}
        /\ RowBare(job) /\ AddressFree(job) /\ UNCHANGED dbVars
    BY <1>1, <1>8
    DEF DistinctSteps, ReservedSteps, OrderedSteps, TypedSteps, GoodJobs, Skip, Unchecked
  <2>2. /\ job'.op = job.op /\ job'.net = job.net /\ job'.ip = job.ip /\ job'.row = job.row
        /\ job.op \in GatewayOps \cup AttachOps
    BY <1>8, <2>1 DEF Skip, Jobs, Placed
  <2>3. RowBare(job') /\ AddressFree(job')
    BY <2>1, <2>2 DEF RowBare, AddressFree, GatewayOps, AttachOps
  <2> QED
    BY <1>1, <2>1, <2>3, UnchangedDistinct DEF DistinctSteps
<1>9. CASE TimeOut \/ LateCommit
  BY <1>0, <1>1, <1>9 DEF TimeOut, LateCommit
<1>10. CASE UNCHANGED stepVars
  <2>1. UNCHANGED dbVars /\ job' = job
    BY <1>10 DEF stepVars, dbVars, vars
  <2>2. job # None => RowBare(job) /\ AddressFree(job)
    BY DEF DistinctSteps
  <2>3. job' # None => RowBare(job') /\ AddressFree(job')
    BY <2>1, <2>2 DEF RowBare, AddressFree
  <2> QED
    BY <1>1, <2>1, <2>3, UnchangedDistinct DEF DistinctSteps
<1> QED
  BY <1>2, <1>3, <1>4, <1>5, <1>6, <1>7, <1>8, <1>9, <1>10 DEF StepsNext

LEMMA InitDistinct == StepsInit => DistinctSteps
<1> SUFFICES ASSUME StepsInit PROVE DistinctSteps
  OBVIOUS
<1>1. ReservedSteps /\ job = None
  BY InitReserved DEF StepsInit
<1>2. \A q, t \in LivePorts : q = t
  BY DEF StepsInit, Init, EmptyDb, UpgradedDb, LivePorts
<1> QED
  BY <1>1, <1>2 DEF DistinctSteps, AddressesApart

\* No two ports of a network have one address, between the transactions of a request
\* and after requests that were cut short, or after writes that failed unnoticed: the
\* address that was looked for at the start is still unused when the last of the writes
\* takes it.
THEOREM StepsUniqueAddresses ==
  ASSUME Faults \subseteq {"abandon"} \/ Faults \subseteq {"skip"}
  PROVE  StepsSpec => []NoAddressClash
<1>1. GatewayFaults /\ "northd" \notin Faults
  BY DEF GatewayFaults
<1>2. DistinctSteps /\ [StepsNext]_stepVars => DistinctSteps'
  BY <1>1, StepDistinct
<1>3. DistinctSteps => NoAddressClash
  BY DEF DistinctSteps, AddressesApart, Held, NoAddressClash, PortsOf, LivePorts
<1> QED
  BY <1>2, <1>3, InitDistinct, PTL DEF StepsSpec

=============================================================================
