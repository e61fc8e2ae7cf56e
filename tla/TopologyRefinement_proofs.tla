-------------------- MODULE TopologyRefinement_proofs --------------------
(* TopologySteps implements Topology when nothing goes wrong: proof for    *)
(* every set of rows that the writes of a request, put together, are the   *)
(* one step of its handler.                                                *)
EXTENDS TopologyRefinement, TopologySteps_proofs

\* Topology and its theorems, of the database as it was before the request.
Idle == INSTANCE Topology_proofs
  WITH networks <- before.networks, exclude <- before.exclude, dhcp <- before.dhcp,
       lsp <- before.lsp, lrp <- before.lrp, routers <- before.routers,
       gwPort <- before.gwPort, defRoute <- before.defRoute

-----------------------------------------------------------------------------
(* How far a request has come: the database now, as a function of the database *)
(* before the request and of the local variables                              *)

NetworkRowsKept == networks = before.networks /\ exclude = before.exclude
SubnetRowsKept == dhcp = before.dhcp
PortRowsKept == lsp = before.lsp /\ lrp = before.lrp
RouterRowsKept == routers = before.routers /\ gwPort = before.gwPort
RoutesKept == defRoute = before.defRoute

\* add_subnet
SubnetProgress(j) ==
  /\ j.sub \in Subnets /\ before.dhcp[j.sub] = None
  /\ j.net \in before.networks /\ ~Idle!HasSubnet(j.net)
  /\ NetworkRowsKept /\ PortRowsKept /\ RouterRowsKept /\ RoutesKept
  /\ \/ j.at = "row" /\ SubnetRowsKept
     \/ /\ j.op = "addSubnet" /\ j.at = "options"
        /\ dhcp = [before.dhcp EXCEPT ![j.sub] =
                     [net |-> j.net, gateway |-> None, router |-> None]]

\* delete_network
NetworkProgress(j) ==
  /\ j.net \in before.networks /\ Idle!PortsOf(j.net) = {}
  /\ NetworkRowsKept /\ PortRowsKept /\ RouterRowsKept /\ RoutesKept
  /\ \/ j.at = "dropSubnet" /\ j.sub \in Idle!SubnetsOf(j.net) /\ SubnetRowsKept
     \/ /\ j.at = "dropNetwork"
        /\ dhcp = [s \in Subnets |->
                     IF s \in Idle!SubnetsOf(j.net) THEN None ELSE before.dhcp[s]]

\* The requests with one write that depends on what they have read.
WholeProgress(j) ==
  /\ NetworkRowsKept /\ SubnetRowsKept /\ PortRowsKept /\ RouterRowsKept /\ RoutesKept
  /\ \/ /\ j.op = "deleteSubnet"
        /\ j.sub \in Idle!LiveSubnets /\ before.dhcp[j.sub].router = None
     \/ /\ j.op = "deletePort"
        /\ j.old \in Idle!LivePorts /\ ~before.lsp[j.old].routerOwned
     \/ /\ j.op = "addPort"
        /\ j.port \in Ports /\ Idle!FreshPort(j.port) /\ j.net \in before.networks
        /\ \E a \in IPs \cup {None}, owned \in BOOLEAN :
             LET ok == Idle!AddressAccepted(j.net, a)
             IN j.row = [net |-> j.net,
                         kind |-> IF ok THEN Idle!AddressKind(j.net, a) ELSE "unset",
                         ip |-> IF ok THEN a ELSE None,
                         routerOwned |-> owned]
     \/ /\ j.op = "updatePort"
        /\ j.port \in Idle!LivePorts /\ before.lsp[j.port].kind # "router"
        /\ \E a \in IPs \cup {None}, owned \in BOOLEAN :
             j.row = [(IF Idle!AddressAccepted(before.lsp[j.port].net, a)
                       THEN Idle!Readdressed(j.port, a)
                       ELSE before.lsp[j.port]) EXCEPT !.routerOwned = owned]

Cleared(r) == [before.defRoute EXCEPT ![r] = "none"]

\* The routes of add_router and update_router without a gateway.
RouteProgress(j) ==
  /\ NetworkRowsKept /\ SubnetRowsKept /\ PortRowsKept /\ gwPort = before.gwPort
  /\ \/ /\ j.op = "addRouterRoute"
        /\ j.router \in Routers /\ Idle!FreshRouter(j.router)
        /\ RoutesKept
        /\ routers = IF j.at = "router" THEN before.routers
                                        ELSE before.routers \cup {j.router}
     \/ /\ j.op = "updateRoutes"
        /\ j.router \in before.routers
        /\ routers = before.routers
        /\ defRoute = IF j.at = "clear" THEN before.defRoute ELSE Cleared(j.router)

\* add_router_interface
AttachProgress(j) ==
  /\ NetworkRowsKept /\ RouterRowsKept /\ RoutesKept /\ lrp = before.lrp
  /\ j.router \in before.routers
  /\ ~Idle!Broken(j.router)
  /\ \/ /\ j.op = "attachSubnet"
        /\ j.sub \in Idle!LiveSubnets /\ before.dhcp[j.sub].router = None
        /\ before.dhcp[j.sub].gateway # None
        /\ ~Idle!OnSubnet(j.router, j.sub)
        /\ Idle!FreshPort(j.port)
        /\ j.net = before.dhcp[j.sub].net /\ j.ip = before.dhcp[j.sub].gateway
        /\ j.row = NewRow(j.net)
        /\ lsp = CASE j.at = "port" -> before.lsp
                   [] j.at = "own" -> [before.lsp EXCEPT ![j.port] = NewRow(j.net)]
                   [] j.at = "plug" -> [before.lsp EXCEPT ![j.port] =
                                          [NewRow(j.net) EXCEPT !.routerOwned = TRUE]]
                   [] OTHER -> [before.lsp EXCEPT ![j.port] = RouterPort(j.net)]
        /\ dhcp = IF j.at = "routerPort" THEN [before.dhcp EXCEPT ![j.sub].router = j.router]
                                         ELSE before.dhcp
     \/ /\ j.op = "attachPort"
        /\ j.port \in Idle!LivePorts /\ before.lsp[j.port].kind # "router"
        /\ before.lrp[j.port] = None
        /\ Idle!HasSubnet(j.net)
        /\ j.net = before.lsp[j.port].net /\ j.ip = before.lsp[j.port].ip /\ j.ip # None
        /\ SubnetRowsKept
        /\ lsp = CASE j.at = "own" -> before.lsp
                   [] j.at = "plug" -> [before.lsp EXCEPT ![j.port].routerOwned = TRUE]
                   [] OTHER -> [before.lsp EXCEPT ![j.port] = RouterPort(j.net)]

\* remove_router_interface with a subnet: the ports it finds, of which some are gone.
Here(j) ==
  {p \in Idle!Interfaces(j.router) \cap Idle!LivePorts :
     before.lsp[p].net = before.dhcp[j.sub].net}

Detached(j, gone) ==
  /\ gone \subseteq Here(j)
  /\ lsp = Idle!PortsWithout(gone)
  /\ \/ /\ j.at = "visit"
        /\ j.todo = Here(j) \ gone
        /\ lrp = Idle!RouterPortsWithout(gone)
     \/ /\ j.at = "dropRouterPort"
        /\ j.old \in Here(j) \ gone /\ j.todo = Here(j) \ (gone \cup {j.old})
        /\ lrp = Idle!RouterPortsWithout(gone)
     \/ /\ j.at = "dropPort"
        /\ j.old \in Here(j) \ gone /\ j.todo = Here(j) \ (gone \cup {j.old})
        /\ lrp = Idle!RouterPortsWithout(gone \cup {j.old})
     \/ /\ j.at = "disconnect"
        /\ gone = Here(j)
        /\ Idle!Interfaces(j.router) \subseteq Idle!LivePorts
        /\ before.dhcp[j.sub].router = j.router
        /\ lrp = Idle!RouterPortsWithout(gone)

DetachProgress(j) ==
  /\ NetworkRowsKept /\ SubnetRowsKept /\ RouterRowsKept /\ RoutesKept
  /\ j.router \in before.routers /\ j.sub \in Idle!LiveSubnets
  /\ \E gone \in SUBSET Ports : Detached(j, gone)

\* What a request that takes a port off a router has done when it comes to a write.
Unplugged(j, at) == j.old # None /\ at \notin {"clear", "dropRouterPort"}
Removed(j, at) == Unplugged(j, at) /\ at # "dropPort"
Disconnected(j, at) == Removed(j, at) /\ at # "disconnect"
OffGateway(j, at) == Disconnected(j, at) /\ before.gwPort[j.router] = j.old
Unkeyed(j, at) == OffGateway(j, at) /\ at # "unkey"
Unrouted(j, at) == Unkeyed(j, at) /\ at # "unroute"
Released(j, at) == Unrouted(j, at) /\ at # "release"

\* And what one that adds a gateway has.
Reserved(at) == at \in {"router", "port", "routerPort", "own", "plug", "key", "route"}
Created(at) == at \in {"routerPort", "own"}
Owned(at) == at = "plug"
Plugged(at) == at \in {"key", "route"}
Wired(at) == at \in {"own", "plug", "key", "route"}

\* The port that is taken off, as the request has found it.
Taken(j) ==
  /\ Idle!Removable(j.router, j.old)
  /\ j.oldNet = before.lsp[j.old].net
  /\ j.oldIp = before.lrp[j.old].ip
  /\ j.op # "removePort" => before.gwPort[j.router] = j.old
  /\ j.sub = None => \A s \in Idle!SubnetsOf(j.oldNet) : before.dhcp[s].gateway # j.oldIp
  /\ j.sub # None => j.sub \in Idle!SubnetsOf(j.oldNet) /\ before.dhcp[j.sub].gateway = j.oldIp
  /\ j.at = "disconnect" => j.sub # None
  /\ j.at \in {"unkey", "unroute", "release"} => before.gwPort[j.router] = j.old

\* The gateway that is added, as the request has found it.
Given(j) ==
  /\ Idle!FreshPort(j.port)
  /\ \E s \in Subnets : Idle!ValidGateway(j.net, s, j.ip)
  /\ j.row = NewRow(j.net)

\* The columns as they are by then: those it has not come to are as they were.
RoutersNow(j, at) ==
  IF j.op = "addRouter" /\ at \notin {"reserve", "router"}
  THEN before.routers \cup {j.router} ELSE before.routers
SubnetsNow(j, at) == IF Disconnected(j, at) THEN Idle!SubnetsWithout(j.old) ELSE before.dhcp
ExcludeLeft(j, at) ==
  IF Released(j, at) THEN Idle!ExcludeWithout(j.router, j.old) ELSE before.exclude
ExcludeNow(j, at) ==
  IF Reserved(at) THEN [ExcludeLeft(j, at) EXCEPT ![j.net] = @ \cup {j.ip}]
                  ELSE ExcludeLeft(j, at)
RouterPortsLeft(j, at) ==
  IF Unplugged(j, at) THEN Idle!RouterPortsWithout({j.old}) ELSE before.lrp
RouterPortsNow(j, at) ==
  IF Wired(at)
  THEN [RouterPortsLeft(j, at) EXCEPT ![j.port] = [router |-> j.router, ip |-> j.ip]]
  ELSE RouterPortsLeft(j, at)
PortsLeft(j, at) == IF Removed(j, at) THEN Idle!PortsWithout({j.old}) ELSE before.lsp
PortsNow(j, at) ==
  CASE Created(at) -> [PortsLeft(j, at) EXCEPT ![j.port] = NewRow(j.net)]
    [] Owned(at) -> [PortsLeft(j, at) EXCEPT ![j.port] =
                       [NewRow(j.net) EXCEPT !.routerOwned = TRUE]]
    [] Plugged(at) -> [PortsLeft(j, at) EXCEPT ![j.port] = RouterPort(j.net)]
    [] OTHER -> PortsLeft(j, at)
KeysNow(j, at) ==
  CASE at = "route" -> [before.gwPort EXCEPT ![j.router] = j.port]
    [] at # "route" /\ Unkeyed(j, at) -> [before.gwPort EXCEPT ![j.router] = None]
    [] OTHER -> before.gwPort

GatewayRows(j) ==
  /\ networks = before.networks
  /\ routers = RoutersNow(j, j.at)
  /\ dhcp = SubnetsNow(j, j.at)
  /\ exclude = ExcludeNow(j, j.at)
  /\ lrp = RouterPortsNow(j, j.at)
  /\ lsp = PortsNow(j, j.at)
  /\ gwPort = KeysNow(j, j.at)
  /\ \/ defRoute = before.defRoute /\ ~Unrouted(j, j.at)
     \/ defRoute = Cleared(j.router) /\ (Unrouted(j, j.at) \/ j.op = "updateRouter")

\* What the handler has found out by then.
Found(j) ==
  /\ j.old # None => Taken(j)
  /\ j.op \in GatewayOps => Given(j)
  /\ CASE j.op = "addRouter" -> Idle!FreshRouter(j.router) /\ j.old = None
       [] j.op = "updateRouter" ->
            /\ j.router \in before.routers
            /\ IF j.old = None THEN before.gwPort[j.router] = None ELSE j.old \in OldPorts
       [] j.op = "deleteRouter" ->
            /\ j.router \in before.routers
            /\ j.old = None =>
                 j.at = "dropRouter" /\ before.gwPort[j.router] = None
            /\ j.at = "dropRouter" => Idle!Interfaces(j.router) \subseteq {j.old}
       [] OTHER -> j.old # None

\* exclude_ips has not changed since it was read.
ValueRead(j) ==
  /\ j.at = "reserve" => j.value = exclude[j.net] \cup {j.ip}
  /\ j.at = "release" => j.value = exclude[j.oldNet] \ {j.oldIp}

\* add_router, update_router, delete_router, and remove_router_interface by port.
GatewayProgress(j) == Found(j) /\ GatewayRows(j) /\ ValueRead(j)

Progress(j) ==
  CASE j.op \in {"addSubnet", "addSubnetAtOnce"} -> SubnetProgress(j)
    [] j.op = "deleteNetwork" -> NetworkProgress(j)
    [] j.op \in {"deleteSubnet", "addPort", "updatePort", "deletePort"} -> WholeProgress(j)
    [] j.op \in {"addRouterRoute", "updateRoutes"} -> RouteProgress(j)
    [] j.op \in {"attachSubnet", "attachPort"} -> AttachProgress(j)
    [] j.op = "detachSubnet" -> DetachProgress(j)
    [] OTHER -> GatewayProgress(j)

\* Nothing of a router is in the database before the router is.
NoStrayRoutes == \A r \in Routers \ before.routers : before.defRoute[r] = "none"

RefInv ==
  /\ TypedSteps
  /\ late = <<>>
  /\ Idle!IInv
  /\ NoStrayRoutes
  /\ IF job = None THEN before = Db ELSE Progress(job)

-----------------------------------------------------------------------------
(* What the invariant says of the request at work *)

LEMMA JobFields ==
  ASSUME NEW j \in GoodJobs
  PROVE  /\ j \in Jobs /\ j # None /\ Placed(j.op, j.at) /\ Filled(j)
         /\ j.op \in Ops /\ j.at \in Places /\ j.todo \in SUBSET Ports
         /\ j.router \in Routers \cup {None} /\ j.port \in Ports \cup {None}
         /\ j.net \in Networks \cup {None} /\ j.ip \in IPs \cup {None}
         /\ j.sub \in Subnets \cup {None} /\ j.old \in Ports \cup {None}
         /\ j.oldNet \in Networks \cup {None} /\ j.oldIp \in IPs \cup {None}
<1>1. j \in Jobs /\ j # None /\ Placed(j.op, j.at) /\ Filled(j)
  BY JobAssumption DEF GoodJobs
<1> QED
  BY <1>1 DEF Jobs

\* A job moves from one write to the next with its local variables.
Moves(at) ==
  /\ job'.at = at
  /\ job'.op = job.op /\ job'.router = job.router /\ job'.port = job.port
  /\ job'.row = job.row /\ job'.net = job.net /\ job'.ip = job.ip /\ job'.sub = job.sub
  /\ job'.old = job.old /\ job'.oldNet = job.oldNet /\ job'.oldIp = job.oldIp
  /\ job'.todo = job.todo
  /\ at = "reserve" => job'.value = exclude'[job.net] \cup {job.ip}
  /\ at = "release" => job'.value = exclude'[job.oldNet] \ {job.oldIp}

Goes == job' # None /\ before' = before
Ends == job' = None /\ before' = Db'

LEMMA WriteMoves ==
  ASSUME TypedSteps, job # None, Write, before' = IF job' = None THEN Db' ELSE before
  PROVE  /\ Following(job) = "done" => Ends
         /\ Following(job) \notin {"done", "release"} => Goes /\ Moves(Following(job))
         /\ Following(job) = "release" =>
              IF job.oldIp \in exclude'[job.oldNet] THEN Goes /\ Moves("release") ELSE Ends
<1>1. job \in GoodJobs /\ TypeOK
  BY DEF TypedSteps
<1>2. job \in Jobs
  BY <1>1, JobFields
<1>3. /\ job' = Arrive(job, Following(job))
      /\ Commit(job)
  BY DEF Write
<1>4. TypeOK'
  BY <1>1, <1>3, CommitTypeOK
<1>5. job' \in GoodJobs \cup {None}
  BY <1>1, <1>3, <1>4, ArriveGood
<1>6. Following(job) = "done" => Ends
  BY <1>3 DEF Arrive, Ends
<1>7. ASSUME Following(job) # "done",
             Following(job) = "release" => job.oldIp \in exclude'[job.oldNet]
      PROVE  Goes /\ Moves(Following(job))
  <2> DEFINE at == Following(job)
  <2>1. at \in Places /\ Placed(job.op, at) /\ (NeedsOld(job.op, at) => job.old # None)
    BY <1>1, <1>7, FollowingPlaced
  <2>2. \A value \in SUBSET IPs :
          /\ [job EXCEPT !.at = at] \in GoodJobs
          /\ [job EXCEPT !.at = at, !.value = value] \in GoodJobs
    BY <1>1, <2>1, MovedJob
  <2>3. job' # None
    <3>1. CASE at = "reserve"
      <4>1. exclude'[job.net] \cup {job.ip} \in SUBSET IPs
        BY <1>1, <1>4, <2>1, <3>1, JobFields DEF Placed, Filled, GatewayOps, TypeOK
      <4> QED
        BY <1>3, <2>2, <3>1, <4>1, JobFields DEF Arrive
    <3>2. CASE at = "release"
      <4>1. exclude'[job.oldNet] \ {job.oldIp} \in SUBSET IPs
        BY <1>1, <1>4, <2>1, <3>2, JobFields
        DEF Placed, Filled, RemovalOps, NeedsOld, RemovalPlaces, TypeOK
      <4> QED
        BY <1>3, <1>7, <2>2, <3>2, <4>1, JobFields DEF Arrive
    <3>3. CASE at \notin {"reserve", "release"}
      <4>1. job' = [job EXCEPT !.at = at]
        BY <1>3, <1>7, <3>3 DEF Arrive
      <4> QED
        BY <2>2, <4>1, JobFields
    <3> QED
      BY <3>1, <3>2, <3>3
  <2> QED
    BY <1>2, <1>3, <2>3, ArriveFields DEF Goes, Moves
<1>8. ASSUME Following(job) = "release", job.oldIp \notin exclude'[job.oldNet]
      PROVE  Ends
  BY <1>3, <1>8 DEF Arrive, Ends
<1> QED
  BY <1>6, <1>7, <1>8

-----------------------------------------------------------------------------
(* Between requests *)

LEMMA AtRest ==
  ASSUME before = Db
  PROVE  /\ before.networks = networks /\ before.exclude = exclude /\ before.dhcp = dhcp
         /\ before.lsp = lsp /\ before.lrp = lrp /\ before.routers = routers
         /\ before.gwPort = gwPort /\ before.defRoute = defRoute
BY DEF Db

LEMMA AtRestAfter ==
  ASSUME before' = Db'
  PROVE  /\ before.networks' = networks' /\ before.exclude' = exclude' /\ before.dhcp' = dhcp'
         /\ before.lsp' = lsp' /\ before.lrp' = lrp' /\ before.routers' = routers'
         /\ before.gwPort' = gwPort' /\ before.defRoute' = defRoute'
BY DEF Db

\* What a handler finds in the database when its request starts.
LEMMA Looks ==
  ASSUME before = Db
  PROVE  /\ Idle!LivePorts = LivePorts /\ Idle!LiveSubnets = LiveSubnets
         /\ \A n : Idle!PortsOf(n) = PortsOf(n) /\ Idle!SubnetsOf(n) = SubnetsOf(n)
                   /\ (Idle!HasSubnet(n) <=> HasSubnet(n))
         /\ \A r : Idle!Interfaces(r) = Interfaces(r) /\ (Idle!Broken(r) <=> Broken(r))
         /\ \A p : Idle!FreshPort(p) <=> FreshPort(p)
         /\ \A r : Idle!FreshRouter(r) <=> FreshRouter(r)
         /\ \A n, ip : Idle!IpAvailable(n, ip) <=> IpAvailable(n, ip)
<1> USE AtRest
<1>1. Idle!LivePorts = LivePorts /\ Idle!LiveSubnets = LiveSubnets
  BY DEF Idle!LivePorts, LivePorts, Idle!LiveSubnets, LiveSubnets
<1>2. \A n : Idle!PortsOf(n) = PortsOf(n) /\ Idle!SubnetsOf(n) = SubnetsOf(n)
  BY <1>1 DEF Idle!PortsOf, PortsOf, Idle!SubnetsOf, SubnetsOf
<1>3. \A n : Idle!HasSubnet(n) <=> HasSubnet(n)
  BY <1>2 DEF Idle!HasSubnet, HasSubnet
<1>4. \A r : Idle!Interfaces(r) = Interfaces(r)
  BY DEF Idle!Interfaces, Interfaces
<1>5. \A p : Idle!Resolvable(p) <=> Resolvable(p)
  BY <1>1, <1>3 DEF Idle!Resolvable, Resolvable
<1>6. \A r : Idle!Broken(r) <=> Broken(r)
  BY <1>4, <1>5 DEF Idle!Broken, Broken
<1>7. \A p : Idle!FreshPort(p) <=> FreshPort(p)
  BY DEF Idle!FreshPort, FreshPort
<1>8. \A r : Idle!FreshRouter(r) <=> FreshRouter(r)
  BY <1>1 DEF Idle!FreshRouter, FreshRouter
<1>9. \A n, ip : Idle!IpAvailable(n, ip) <=> IpAvailable(n, ip)
  BY <1>2 DEF Idle!IpAvailable, IpAvailable
<1> QED
  BY <1>1, <1>2, <1>3, <1>4, <1>6, <1>7, <1>8, <1>9

LEMMA LooksFurther ==
  ASSUME before = Db
  PROVE  /\ \A r, s : Idle!OnSubnet(r, s) <=> OnSubnet(r, s)
         /\ \A n, a : Idle!AddressAccepted(n, a) <=> AddressAccepted(n, a)
         /\ \A n, a : Idle!AddressKind(n, a) = AddressKind(n, a)
         /\ \A p, a : Idle!Readdressed(p, a) = Readdressed(p, a)
         /\ \A n, s, ip : Idle!ValidGateway(n, s, ip) <=> ValidGateway(n, s, ip)
         /\ \A r, p : Idle!Removable(r, p) <=> Removable(r, p)
<1> USE AtRest, Looks
<1>1. \A r, s : Idle!OnSubnet(r, s) <=> OnSubnet(r, s)
  BY DEF Idle!OnSubnet, OnSubnet, Idle!Resolvable, Resolvable
<1>2. \A n, a : Idle!AddressAccepted(n, a) <=> AddressAccepted(n, a)
  BY DEF Idle!AddressAccepted, AddressAccepted
<1>3. \A n, a : Idle!AddressKind(n, a) = AddressKind(n, a)
  BY DEF Idle!AddressKind, AddressKind
<1>4. \A p, a : Idle!Readdressed(p, a) = Readdressed(p, a)
  BY <1>3 DEF Idle!Readdressed, Readdressed
<1>5. \A n, s, ip : Idle!ValidGateway(n, s, ip) <=> ValidGateway(n, s, ip)
  BY DEF Idle!ValidGateway, ValidGateway
<1>6. \A r, p : Idle!Removable(r, p) <=> Removable(r, p)
  BY DEF Idle!Removable, Removable
<1> QED
  BY <1>1, <1>2, <1>3, <1>4, <1>5, <1>6

\* The two instances of Topology are one.
LEMMA SameTopology ==
  /\ Idle!Next <=> Atomic!Next
  /\ Idle!Init <=> Atomic!Init
  /\ Idle!vars = Atomic!vars
BY
DEF Idle!Kinds, Atomic!Kinds, Idle!Routes, Atomic!Routes, Idle!SubnetRows,
   Atomic!SubnetRows, Idle!PortRows, Atomic!PortRows, Idle!RouterPortRows,
   Atomic!RouterPortRows, Idle!LivePorts, Atomic!LivePorts, Idle!LiveSubnets,
   Atomic!LiveSubnets, Idle!PortsOf, Atomic!PortsOf, Idle!SubnetsOf, Atomic!SubnetsOf,
   Idle!HasSubnet, Atomic!HasSubnet, Idle!Interfaces, Atomic!Interfaces, Idle!FreshNetwork,
   Atomic!FreshNetwork, Idle!FreshPort, Atomic!FreshPort, Idle!FreshRouter,
   Atomic!FreshRouter, Idle!IpAvailable, Atomic!IpAvailable, Idle!Resolvable,
   Atomic!Resolvable, Idle!Broken, Atomic!Broken, Idle!OnSubnet, Atomic!OnSubnet,
   Idle!AddressAccepted, Atomic!AddressAccepted, Idle!AddressKind, Atomic!AddressKind,
   Idle!ReserveIp, Atomic!ReserveIp, Idle!ReleaseIp, Atomic!ReleaseIp, Idle!RouterPort,
   Atomic!RouterPort, Idle!ValidGateway, Atomic!ValidGateway, Idle!Removable,
   Atomic!Removable, Idle!SubnetsWithout, Atomic!SubnetsWithout, Idle!PortsWithout,
   Atomic!PortsWithout, Idle!RouterPortsWithout, Atomic!RouterPortsWithout,
   Idle!ExcludeWithout, Atomic!ExcludeWithout, Idle!AddNetwork, Atomic!AddNetwork,
   Idle!DeleteNetwork, Atomic!DeleteNetwork, Idle!AddSubnet, Atomic!AddSubnet,
   Idle!UpdateSubnet, Atomic!UpdateSubnet, Idle!DeleteSubnet, Atomic!DeleteSubnet,
   Idle!AddPort, Atomic!AddPort, Idle!Readdressed, Atomic!Readdressed, Idle!UpdatePort,
   Atomic!UpdatePort, Idle!UpdateRouterPort, Atomic!UpdateRouterPort, Idle!DeletePort,
   Atomic!DeletePort, Idle!AssignAddress, Atomic!AssignAddress, Idle!AddRouter,
   Atomic!AddRouter, Idle!AddGatewayPort, Atomic!AddGatewayPort, Idle!AddRouterWithGateway,
   Atomic!AddRouterWithGateway, Idle!UpdateRouterRoutes, Atomic!UpdateRouterRoutes,
   Idle!UpdateRouterAddGateway, Atomic!UpdateRouterAddGateway,
   Idle!UpdateRouterReplaceGateway, Atomic!UpdateRouterReplaceGateway, Idle!RemovePort,
   Atomic!RemovePort, Idle!DeleteRouter, Atomic!DeleteRouter, Idle!AddInterfaceBySubnet,
   Atomic!AddInterfaceBySubnet, Idle!AddInterfaceByPort, Atomic!AddInterfaceByPort,
   Idle!DeleteInterfaceByPort, Atomic!DeleteInterfaceByPort,
   Idle!DeleteInterfaceBySubnetAndPort, Atomic!DeleteInterfaceBySubnetAndPort,
   Idle!DeleteInterfaceBySubnet, Atomic!DeleteInterfaceBySubnet, Idle!Next, Atomic!Next,
   Idle!vars, Atomic!vars, Idle!portVars, Atomic!portVars, Idle!routerVars,
   Atomic!routerVars, Idle!Init, Atomic!Init, Idle!EmptyDb, Atomic!EmptyDb,
   Idle!UpgradedDb, Atomic!UpgradedDb

\* A request that is one transaction, and an address that northd gives out.
LEMMA OneStep ==
  ASSUME before = Db, before' = Db', OneWrite \/ Northd
  PROVE  Idle!Next
<1> USE AtRest, AtRestAfter DEF portVars, routerVars, Idle!portVars, Idle!routerVars
<1>1. ASSUME NEW n \in Networks, AddNetwork(n) PROVE Idle!AddNetwork(n)
  BY <1>1, Looks DEF AddNetwork, Idle!AddNetwork, FreshNetwork, Idle!FreshNetwork
<1>2. ASSUME NEW s \in Subnets, NEW g \in IPs, UpdateSubnet(s, g) PROVE Idle!UpdateSubnet(s, g)
  BY <1>2, Looks DEF UpdateSubnet, Idle!UpdateSubnet
<1>3. ASSUME NEW p \in Ports, NEW owned \in BOOLEAN, UpdateRouterPort(p, owned)
      PROVE  Idle!UpdateRouterPort(p, owned)
  BY <1>3, Looks DEF UpdateRouterPort, Idle!UpdateRouterPort
<1>4. ASSUME NEW r \in Routers, AddRouter(r, "none") PROVE Idle!AddRouter(r, "none")
  BY <1>4, Looks DEF AddRouter, Idle!AddRouter
<1>5. ASSUME NEW r \in Routers, NEW route \in {"none", "user"}, UpdateRouterRoutes(r, route)
      PROVE  Idle!UpdateRouterRoutes(r, route)
  BY <1>5, Looks DEF UpdateRouterRoutes, Idle!UpdateRouterRoutes
<1>6. ASSUME NEW p \in Ports, NEW ip \in IPs, AssignAddress(p, ip)
      PROVE  Idle!AssignAddress(p, ip)
  <2>1. /\ p \in Idle!LivePorts /\ Idle!IpAvailable(before.lsp[p].net, ip)
        /\ Idle!PortsOf(before.lsp[p].net) = PortsOf(lsp[p].net)
    BY <1>6, Looks DEF AssignAddress
  <2>2. \A q \in Idle!PortsOf(before.lsp[p].net) :
          before.lsp[q].kind = "router" /\ before.lrp[q] # None => before.lrp[q].ip # ip
    BY <1>6, <2>1 DEF AssignAddress
  <2>3. before.lsp' = [before.lsp EXCEPT ![p].ip = ip]
    BY <1>6 DEF AssignAddress
  <2>4. before.lsp[p].kind = "dynamic" /\ before.lsp[p].ip = None
    BY <1>6 DEF AssignAddress
  <2>5. UNCHANGED <<before.networks, before.exclude, before.dhcp, before.lrp, Idle!routerVars>>
    BY <1>6 DEF AssignAddress
  <2> HIDE AtRest, AtRestAfter
  <2> QED
    BY <2>1, <2>2, <2>3, <2>4, <2>5 DEF Idle!AssignAddress
<1>7. CASE OneWrite
  BY <1>7, <1>1, <1>2, <1>3, <1>4, <1>5 DEF OneWrite, Idle!Next
<1>8. CASE Northd
  BY <1>8, <1>6 DEF Northd, Idle!Next
<1> QED
  BY <1>7, <1>8

-----------------------------------------------------------------------------
(* What holds between requests *)

LEMMA IdleRows ==
  /\ OldPorts \subseteq Ports
  /\ None \notin Networks \cup Subnets \cup Ports \cup Routers \cup IPs
  /\ None \notin Idle!SubnetRows \cup Idle!PortRows \cup Idle!RouterPortRows
BY IdAssumption
DEF SubnetRows, Idle!SubnetRows, PortRows, Idle!PortRows, RouterPortRows, Idle!RouterPortRows,
    Kinds, Idle!Kinds

LEMMA IdleInvariant == Idle!IInv /\ [Idle!Next]_(Idle!vars) => Idle!IInv'
BY IdleRows, Idle!StepIInv

LEMMA IdleInitially == Idle!Init => Idle!IInv
BY IdleRows, Idle!InitIInv

LEMMA StrayRoutesKept ==
  ASSUME Idle!TypeOK, NoStrayRoutes, Idle!Next
  PROVE  NoStrayRoutes'
<1> USE DEF NoStrayRoutes, Idle!portVars, Idle!routerVars
<1>0. before.defRoute \in [Routers -> Idle!Routes] /\ before.routers \subseteq Routers
  BY DEF Idle!TypeOK
<1>a. ASSUME UNCHANGED <<before.routers, before.defRoute>> PROVE NoStrayRoutes'
  BY <1>a
<1>b. ASSUME NEW r \in before.routers', NEW route,
             before.defRoute' = [before.defRoute EXCEPT ![r] = route],
             before.routers \subseteq before.routers'
      PROVE  NoStrayRoutes'
  BY <1>0, <1>b
<1>1. ASSUME NEW n \in Networks, Idle!AddNetwork(n) \/ Idle!DeleteNetwork(n)
      PROVE  NoStrayRoutes'
  BY <1>a, <1>1 DEF Idle!AddNetwork, Idle!DeleteNetwork
<1>2. ASSUME NEW s \in Subnets, NEW n \in Networks, NEW g, Idle!AddSubnet(s, n, g)
      PROVE  NoStrayRoutes'
  BY <1>a, <1>2 DEF Idle!AddSubnet
<1>3. ASSUME NEW s \in Subnets, NEW g, Idle!UpdateSubnet(s, g) \/ Idle!DeleteSubnet(s)
      PROVE  NoStrayRoutes'
  BY <1>a, <1>3 DEF Idle!UpdateSubnet, Idle!DeleteSubnet
<1>4. ASSUME NEW p \in Ports, NEW n, NEW a, NEW owned,
             \/ Idle!AddPort(p, n, a, owned) \/ Idle!UpdatePort(p, a, owned)
             \/ Idle!UpdateRouterPort(p, owned) \/ Idle!DeletePort(p) \/ Idle!AssignAddress(p, a)
      PROVE  NoStrayRoutes'
  BY <1>a, <1>4
  DEF Idle!AddPort, Idle!UpdatePort, Idle!UpdateRouterPort, Idle!DeletePort, Idle!AssignAddress
<1>5. ASSUME NEW r \in Routers, NEW route,
             Idle!AddRouter(r, route) \/ Idle!UpdateRouterRoutes(r, route)
      PROVE  NoStrayRoutes'
  BY <1>b, <1>5 DEF Idle!AddRouter, Idle!UpdateRouterRoutes
<1>6. ASSUME NEW r \in Routers, NEW p, NEW n, NEW s, NEW ip, NEW cleared,
             \/ Idle!AddRouterWithGateway(r, p, n, s, ip)
             \/ Idle!UpdateRouterAddGateway(r, p, n, s, ip, cleared)
             \/ Idle!UpdateRouterReplaceGateway(r, p, n, s, ip)
      PROVE  NoStrayRoutes'
  BY <1>b, <1>6
  DEF Idle!AddRouterWithGateway, Idle!UpdateRouterAddGateway, Idle!UpdateRouterReplaceGateway
<1>7. ASSUME NEW r \in Routers, Idle!DeleteRouter(r) PROVE NoStrayRoutes'
  BY <1>0, <1>7 DEF Idle!DeleteRouter
<1>8. ASSUME NEW r \in Routers, NEW s, NEW p,
             Idle!AddInterfaceBySubnet(r, s, p) \/ Idle!AddInterfaceByPort(r, p)
      PROVE  NoStrayRoutes'
  BY <1>a, <1>8 DEF Idle!AddInterfaceBySubnet, Idle!AddInterfaceByPort
<1>9. ASSUME NEW r \in Routers, NEW p, Idle!DeleteInterfaceByPort(r, p) PROVE NoStrayRoutes'
  BY <1>b, <1>9 DEF Idle!DeleteInterfaceByPort, Idle!RemovePort, Idle!Removable
<1>10. ASSUME NEW r \in Routers, NEW s, NEW gone, Idle!DeleteInterfaceBySubnet(r, s, gone)
       PROVE  NoStrayRoutes'
  BY <1>a, <1>10 DEF Idle!DeleteInterfaceBySubnet
<1> QED
  BY <1>1, <1>2, <1>3, <1>4, <1>5, <1>6, <1>7, <1>8, <1>9, <1>10
  DEF Idle!Next, Idle!DeleteInterfaceBySubnetAndPort

\* A step of Topology keeps what holds between requests.
LEMMA RestKept ==
  ASSUME Idle!IInv, NoStrayRoutes, Idle!Next
  PROVE  Idle!IInv' /\ NoStrayRoutes'
BY IdleInvariant, StrayRoutesKept DEF Idle!IInv

-----------------------------------------------------------------------------
(* The first write is ahead *)

\* A step that changes neither the database nor what was before leaves progress.
LEMMA ProgressKept ==
  ASSUME before' = before, UNCHANGED dbVars, Progress(job')
  PROVE  Progress(job)'
<1> USE DEF dbVars, vars, NetworkRowsKept, SubnetRowsKept, PortRowsKept, RouterRowsKept, RoutesKept,
        Idle!LivePorts, Idle!LiveSubnets, Idle!PortsOf, Idle!SubnetsOf, Idle!HasSubnet,
        Idle!Interfaces, Idle!FreshPort, Idle!FreshRouter, Idle!IpAvailable
<1>1. ASSUME SubnetProgress(job') PROVE SubnetProgress(job)'
  BY <1>1 DEF SubnetProgress
<1>2. ASSUME NetworkProgress(job') PROVE NetworkProgress(job)'
  BY <1>2 DEF NetworkProgress
<1>3. ASSUME WholeProgress(job') PROVE WholeProgress(job)'
  <2>1. UNCHANGED <<networks, exclude, dhcp, lsp, lrp, routers, gwPort, defRoute>>
    OBVIOUS
  <2>2. /\ (NetworkRowsKept /\ SubnetRowsKept /\ PortRowsKept /\ RouterRowsKept /\ RoutesKept)'
        /\ (job.op = "deleteSubnet" =>
               job.sub \in Idle!LiveSubnets /\ before.dhcp[job.sub].router = None)'
        /\ (job.op = "deletePort" =>
               job.old \in Idle!LivePorts /\ ~before.lsp[job.old].routerOwned)'
    BY <1>3 DEF WholeProgress
  <2>3. CASE job'.op = "addPort"
    <3>1. PICK a \in IPs \cup {None}, owned \in BOOLEAN :
            LET ok == Idle!AddressAccepted(job'.net, a)
            IN job'.row = [net |-> job'.net,
                           kind |-> IF ok THEN Idle!AddressKind(job'.net, a) ELSE "unset",
                           ip |-> IF ok THEN a ELSE None,
                           routerOwned |-> owned]
      BY <1>3, <2>3 DEF WholeProgress
    <3>2. /\ Idle!AddressAccepted(job.net, a)' <=> Idle!AddressAccepted(job'.net, a)
          /\ Idle!AddressKind(job.net, a)' = Idle!AddressKind(job'.net, a)
      BY DEF Idle!AddressAccepted, Idle!AddressKind
    <3> QED
      BY <1>3, <2>2, <2>3, <3>1, <3>2 DEF WholeProgress
  <2>4. CASE job'.op = "updatePort"
    <3>1. PICK a \in IPs \cup {None}, owned \in BOOLEAN :
            job'.row = [(IF Idle!AddressAccepted(before.lsp[job'.port].net, a)
                         THEN Idle!Readdressed(job'.port, a)
                         ELSE before.lsp[job'.port]) EXCEPT !.routerOwned = owned]
      BY <1>3, <2>4 DEF WholeProgress
    <3>2. /\ Idle!AddressAccepted(before.lsp[job.port].net, a)'
               <=> Idle!AddressAccepted(before.lsp[job'.port].net, a)
          /\ Idle!Readdressed(job.port, a)' = Idle!Readdressed(job'.port, a)
      BY DEF Idle!AddressAccepted, Idle!Readdressed, Idle!AddressKind
    <3> QED
      BY <1>3, <2>2, <2>4, <3>1, <3>2 DEF WholeProgress
  <2>5. job'.op \in {"deleteSubnet", "deletePort", "addPort", "updatePort"}
    BY <1>3 DEF WholeProgress
  <2> QED
    BY <2>2, <2>3, <2>4, <2>5 DEF WholeProgress
<1>4. ASSUME RouteProgress(job') PROVE RouteProgress(job)'
  BY <1>4 DEF RouteProgress, Cleared
<1>5. ASSUME AttachProgress(job') PROVE AttachProgress(job)'
  BY <1>5 DEF AttachProgress, Idle!Broken, Idle!OnSubnet, Idle!Resolvable
<1>6. ASSUME DetachProgress(job') PROVE DetachProgress(job)'
  <2>1. PICK gone : Detached(job', gone)
    BY <1>6 DEF DetachProgress
  <2>2. Here(job)' = Here(job')
    BY DEF Here
  <2>3. /\ Idle!PortsWithout(gone)' = Idle!PortsWithout(gone)
        /\ Idle!RouterPortsWithout(gone)' = Idle!RouterPortsWithout(gone)
        /\ Idle!RouterPortsWithout(gone \cup {job.old})' =
             Idle!RouterPortsWithout(gone \cup {job'.old})
    BY DEF Idle!PortsWithout, Idle!RouterPortsWithout
  <2> QED
    BY <1>6, <2>1, <2>2, <2>3 DEF DetachProgress, Detached
<1>7. ASSUME GatewayProgress(job') PROVE GatewayProgress(job)'
  <2>1. Found(job)'
    BY <1>7 DEF GatewayProgress, Found, Taken, Given, Idle!ValidGateway, Idle!Removable
  <2>2. GatewayRows(job)'
    BY <1>7
    DEF GatewayProgress, GatewayRows, RoutersNow, SubnetsNow, ExcludeLeft, ExcludeNow,
        RouterPortsLeft, RouterPortsNow, PortsLeft, PortsNow, KeysNow, Cleared,
        Idle!SubnetsWithout, Idle!ExcludeWithout, Idle!ReleaseIp, Idle!PortsWithout,
        Idle!RouterPortsWithout, Unplugged, Removed, Disconnected, OffGateway, Unkeyed, Unrouted,
        Released, Reserved, Created, Owned, Plugged, Wired
  <2>3. ValueRead(job)'
    BY <1>7 DEF GatewayProgress, ValueRead
  <2> QED
    BY <2>1, <2>2, <2>3 DEF GatewayProgress
<1> HIDE DEF dbVars, vars
<1> QED
  BY <1>1, <1>2, <1>3, <1>4, <1>5, <1>6, <1>7 DEF Progress

\* When a request starts, its handler has found what the handler of Topology looks for.
LEMMA StartProgress ==
  ASSUME TypedSteps, before = Db, Idle!IInv, Start
  PROVE  Progress(job')
<1> USE IdAssumption, AtRest, Looks, LooksFurther
    DEF NetworkRowsKept, SubnetRowsKept, PortRowsKept, RouterRowsKept, RoutesKept
<1>0. TypeOK
  BY DEF TypedSteps
<1>a. ASSUME NEW j, j.op \in RemovalOps, j.at \in {"clear", "dropRouterPort"},
             j.old # None, Removable(j.router, j.old),
             j.op # "removePort" => gwPort[j.router] = j.old,
             j.oldNet = lsp[j.old].net, j.oldIp = lrp[j.old].ip,
             Served(j.sub, lsp[j.old].net, lrp[j.old].ip)
      PROVE  Taken(j)
  BY <1>a DEF Taken, Served
<1>b. ASSUME NEW j, j.op \in GatewayOps \cup RemovalOps,
             \/ j.at \in {"reserve", "clear", "dropRouterPort"}
             \/ j.at = "dropRouter" /\ j.op = "deleteRouter" /\ j.old = None,
             j.old # None => Taken(j),
             j.op \in GatewayOps => Given(j),
             j.op = "addRouter" => FreshRouter(j.router) /\ j.old = None,
             j.op = "updateRouter" =>
               /\ j.router \in routers
               /\ IF j.old = None THEN gwPort[j.router] = None ELSE j.old \in OldPorts,
             j.op = "deleteRouter" =>
               /\ j.router \in routers
               /\ j.old = None => /\ j.at = "dropRouter" /\ gwPort[j.router] = None
                                  /\ Interfaces(j.router) = {}
               /\ j.old # None => j.at = "dropRouterPort",
             j.op = "removePort" => j.old # None,
             j.op = "addRouter" => j.at = "reserve",
             j.at = "reserve" =>
               j.old = None /\ j.value = exclude[j.net] \cup {j.ip}
      PROVE  Progress(j)
  <2>1. j.old # None => j.at \in {"clear", "dropRouterPort"}
    BY <1>b
  <2>2. ~Unplugged(j, j.at)
    BY <2>1 DEF Unplugged
  <2>3. /\ ~Removed(j, j.at) /\ ~Disconnected(j, j.at) /\ ~OffGateway(j, j.at)
        /\ ~Unkeyed(j, j.at) /\ ~Unrouted(j, j.at) /\ ~Released(j, j.at)
    BY <2>2 DEF Removed, Disconnected, OffGateway, Unkeyed, Unrouted, Released
  <2>4. /\ ~Reserved(j.at) /\ ~Created(j.at) /\ ~Owned(j.at)
        /\ ~Plugged(j.at) /\ ~Wired(j.at) /\ j.at # "route"
    BY <1>b DEF Reserved, Created, Owned, Plugged, Wired
  <2>5. Found(j)
    BY <1>b DEF Found, GatewayOps, RemovalOps
  <2>6. GatewayRows(j)
    <3>1. /\ networks = before.networks /\ dhcp = before.dhcp /\ exclude = before.exclude
          /\ lsp = before.lsp /\ lrp = before.lrp /\ routers = before.routers
          /\ gwPort = before.gwPort /\ defRoute = before.defRoute
      OBVIOUS
    <3>2. j.op = "addRouter" => j.at = "reserve"
      BY <1>b
    <3> HIDE AtRest, Looks, LooksFurther
    <3> QED
      BY <2>2, <2>3, <2>4, <3>1, <3>2
      DEF GatewayRows, RoutersNow, SubnetsNow, ExcludeLeft, ExcludeNow, RouterPortsLeft,
          RouterPortsNow, PortsLeft, PortsNow, KeysNow
  <2>7. ValueRead(j)
    BY <1>b DEF ValueRead
  <2> QED
    BY <1>b, <2>5, <2>6, <2>7 DEF Progress, GatewayProgress, GatewayOps, RemovalOps
<1>1. ASSUME NEW s \in Subnets, NEW n \in Networks, NEW g \in IPs \cup {None},
             StartAddSubnet(s, n, g)
      PROVE  Progress(job')
  <2>1. /\ job'.op \in {"addSubnet", "addSubnetAtOnce"} /\ job'.at = "row"
        /\ job'.sub = s /\ job'.net = n
    BY <1>1 DEF StartAddSubnet, Job
  <2> QED
    BY <1>1, <2>1 DEF StartAddSubnet, NewSubnet, Progress, SubnetProgress
<1>2. ASSUME NEW s \in Subnets, StartDeleteSubnet(s) PROVE Progress(job')
  <2>1. job'.op = "deleteSubnet" /\ job'.sub = s
    BY <1>2 DEF StartDeleteSubnet, Job
  <2> QED
    BY <1>2, <2>1 DEF StartDeleteSubnet, Progress, WholeProgress
<1>3. ASSUME NEW n \in Networks, StartDeleteNetwork(n) PROVE Progress(job')
  <2>1. CASE SubnetsOf(n) = {} /\ job' = [Job("deleteNetwork", "dropNetwork") EXCEPT !.net = n]
    <3>1. job'.op = "deleteNetwork" /\ job'.at = "dropNetwork" /\ job'.net = n
      BY <2>1 DEF Job
    <3>2. dhcp = [s \in Subnets |-> dhcp[s]]
      BY <1>0 DEF TypeOK
    <3>3. dhcp = [s \in Subnets |-> IF s \in Idle!SubnetsOf(n) THEN None ELSE before.dhcp[s]]
      BY <2>1, <3>2
    <3> QED
      BY <1>3, <3>1, <3>3 DEF StartDeleteNetwork, Progress, NetworkProgress
  <2>2. ASSUME NEW s \in SubnetsOf(n),
               job' = [Job("deleteNetwork", "dropSubnet") EXCEPT !.sub = s, !.net = n]
        PROVE  Progress(job')
    <3>1. job'.op = "deleteNetwork" /\ job'.at = "dropSubnet" /\ job'.net = n /\ job'.sub = s
      BY <2>2 DEF Job
    <3> QED
      BY <1>3, <3>1 DEF StartDeleteNetwork, Progress, NetworkProgress
  <2> QED
    BY <1>3, <2>1, <2>2 DEF StartDeleteNetwork
<1>4. ASSUME NEW p \in Ports, NEW n \in Networks, NEW a \in IPs \cup {None},
             NEW owned \in BOOLEAN, StartAddPort(p, n, a, owned)
      PROVE  Progress(job')
  <2>1. /\ job'.op = "addPort" /\ job'.port = p /\ job'.net = n
        /\ LET ok == AddressAccepted(n, a)
           IN job'.row = [net |-> n,
                          kind |-> IF ok THEN AddressKind(n, a) ELSE "unset",
                          ip |-> IF ok THEN a ELSE None,
                          routerOwned |-> owned]
    BY <1>4 DEF StartAddPort, Job
  <2> QED
    BY <1>4, <2>1 DEF StartAddPort, NewPort, Progress, WholeProgress
<1>5. ASSUME NEW p \in Ports, NEW a \in IPs \cup {None}, NEW owned \in BOOLEAN,
             StartUpdatePort(p, a, owned)
      PROVE  Progress(job')
  <2>1. /\ job'.op = "updatePort" /\ job'.port = p
        /\ job'.row = [(IF AddressAccepted(lsp[p].net, a) THEN Readdressed(p, a) ELSE lsp[p])
                         EXCEPT !.routerOwned = owned]
    BY <1>5 DEF StartUpdatePort, Job
  <2> QED
    BY <1>5, <2>1 DEF StartUpdatePort, Progress, WholeProgress
<1>6. ASSUME NEW p \in Ports, StartDeletePort(p) PROVE Progress(job')
  <2>1. job'.op = "deletePort" /\ job'.old = p
    BY <1>6 DEF StartDeletePort, Job
  <2> QED
    BY <1>6, <2>1 DEF StartDeletePort, Progress, WholeProgress
<1>7. ASSUME NEW r \in Routers, StartAddRouterRoute(r) PROVE Progress(job')
  <2>1. job'.op = "addRouterRoute" /\ job'.at = "router" /\ job'.router = r
    BY <1>7 DEF StartAddRouterRoute, Job
  <2> QED
    BY <1>7, <2>1 DEF StartAddRouterRoute, NewRouter, Progress, RouteProgress
<1>8. ASSUME NEW r \in Routers, StartUpdateRoutes(r) PROVE Progress(job')
  <2>1. job'.op = "updateRoutes" /\ job'.at = "clear" /\ job'.router = r
    BY <1>8 DEF StartUpdateRoutes, Job
  <2> QED
    BY <1>8, <2>1 DEF StartUpdateRoutes, Progress, RouteProgress
<1>9. ASSUME NEW r \in Routers, StartDeleteRouter(r) PROVE Progress(job')
  <2>1. CASE gwPort[r] = None
    <3>1. job'.op = "deleteRouter" /\ job'.old = None /\ job'.at = "dropRouter" /\ job'.router = r
          /\ Interfaces(r) = {}
      BY <1>9, <2>1 DEF StartDeleteRouter, Job
    <3> QED
      BY <1>9, <1>b, <2>1, <3>1 DEF StartDeleteRouter, RemovalOps, GatewayOps
  <2>2. CASE gwPort[r] # None
    <3>1. "deleteRouter" \in RemovalOps \ GatewayOps /\ Removable(r, gwPort[r])
             /\ job' = Removing("deleteRouter", r, gwPort[r])
      BY <1>9, <2>2 DEF StartDeleteRouter, RemovalOps, GatewayOps
    <3>2. /\ job'.op = "deleteRouter" /\ job'.at = "dropRouterPort" /\ job'.router = r
          /\ job'.old = gwPort[r] /\ job'.oldNet = lsp[gwPort[r]].net
          /\ job'.oldIp = lrp[gwPort[r]].ip
          /\ Served(job'.sub, lsp[gwPort[r]].net, lrp[gwPort[r]].ip)
      BY <1>0, <3>1, RemovingGood
    <3>3. Taken(job')
      BY <1>a, <2>2, <3>1, <3>2
    <3> QED
      BY <1>9, <1>b, <2>2, <3>1, <3>2, <3>3 DEF StartDeleteRouter
  <2> QED
    BY <2>1, <2>2
<1>10. ASSUME NEW r \in Routers, NEW p \in Ports, NEW n \in Networks, NEW s \in Subnets,
              NEW ip \in IPs, StartAddRouter(r, p, n, s, ip)
       PROVE  Progress(job')
  <2>1. Job("addRouter", "reserve") \in Jobs
    BY JobIsJob DEF Ops, Places
  <2>2. /\ job' = Plugging(Job("addRouter", "reserve"), r, p, n, ip)
        /\ Job("addRouter", "reserve").op = "addRouter"
        /\ Job("addRouter", "reserve").at = "reserve"
        /\ Job("addRouter", "reserve").old = None
    BY <1>10 DEF StartAddRouter, Job
  <2>3. /\ job'.op = "addRouter" /\ job'.at = "reserve" /\ job'.router = r /\ job'.port = p
        /\ job'.row = NewRow(n) /\ job'.net = n /\ job'.ip = ip /\ job'.old = None
        /\ job'.value = exclude[n] \cup {ip}
    BY <1>0, <2>1, <2>2, PluggingGood
  <2>4. Given(job')
    BY <1>10, <2>3 DEF StartAddRouter, NewPort, Given
  <2> QED
    BY <1>10, <1>b, <2>3, <2>4 DEF StartAddRouter, NewRouter, GatewayOps
<1>11. ASSUME NEW r \in Routers, NEW p \in Ports, NEW n \in Networks, NEW s \in Subnets,
              NEW ip \in IPs, NEW cleared \in BOOLEAN,
              StartUpdateRouter(r, p, n, s, ip, cleared)
       PROVE  Progress(job')
  <2> DEFINE old == gwPort[r]
  <2>1. /\ job'.op = "updateRouter"
        /\ job'.at = IF cleared THEN "clear"
                         ELSE IF old = None THEN "reserve" ELSE "dropRouterPort"
        /\ job'.router = r /\ job'.port = p /\ job'.row = NewRow(n)
        /\ job'.net = n /\ job'.ip = ip /\ job'.old = old
        /\ job'.value = exclude[n] \cup {ip}
        /\ old # None =>
             /\ Removable(r, old)
             /\ job'.oldNet = lsp[old].net /\ job'.oldIp = lrp[old].ip
             /\ Served(job'.sub, lsp[old].net, lrp[old].ip)
    BY <1>0, <1>11, UpdateRouterStarts
  <2>2. Given(job')
    BY <1>11, <2>1 DEF StartUpdateRouter, NewPort, Given
  <2>3. job'.old # None => Taken(job')
    BY <1>a, <2>1 DEF RemovalOps
  <2> QED
    <3>1. /\ job'.at \in {"reserve", "clear", "dropRouterPort"}
          /\ job'.at = "reserve" =>
               job'.old = None /\ job'.value = exclude[job'.net] \cup {job'.ip}
          /\ job'.op \in GatewayOps
      BY <2>1 DEF GatewayOps
    <3>2. /\ job'.router \in routers
          /\ IF job'.old = None THEN gwPort[job'.router] = None ELSE job'.old \in OldPorts
      BY <1>11, <2>1 DEF StartUpdateRouter
    <3> HIDE AtRest, Looks, LooksFurther
    <3> QED
      BY <1>b, <2>1, <2>2, <2>3, <3>1, <3>2
<1>12. ASSUME NEW r \in Routers, NEW p \in Ports, StartDeleteInterface(r, p)
       PROVE  Progress(job')
  <2>1. "removePort" \in RemovalOps \ GatewayOps /\ Removable(r, p)
          /\ job' = Removing("removePort", r, p)
    BY <1>12 DEF StartDeleteInterface, RemovalOps, GatewayOps
  <2>2. /\ job'.op = "removePort" /\ job'.at = "dropRouterPort" /\ job'.router = r
        /\ job'.old = p /\ job'.oldNet = lsp[p].net /\ job'.oldIp = lrp[p].ip
        /\ Served(job'.sub, lsp[p].net, lrp[p].ip)
    BY <1>0, <2>1, RemovingGood
  <2>3. Taken(job')
    BY <1>a, <2>1, <2>2
  <2> QED
    BY <1>b, <2>1, <2>2, <2>3
<1>13. ASSUME NEW r \in Routers, NEW p \in Ports, StartAddInterfaceByPort(r, p)
       PROVE  Progress(job')
  <2>1. /\ job'.op = "attachPort" /\ job'.at = "own" /\ job'.router = r /\ job'.port = p
        /\ job'.net = lsp[p].net /\ job'.ip = lsp[p].ip
    BY <1>13 DEF StartAddInterfaceByPort, Job
  <2>2. lrp[p] = None
    BY <1>13
    DEF StartAddInterfaceByPort, Idle!IInv, Idle!Paired, Idle!RouterPortsPaired
  <2> QED
    BY <1>13, <2>1, <2>2 DEF StartAddInterfaceByPort, Progress, AttachProgress
<1>14. ASSUME NEW r \in Routers, NEW s \in Subnets, NEW p \in Ports,
              StartAddInterfaceBySubnet(r, s, p)
       PROVE  Progress(job')
  <2>1. /\ job'.op = "attachSubnet" /\ job'.at = "port" /\ job'.router = r /\ job'.port = p
        /\ job'.row = NewRow(dhcp[s].net) /\ job'.net = dhcp[s].net
        /\ job'.ip = dhcp[s].gateway /\ job'.sub = s
    BY <1>14 DEF StartAddInterfaceBySubnet, Job
  <2> QED
    BY <1>14, <2>1 DEF StartAddInterfaceBySubnet, NewPort, Progress, AttachProgress
<1>15. ASSUME NEW r \in Routers, NEW s \in Subnets, StartDeleteInterfaceBySubnet(r, s)
       PROVE  Progress(job')
  <2>1. /\ job'.op = "detachSubnet" /\ job'.at = "visit" /\ job'.router = r /\ job'.sub = s
        /\ job'.todo = {p \in Interfaces(r) \cap LivePorts : lsp[p].net = dhcp[s].net}
    BY <1>15 DEF StartDeleteInterfaceBySubnet, Job
  <2>2. lsp = Idle!PortsWithout({}) /\ lrp = Idle!RouterPortsWithout({})
    BY <1>0 DEF TypeOK, Idle!PortsWithout, Idle!RouterPortsWithout
  <2>3. Here(job') = job'.todo
    BY <2>1 DEF Here
  <2>4. Detached(job', {})
    BY <2>1, <2>2, <2>3 DEF Detached
  <2> QED
    <3>1. \E gone \in SUBSET Ports : Detached(job', gone)
      BY <2>4
    <3>2. job'.router \in before.routers /\ job'.sub \in Idle!LiveSubnets
      BY <1>15, <2>1 DEF StartDeleteInterfaceBySubnet
    <3>3. networks = before.networks /\ exclude = before.exclude /\ dhcp = before.dhcp
          /\ routers = before.routers /\ gwPort = before.gwPort /\ defRoute = before.defRoute
      OBVIOUS
    <3> HIDE AtRest, Looks, LooksFurther
    <3>4. DetachProgress(job')
      BY <3>1, <3>2, <3>3 DEF DetachProgress
    <3> QED
      BY <2>1, <3>4 DEF Progress
<1> QED
  BY <1>1, <1>2, <1>3, <1>4, <1>5, <1>6, <1>7, <1>8, <1>9, <1>10, <1>11, <1>12, <1>13, <1>14,
     <1>15
  DEF Start


-----------------------------------------------------------------------------
(* The writes: each leaves the request further on, or is its last *)

Writing ==
  /\ TypedSteps /\ Idle!IInv /\ NoStrayRoutes
  /\ job # None /\ Write
  /\ before' = IF job' = None THEN Db' ELSE before

Implements == (Goes /\ Progress(job)') \/ (Ends /\ [Idle!Next]_(Idle!vars))

LEMMA WritingFacts ==
  ASSUME Writing
  PROVE  /\ Commit(job) /\ job \in GoodJobs /\ TypeOK
         /\ Idle!TypeOK /\ Idle!NetworksWellFormed /\ Idle!Paired /\ Idle!GatewaysReserved
         /\ Following(job) = "done" => Ends
         /\ Following(job) \notin {"done", "release"} => Goes /\ Moves(Following(job))
         /\ Following(job) = "release" =>
              IF job.oldIp \in exclude'[job.oldNet] THEN Goes /\ Moves("release") ELSE Ends
<1>1. TypedSteps /\ job # None /\ Write /\ Idle!IInv
      /\ before' = IF job' = None THEN Db' ELSE before
  BY DEF Writing
<1>2. Commit(job) /\ job \in GoodJobs /\ TypeOK
  BY <1>1 DEF TypedSteps, Write
<1>3. Idle!TypeOK /\ Idle!NetworksWellFormed /\ Idle!Paired /\ Idle!GatewaysReserved
  BY <1>1 DEF Idle!IInv, Idle!Addresses
<1> QED
  BY <1>1, <1>2, <1>3, WriteMoves

\* add_subnet
LEMMA SubnetWrite ==
  ASSUME Writing, SubnetProgress(job), job.op \in {"addSubnet", "addSubnetAtOnce"}
  PROVE  Implements
<1> USE IdAssumption
<1> DEFINE row(g) == [net |-> job.net, gateway |-> g, router |-> None]
<1>1. /\ job.sub \in Subnets /\ job.net \in Networks /\ job.net \in before.networks
      /\ job.ip \in IPs \cup {None} /\ before.dhcp[job.sub] = None /\ ~Idle!HasSubnet(job.net)
      /\ NetworkRowsKept /\ PortRowsKept /\ RouterRowsKept /\ RoutesKept
      /\ before.dhcp \in [Subnets -> SubnetRows \cup {None}]
  BY WritingFacts, JobFields
  DEF SubnetProgress, Idle!TypeOK, SubnetRows, Idle!SubnetRows
<1>2. ASSUME Ends, dhcp' = [before.dhcp EXCEPT ![job.sub] = row(job.ip)],
             UNCHANGED <<networks, exclude, portVars, routerVars>>
      PROVE  Implements
  <2>1. Idle!AddSubnet(job.sub, job.net, job.ip)
    BY <1>1, <1>2, AtRestAfter
    DEF Ends, Idle!AddSubnet, portVars, routerVars, Idle!portVars, Idle!routerVars,
        NetworkRowsKept, PortRowsKept, RouterRowsKept, RoutesKept
  <2>2. Idle!Next
    BY <1>1, <2>1 DEF Idle!Next
  <2> QED
    BY <1>2, <2>2 DEF Implements
<1>3. CASE job.at = "row"
  <2>1. SubnetRow(job) /\ dhcp = before.dhcp
    BY <1>3, WritingFacts, CommitsAt DEF SubnetProgress, SubnetRowsKept
  <2>2. CASE job.op = "addSubnet"
    <3>1. Goes /\ Moves("options")
      BY <1>3, <2>2, WritingFacts DEF Following
    <3>2. dhcp' = [before.dhcp EXCEPT ![job.sub] = row(None)]
      BY <2>1, <2>2 DEF SubnetRow
    <3>3. SubnetProgress(job)'
      BY <1>1, <2>1, <2>2, <3>1, <3>2
      DEF SubnetProgress, SubnetRow, Goes, Moves, Idle!HasSubnet, Idle!SubnetsOf,
          Idle!LiveSubnets, portVars, routerVars,
          NetworkRowsKept, PortRowsKept, RouterRowsKept, RoutesKept
    <3> QED
      BY <2>2, <3>1, <3>3 DEF Implements, Progress, Moves
  <2>3. CASE job.op = "addSubnetAtOnce"
    <3>1. Ends
      BY <1>3, <2>3, WritingFacts DEF Following
    <3> QED
      BY <1>2, <2>1, <2>3, <3>1 DEF SubnetRow
  <2> QED
    BY <2>2, <2>3
<1>4. CASE job.at = "options"
  <2>1. SubnetOptions(job) /\ dhcp = [before.dhcp EXCEPT ![job.sub] = row(None)]
    BY <1>4, WritingFacts, CommitsAt DEF SubnetProgress
  <2>2. Ends
    BY <1>4, WritingFacts DEF Following
  <2>3. dhcp[job.sub] = row(None) /\ row(None) # None
    BY <1>1, <2>1 DEF SubnetRows
  <2>4. dhcp' = [dhcp EXCEPT ![job.sub].gateway = job.ip]
    BY <2>1, <2>3 DEF SubnetOptions
  <2>5. dhcp' = [before.dhcp EXCEPT ![job.sub] = row(job.ip)]
    BY <1>1, <2>1, <2>4
  <2> QED
    BY <1>2, <2>1, <2>2, <2>5 DEF SubnetOptions
<1> QED
  BY <1>3, <1>4 DEF SubnetProgress

\* delete_network
LEMMA NetworkWrite ==
  ASSUME Writing, NetworkProgress(job), job.op = "deleteNetwork"
  PROVE  Implements
<1> DEFINE left == [s \in Subnets |->
                      IF s \in Idle!SubnetsOf(job.net) THEN None ELSE before.dhcp[s]]
<1>1. /\ job.net \in before.networks /\ Idle!PortsOf(job.net) = {} /\ job.net \in Networks
      /\ NetworkRowsKept /\ PortRowsKept /\ RouterRowsKept /\ RoutesKept
      /\ before.dhcp \in [Subnets -> SubnetRows \cup {None}]
      /\ before.lsp \in [Ports -> PortRows \cup {None}]
  BY WritingFacts
  DEF NetworkProgress, Idle!TypeOK, SubnetRows, Idle!SubnetRows, PortRows, Idle!PortRows, Kinds,
      Idle!Kinds
<1>2. CASE job.at = "dropSubnet"
  <2>1. DropSubnet(job) /\ dhcp = before.dhcp /\ job.sub \in Idle!SubnetsOf(job.net)
    BY <1>2, WritingFacts, CommitsAt DEF NetworkProgress, SubnetRowsKept
  <2>2. Goes /\ Moves("dropNetwork")
    BY <1>2, WritingFacts DEF Following
  <2>3. Idle!SubnetsOf(job.net) = {job.sub}
    BY <2>1, WritingFacts DEF Idle!NetworksWellFormed, Idle!SubnetsOf
  <2>4. dhcp' = left
    BY <1>1, <2>1, <2>3 DEF DropSubnet
  <2>5. NetworkProgress(job)'
    BY <1>1, <2>1, <2>2, <2>4
    DEF NetworkProgress, DropSubnet, Goes, Moves, Idle!SubnetsOf, Idle!LiveSubnets, Idle!PortsOf,
        Idle!LivePorts, portVars, routerVars,
        NetworkRowsKept, PortRowsKept, RouterRowsKept, RoutesKept
  <2> QED
    BY <2>2, <2>5 DEF Implements, Progress, Moves
<1>3. CASE job.at = "dropNetwork"
  <2>1. DropNetwork(job) /\ dhcp = left
    BY <1>3, WritingFacts, CommitsAt DEF NetworkProgress
  <2>2. Ends
    BY <1>3, WritingFacts DEF Following
  <2>3. lsp' = before.lsp
    BY <1>1, <2>1
    DEF DropNetwork, PortsWithout, PortsOf, LivePorts, Idle!PortsOf, Idle!LivePorts, PortRowsKept
  <2>4. Idle!DeleteNetwork(job.net)
    BY <1>1, <2>1, <2>2, <2>3, AtRestAfter
    DEF DropNetwork, Ends, Idle!DeleteNetwork, routerVars, Idle!portVars, Idle!routerVars,
        NetworkRowsKept, PortRowsKept, RouterRowsKept, RoutesKept
  <2>5. Idle!Next
    BY <1>1, <2>4 DEF Idle!Next
  <2> QED
    BY <2>2, <2>5 DEF Implements
<1> QED
  BY <1>2, <1>3 DEF NetworkProgress

\* delete_subnet, add_port, update_port and delete_port
LEMMA WholeWrite ==
  ASSUME Writing, WholeProgress(job)
  PROVE  Implements
<1> USE DEF NetworkRowsKept, SubnetRowsKept, PortRowsKept, RouterRowsKept, RoutesKept, portVars,
        routerVars, Idle!portVars, Idle!routerVars
<1>1. /\ networks = before.networks /\ exclude = before.exclude /\ dhcp = before.dhcp
      /\ lsp = before.lsp /\ lrp = before.lrp
      /\ routers = before.routers /\ gwPort = before.gwPort /\ defRoute = before.defRoute
      /\ Placed(job.op, job.at) /\ job.at \in Places
      /\ Commit(job) /\ TypeOK
  BY WritingFacts, JobFields DEF WholeProgress
<1>2. CASE job.op = "deleteSubnet"
  <2>1. job.at = "dropSubnet"
    BY <1>1, <1>2 DEF Placed, Places, GatewayOps, RemovalOps, AttachOps
  <2>2. DropSubnet(job) /\ Ends
    BY <1>1, <1>2, <2>1, WritingFacts, CommitsAt DEF Following
  <2>3. Idle!DeleteSubnet(job.sub) /\ job.sub \in Subnets
    BY <1>1, <1>2, <2>2, AtRestAfter
    DEF WholeProgress, DropSubnet, Ends, Idle!DeleteSubnet, Idle!LiveSubnets
  <2> QED
    BY <2>2, <2>3 DEF Implements, Idle!Next
<1>3. CASE job.op = "deletePort"
  <2>1. job.at = "dropPort"
    BY <1>1, <1>3 DEF Placed, Places, GatewayOps, RemovalOps, AttachOps
  <2>2. DropPort(job) /\ Ends
    BY <1>1, <1>3, <2>1, WritingFacts, CommitsAt DEF Following, AfterDropPort
  <2>3. Idle!DeletePort(job.old) /\ job.old \in Ports
    BY <1>1, <1>3, <2>2, AtRestAfter
    DEF WholeProgress, DropPort, Ends, Idle!DeletePort, Idle!LivePorts, PortsWithout,
        Idle!PortsWithout
  <2> QED
    BY <2>2, <2>3 DEF Implements, Idle!Next
<1>4. CASE job.op = "addPort"
  <2>1. job.at = "port"
    BY <1>1, <1>4 DEF Placed, Places, GatewayOps, RemovalOps, AttachOps
  <2>2. CreatePort(job) /\ Ends
    BY <1>1, <1>4, <2>1, WritingFacts, CommitsAt DEF Following
  <2>3. job.port \in Ports /\ Idle!FreshPort(job.port) /\ job.net \in before.networks
    BY <1>4 DEF WholeProgress
  <2>4. PICK a \in IPs \cup {None}, owned \in BOOLEAN :
          LET ok == Idle!AddressAccepted(job.net, a)
          IN job.row = [net |-> job.net,
                        kind |-> IF ok THEN Idle!AddressKind(job.net, a) ELSE "unset",
                        ip |-> IF ok THEN a ELSE None,
                        routerOwned |-> owned]
    BY <1>4 DEF WholeProgress
  <2>5. lsp' = [before.lsp EXCEPT ![job.port] = job.row]
    BY <1>1, <2>2, <2>3 DEF CreatePort
  <2>6. Idle!AddPort(job.port, job.net, a, owned)
    BY <1>1, <2>2, <2>3, <2>4, <2>5, AtRestAfter DEF CreatePort, Ends, Idle!AddPort
  <2>7. job.net \in Networks
    BY <2>3, WritingFacts DEF Idle!TypeOK
  <2>8. Idle!Next
    BY <2>3, <2>6, <2>7 DEF Idle!Next
  <2> QED
    BY <2>2, <2>8 DEF Implements
<1>5. CASE job.op = "updatePort"
  <2>1. job.at = "setPort"
    BY <1>1, <1>5 DEF Placed, Places, GatewayOps, RemovalOps, AttachOps
  <2>2. SetPort(job) /\ Ends
    BY <1>1, <1>5, <2>1, WritingFacts, CommitsAt DEF Following
  <2>3. job.port \in Ports /\ lsp[job.port] # None /\ lsp[job.port].kind # "router"
        /\ job.port \in Idle!LivePorts
    BY <1>1, <1>5 DEF WholeProgress, Idle!LivePorts
  <2> DEFINE p == job.port
             kept(a) == IF Idle!AddressAccepted(lsp[p].net, a) THEN Idle!Readdressed(p, a)
                                                               ELSE lsp[p]
  <2>4. PICK a \in IPs \cup {None}, owned \in BOOLEAN :
          job.row = [kept(a) EXCEPT !.routerOwned = owned]
    BY <1>1, <1>5 DEF WholeProgress
  <2>5. lsp[p] \in PortRows
    BY <1>1, <2>3 DEF TypeOK
  <2>6. kept(a) \in PortRows
    <3>1. Idle!AddressKind(lsp[p].net, a) \in Kinds
      BY DEF Idle!AddressKind, Kinds
    <3>2. [lsp[p] EXCEPT !.kind = Idle!AddressKind(lsp[p].net, a),
                         !.ip = IF /\ Idle!AddressKind(lsp[p].net, a) = "dynamic"
                                   /\ lsp[p].kind = "dynamic"
                                THEN @ ELSE a] \in PortRows
      BY <2>5, <3>1 DEF PortRows
    <3>3. Idle!Readdressed(p, a) \in PortRows
      BY <1>1, <3>2 DEF Idle!Readdressed
    <3> QED
      BY <2>5, <3>3
  <2>7. kept(a).kind = "dynamic" /\ lsp[p].kind = "dynamic" => kept(a).ip = lsp[p].ip
    <3>1. CASE Idle!AddressAccepted(lsp[p].net, a)
      BY <1>1, <2>5, <3>1 DEF Idle!Readdressed, PortRows
    <3>2. CASE ~Idle!AddressAccepted(lsp[p].net, a)
      BY <3>2
    <3> QED
      BY <3>1, <3>2
  <2> HIDE DEF kept
  <2>8. job.row.kind = "dynamic" /\ lsp[p].kind = "dynamic" => job.row.ip = lsp[p].ip
    BY <2>4, <2>6, <2>7 DEF PortRows
  <2>9. job.row \in PortRows
    BY <2>4, <2>6 DEF PortRows
  <2>10. lsp' = [lsp EXCEPT ![p] = job.row]
    <3>1. CASE job.row.kind = "dynamic" /\ lsp[p].kind = "dynamic"
      <4>1. [job.row EXCEPT !.ip = lsp[p].ip] = job.row
        BY <2>8, <2>9, <3>1 DEF PortRows
      <4> QED
        BY <2>2, <2>3, <3>1, <4>1 DEF SetPort
    <3>2. CASE ~(job.row.kind = "dynamic" /\ lsp[p].kind = "dynamic")
      BY <2>2, <2>3, <3>2 DEF SetPort
    <3> QED
      BY <3>1, <3>2
  <2>11. Idle!UpdatePort(p, a, owned)
    BY <1>1, <2>2, <2>3, <2>4, <2>10, AtRestAfter DEF SetPort, Ends, Idle!UpdatePort, kept
  <2>12. Idle!Next
    BY <2>3, <2>11 DEF Idle!Next
  <2> QED
    BY <2>2, <2>12 DEF Implements
<1> QED
  BY <1>2, <1>3, <1>4, <1>5 DEF WholeProgress

\* The routes of add_router and update_router
LEMMA RouteWrite ==
  ASSUME Writing, RouteProgress(job)
  PROVE  Implements
<1> USE DEF NetworkRowsKept, SubnetRowsKept, PortRowsKept, portVars, routerVars, Idle!portVars,
        Idle!routerVars
<1>1. /\ networks = before.networks /\ exclude = before.exclude /\ dhcp = before.dhcp
      /\ lsp = before.lsp /\ lrp = before.lrp /\ gwPort = before.gwPort
      /\ Placed(job.op, job.at) /\ job.at \in Places /\ Commit(job) /\ TypeOK
      /\ before.defRoute \in [Routers -> Routes] /\ before.routers \subseteq Routers
  BY WritingFacts, JobFields DEF RouteProgress, Idle!TypeOK, Routes, Idle!Routes
<1>2. CASE job.op = "addRouterRoute"
  <2>0. job.at \in {"router", "userRoute"}
    BY <1>1, <1>2 DEF Placed, Places, GatewayOps, RemovalOps, AttachOps
  <2>1. /\ job.router \in Routers /\ Idle!FreshRouter(job.router) /\ defRoute = before.defRoute
        /\ routers = IF job.at = "router" THEN before.routers
                                          ELSE before.routers \cup {job.router}
    BY <1>2 DEF RouteProgress, RoutesKept
  <2>2. CASE job.at = "router"
    <3>1. CreateRouter(job) /\ Goes /\ Moves("userRoute")
      BY <1>1, <1>2, <2>2, WritingFacts, CommitsAt DEF Following
    <3>2. RouteProgress(job)'
      BY <1>1, <1>2, <2>1, <2>2, <3>1
      DEF RouteProgress, CreateRouter, Goes, Moves, RoutesKept, Idle!FreshRouter,
          Idle!LiveSubnets
    <3> QED
      BY <1>2, <3>1, <3>2 DEF Implements, Progress, Moves
  <2>3. CASE job.at = "userRoute"
    <3>1. AddUserRoute(job) /\ Ends
      BY <1>1, <1>2, <2>3, WritingFacts, CommitsAt DEF Following
    <3>2. defRoute[job.router] = "none"
      BY <2>1 DEF Writing, NoStrayRoutes, Idle!FreshRouter
    <3>3. defRoute' = [before.defRoute EXCEPT ![job.router] = "user"]
      BY <2>1, <2>3, <3>1, <3>2 DEF AddUserRoute, SetRoute
    <3>4. Idle!AddRouter(job.router, "user")
      BY <1>1, <2>1, <2>3, <3>1, <3>3, AtRestAfter
      DEF AddUserRoute, SetRoute, Ends, Idle!AddRouter
    <3>5. Idle!Next
      BY <2>1, <3>4 DEF Idle!Next
    <3> QED
      BY <3>1, <3>5 DEF Implements
  <2> QED
    BY <2>0, <2>2, <2>3
<1>3. CASE job.op = "updateRoutes"
  <2>0. job.at \in {"clear", "userRoute"}
    BY <1>1, <1>3 DEF Placed, Places, GatewayOps, RemovalOps, AttachOps
  <2>1. /\ job.router \in before.routers /\ job.router \in Routers /\ routers = before.routers
        /\ defRoute = IF job.at = "clear" THEN before.defRoute ELSE Cleared(job.router)
    BY <1>1, <1>3 DEF RouteProgress
  <2>2. CASE job.at = "clear"
    <3>1. ClearRoute(job) /\ Goes /\ Moves("userRoute")
      BY <1>1, <1>3, <2>2, WritingFacts, CommitsAt DEF Following, AfterClear
    <3>2. RouteProgress(job)'
      BY <1>1, <1>3, <2>1, <2>2, <3>1
      DEF RouteProgress, ClearRoute, Goes, Moves, Cleared
    <3> QED
      BY <1>3, <3>1, <3>2 DEF Implements, Progress, Moves
  <2>3. CASE job.at = "userRoute"
    <3>1. AddUserRoute(job) /\ Ends
      BY <1>1, <1>3, <2>3, WritingFacts, CommitsAt DEF Following
    <3>2. defRoute = Cleared(job.router) /\ defRoute[job.router] = "none"
      BY <1>1, <2>1, <2>3 DEF Cleared
    <3>3. defRoute' = [defRoute EXCEPT ![job.router] = "user"]
      BY <2>1, <3>1, <3>2 DEF AddUserRoute, SetRoute
    <3>4. defRoute' = [before.defRoute EXCEPT ![job.router] = "user"]
      BY <1>1, <2>1, <3>2, <3>3 DEF Cleared
    <3>5. Idle!UpdateRouterRoutes(job.router, "user")
      BY <1>1, <2>1, <3>1, <3>4, AtRestAfter
      DEF AddUserRoute, SetRoute, Ends, Idle!UpdateRouterRoutes
    <3>6. Idle!Next
      BY <2>1, <3>5 DEF Idle!Next
    <3> QED
      BY <3>1, <3>6 DEF Implements
  <2> QED
    BY <2>0, <2>2, <2>3
<1> QED
  BY <1>2, <1>3 DEF RouteProgress

\* The row of a port of type router, whatever it was before.
LEMMA PlugRow ==
  ASSUME NEW row \in PortRows, row.routerOwned = TRUE
  PROVE  [row EXCEPT !.kind = "router", !.ip = None] = RouterPort(row.net)
<1>1. \A x, y \in PortRows :
        /\ x.net = y.net /\ x.kind = y.kind /\ x.ip = y.ip /\ x.routerOwned = y.routerOwned
        => x = y
  BY DEF PortRows
<1>2. RouterPort(row.net) \in PortRows
  BY DEF RouterPort, PortRows, Kinds
<1>3. [row EXCEPT !.kind = "router", !.ip = None] \in PortRows
  BY DEF PortRows, Kinds
<1> QED
  BY <1>1, <1>2, <1>3 DEF PortRows, RouterPort

\* The row of a port that is plugged, from write to write.
LEMMA PluggedRows ==
  ASSUME NEW f \in [Ports -> PortRows \cup {None}], NEW j, j.port \in Ports, j.net \in Networks
  PROVE  /\ lsp = [f EXCEPT ![j.port] = NewRow(j.net)] /\ Own(j) =>
              lsp' = [f EXCEPT ![j.port] = [NewRow(j.net) EXCEPT !.routerOwned = TRUE]]
         /\ lsp = [f EXCEPT ![j.port] = [NewRow(j.net) EXCEPT !.routerOwned = TRUE]] /\ Plug(j) =>
              lsp' = [f EXCEPT ![j.port] = RouterPort(j.net)]
<1> DEFINE owned == [NewRow(j.net) EXCEPT !.routerOwned = TRUE]
<1>1. NewRow(j.net) \in PortRows
  BY NewRowType
<1>2. owned \in PortRows /\ NewRow(j.net) # None /\ owned # None
  BY <1>1, IdAssumption DEF PortRows
<1>3. [owned EXCEPT !.kind = "router", !.ip = None] = RouterPort(j.net)
  <2>1. owned.net = j.net /\ owned.routerOwned = TRUE
    BY <1>1 DEF PortRows, NewRow
  <2> HIDE DEF owned
  <2> QED
    BY <1>2, <2>1, PlugRow
<1>4. ASSUME lsp = [f EXCEPT ![j.port] = NewRow(j.net)], Own(j)
      PROVE  lsp' = [f EXCEPT ![j.port] = owned]
  <2>1. lsp[j.port] = NewRow(j.net) /\ lsp' = [lsp EXCEPT ![j.port].routerOwned = TRUE]
    BY <1>2, <1>4 DEF Own
  <2> QED
    BY <1>4, <2>1
<1>5. ASSUME lsp = [f EXCEPT ![j.port] = owned], Plug(j)
      PROVE  lsp' = [f EXCEPT ![j.port] = RouterPort(j.net)]
  <2> HIDE DEF owned
  <2>1. lsp[j.port] = owned
        /\ lsp' = [lsp EXCEPT ![j.port].kind = "router", ![j.port].ip = None]
    BY <1>2, <1>5 DEF Plug
  <2>2. lsp' = [lsp EXCEPT ![j.port] = RouterPort(j.net)]
    BY <1>3, <2>1
  <2> QED
    BY <1>5, <2>2
<1> QED
  BY <1>4, <1>5

\* add_router_interface
LEMMA AttachWrite ==
  ASSUME Writing, AttachProgress(job)
  PROVE  Implements
<1> USE DEF NetworkRowsKept, SubnetRowsKept, RouterRowsKept, RoutesKept, portVars, routerVars,
        Idle!portVars, Idle!routerVars
<1> DEFINE r == job.router  p == job.port
<1>1. /\ networks = before.networks /\ exclude = before.exclude /\ lrp = before.lrp
      /\ routers = before.routers /\ gwPort = before.gwPort /\ defRoute = before.defRoute
      /\ r \in before.routers /\ ~Idle!Broken(r)
      /\ Placed(job.op, job.at) /\ job.at \in Places /\ Commit(job) /\ TypeOK
      /\ before.lsp \in [Ports -> PortRows \cup {None}]
      /\ before.dhcp \in [Subnets -> SubnetRows \cup {None}] /\ before.routers \subseteq Routers
  BY WritingFacts, JobFields
  DEF AttachProgress, Idle!TypeOK, PortRows, Idle!PortRows, Kinds, Idle!Kinds, SubnetRows,
      Idle!SubnetRows
<1>2. /\ job.op \in AttachOps /\ p \in Ports /\ job.net \in Networks
      /\ before.lrp[p] = None
  BY WritingFacts, JobFields
  DEF AttachProgress, AttachOps, GatewayOps, Filled, Idle!FreshPort, Idle!LivePorts
<1>a. ASSUME Goes, AttachProgress(job)', job'.op = job.op PROVE Implements
  BY <1>2, <1>a DEF Implements, Progress, AttachOps
<1>b. ASSUME Ends, Idle!Next PROVE Implements
  BY <1>b DEF Implements
<1>c. ASSUME Ends, CreateRouterPort(job)
      PROVE  lrp' = [before.lrp EXCEPT ![p] = [router |-> r, ip |-> job.ip]]
  BY <1>1, <1>2, <1>c DEF CreateRouterPort, RouterPortAdded
<1>3. CASE job.op = "attachSubnet"
  <2>0. job.at \in {"port", "own", "plug", "connect", "routerPort"}
    BY <1>1, <1>3 DEF Placed, Places, GatewayOps, RemovalOps, AttachOps
  <2> DEFINE s == job.sub
             owned == [NewRow(job.net) EXCEPT !.routerOwned = TRUE]
  <2>1. /\ s \in Idle!LiveSubnets /\ before.dhcp[s].router = None
        /\ before.dhcp[s].gateway # None /\ ~Idle!OnSubnet(r, s) /\ Idle!FreshPort(p)
        /\ job.net = before.dhcp[s].net /\ job.ip = before.dhcp[s].gateway
        /\ job.row = NewRow(job.net)
        /\ lsp = CASE job.at = "port" -> before.lsp
                   [] job.at = "own" -> [before.lsp EXCEPT ![p] = NewRow(job.net)]
                   [] job.at = "plug" -> [before.lsp EXCEPT ![p] = owned]
                   [] OTHER -> [before.lsp EXCEPT ![p] = RouterPort(job.net)]
        /\ dhcp = IF job.at = "routerPort" THEN [before.dhcp EXCEPT ![s].router = r]
                                           ELSE before.dhcp
    BY <1>3 DEF AttachProgress
  <2>2. s \in Subnets /\ before.dhcp[s] # None /\ job.net \in before.networks
    BY <2>1, WritingFacts DEF Idle!LiveSubnets, Idle!NetworksWellFormed
  <2>a. ASSUME NEW at, Moves(at), Goes, at # "port",
               UNCHANGED <<networks, exclude, lrp, routers, gwPort, defRoute>>,
               lsp' = CASE at = "own" -> [before.lsp EXCEPT ![p] = NewRow(job.net)]
                        [] at = "plug" -> [before.lsp EXCEPT ![p] = owned]
                        [] OTHER -> [before.lsp EXCEPT ![p] = RouterPort(job.net)],
               dhcp' = IF at = "routerPort" THEN [before.dhcp EXCEPT ![s].router = r]
                                            ELSE before.dhcp
        PROVE  Implements
    <3>1. job'.at = at /\ job'.op = "attachSubnet" /\ job'.sub = s /\ job'.port = p
          /\ job'.router = r /\ job'.net = job.net /\ job'.ip = job.ip /\ job'.row = job.row
          /\ before' = before
      BY <1>3, <2>a DEF Moves, Goes
    <3>2. /\ (Idle!Broken(job.router))' <=> Idle!Broken(r)
          /\ (Idle!OnSubnet(job.router, job.sub))' <=> Idle!OnSubnet(r, s)
          /\ (Idle!FreshPort(job.port))' <=> Idle!FreshPort(p)
          /\ Idle!LiveSubnets' = Idle!LiveSubnets
      BY <3>1
      DEF Idle!Broken, Idle!OnSubnet, Idle!FreshPort, Idle!LiveSubnets, Idle!Interfaces,
          Idle!Resolvable, Idle!LivePorts, Idle!HasSubnet, Idle!SubnetsOf
    <3>3. AttachProgress(job)'
      BY <1>1, <2>1, <2>a, <3>1, <3>2 DEF AttachProgress
    <3> QED
      BY <1>3, <1>a, <2>a, <3>1, <3>3
  <2>3. CASE job.at = "port"
    <3>1. CreatePort(job) /\ Goes /\ Moves("own")
      BY <1>1, <1>3, <2>3, WritingFacts, CommitsAt DEF Following
    <3>2. lsp' = [before.lsp EXCEPT ![p] = NewRow(job.net)]
      BY <1>1, <2>1, <2>2, <2>3, <3>1 DEF CreatePort
    <3> QED
      BY <2>1, <2>3, <2>a, <3>1, <3>2 DEF CreatePort
  <2>4. CASE job.at = "own"
    <3>1. Own(job) /\ Goes /\ Moves("plug")
      BY <1>1, <1>3, <2>4, WritingFacts, CommitsAt DEF Following
    <3>2. lsp' = [before.lsp EXCEPT ![p] = owned]
      BY <1>1, <1>2, <2>1, <2>4, <3>1, PluggedRows
    <3> QED
      BY <2>1, <2>4, <2>a, <3>1, <3>2 DEF Own
  <2>5. CASE job.at = "plug"
    <3>1. Plug(job) /\ Goes /\ Moves("connect")
      BY <1>1, <1>3, <2>5, WritingFacts, CommitsAt DEF Following, AfterPlug
    <3>2. lsp' = [before.lsp EXCEPT ![p] = RouterPort(job.net)]
      BY <1>1, <1>2, <2>1, <2>5, <3>1, PluggedRows
    <3> QED
      BY <2>1, <2>5, <2>a, <3>1, <3>2 DEF Plug
  <2>6. CASE job.at = "connect"
    <3>1. Connect(job) /\ Goes /\ Moves("routerPort")
      BY <1>1, <1>3, <2>6, WritingFacts, CommitsAt DEF Following
    <3>2. dhcp' = [before.dhcp EXCEPT ![s].router = r] /\ lsp' = lsp
      BY <2>1, <2>2, <2>6, <3>1 DEF Connect, SetGatewayRouter
    <3> QED
      BY <2>1, <2>6, <2>a, <3>1, <3>2 DEF Connect, SetGatewayRouter
  <2>7. CASE job.at = "routerPort"
    <3>1. CreateRouterPort(job) /\ Ends
      BY <1>1, <1>3, <2>7, WritingFacts, CommitsAt DEF Following, AfterRouterPort
    <3>2. Idle!AddInterfaceBySubnet(r, s, p)
      <4>1. /\ lsp' = [before.lsp EXCEPT ![p] = Idle!RouterPort(job.net)]
            /\ dhcp' = [before.dhcp EXCEPT ![s].router = r]
            /\ lrp' = [before.lrp EXCEPT ![p] = [router |-> r, ip |-> job.ip]]
            /\ UNCHANGED <<networks, exclude, routers, gwPort, defRoute>>
        BY <1>c, <2>1, <2>7, <3>1 DEF CreateRouterPort, RouterPort, Idle!RouterPort
      <4> QED
        BY <1>1, <2>1, <3>1, <4>1, AtRestAfter DEF Ends, Idle!AddInterfaceBySubnet
    <3>3. Idle!Next
      BY <1>1, <1>2, <2>2, <3>2 DEF Idle!Next
    <3> QED
      BY <1>b, <3>1, <3>3
  <2> QED
    BY <2>0, <2>3, <2>4, <2>5, <2>6, <2>7
<1>4. CASE job.op = "attachPort"
  <2>0. job.at \in {"own", "plug", "routerPort"}
    BY <1>1, <1>4 DEF Placed, Places, GatewayOps, RemovalOps, AttachOps
  <2> DEFINE row == before.lsp[p]
  <2>1. /\ p \in Idle!LivePorts /\ row.kind # "router" /\ Idle!HasSubnet(job.net)
        /\ job.net = row.net /\ job.ip = row.ip /\ job.ip # None /\ dhcp = before.dhcp
        /\ lsp = CASE job.at = "own" -> before.lsp
                   [] job.at = "plug" -> [before.lsp EXCEPT ![p].routerOwned = TRUE]
                   [] OTHER -> [before.lsp EXCEPT ![p] = RouterPort(job.net)]
    BY <1>4 DEF AttachProgress
  <2>2. row \in PortRows /\ row # None
    BY <1>1, <1>2, <2>1 DEF Idle!LivePorts
  <2>a. ASSUME NEW at, Moves(at), Goes, at # "own",
               UNCHANGED <<networks, exclude, dhcp, lrp, routers, gwPort, defRoute>>,
               lsp' = IF at = "plug" THEN [before.lsp EXCEPT ![p].routerOwned = TRUE]
                                     ELSE [before.lsp EXCEPT ![p] = RouterPort(job.net)]
        PROVE  Implements
    <3>1. job'.at = at /\ job'.op = "attachPort" /\ job'.port = p
          /\ job'.router = r /\ job'.net = job.net /\ job'.ip = job.ip /\ before' = before
      BY <1>4, <2>a DEF Moves, Goes
    <3>2. /\ (Idle!Broken(job.router))' <=> Idle!Broken(r)
          /\ (Idle!HasSubnet(job.net))' <=> Idle!HasSubnet(job.net)
          /\ Idle!LivePorts' = Idle!LivePorts
      BY <3>1
      DEF Idle!Broken, Idle!LiveSubnets, Idle!Interfaces, Idle!Resolvable, Idle!LivePorts,
          Idle!HasSubnet, Idle!SubnetsOf
    <3>3. AttachProgress(job)'
      BY <1>1, <1>2, <2>1, <2>a, <3>1, <3>2 DEF AttachProgress
    <3> QED
      BY <1>4, <1>a, <2>a, <3>1, <3>3
  <2>3. CASE job.at = "own"
    <3>1. Own(job) /\ Goes /\ Moves("plug")
      BY <1>1, <1>4, <2>3, WritingFacts, CommitsAt DEF Following
    <3>2. lsp' = [before.lsp EXCEPT ![p].routerOwned = TRUE]
      BY <2>1, <2>2, <2>3, <3>1 DEF Own
    <3> QED
      BY <2>a, <3>1, <3>2 DEF Own
  <2>4. CASE job.at = "plug"
    <3>1. Plug(job) /\ Goes /\ Moves("routerPort")
      BY <1>1, <1>4, <2>4, WritingFacts, CommitsAt DEF Following, AfterPlug
    <3> DEFINE owned == [row EXCEPT !.routerOwned = TRUE]
    <3>2. lsp = [before.lsp EXCEPT ![p] = owned] /\ owned \in PortRows /\ owned.net = job.net
          /\ owned.routerOwned = TRUE
      BY <2>1, <2>2, <2>4 DEF PortRows
    <3>3. [owned EXCEPT !.kind = "router", !.ip = None] = RouterPort(job.net)
      <4> HIDE DEF owned
      <4> QED
        BY <3>2, PlugRow
    <3> HIDE DEF owned
    <3>4. lsp[p] = owned /\ owned # None
      BY <1>1, <1>2, <3>2, IdAssumption
    <3>5. lsp' = [lsp EXCEPT ![p].kind = "router", ![p].ip = None]
      BY <3>1, <3>4 DEF Plug
    <3>6. lsp' = [before.lsp EXCEPT ![p] = RouterPort(job.net)]
      BY <3>2, <3>3, <3>4, <3>5
    <3> QED
      BY <2>a, <3>1, <3>6 DEF Plug
  <2>5. CASE job.at = "routerPort"
    <3>1. CreateRouterPort(job) /\ Ends
      BY <1>1, <1>4, <2>5, WritingFacts, CommitsAt DEF Following, AfterRouterPort
    <3>2. Idle!AddInterfaceByPort(r, p)
      <4>1. /\ lsp' = [before.lsp EXCEPT ![p] = Idle!RouterPort(@.net)]
            /\ lrp' = [before.lrp EXCEPT ![p] = [router |-> r, ip |-> row.ip]]
            /\ UNCHANGED <<networks, exclude, dhcp, routers, gwPort, defRoute>>
        BY <1>c, <2>1, <2>5, <3>1 DEF CreateRouterPort, RouterPort, Idle!RouterPort
      <4> QED
        BY <1>1, <2>1, <3>1, <4>1, AtRestAfter DEF Ends, Idle!AddInterfaceByPort
    <3>3. Idle!Next
      BY <1>1, <1>2, <3>2 DEF Idle!Next
    <3> QED
      BY <1>b, <3>1, <3>3
  <2> QED
    BY <2>0, <2>3, <2>4, <2>5
<1> QED
  BY <1>2, <1>3, <1>4 DEF AttachOps

\* remove_router_interface with a subnet: the ports that are gone, and those that are left.
LEMMA LeftBy ==
  ASSUME TypeOK, Idle!TypeOK, NEW gone \in SUBSET Ports, NEW old \in Ports
  PROVE  /\ lsp = Idle!PortsWithout(gone) /\ lsp' = PortsWithout({old}) =>
              lsp' = Idle!PortsWithout(gone \cup {old})
         /\ lrp = Idle!RouterPortsWithout(gone) /\ lrp' = RouterPortsWithout({old}) =>
              lrp' = Idle!RouterPortsWithout(gone \cup {old})
BY DEF PortsWithout, RouterPortsWithout, Idle!PortsWithout, Idle!RouterPortsWithout

LEMMA DetachEnds ==
  ASSUME DetachProgress(job), Ends, UNCHANGED <<networks, exclude, routers, gwPort, defRoute>>,
         NEW gone \in SUBSET Ports, gone \subseteq Here(job),
         lsp' = Idle!PortsWithout(gone), lrp' = Idle!RouterPortsWithout(gone),
         Idle!Interfaces(job.router) \subseteq Idle!LivePorts => gone = Here(job),
         dhcp' = IF /\ Idle!Interfaces(job.router) \subseteq Idle!LivePorts
                    /\ before.dhcp[job.sub].router = job.router
                 THEN [before.dhcp EXCEPT ![job.sub].router = None]
                 ELSE before.dhcp,
         Idle!TypeOK
  PROVE  Implements
<1>1. /\ networks = before.networks /\ exclude = before.exclude /\ routers = before.routers
      /\ gwPort = before.gwPort /\ defRoute = before.defRoute
      /\ job.router \in before.routers /\ job.sub \in Idle!LiveSubnets
      /\ job.router \in Routers /\ job.sub \in Subnets
  BY DEF DetachProgress, NetworkRowsKept, RouterRowsKept, RoutesKept, Idle!LiveSubnets,
         Idle!TypeOK
<1>2. Idle!Interfaces(job.router) \ Idle!LivePorts = {} <=>
        Idle!Interfaces(job.router) \subseteq Idle!LivePorts
  OBVIOUS
<1>3. Idle!DeleteInterfaceBySubnet(job.router, job.sub, gone)
  BY <1>1, <1>2, AtRestAfter
  DEF Ends, Here, Idle!DeleteInterfaceBySubnet, Idle!routerVars
<1>4. Idle!Next
  BY <1>1, <1>3 DEF Idle!Next
<1> QED
  BY <1>4 DEF Implements

LEMMA DetachWrite ==
  ASSUME Writing, DetachProgress(job), job.op = "detachSubnet"
  PROVE  Implements
<1> USE DEF NetworkRowsKept, SubnetRowsKept, RouterRowsKept, RoutesKept, portVars, routerVars
<1>1. /\ networks = before.networks /\ exclude = before.exclude /\ dhcp = before.dhcp
      /\ routers = before.routers /\ gwPort = before.gwPort /\ defRoute = before.defRoute
      /\ job.router \in before.routers /\ job.sub \in Idle!LiveSubnets
      /\ Commit(job) /\ TypeOK /\ Idle!TypeOK
  BY WritingFacts DEF DetachProgress
<1>2. PICK gone \in SUBSET Ports : Detached(job, gone)
  BY DEF DetachProgress
<1>a. ASSUME NEW at, Goes, Moves(at),
             UNCHANGED <<networks, exclude, dhcp, routers, gwPort, defRoute>>,
             NEW left \in SUBSET Ports, left \subseteq Here(job),
             lsp' = Idle!PortsWithout(left),
             \/ at = "visit" /\ job.todo = Here(job) \ left /\ lrp' = Idle!RouterPortsWithout(left)
             \/ /\ at = "dropPort" /\ job.old \in Here(job) \ left
                /\ job.todo = Here(job) \ (left \cup {job.old})
                /\ lrp' = Idle!RouterPortsWithout(left \cup {job.old})
      PROVE  Implements
  <2>1. /\ job'.at = at /\ job'.op = "detachSubnet" /\ job'.router = job.router
        /\ job'.sub = job.sub /\ job'.old = job.old /\ job'.todo = job.todo /\ before' = before
    BY <1>a DEF Goes, Moves
  <2>2. /\ Here(job)' = Here(job) /\ Idle!LiveSubnets' = Idle!LiveSubnets
        /\ Idle!PortsWithout(left)' = Idle!PortsWithout(left)
        /\ Idle!RouterPortsWithout(left)' = Idle!RouterPortsWithout(left)
        /\ Idle!RouterPortsWithout(left \cup {job.old})' =
             Idle!RouterPortsWithout(left \cup {job.old})
    BY <2>1
    DEF Here, Idle!LiveSubnets, Idle!Interfaces, Idle!LivePorts, Idle!PortsWithout,
        Idle!RouterPortsWithout
  <2>3. Detached(job, left)'
    BY <1>a, <2>1, <2>2 DEF Detached
  <2>4. DetachProgress(job)'
    BY <1>1, <1>a, <2>1, <2>2, <2>3 DEF DetachProgress
  <2> QED
    BY <1>a, <2>1, <2>4 DEF Implements, Progress
<1>3. CASE job.at = "dropRouterPort"
  <2>1. DropRouterPort(job) /\ Goes /\ Moves("dropPort")
    BY <1>1, <1>3, WritingFacts, CommitsAt DEF Following
  <2>2. job.old \in Here(job) \ gone /\ job.old \in Ports
    BY <1>2, <1>3 DEF Detached, Here, Idle!Interfaces
  <2>3. lrp' = Idle!RouterPortsWithout(gone \cup {job.old})
    BY <1>1, <1>2, <1>3, <2>1, <2>2, LeftBy DEF Detached, DropRouterPort
  <2> QED
    BY <1>2, <1>3, <1>a, <2>1, <2>2, <2>3 DEF Detached, DropRouterPort
<1>4. CASE job.at = "dropPort"
  <2>1. DropPort(job) /\ Goes /\ Moves("visit")
    BY <1>1, <1>4, WritingFacts, CommitsAt DEF Following, AfterDropPort
  <2>2. job.old \in Here(job) \ gone /\ job.old \in Ports
    BY <1>2, <1>4 DEF Detached, Here, Idle!Interfaces
  <2>3. lsp' = Idle!PortsWithout(gone \cup {job.old})
    BY <1>1, <1>2, <1>4, <2>1, <2>2, LeftBy DEF Detached, DropPort
  <2>4. lrp' = Idle!RouterPortsWithout(gone \cup {job.old})
        /\ job.todo = Here(job) \ (gone \cup {job.old}) /\ gone \cup {job.old} \subseteq Here(job)
    BY <1>2, <1>4, <2>1, <2>2 DEF Detached, DropPort
  <2> HIDE <1>2
  <2> QED
    BY <1>a, <2>1, <2>2, <2>3, <2>4 DEF DropPort
<1>5. CASE job.at = "disconnect"
  <2>1. Disconnect(job) /\ Ends
    BY <1>1, <1>5, WritingFacts, CommitsAt DEF Following, AfterDisconnect, AfterRemoval
  <2>2. /\ gone = Here(job) /\ Idle!Interfaces(job.router) \subseteq Idle!LivePorts
        /\ before.dhcp[job.sub].router = job.router
        /\ lsp = Idle!PortsWithout(gone) /\ lrp = Idle!RouterPortsWithout(gone)
    BY <1>2, <1>5 DEF Detached
  <2>3. dhcp' = [before.dhcp EXCEPT ![job.sub].router = None]
    BY <1>1, <2>1 DEF Disconnect, SetGatewayRouter, Idle!LiveSubnets
  <2> QED
    BY <1>1, <2>1, <2>2, <2>3, DetachEnds DEF Disconnect, SetGatewayRouter
<1> QED
  <2>1. job.at \in {"dropRouterPort", "dropPort", "disconnect", "visit"}
    BY <1>2 DEF Detached
  <2> QED
    BY <1>1, <1>3, <1>4, <1>5, <2>1, CommitsAt

\* The loop of remove_router_interface goes on, or it has done its work.
LEMMA VisitImplements ==
  ASSUME TypedSteps, Idle!IInv, job # None, Progress(job), VisitPort,
         before' = IF job' = None THEN Db' ELSE before
  PROVE  Implements
<1> USE DEF NetworkRowsKept, SubnetRowsKept, RouterRowsKept, RoutesKept
<1>1. /\ job \in GoodJobs /\ job \in Jobs /\ TypeOK /\ Idle!TypeOK
      /\ job.at = "visit" /\ job.op = "detachSubnet" /\ job.todo \in SUBSET Ports
  BY JobFields DEF TypedSteps, Idle!IInv, VisitPort, Placed
<1>2. DetachProgress(job)
  BY <1>1 DEF Progress
<1>3. /\ networks = before.networks /\ exclude = before.exclude /\ dhcp = before.dhcp
      /\ routers = before.routers /\ gwPort = before.gwPort /\ defRoute = before.defRoute
      /\ job.router \in before.routers /\ job.sub \in Idle!LiveSubnets
  BY <1>2 DEF DetachProgress
<1>4. PICK gone \in SUBSET Ports : Detached(job, gone)
  BY <1>2 DEF DetachProgress
<1>5. /\ gone \subseteq Here(job) /\ job.todo = Here(job) \ gone
      /\ lsp = Idle!PortsWithout(gone) /\ lrp = Idle!RouterPortsWithout(gone)
  BY <1>1, <1>4 DEF Detached
<1>6. UNCHANGED dbVars
      /\ UNCHANGED <<networks, exclude, dhcp, lsp, lrp, routers, gwPort, defRoute>>
  BY DEF VisitPort, dbVars, vars
<1>7. LivePorts = Idle!LivePorts \ gone
      /\ Interfaces(job.router) = Idle!Interfaces(job.router) \ gone
  BY <1>5
  DEF LivePorts, Interfaces, Idle!LivePorts, Idle!Interfaces, Idle!PortsWithout,
      Idle!RouterPortsWithout
<1>8. Interfaces(job.router) \subseteq LivePorts <=>
        Idle!Interfaces(job.router) \subseteq Idle!LivePorts
  BY <1>5, <1>7 DEF Here
<1>a. ASSUME job' # None, Detached(job', gone),
             job'.op = job.op, job'.router = job.router, job'.sub = job.sub
      PROVE  Implements
  <2>1. DetachProgress(job')
    BY <1>1, <1>3, <1>a, <1>2 DEF DetachProgress
  <2>2. Progress(job') /\ before' = before
    BY <1>1, <1>a, <2>1 DEF Progress
  <2>3. Progress(job)'
    BY <1>6, <2>2, ProgressKept
  <2> QED
    BY <1>a, <2>2, <2>3 DEF Implements, Goes
<1>9. ASSUME NEW p \in job.todo,
             job' = [job EXCEPT !.at = "dropRouterPort", !.old = p, !.todo = @ \ {p}]
      PROVE  Implements
  <2>1. /\ job'.at = "dropRouterPort" /\ job'.old = p /\ job'.todo = job.todo \ {p}
        /\ job'.op = job.op /\ job'.router = job.router /\ job'.sub = job.sub
    BY <1>1, <1>9 DEF Jobs
  <2>2. job' \in Jobs
    BY <1>1, <1>9 DEF Jobs, Places
  <2>3. Here(job') = Here(job)
    BY <2>1 DEF Here
  <2>4. Detached(job', gone)
    BY <1>5, <2>1, <2>3 DEF Detached
  <2> QED
    BY <1>a, <2>1, <2>2, <2>4, JobAssumption
<1>10. ASSUME Interfaces(job.router) \ LivePorts # {}, job' = None PROVE Implements
  <2>1. Ends
    BY <1>10 DEF Ends
  <2>2. ~(Idle!Interfaces(job.router) \subseteq Idle!LivePorts)
    BY <1>8, <1>10
  <2> QED
    BY <1>1, <1>2, <1>3, <1>5, <1>6, <2>1, <2>2, DetachEnds
<1>11. ASSUME job.todo = {}, Interfaces(job.router) \subseteq LivePorts,
              job' = IF job.sub \in LiveSubnets /\ dhcp[job.sub].router = job.router
                     THEN [job EXCEPT !.at = "disconnect"] ELSE None
       PROVE  Implements
  <2>1. gone = Here(job) /\ Idle!Interfaces(job.router) \subseteq Idle!LivePorts
    BY <1>5, <1>8, <1>11
  <2>2. job.sub \in LiveSubnets
    BY <1>3 DEF LiveSubnets, Idle!LiveSubnets
  <2>3. CASE dhcp[job.sub].router = job.router
    <3>1. job' = [job EXCEPT !.at = "disconnect"]
      BY <1>11, <2>2, <2>3
    <3>2. job'.at = "disconnect" /\ job'.op = job.op /\ job'.router = job.router
          /\ job'.sub = job.sub /\ job' \in Jobs
      BY <1>1, <3>1 DEF Jobs, Places
    <3>3. Here(job') = Here(job)
      BY <3>2 DEF Here
    <3>4. Detached(job', gone)
      BY <1>3, <1>5, <2>1, <2>3, <3>2, <3>3 DEF Detached
    <3> QED
      BY <1>a, <3>2, <3>4, JobAssumption
  <2>4. CASE dhcp[job.sub].router # job.router
    <3>1. Ends
      BY <1>11, <2>4 DEF Ends
    <3> QED
      BY <1>1, <1>2, <1>3, <1>5, <1>6, <2>1, <2>4, <3>1, DetachEnds
  <2> QED
    BY <2>3, <2>4
<1> QED
  BY <1>9, <1>10, <1>11 DEF VisitPort

\* add_router, update_router, delete_router, and remove_router_interface by port: what
\* is known of the request at work.
LEMMA GatewayFacts ==
  ASSUME Writing, GatewayProgress(job), job.op \in GatewayOps \cup RemovalOps
  PROVE  /\ TypeOK /\ Commit(job) /\ Placed(job.op, job.at) /\ job.at \in Places
         /\ job.router \in Routers
         /\ before.dhcp \in [Subnets -> SubnetRows \cup {None}]
         /\ before.lsp \in [Ports -> PortRows \cup {None}]
         /\ before.lrp \in [Ports -> RouterPortRows \cup {None}]
         /\ before.exclude \in [Networks -> SUBSET IPs]
         /\ before.gwPort \in [Routers -> Ports \cup {None}]
         /\ before.defRoute \in [Routers -> Routes]
         /\ job.op \in GatewayOps =>
              /\ job.port \in Ports /\ job.net \in before.networks /\ job.net \in Networks
              /\ job.ip \in IPs /\ job.row = NewRow(job.net)
              /\ before.lsp[job.port] = None /\ before.lrp[job.port] = None
         /\ job.old # None =>
              /\ job.old \in Ports /\ job.oldNet \in before.networks /\ job.oldNet \in Networks
              /\ job.oldIp \in IPs /\ job.router \in before.routers
         /\ job.op = "removePort" => job.old # None
<1>1. Found(job) /\ job \in GoodJobs
  BY WritingFacts DEF GatewayProgress
<1>2. /\ TypeOK /\ Commit(job) /\ Placed(job.op, job.at) /\ job.at \in Places /\ Filled(job)
      /\ job.router \in Routers /\ job.old \in Ports \cup {None}
      /\ job.op \in GatewayOps => job.port \in Ports /\ job.net \in Networks /\ job.ip \in IPs
      /\ job.old # None => job.op \in RemovalOps
  BY <1>1, WritingFacts, JobFields DEF Filled, Found, GatewayOps, RemovalOps
<1>3. /\ before.dhcp \in [Subnets -> SubnetRows \cup {None}]
      /\ before.lsp \in [Ports -> PortRows \cup {None}]
      /\ before.lrp \in [Ports -> RouterPortRows \cup {None}]
      /\ before.exclude \in [Networks -> SUBSET IPs]
      /\ before.gwPort \in [Routers -> Ports \cup {None}]
      /\ before.defRoute \in [Routers -> Routes]
  BY WritingFacts
  DEF Idle!TypeOK, PortRows, Idle!PortRows, Kinds, Idle!Kinds, SubnetRows, Idle!SubnetRows,
      RouterPortRows, Idle!RouterPortRows, Routes, Idle!Routes
<1>4. ASSUME job.op \in GatewayOps
      PROVE  /\ job.net \in before.networks /\ job.row = NewRow(job.net)
             /\ before.lsp[job.port] = None /\ before.lrp[job.port] = None
  BY <1>1, <1>4 DEF Found, Given, Idle!ValidGateway, Idle!FreshPort
<1>5. ASSUME job.old # None
      PROVE  /\ job.old \in Ports /\ job.oldNet \in before.networks /\ job.oldNet \in Networks
             /\ job.oldIp \in IPs /\ job.router \in before.routers
  <2>1. job.old \in Idle!LivePorts /\ job.router \in before.routers
        /\ job.oldNet = before.lsp[job.old].net
    BY <1>1, <1>5 DEF Found, Taken, Idle!Removable
  <2>2. job.oldNet \in before.networks
    BY <2>1, WritingFacts DEF Idle!NetworksWellFormed
  <2>3. job.oldNet \in Networks /\ job.oldIp \in IPs
    BY <1>1, <1>2, <1>5, JobFields DEF Filled
  <2> QED
    BY <1>2, <1>5, <2>1, <2>2, <2>3
<1>6. job.op = "removePort" => job.old # None
  BY <1>1 DEF Found
<1> QED
  BY <1>2, <1>3, <1>4, <1>5, <1>6

\* The columns as they have to be for the request to be at the next write.
Advanced(at) ==
  /\ networks' = before.networks
  /\ routers' = RoutersNow(job, at)
  /\ dhcp' = SubnetsNow(job, at)
  /\ exclude' = ExcludeNow(job, at)
  /\ lrp' = RouterPortsNow(job, at)
  /\ lsp' = PortsNow(job, at)
  /\ gwPort' = KeysNow(job, at)
  /\ \/ defRoute' = before.defRoute /\ ~Unrouted(job, at)
     \/ defRoute' = Cleared(job.router) /\ (Unrouted(job, at) \/ job.op = "updateRouter")

LEMMA GatewayGoes ==
  ASSUME NEW at, Goes, Moves(at), Advanced(at), Found(job),
         job.op \in GatewayOps \cup RemovalOps,
         job.op = "deleteRouter" => job.old # None,
         at = "disconnect" => job.sub # None,
         at \in {"unkey", "unroute", "release"} => before.gwPort[job.router] = job.old,
         at = "dropRouter" => Idle!Interfaces(job.router) \subseteq {job.old}
  PROVE  Implements
<1>1. /\ job'.at = at /\ job'.op = job.op /\ job'.router = job.router /\ job'.port = job.port
      /\ job'.row = job.row /\ job'.net = job.net /\ job'.ip = job.ip /\ job'.sub = job.sub
      /\ job'.old = job.old /\ job'.oldNet = job.oldNet /\ job'.oldIp = job.oldIp
      /\ before' = before
  BY DEF Moves, Goes
<1>2. Found(job)'
  <2> USE <1>1
      DEF Idle!LivePorts, Idle!LiveSubnets, Idle!PortsOf, Idle!SubnetsOf, Idle!HasSubnet,
          Idle!Interfaces, Idle!FreshPort, Idle!FreshRouter, Idle!IpAvailable
  <2>1. Taken(job) => Taken(job)'
    BY DEF Taken, Idle!Removable
  <2>2. Given(job) => Given(job)'
    BY DEF Given, Idle!ValidGateway
  <2>3. (Idle!FreshRouter(job.router))' <=> Idle!FreshRouter(job.router)
    OBVIOUS
  <2>4. Idle!Interfaces(job.router)' = Idle!Interfaces(job.router)
    OBVIOUS
  <2> QED
    BY <2>1, <2>2, <2>3, <2>4 DEF Found
<1>3. GatewayRows(job)'
  <2>1. /\ RoutersNow(job, job.at)' = RoutersNow(job, at)
        /\ SubnetsNow(job, job.at)' = SubnetsNow(job, at)
        /\ ExcludeNow(job, job.at)' = ExcludeNow(job, at)
        /\ RouterPortsNow(job, job.at)' = RouterPortsNow(job, at)
        /\ PortsNow(job, job.at)' = PortsNow(job, at)
        /\ KeysNow(job, job.at)' = KeysNow(job, at)
        /\ Unrouted(job, job.at)' <=> Unrouted(job, at)
        /\ Cleared(job.router)' = Cleared(job.router)
    BY <1>1
    DEF RoutersNow, SubnetsNow, ExcludeLeft, ExcludeNow, RouterPortsLeft, RouterPortsNow,
        PortsLeft, PortsNow, KeysNow, Cleared, Idle!LiveSubnets, Idle!SubnetsOf,
        Idle!SubnetsWithout, Idle!ExcludeWithout, Idle!ReleaseIp, Idle!PortsWithout,
        Idle!RouterPortsWithout, Unplugged, Removed, Disconnected, OffGateway, Unkeyed, Unrouted,
        Released, Reserved, Created, Owned, Plugged, Wired
  <2> QED
    BY <1>1, <2>1 DEF GatewayRows, Advanced
<1>4. ValueRead(job)'
  BY <1>1 DEF ValueRead, Moves
<1>5. GatewayProgress(job)'
  BY <1>2, <1>3, <1>4 DEF GatewayProgress
<1>6. Progress(job)'
  BY <1>1, <1>5 DEF Progress, GatewayOps, RemovalOps
<1> QED
  BY <1>6 DEF Implements

\* A port is off its router: an interface is done with, of a gateway there is more to undo.
LEMMA PortIsOff ==
  ASSUME Writing, GatewayProgress(job), job.op \in RemovalOps, job.old # None,
         Following(job) = AfterDisconnect(job), job.at \in {"dropPort", "disconnect"},
         UNCHANGED <<networks, exclude, routers, gwPort, defRoute>>,
         dhcp' = Idle!SubnetsWithout(job.old),
         lrp' = Idle!RouterPortsWithout({job.old}),
         lsp' = Idle!PortsWithout({job.old})
  PROVE  Implements
<1> USE DEF Unplugged, Removed, Disconnected, OffGateway, Unkeyed, Unrouted, Released, Reserved,
            Created, Owned, Plugged, Wired
<1>1. /\ Found(job) /\ job.op # "addRouter" /\ job.router \in Routers /\ Taken(job)
      /\ networks = before.networks /\ routers = before.routers /\ exclude = before.exclude
      /\ gwPort = before.gwPort
      /\ \/ defRoute = before.defRoute
         \/ defRoute = Cleared(job.router) /\ job.op = "updateRouter"
  BY GatewayFacts
  DEF GatewayProgress, GatewayRows, Found, RemovalOps, RoutersNow, ExcludeNow, ExcludeLeft,
      KeysNow
<1>2. CASE before.gwPort[job.router] = job.old
  <2>1. Goes /\ Moves("unkey")
    BY <1>1, <1>2, WritingFacts DEF AfterDisconnect, Taken, Placed, RemovalOps
  <2>2. Advanced("unkey")
    BY <1>1, <1>2
    DEF Advanced, RoutersNow, SubnetsNow, ExcludeNow, ExcludeLeft, RouterPortsNow,
        RouterPortsLeft, PortsNow, PortsLeft, KeysNow
  <2> QED
    BY <1>1, <1>2, <2>1, <2>2, GatewayGoes
<1>3. CASE before.gwPort[job.router] # job.old
  <2>1. job.op = "removePort"
    BY <1>1, <1>3 DEF Taken
  <2>2. Ends
    BY <1>1, <1>3, <2>1, WritingFacts DEF AfterDisconnect, AfterRemoval
  <2>3. /\ defRoute' = before.defRoute /\ gwPort' = before.gwPort /\ exclude' = before.exclude
        /\ networks' = before.networks /\ routers' = before.routers
    BY <1>1, <2>1
  <2>4. Idle!RemovePort(job.router, job.old)
    BY <1>1, <1>3, <2>2, <2>3, AtRestAfter DEF Ends, Idle!RemovePort, Taken, Idle!ExcludeWithout
  <2>5. /\ before.gwPort = [before.gwPort EXCEPT ![job.router] = IF @ = job.old THEN None ELSE @]
        /\ before.defRoute = [before.defRoute EXCEPT ![job.router] =
                                IF before.gwPort[job.router] = job.old THEN "none" ELSE @]
    BY <1>3, GatewayFacts
  <2>6. Idle!DeleteInterfaceByPort(job.router, job.old)
    BY <2>2, <2>3, <2>4, <2>5, AtRestAfter DEF Ends, Idle!DeleteInterfaceByPort
  <2>7. Idle!Next
    BY <1>1, <2>6, GatewayFacts DEF Idle!Next
  <2> QED
    BY <2>2, <2>7 DEF Implements
<1> QED
  BY <1>2, <1>3

\* Taking a gateway or an interface away.
LEMMA RemovalWrite ==
  ASSUME Writing, GatewayProgress(job), job.op \in RemovalOps, job.old # None,
         job.at \in {"clear"} \cup RemovalPlaces
  PROVE  Implements
<1> USE DEF Unplugged, Removed, Disconnected, OffGateway, Unkeyed, Unrouted, Released, Reserved,
            Created, Owned, Plugged, Wired, portVars, routerVars
<1> DEFINE r == job.router  p == job.old
<1>1. /\ Found(job) /\ GatewayRows(job) /\ ValueRead(job) /\ Taken(job) /\ job.op # "addRouter"
      /\ Commit(job) /\ r \in Routers /\ p \in Ports /\ job.oldNet \in Networks
      /\ job.oldNet \in before.networks
      /\ job.op \in GatewayOps \cup RemovalOps
      /\ Placed(job.op, job.at)
      /\ before.dhcp \in [Subnets -> SubnetRows \cup {None}]
      /\ before.gwPort \in [Routers -> Ports \cup {None}]
      /\ before.exclude \in [Networks -> SUBSET IPs]
      /\ before.defRoute \in [Routers -> Routes]
      /\ Idle!NetworksWellFormed
  BY GatewayFacts, WritingFacts DEF GatewayProgress, Found, RemovalOps
<1> HIDE DEF GatewayOps
<1>2. CASE job.at = "clear"
  <2>1. /\ networks = before.networks /\ routers = before.routers /\ dhcp = before.dhcp
        /\ exclude = before.exclude /\ lrp = before.lrp /\ lsp = before.lsp
        /\ gwPort = before.gwPort
        /\ defRoute = before.defRoute \/ defRoute = Cleared(r)
        /\ job.op = "updateRouter"
    BY <1>1, <1>2
    DEF GatewayRows, RoutersNow, SubnetsNow, ExcludeNow, ExcludeLeft, RouterPortsNow,
        RouterPortsLeft, PortsNow, PortsLeft, KeysNow, Placed, RemovalOps
  <2>2. ClearRoute(job) /\ Goes /\ Moves("dropRouterPort")
    BY <1>1, <1>2, <2>1, WritingFacts, CommitsAt DEF Following, AfterClear
  <2>3. defRoute' = Cleared(r)
    BY <1>1, <2>1, <2>2 DEF ClearRoute, Cleared
  <2>4. Advanced("dropRouterPort")
    BY <1>1, <2>1, <2>2, <2>3
    DEF Advanced, ClearRoute, RoutersNow, SubnetsNow, ExcludeNow, ExcludeLeft, RouterPortsNow,
        RouterPortsLeft, PortsNow, PortsLeft, KeysNow
  <2> QED
    BY <1>1, <2>1, <2>2, <2>4, GatewayGoes
<1>3. CASE job.at = "dropRouterPort"
  <2>1. /\ networks = before.networks /\ routers = before.routers /\ dhcp = before.dhcp
        /\ exclude = before.exclude /\ lrp = before.lrp /\ lsp = before.lsp
        /\ gwPort = before.gwPort
        /\ \/ defRoute = before.defRoute
           \/ defRoute = Cleared(r) /\ job.op = "updateRouter"
    BY <1>1, <1>3
    DEF GatewayRows, RoutersNow, SubnetsNow, ExcludeNow, ExcludeLeft, RouterPortsNow,
        RouterPortsLeft, PortsNow, PortsLeft, KeysNow
  <2>2. DropRouterPort(job) /\ Goes /\ Moves("dropPort")
    BY <1>1, <1>3, WritingFacts, CommitsAt DEF Following
  <2>3. lrp' = Idle!RouterPortsWithout({p})
    BY <2>1, <2>2 DEF DropRouterPort, RouterPortsWithout, Idle!RouterPortsWithout
  <2>4. Advanced("dropPort")
    BY <1>1, <2>1, <2>2, <2>3
    DEF Advanced, DropRouterPort, RoutersNow, SubnetsNow, ExcludeNow, ExcludeLeft,
        RouterPortsNow, RouterPortsLeft, PortsNow, PortsLeft, KeysNow
  <2> QED
    BY <1>1, <2>2, <2>4, GatewayGoes
<1>4. CASE job.at = "dropPort"
  <2>1. /\ networks = before.networks /\ routers = before.routers /\ dhcp = before.dhcp
        /\ exclude = before.exclude /\ lrp = Idle!RouterPortsWithout({p}) /\ lsp = before.lsp
        /\ gwPort = before.gwPort
        /\ \/ defRoute = before.defRoute
           \/ defRoute = Cleared(r) /\ job.op = "updateRouter"
    BY <1>1, <1>4
    DEF GatewayRows, RoutersNow, SubnetsNow, ExcludeNow, ExcludeLeft, RouterPortsNow,
        RouterPortsLeft, PortsNow, PortsLeft, KeysNow
  <2>2. DropPort(job)
    BY <1>1, <1>4, CommitsAt
  <2>3. lsp' = Idle!PortsWithout({p})
    BY <2>1, <2>2 DEF DropPort, PortsWithout, Idle!PortsWithout
  <2>4. CASE job.sub # None
    <3>1. Goes /\ Moves("disconnect")
      BY <1>1, <1>4, <2>4, WritingFacts DEF Following, AfterDropPort, RemovalOps
    <3>2. Advanced("disconnect")
      BY <1>1, <2>1, <2>2, <2>3
      DEF Advanced, DropPort, RoutersNow, SubnetsNow, ExcludeNow, ExcludeLeft, RouterPortsNow,
          RouterPortsLeft, PortsNow, PortsLeft, KeysNow
    <3> QED
      BY <1>1, <2>4, <3>1, <3>2, GatewayGoes
  <2>5. CASE job.sub = None
    <3>1. Following(job) = AfterDisconnect(job)
      BY <1>1, <1>4, <2>5 DEF Following, AfterDropPort, RemovalOps
    <3>2. before.dhcp = Idle!SubnetsWithout(p)
      BY <1>1, <2>5 DEF Taken, Idle!SubnetsWithout
    <3> QED
      BY <1>1, <1>4, <2>1, <2>2, <2>3, <3>1, <3>2, PortIsOff DEF DropPort
  <2> QED
    BY <2>4, <2>5
<1>5. CASE job.at = "disconnect"
  <2>1. /\ networks = before.networks /\ routers = before.routers /\ dhcp = before.dhcp
        /\ exclude = before.exclude /\ lrp = Idle!RouterPortsWithout({p})
        /\ lsp = Idle!PortsWithout({p}) /\ gwPort = before.gwPort
    BY <1>1, <1>5
    DEF GatewayRows, RoutersNow, SubnetsNow, ExcludeNow, ExcludeLeft, RouterPortsNow,
        RouterPortsLeft, PortsNow, PortsLeft, KeysNow
  <2>2. Disconnect(job) /\ Following(job) = AfterDisconnect(job)
    BY <1>1, <1>5, CommitsAt DEF Following
  <2>3. job.sub # None
    BY <1>1, <1>5 DEF Taken
  <2>4. dhcp' = Idle!SubnetsWithout(p)
    <3>1. job.sub \in Idle!SubnetsOf(job.oldNet) /\ before.dhcp[job.sub].gateway = job.oldIp
          /\ job.oldNet = before.lsp[p].net /\ job.oldIp = before.lrp[p].ip
      BY <1>1, <2>3 DEF Taken
    <3>2. Idle!SubnetsOf(job.oldNet) = {job.sub}
      BY <1>1, <3>1 DEF Idle!NetworksWellFormed, Idle!SubnetsOf
    <3>3. job.sub \in Subnets /\ before.dhcp[job.sub] # None
      BY <3>1 DEF Idle!SubnetsOf, Idle!LiveSubnets
    <3>4. dhcp' = [before.dhcp EXCEPT ![job.sub].router = None]
      BY <2>1, <2>2, <3>3 DEF Disconnect, SetGatewayRouter
    <3> QED
      BY <1>1, <3>1, <3>2, <3>3, <3>4 DEF Idle!SubnetsWithout
  <2> QED
    BY <1>1, <1>5, <2>1, <2>2, <2>4, PortIsOff DEF Disconnect, SetGatewayRouter
<1>6. CASE job.at = "unkey"
  <2>1. /\ networks = before.networks /\ routers = before.routers
        /\ dhcp = Idle!SubnetsWithout(p)
        /\ exclude = before.exclude /\ lrp = Idle!RouterPortsWithout({p})
        /\ lsp = Idle!PortsWithout({p}) /\ gwPort = before.gwPort
        /\ \/ defRoute = before.defRoute
           \/ defRoute = Cleared(r) /\ job.op = "updateRouter"
        /\ before.gwPort[r] = p
    BY <1>1, <1>6
    DEF GatewayRows, RoutersNow, SubnetsNow, ExcludeNow, ExcludeLeft, RouterPortsNow,
        RouterPortsLeft, PortsNow, PortsLeft, KeysNow, Taken
  <2>2. Unkey(job) /\ Goes /\ Moves("unroute")
    BY <1>1, <1>6, WritingFacts, CommitsAt DEF Following
  <2>3. Advanced("unroute")
    BY <1>1, <2>1, <2>2
    DEF Advanced, Unkey, RoutersNow, SubnetsNow, ExcludeNow, ExcludeLeft, RouterPortsNow,
        RouterPortsLeft, PortsNow, PortsLeft, KeysNow
  <2> QED
    BY <1>1, <2>1, <2>2, <2>3, GatewayGoes
<1>7. CASE job.at = "unroute"
  <2>1. /\ networks = before.networks /\ routers = before.routers
        /\ dhcp = Idle!SubnetsWithout(p)
        /\ exclude = before.exclude /\ lrp = Idle!RouterPortsWithout({p})
        /\ lsp = Idle!PortsWithout({p}) /\ gwPort = [before.gwPort EXCEPT ![r] = None]
        /\ defRoute = before.defRoute \/ defRoute = Cleared(r)
        /\ before.gwPort[r] = p
    BY <1>1, <1>7
    DEF GatewayRows, RoutersNow, SubnetsNow, ExcludeNow, ExcludeLeft, RouterPortsNow,
        RouterPortsLeft, PortsNow, PortsLeft, KeysNow, Taken
  <2>2. ClearRoute(job) /\ Following(job) = "release"
    BY <1>1, <1>7, CommitsAt DEF Following
  <2>3. job.oldIp \in exclude'[job.oldNet]
    <3>1. p \in Idle!LivePorts /\ before.lrp[p] # None /\ before.lrp[p].router = r
          /\ job.oldNet = before.lsp[p].net /\ job.oldIp = before.lrp[p].ip
      BY <1>1 DEF Taken, Idle!Removable, Idle!Interfaces
    <3>2. job.oldIp \in before.exclude[job.oldNet]
      BY <2>1, <3>1, WritingFacts DEF Idle!GatewaysReserved, Idle!IsGateway
    <3> QED
      BY <2>1, <2>2, <3>2 DEF ClearRoute
  <2>4. Goes /\ Moves("release")
    BY <2>2, <2>3, WritingFacts
  <2>5. defRoute' = Cleared(r)
    BY <1>1, <2>1, <2>2 DEF ClearRoute, Cleared
  <2>6. Advanced("release")
    BY <1>1, <2>1, <2>2, <2>5
    DEF Advanced, ClearRoute, RoutersNow, SubnetsNow, ExcludeNow, ExcludeLeft, RouterPortsNow,
        RouterPortsLeft, PortsNow, PortsLeft, KeysNow
  <2> QED
    BY <1>1, <2>1, <2>4, <2>6, GatewayGoes
<1>8. CASE job.at = "release"
  <2>1. /\ networks = before.networks /\ routers = before.routers
        /\ dhcp = Idle!SubnetsWithout(p)
        /\ exclude = before.exclude /\ lrp = Idle!RouterPortsWithout({p})
        /\ lsp = Idle!PortsWithout({p}) /\ gwPort = [before.gwPort EXCEPT ![r] = None]
        /\ defRoute = Cleared(r)
        /\ before.gwPort[r] = p
    BY <1>1, <1>8
    DEF GatewayRows, RoutersNow, SubnetsNow, ExcludeNow, ExcludeLeft, RouterPortsNow,
        RouterPortsLeft, PortsNow, PortsLeft, KeysNow, Taken
  <2>2. Release(job) /\ Following(job) = AfterRemoval(job)
        /\ job.value = exclude[job.oldNet] \ {job.oldIp}
    BY <1>1, <1>8, CommitsAt DEF Following, ValueRead
  <2>3. exclude' = Idle!ExcludeWithout(r, p)
    <3>1. exclude' = [before.exclude EXCEPT ![job.oldNet] = @ \ {job.oldIp}]
      BY <1>1, <2>1, <2>2 DEF Release, WriteExclude
    <3> QED
      BY <1>1, <2>1, <3>1 DEF Idle!ExcludeWithout, Idle!ReleaseIp, Taken
  <2>4. UNCHANGED <<networks, dhcp, lsp, lrp, routers, gwPort, defRoute>>
    BY <2>2 DEF Release, WriteExclude
  <2>5. Interfaces(r) = Idle!Interfaces(r) \ {p}
    BY <2>1 DEF Interfaces, Idle!Interfaces, Idle!RouterPortsWithout
  <2>a. ASSUME NEW at \in {"reserve", "dropRouter"} PROVE Advanced(at)
    BY <1>1, <2>1, <2>3, <2>4, <2>a
    DEF Advanced, RoutersNow, SubnetsNow, ExcludeNow, ExcludeLeft, RouterPortsNow,
        RouterPortsLeft, PortsNow, PortsLeft, KeysNow
  <2>6. CASE job.op = "updateRouter"
    <3>1. Goes /\ Moves("reserve")
      BY <2>2, <2>6, WritingFacts DEF AfterRemoval
    <3> QED
      BY <1>1, <2>6, <2>a, <3>1, GatewayGoes
  <2>7. CASE job.op = "deleteRouter" /\ Interfaces(r) = {}
    <3>1. Goes /\ Moves("dropRouter")
      BY <2>2, <2>7, WritingFacts DEF AfterRemoval
    <3> QED
      BY <1>1, <2>5, <2>7, <2>a, <3>1, GatewayGoes
  <2>8. CASE ~(job.op = "updateRouter" \/ (job.op = "deleteRouter" /\ Interfaces(r) = {}))
    <3>1. Ends
      BY <2>2, <2>8, WritingFacts DEF AfterRemoval
    <3>2. Idle!RemovePort(r, p)
      BY <1>1, <2>1, <2>3, <2>4, <3>1, AtRestAfter DEF Ends, Idle!RemovePort, Taken
    <3>3. Idle!Next
      <4>1. CASE job.op = "removePort"
        <5>1. Idle!DeleteInterfaceByPort(r, p)
          BY <1>1, <2>1, <2>4, <3>1, <3>2, AtRestAfter
          DEF Ends, Idle!DeleteInterfaceByPort, Cleared
        <5> QED
          BY <1>1, <5>1 DEF Idle!Next
      <4>2. CASE job.op = "deleteRouter"
        <5>1. ~(Idle!Interfaces(r) \subseteq {p}) /\ r \in before.routers
          BY <1>1, <2>5, <2>8, <4>2 DEF Found
        <5>2. Idle!DeleteRouter(r)
          BY <1>1, <2>1, <2>4, <3>1, <3>2, <5>1, AtRestAfter
          DEF Ends, Idle!DeleteRouter, Cleared
        <5> QED
          BY <1>1, <5>2 DEF Idle!Next
      <4> QED
        BY <2>8, <4>1, <4>2 DEF RemovalOps
    <3> QED
      BY <3>1, <3>3 DEF Implements
  <2> QED
    BY <2>6, <2>7, <2>8
<1> QED
  BY <1>2, <1>3, <1>4, <1>5, <1>6, <1>7, <1>8 DEF RemovalPlaces

\* Adding a gateway, once the old one is gone if there was one.
LEMMA GatewayWrite ==
  ASSUME Writing, GatewayProgress(job), job.op \in GatewayOps,
         job.at \in {"reserve", "router", "port", "routerPort", "own", "plug", "key", "route"}
  PROVE  Implements
<1> DEFINE adding == {"reserve", "router", "port", "routerPort", "own", "plug", "key", "route"}
           r == job.router  p == job.port  n == job.net
           replaces == job.old # None
           left == IF replaces THEN Idle!ExcludeWithout(r, job.old) ELSE before.exclude
           subs == IF replaces THEN Idle!SubnetsWithout(job.old) ELSE before.dhcp
           rps == IF replaces THEN Idle!RouterPortsWithout({job.old}) ELSE before.lrp
           ps == IF replaces THEN Idle!PortsWithout({job.old}) ELSE before.lsp
           keys == IF replaces THEN [before.gwPort EXCEPT ![r] = None] ELSE before.gwPort
           routed == \/ defRoute = before.defRoute /\ ~replaces
                     \/ defRoute = Cleared(r) /\ job.op = "updateRouter"
<1>1. /\ Found(job) /\ GatewayRows(job) /\ ValueRead(job) /\ Given(job) /\ Commit(job)
      /\ Placed(job.op, job.at) /\ r \in Routers /\ p \in Ports /\ n \in Networks
      /\ n \in before.networks /\ job.ip \in IPs /\ job.row = NewRow(n)
      /\ before.lsp[p] = None /\ before.lrp[p] = None
      /\ before.lsp \in [Ports -> PortRows \cup {None}]
      /\ before.lrp \in [Ports -> RouterPortRows \cup {None}]
      /\ before.exclude \in [Networks -> SUBSET IPs]
      /\ before.gwPort \in [Routers -> Ports \cup {None}]
      /\ before.defRoute \in [Routers -> Routes]
      /\ job.op \in GatewayOps \cup RemovalOps /\ job.op # "deleteRouter"
  BY GatewayFacts DEF GatewayProgress, Found, GatewayOps
<1>2. /\ replaces => before.gwPort[r] = job.old /\ job.op = "updateRouter" /\ Taken(job)
      /\ job.op = "updateRouter" => r \in before.routers
      /\ job.op = "addRouter" => Idle!FreshRouter(r)
  BY <1>1 DEF Found, Taken, GatewayOps
<1>3. ASSUME NEW at \in adding
      PROVE  /\ ExcludeLeft(job, at) = left /\ SubnetsNow(job, at) = subs
             /\ RouterPortsLeft(job, at) = rps /\ PortsLeft(job, at) = ps
             /\ Unrouted(job, at) <=> replaces
             /\ KeysNow(job, at) = IF at = "route" THEN [before.gwPort EXCEPT ![r] = p] ELSE keys
  BY <1>2
  DEF ExcludeLeft, SubnetsNow, RouterPortsLeft, PortsLeft, KeysNow, Unplugged, Removed,
      Disconnected, OffGateway, Unkeyed, Unrouted, Released
<1>4. /\ ps \in [Ports -> PortRows \cup {None}] /\ rps[p] = None
      /\ rps \in [Ports -> RouterPortRows \cup {None}]
      /\ left \in [Networks -> SUBSET IPs]
      /\ keys \in [Routers -> Ports \cup {None}]
  BY <1>1
  DEF Idle!PortsWithout, Idle!RouterPortsWithout, Idle!ExcludeWithout, Idle!ReleaseIp
<1>5. /\ networks = before.networks /\ routers = RoutersNow(job, job.at) /\ dhcp = subs
      /\ exclude = ExcludeNow(job, job.at) /\ lrp = RouterPortsNow(job, job.at)
      /\ lsp = PortsNow(job, job.at)
      /\ gwPort = IF job.at = "route" THEN [before.gwPort EXCEPT ![r] = p] ELSE keys
      /\ routed
  BY <1>1, <1>2, <1>3 DEF GatewayRows
<1> HIDE DEF left, subs, rps, ps, keys
<1>a. ASSUME NEW at \in adding, Goes, Moves(at), networks' = networks, dhcp' = dhcp,
             routers' = RoutersNow(job, at), exclude' = ExcludeNow(job, at),
             lrp' = RouterPortsNow(job, at), lsp' = PortsNow(job, at),
             gwPort' = IF at = "route" THEN [before.gwPort EXCEPT ![r] = p] ELSE keys,
             defRoute' = defRoute
      PROVE  Implements
  <2>1. Advanced(at)
    BY <1>2, <1>3, <1>5, <1>a DEF Advanced
  <2> QED
    BY <1>1, <1>a, <2>1, GatewayGoes
<1> USE DEF portVars, routerVars, Reserved, Created, Owned, Plugged, Wired
<1>6. CASE job.at = "reserve"
  <2> DEFINE at == IF job.op = "addRouter" THEN "router" ELSE "port"
  <2>1. Reserve(job) /\ job.value = exclude[n] \cup {job.ip}
    BY <1>1, <1>6, CommitsAt DEF ValueRead
  <2>2. Goes /\ Moves(at) /\ at \in adding
    BY <1>1, <1>6, WritingFacts DEF Following
  <2>3. exclude = left
    BY <1>3, <1>5, <1>6 DEF ExcludeNow
  <2>4. exclude' = [left EXCEPT ![n] = @ \cup {job.ip}]
    BY <1>1, <1>5, <2>1, <2>3 DEF Reserve, WriteExclude
  <2>5. /\ exclude' = ExcludeNow(job, at) /\ RoutersNow(job, at) = RoutersNow(job, job.at)
        /\ RouterPortsNow(job, at) = RouterPortsNow(job, job.at)
        /\ PortsNow(job, at) = PortsNow(job, job.at)
    BY <1>1, <1>3, <1>6, <2>4
    DEF ExcludeNow, RoutersNow, RouterPortsNow, PortsNow, GatewayOps
  <2> QED
    BY <1>5, <1>6, <1>a, <2>1, <2>2, <2>5 DEF Reserve, WriteExclude
<1>7. CASE job.at = "router"
  <2>0. job.op = "addRouter"
    BY <1>1, <1>7 DEF Placed, GatewayOps
  <2>1. CreateRouter(job) /\ Goes /\ Moves("port")
    BY <1>1, <1>7, <2>0, WritingFacts, CommitsAt DEF Following
  <2>2. /\ routers' = RoutersNow(job, "port")
        /\ ExcludeNow(job, "port") = ExcludeNow(job, job.at)
        /\ RouterPortsNow(job, "port") = RouterPortsNow(job, job.at)
        /\ PortsNow(job, "port") = PortsNow(job, job.at)
    BY <1>3, <1>5, <1>7, <2>0, <2>1
    DEF CreateRouter, ExcludeNow, RoutersNow, RouterPortsNow, PortsNow
  <2> QED
    BY <1>5, <1>7, <1>a, <2>1, <2>2 DEF CreateRouter
<1>8. CASE job.at = "port"
  <2>1. CreatePort(job) /\ Goes /\ Moves("routerPort")
    BY <1>1, <1>8, WritingFacts, CommitsAt DEF Following, GatewayOps
  <2>2. lsp = ps
    BY <1>3, <1>5, <1>8 DEF PortsNow
  <2>3. lsp' = [ps EXCEPT ![p] = NewRow(n)]
    BY <1>1, <1>5, <2>1, <2>2 DEF CreatePort
  <2>4. /\ lsp' = PortsNow(job, "routerPort")
        /\ RoutersNow(job, "routerPort") = RoutersNow(job, job.at)
        /\ ExcludeNow(job, "routerPort") = ExcludeNow(job, job.at)
        /\ RouterPortsNow(job, "routerPort") = RouterPortsNow(job, job.at)
    BY <1>3, <1>8, <2>3 DEF ExcludeNow, RoutersNow, RouterPortsNow, PortsNow
  <2> QED
    BY <1>5, <1>8, <1>a, <2>1, <2>4 DEF CreatePort
<1>9. CASE job.at = "routerPort"
  <2>1. lrp = rps /\ lrp[p] = None
    BY <1>3, <1>4, <1>5, <1>9 DEF RouterPortsNow
  <2>2. r \in routers
    BY <1>1, <1>2, <1>5, <1>9 DEF RoutersNow, GatewayOps
  <2>3. CreateRouterPort(job) /\ Goes /\ Moves("own")
    BY <1>1, <1>9, <2>1, <2>2, WritingFacts, CommitsAt
    DEF Following, AfterRouterPort, GatewayOps, RouterPortAdded
  <2>4. lrp' = [rps EXCEPT ![p] = [router |-> r, ip |-> job.ip]]
    BY <2>1, <2>2, <2>3 DEF CreateRouterPort, RouterPortAdded
  <2>5. /\ lrp' = RouterPortsNow(job, "own")
        /\ RoutersNow(job, "own") = RoutersNow(job, job.at)
        /\ ExcludeNow(job, "own") = ExcludeNow(job, job.at)
        /\ PortsNow(job, "own") = PortsNow(job, job.at)
    BY <1>3, <1>9, <2>4 DEF ExcludeNow, RoutersNow, RouterPortsNow, PortsNow
  <2> QED
    BY <1>5, <1>9, <1>a, <2>3, <2>5 DEF CreateRouterPort
<1>10. CASE job.at = "own"
  <2>1. Own(job) /\ Goes /\ Moves("plug")
    BY <1>1, <1>10, WritingFacts, CommitsAt DEF Following
  <2>2. lsp = [ps EXCEPT ![p] = NewRow(n)]
    BY <1>3, <1>5, <1>10 DEF PortsNow
  <2>3. lsp' = [ps EXCEPT ![p] = [NewRow(n) EXCEPT !.routerOwned = TRUE]]
    BY <1>1, <1>4, <2>1, <2>2, PluggedRows
  <2>4. /\ lsp' = PortsNow(job, "plug")
        /\ RoutersNow(job, "plug") = RoutersNow(job, job.at)
        /\ ExcludeNow(job, "plug") = ExcludeNow(job, job.at)
        /\ RouterPortsNow(job, "plug") = RouterPortsNow(job, job.at)
    BY <1>3, <1>10, <2>3 DEF ExcludeNow, RoutersNow, RouterPortsNow, PortsNow
  <2> QED
    BY <1>5, <1>10, <1>a, <2>1, <2>4 DEF Own
<1>11. CASE job.at = "plug"
  <2>1. Plug(job) /\ Goes /\ Moves("key")
    BY <1>1, <1>11, WritingFacts, CommitsAt DEF Following, AfterPlug, GatewayOps
  <2>2. lsp = [ps EXCEPT ![p] = [NewRow(n) EXCEPT !.routerOwned = TRUE]]
    BY <1>3, <1>5, <1>11 DEF PortsNow
  <2>3. lsp' = [ps EXCEPT ![p] = RouterPort(n)]
    BY <1>1, <1>4, <2>1, <2>2, PluggedRows
  <2>4. /\ lsp' = PortsNow(job, "key")
        /\ RoutersNow(job, "key") = RoutersNow(job, job.at)
        /\ ExcludeNow(job, "key") = ExcludeNow(job, job.at)
        /\ RouterPortsNow(job, "key") = RouterPortsNow(job, job.at)
    BY <1>3, <1>11, <2>3 DEF ExcludeNow, RoutersNow, RouterPortsNow, PortsNow
  <2> QED
    BY <1>5, <1>11, <1>a, <2>1, <2>4 DEF Plug
<1>12. CASE job.at = "key"
  <2>1. SetKey(job) /\ Goes /\ Moves("route")
    BY <1>1, <1>12, WritingFacts, CommitsAt DEF Following
  <2>2. r \in routers
    BY <1>1, <1>2, <1>5, <1>12 DEF RoutersNow, GatewayOps
  <2>3. gwPort' = [keys EXCEPT ![r] = p]
    BY <1>5, <1>12, <2>1, <2>2 DEF SetKey
  <2>4. gwPort' = [before.gwPort EXCEPT ![r] = p]
    BY <1>1, <2>3 DEF keys
  <2>5. /\ RoutersNow(job, "route") = RoutersNow(job, job.at)
        /\ ExcludeNow(job, "route") = ExcludeNow(job, job.at)
        /\ RouterPortsNow(job, "route") = RouterPortsNow(job, job.at)
        /\ PortsNow(job, "route") = PortsNow(job, job.at)
    BY <1>3, <1>12 DEF ExcludeNow, RoutersNow, RouterPortsNow, PortsNow
  <2> QED
    BY <1>5, <1>12, <1>a, <2>1, <2>4, <2>5 DEF SetKey
<1>13. CASE job.at = "route"
  <2>1. AddRoute(job) /\ Ends
    BY <1>1, <1>13, WritingFacts, CommitsAt DEF Following
  <2>2. /\ networks' = before.networks /\ dhcp' = subs
        /\ routers' = IF job.op = "addRouter" THEN before.routers \cup {r} ELSE before.routers
        /\ exclude' = [left EXCEPT ![n] = @ \cup {job.ip}]
        /\ lrp' = [rps EXCEPT ![p] = [router |-> r, ip |-> job.ip]]
        /\ lsp' = [ps EXCEPT ![p] = Idle!RouterPort(n)]
        /\ gwPort' = [before.gwPort EXCEPT ![r] = p]
    BY <1>3, <1>5, <1>13, <2>1
    DEF AddRoute, SetRoute, RoutersNow, ExcludeNow, RouterPortsNow, PortsNow, RouterPort,
        Idle!RouterPort
  <2>3. defRoute' = IF defRoute[r] = "none" THEN [defRoute EXCEPT ![r] = "gateway"] ELSE defRoute
    <3>1. r \in routers
      BY <1>1, <1>2, <1>5, <1>13 DEF RoutersNow, GatewayOps
    <3> QED
      BY <2>1, <3>1 DEF AddRoute, SetRoute
  <2>4. PICK s \in Subnets : Idle!ValidGateway(n, s, job.ip)
    BY <1>1 DEF Given
  <2>5. Idle!FreshPort(p)
    BY <1>1 DEF Given
  <2>6. ~replaces => left = before.exclude /\ subs = before.dhcp /\ rps = before.lrp
                     /\ ps = before.lsp
    BY DEF left, subs, rps, ps
  <2>7. ASSUME ~replaces PROVE Idle!AddGatewayPort(r, p, n, job.ip)
    BY <2>1, <2>2, <2>6, <2>7, AtRestAfter DEF Ends, Idle!AddGatewayPort, Idle!ReserveIp
  <2>8. ASSUME defRoute = Cleared(r)
        PROVE  defRoute' = [before.defRoute EXCEPT ![r] = "gateway"]
    BY <1>1, <2>3, <2>8 DEF Cleared
  <2>9. CASE job.op = "addRouter"
    <3>1. defRoute = before.defRoute /\ defRoute[r] = "none" /\ ~replaces
      BY <1>1, <1>2, <1>5, <2>9 DEF Idle!FreshRouter, Writing, NoStrayRoutes
    <3>2. defRoute' = [before.defRoute EXCEPT ![r] = "gateway"]
      BY <2>3, <3>1
    <3>3. Idle!AddRouterWithGateway(r, p, n, s, job.ip)
      BY <1>2, <2>1, <2>2, <2>4, <2>5, <2>6, <2>7, <2>9, <3>1, <3>2, AtRestAfter
      DEF Ends, Idle!AddRouterWithGateway
    <3> QED
      BY <1>1, <2>1, <3>3 DEF Implements, Idle!Next
  <2>10. CASE job.op = "updateRouter" /\ ~replaces
    <3>1. before.gwPort[r] = None /\ r \in before.routers
      BY <1>1, <2>10 DEF Found
    <3>2. PICK cleared \in BOOLEAN :
            defRoute' = [before.defRoute EXCEPT ![r] =
                           IF cleared \/ @ = "none" THEN "gateway" ELSE @]
      <4>1. CASE defRoute = before.defRoute
        <5>1. defRoute' = [before.defRoute EXCEPT ![r] =
                             IF FALSE \/ @ = "none" THEN "gateway" ELSE @]
          BY <1>1, <2>3, <4>1
        <5> QED
          BY <5>1
      <4>2. CASE defRoute = Cleared(r)
        <5>1. defRoute' = [before.defRoute EXCEPT ![r] =
                             IF TRUE \/ @ = "none" THEN "gateway" ELSE @]
          BY <2>8, <4>2
        <5> QED
          BY <5>1
      <4> QED
        BY <1>5, <4>1, <4>2
    <3>3. Idle!UpdateRouterAddGateway(r, p, n, s, job.ip, cleared)
      BY <2>1, <2>2, <2>4, <2>5, <2>6, <2>7, <2>10, <3>1, <3>2, AtRestAfter
      DEF Ends, Idle!UpdateRouterAddGateway
    <3> QED
      BY <1>1, <2>1, <3>3 DEF Implements, Idle!Next
  <2>11. CASE job.op = "updateRouter" /\ replaces
    <3>1. before.gwPort[r] = job.old /\ job.old \in OldPorts /\ r \in before.routers
          /\ Idle!Removable(r, job.old)
      BY <1>1, <1>2, <2>11 DEF Found, Taken
    <3>2. defRoute' = [before.defRoute EXCEPT ![r] = "gateway"]
      BY <1>5, <2>8, <2>11
    <3>3. /\ left = Idle!ExcludeWithout(r, job.old) /\ subs = Idle!SubnetsWithout(job.old)
          /\ rps = Idle!RouterPortsWithout({job.old}) /\ ps = Idle!PortsWithout({job.old})
      BY <2>11 DEF left, subs, rps, ps
    <3>4. Idle!UpdateRouterReplaceGateway(r, p, n, s, job.ip)
      BY <2>1, <2>2, <2>4, <2>5, <2>11, <3>1, <3>2, <3>3, AtRestAfter
      DEF Ends, Idle!UpdateRouterReplaceGateway
    <3> QED
      BY <1>1, <2>1, <3>4 DEF Implements, Idle!Next
  <2> QED
    BY <1>1, <2>9, <2>10, <2>11 DEF GatewayOps
<1> QED
  BY <1>6, <1>7, <1>8, <1>9, <1>10, <1>11, <1>12, <1>13

\* delete_router, when no port is left on the router.
LEMMA DropRouterWrite ==
  ASSUME Writing, GatewayProgress(job), job.op = "deleteRouter", job.at = "dropRouter"
  PROVE  Implements
<1> USE DEF Unplugged, Removed, Disconnected, OffGateway, Unkeyed, Unrouted, Released, Reserved,
            Created, Owned, Plugged, Wired, portVars, routerVars, Idle!portVars
<1> DEFINE r == job.router  p == job.old
<1>1. /\ Found(job) /\ GatewayRows(job) /\ Commit(job) /\ r \in Routers
      /\ p # None => Taken(job) /\ before.gwPort[r] = p /\ p \in Ports
      /\ p = None => before.gwPort[r] = None
      /\ r \in before.routers /\ Idle!Interfaces(r) \subseteq {p}
      /\ p \in Ports \cup {None} /\ None \notin Ports
      /\ before.lrp \in [Ports -> RouterPortRows \cup {None}]
      /\ before.gwPort \in [Routers -> Ports \cup {None}]
      /\ before.defRoute \in [Routers -> Routes]
  BY GatewayFacts, WritingFacts, JobFields, IdAssumption
  DEF GatewayProgress, Found, RemovalOps, Taken
<1>2. DropRouter(job) /\ Ends
  BY <1>1, WritingFacts, CommitsAt DEF Following
<1>3. /\ networks = before.networks /\ routers = before.routers
      /\ lrp = IF p = None THEN before.lrp ELSE Idle!RouterPortsWithout({p})
      /\ lsp = IF p = None THEN before.lsp ELSE Idle!PortsWithout({p})
      /\ dhcp = IF p = None THEN before.dhcp ELSE Idle!SubnetsWithout(p)
      /\ exclude = IF p = None THEN before.exclude ELSE Idle!ExcludeWithout(r, p)
      /\ gwPort = before.gwPort \/ gwPort = [before.gwPort EXCEPT ![r] = None]
      /\ defRoute = before.defRoute \/ defRoute = Cleared(r)
  BY <1>1
  DEF GatewayRows, RoutersNow, SubnetsNow, ExcludeNow, ExcludeLeft, RouterPortsNow,
      RouterPortsLeft, PortsNow, PortsLeft, KeysNow
<1>4. Interfaces(r) = {}
  BY <1>1, <1>3 DEF Interfaces, Idle!Interfaces, Idle!RouterPortsWithout
<1>5. lrp \in [Ports -> RouterPortRows \cup {None}]
  BY <1>1, <1>3 DEF Idle!RouterPortsWithout
<1>6. lrp' = lrp
  BY <1>2, <1>4, <1>5 DEF DropRouter, RouterPortsWithout
<1>7. /\ gwPort' = [before.gwPort EXCEPT ![r] = None]
      /\ defRoute' = [before.defRoute EXCEPT ![r] = "none"]
  BY <1>1, <1>2, <1>3 DEF DropRouter, Cleared
<1>8. Idle!DeleteRouter(r)
  <2>1. CASE p = None
    <3>1. Idle!Interfaces(r) = {}
      BY <1>1, <2>1 DEF Idle!Interfaces
    <3> QED
      BY <1>1, <1>2, <1>3, <1>6, <1>7, <2>1, <3>1, AtRestAfter
      DEF DropRouter, Ends, Idle!DeleteRouter
  <2>2. CASE p # None
    <3>1. Idle!RemovePort(r, p)
      BY <1>1, <1>2, <1>3, <1>6, <2>2, AtRestAfter DEF DropRouter, Ends, Idle!RemovePort, Taken
    <3> QED
      BY <1>1, <1>2, <1>3, <1>7, <2>2, <3>1, AtRestAfter DEF DropRouter, Ends, Idle!DeleteRouter
  <2> QED
    BY <2>1, <2>2
<1>9. Idle!Next
  BY <1>1, <1>8 DEF Idle!Next
<1> QED
  BY <1>2, <1>9 DEF Implements

\* update_router clears the routes of a router that has no gateway yet.
LEMMA ClearForGateway ==
  ASSUME Writing, GatewayProgress(job), job.op \in GatewayOps \cup RemovalOps,
         job.at = "clear", job.old = None
  PROVE  Implements
<1> USE DEF Unplugged, Removed, Disconnected, OffGateway, Unkeyed, Unrouted, Released, Reserved,
            Created, Owned, Plugged, Wired, portVars
<1>1. /\ Found(job) /\ GatewayRows(job) /\ Commit(job) /\ job.router \in Routers
      /\ Placed(job.op, job.at) /\ before.defRoute \in [Routers -> Routes]
  BY GatewayFacts DEF GatewayProgress
<1>2. job.op = "updateRouter"
  BY <1>1 DEF Placed, GatewayOps, RemovalOps
<1>3. ClearRoute(job) /\ Goes /\ Moves("reserve")
  BY <1>1, <1>2, WritingFacts, CommitsAt DEF Following, AfterClear
<1>4. defRoute' = Cleared(job.router)
  BY <1>1, <1>3 DEF GatewayRows, ClearRoute, Cleared
<1>5. Advanced("reserve")
  BY <1>1, <1>2, <1>3, <1>4
  DEF GatewayRows, Advanced, ClearRoute, RoutersNow, SubnetsNow, ExcludeNow, ExcludeLeft,
      RouterPortsNow, RouterPortsLeft, PortsNow, PortsLeft, KeysNow
<1> QED
  BY <1>1, <1>2, <1>3, <1>5, GatewayGoes

LEMMA WriteImplements ==
  ASSUME Writing, Progress(job)
  PROVE  Implements
<1>1. /\ job \in GoodJobs /\ Commit(job) /\ job.op \in Ops /\ job.at \in Places
      /\ Placed(job.op, job.at) /\ Filled(job)
  BY WritingFacts, JobFields
<1>2. CASE job.op \in {"addSubnet", "addSubnetAtOnce"}
  BY <1>2, SubnetWrite DEF Progress
<1>3. CASE job.op = "deleteNetwork"
  BY <1>3, NetworkWrite DEF Progress
<1>4. CASE job.op \in {"deleteSubnet", "addPort", "updatePort", "deletePort"}
  BY <1>4, WholeWrite DEF Progress
<1>5. CASE job.op \in {"addRouterRoute", "updateRoutes"}
  BY <1>5, RouteWrite DEF Progress
<1>6. CASE job.op \in {"attachSubnet", "attachPort"}
  BY <1>6, AttachWrite DEF Progress
<1>7. CASE job.op = "detachSubnet"
  BY <1>7, DetachWrite DEF Progress
<1>8. CASE job.op \in GatewayOps \cup RemovalOps
  <2>1. GatewayProgress(job)
    BY <1>8 DEF Progress, GatewayOps, RemovalOps
  <2>2. \/ job.at = "clear"
        \/ job.op \in RemovalOps /\ job.at \in RemovalPlaces
        \/ job.op \in GatewayOps /\ job.at \in {"reserve", "router", "port", "routerPort", "own",
                                                "plug", "key", "route"}
        \/ job.op = "deleteRouter" /\ job.at = "dropRouter"
    BY <1>1, <1>8 DEF Placed, Places, GatewayOps, RemovalOps, AttachOps, RemovalPlaces
  <2>3. CASE job.op \in RemovalOps /\ job.at \in RemovalPlaces
    <3>1. job.old # None
      BY <1>1, <2>3 DEF Filled, NeedsOld
    <3> QED
      BY <2>1, <2>3, <3>1, RemovalWrite
  <2>4. CASE job.at = "clear" /\ job.old # None
    <3>1. job.op \in RemovalOps
      BY <1>1, <1>8, <2>4 DEF Placed, GatewayOps, RemovalOps
    <3> QED
      BY <2>1, <2>4, <3>1, RemovalWrite
  <2>5. CASE job.at = "clear" /\ job.old = None
    BY <1>8, <2>1, <2>5, ClearForGateway
  <2>6. CASE job.op \in GatewayOps /\ job.at \in {"reserve", "router", "port", "routerPort",
                                                  "own", "plug", "key", "route"}
    BY <2>1, <2>6, GatewayWrite
  <2>7. CASE job.op = "deleteRouter" /\ job.at = "dropRouter"
    BY <2>1, <2>7, DropRouterWrite
  <2> QED
    BY <2>2, <2>3, <2>4, <2>5, <2>6, <2>7
<1> QED
  BY <1>1, <1>2, <1>3, <1>4, <1>5, <1>6, <1>7, <1>8 DEF Ops, GatewayOps, RemovalOps

-----------------------------------------------------------------------------
(* Every step *)

\* A step of Topology, or none, keeps the invariant.
LEMMA RestIsKept ==
  ASSUME RefInv, TypedSteps', late' = <<>>,
         \/ before' = before /\ job' # None /\ Progress(job)'
         \/ job' = None /\ before' = Db' /\ [Idle!Next]_(Idle!vars)
  PROVE  RefInv' /\ [Idle!Next]_(Idle!vars)
<1>1. [Idle!Next]_(Idle!vars)
  BY DEF Idle!vars
<1>2. Idle!IInv' /\ NoStrayRoutes'
  <2>1. CASE Idle!Next
    BY <2>1, RestKept DEF RefInv
  <2>2. CASE UNCHANGED Idle!vars
    <3>1. Idle!IInv'
      BY <2>2, IdleInvariant DEF RefInv
    <3>2. NoStrayRoutes'
      BY <2>2 DEF RefInv, NoStrayRoutes, Idle!vars
    <3> QED
      BY <3>1, <3>2
  <2> QED
    BY <1>1, <2>1, <2>2
<1> QED
  BY <1>1, <1>2 DEF RefInv

LEMMA StepImplements ==
  ASSUME Faults = {}, RefInv, [RefNext]_refVars
  PROVE  RefInv' /\ [Idle!Next]_(Idle!vars)
<1>1. [StepsNext]_stepVars
  BY DEF RefNext, refVars, stepVars
<1>2. TypedSteps'
  BY <1>1, StepTyped DEF RefInv
<1>3. ASSUME OneWrite \/ Northd, job = None, UNCHANGED <<job, late>>, before' = Db'
      PROVE  RefInv' /\ [Idle!Next]_(Idle!vars)
  <2>1. Idle!Next
    BY <1>3, OneStep DEF RefInv
  <2> QED
    BY <1>2, <1>3, <2>1, RestIsKept DEF RefInv
<1>4. ASSUME Start, before' = IF job' = None THEN Db' ELSE before
      PROVE  RefInv' /\ [Idle!Next]_(Idle!vars)
  <2>1. job = None /\ before = Db /\ UNCHANGED dbVars /\ late' = <<>>
    BY <1>4 DEF Start, RefInv
  <2>2. Db' = Db
    BY <2>1 DEF Db, dbVars, vars
  <2>3. before' = before
    BY <1>4, <2>1, <2>2
  <2>4. Progress(job')
    BY <1>4, <2>1, StartProgress DEF RefInv
  <2>5. Progress(job)'
    BY <2>1, <2>3, <2>4, ProgressKept
  <2>6. UNCHANGED Idle!vars
    BY <2>3 DEF Idle!vars
  <2> QED
    BY <1>2, <1>4, <2>1, <2>3, <2>5, <2>6, RestIsKept
<1>5. ASSUME Write, before' = IF job' = None THEN Db' ELSE before
      PROVE  RefInv' /\ [Idle!Next]_(Idle!vars)
  <2>1. Writing /\ Progress(job) /\ late' = <<>>
    BY <1>5 DEF Writing, RefInv, Write
  <2>2. Implements
    BY <2>1, WriteImplements
  <2> QED
    BY <1>2, <2>1, <2>2, RestIsKept DEF Implements, Goes, Ends
<1>6. ASSUME VisitPort, before' = IF job' = None THEN Db' ELSE before
      PROVE  RefInv' /\ [Idle!Next]_(Idle!vars)
  <2>1. job # None /\ Progress(job) /\ late' = <<>>
    BY <1>6 DEF VisitPort, RefInv
  <2>2. Implements
    BY <1>6, <2>1, VisitImplements DEF RefInv
  <2> QED
    BY <1>2, <2>1, <2>2, RestIsKept DEF Implements, Goes, Ends
<1>7. CASE RefNext
  <2>1. before' = IF job' = None THEN Db' ELSE before
    BY <1>7 DEF RefNext
  <2>2. ~Abandon /\ ~Skip /\ ~TimeOut /\ ~LateCommit
    BY DEF Abandon, Skip, TimeOut, LateCommit, RefInv
  <2>3. Northd => job = None /\ UNCHANGED <<job, late>>
    BY DEF Northd
  <2> QED
    BY <1>3, <1>4, <1>5, <1>6, <1>7, <2>1, <2>2, <2>3 DEF RefNext, StepsNext
<1>8. CASE UNCHANGED refVars
  <2>1. UNCHANGED dbVars /\ job' = job /\ late' = late /\ before' = before /\ Db' = Db
    BY <1>8 DEF refVars, dbVars, vars, Db
  <2>2. CASE job = None
    <3>1. job' = None /\ before' = Db'
      BY <2>1, <2>2 DEF RefInv
    <3>2. UNCHANGED Idle!vars
      BY <2>1 DEF Idle!vars
    <3> QED
      BY <1>2, <2>1, <3>1, <3>2, RestIsKept DEF RefInv
  <2>3. CASE job # None
    <3>1. Progress(job')
      BY <2>1, <2>3 DEF RefInv
    <3>2. Progress(job)'
      BY <2>1, <3>1, ProgressKept
    <3> QED
      BY <1>2, <2>1, <2>3, <3>2, RestIsKept DEF RefInv
  <2> QED
    BY <2>2, <2>3
<1> QED
  BY <1>7, <1>8

LEMMA InitImplements == RefInit => RefInv /\ Idle!Init
<1> SUFFICES ASSUME RefInit PROVE RefInv /\ Idle!Init
  OBVIOUS
<1>1. Init /\ job = None /\ late = <<>> /\ before = Db
  BY DEF RefInit, StepsInit
<1>2. TypedSteps
  BY InitTypeOK DEF RefInit, StepsInit, TypedSteps
<1>3. Idle!Init
  <2>1. EmptyDb => Idle!EmptyDb
    BY <1>1, AtRest DEF EmptyDb, Idle!EmptyDb
  <2>2. ASSUME NEW n \in Networks, NEW s \in Subnets, NEW p \in OldPorts, NEW r \in Routers,
               NEW g \in IPs, NEW ip \in IPs, UpgradedDb(n, s, p, r, g, ip)
        PROVE  Idle!UpgradedDb(n, s, p, r, g, ip)
    <3>1. Idle!RouterPort(n) = RouterPort(n)
      BY DEF RouterPort, Idle!RouterPort
    <3> QED
      BY <1>1, <2>2, <3>1, AtRest DEF UpgradedDb, Idle!UpgradedDb
  <2> QED
    BY <1>1, <2>1, <2>2 DEF Init, Idle!Init
<1>4. Idle!IInv
  BY <1>3, IdleInitially
<1>5. NoStrayRoutes
  BY <1>1, AtRest DEF Init, EmptyDb, UpgradedDb, NoStrayRoutes
<1> QED
  BY <1>1, <1>2, <1>3, <1>4, <1>5 DEF RefInv

\* When nothing goes wrong, what a request has written from its first transaction to
\* its last is what Topology does in one step, whatever the rows and the request, and
\* nothing else happens between its first transaction and its last.
THEOREM RequestsAtomic ==
  ASSUME Faults = {}
  PROVE  RefSpec => RequestsAreAtomic
<1>1. RefInit => RefInv /\ Atomic!Init
  BY InitImplements, SameTopology
<1>2. RefInv /\ [RefNext]_refVars => RefInv' /\ [Atomic!Next]_(Atomic!vars)
  <2> SUFFICES ASSUME RefInv, [RefNext]_refVars PROVE RefInv' /\ [Atomic!Next]_(Atomic!vars)
    OBVIOUS
  <2>1. RefInv' /\ [Idle!Next]_(Idle!vars)
    BY StepImplements
  <2>2. UNCHANGED Idle!vars => UNCHANGED Atomic!vars
    BY DEF Idle!vars, Atomic!vars
  <2> QED
    BY <2>1, <2>2, SameTopology
<1> QED
  BY <1>1, <1>2, PTL DEF RefSpec, RequestsAreAtomic, Atomic!Spec

\* Between requests, router ports are paired with their switch ports, gateways are
\* where their routers' keys say and have their addresses reserved, no two ports share
\* an address, and no route outlives its gateway.
SoundAtRest ==
  job = None =>
    /\ NetworksWellFormed /\ RouterPortsPaired /\ GatewayPortsConsistent
    /\ GatewayAddressReserved /\ NoAddressClash /\ GatewayRouteNeedsGateway

LEMMA InvariantAtRest ==
  ASSUME RefInv, job = None
  PROVE  IInv
<1>1. before = Db /\ Idle!IInv
  BY DEF RefInv
<1> USE <1>1, AtRest, Looks
<1>2. TypeOK
  BY DEF RefInv, TypedSteps
<1>3. NetworksWellFormed
  BY DEF Idle!IInv, NetworksWellFormed, Idle!NetworksWellFormed
<1>4. Paired
  BY DEF Idle!IInv, Paired, Idle!Paired, RouterPortsPaired, Idle!RouterPortsPaired,
     GatewayPortsConsistent, Idle!GatewayPortsConsistent
<1>5. Addresses
  BY DEF Idle!IInv, Addresses, Idle!Addresses, GatewaysReserved, Idle!GatewaysReserved,
     AddressesDistinct, Idle!AddressesDistinct, IsGateway, Idle!IsGateway,
     AddressOf, Idle!AddressOf
<1>6. GatewayRouteNeedsGateway
  BY DEF Idle!IInv, GatewayRouteNeedsGateway, Idle!GatewayRouteNeedsGateway
<1> QED
  BY <1>2, <1>3, <1>4, <1>5, <1>6 DEF IInv

\* What Topology's handlers keep in one step, the requests that work transaction by
\* transaction have restored whenever none is at work.
THEOREM SoundBetweenRequests ==
  ASSUME Faults = {}
  PROVE  RefSpec => []SoundAtRest
<1>1. RefInit => RefInv
  BY InitImplements
<1>2. RefInv /\ [RefNext]_refVars => RefInv'
  BY StepImplements
<1>3. RefInv => SoundAtRest
  BY InvariantAtRest, AddressesSuffice DEF IInv, Paired, SoundAtRest
<1> QED
  BY <1>1, <1>2, <1>3, PTL DEF RefSpec
=============================================================================
