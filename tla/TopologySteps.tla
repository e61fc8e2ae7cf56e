--------------------------- MODULE TopologySteps ---------------------------
(***************************************************************************)
(* Topology with one step per OVSDB transaction.                           *)
(*                                                                         *)
(* A handler of neutron_api.py runs most of its commands one by one through *)
(* ovn_connection.execute, each a transaction of its own.  Here a request  *)
(* is a job: it starts with what the handler looks at before its first     *)
(* write, and each of its writes is a step.  The provider's one Neutron    *)
(* thread has at most one job.  Only requests whose one write depends on   *)
(* nothing they read are actions of Topology (OneWrite).                   *)
(*                                                                         *)
(* Faults says what else may happen:                                       *)
(*   "abandon"  the provider dies, or a transaction fails and the error    *)
(*              ends the request: what was committed stays;                *)
(*   "skip"     a write of DbSetCommand.execute fails, which is logged and *)
(*              forgotten, and the handler goes on;                        *)
(*   "late"     a transaction is not committed within 100 seconds: the     *)
(*              request ends with an error, the transaction stays in the   *)
(*              queue and is committed before any later one;               *)
(*   "northd"   ovn-northd gives out an address between two transactions   *)
(*              of one request, and not only between requests.             *)
(***************************************************************************)
EXTENDS Topology, Naturals, Sequences

CONSTANTS
  Faults,
  MaxLate  \* bound on the transactions that are late at a time

ASSUME FaultAssumption ==
  /\ Faults \subseteq {"abandon", "skip", "late", "northd"}
  /\ MaxLate \in Nat

VARIABLES
  job,  \* the request at work, None if there is none
  late  \* the queue of the connection: transactions nobody waits for any more

dbVars == vars
stepVars == <<networks, exclude, dhcp, lsp, lrp, routers, gwPort, defRoute, job, late>>

Ops == {"addSubnet", "addSubnetAtOnce", "deleteSubnet", "deleteNetwork",
        "addPort", "updatePort", "deletePort",
        "addRouter", "addRouterRoute", "updateRoutes", "updateRouter", "deleteRouter",
        "removePort", "attachSubnet", "attachPort", "detachSubnet"}

\* The writes, and "visit": the head of the loop over lr.ports.
Places == {"row", "options", "dropSubnet", "dropNetwork", "setPort",
           "clear", "reserve", "router", "userRoute",
           "port", "routerPort", "own", "plug", "connect", "key", "route",
           "dropRouterPort", "dropPort", "disconnect", "unkey", "unroute", "release",
           "visit", "dropRouter"}

\* What a handler keeps in its local variables.
Jobs ==
  [op : Ops, at : Places,
   router : Routers \cup {None},
   port : Ports \cup {None},       \* the port it adds, updates or plugs
   row : PortRows \cup {None},     \* and what it writes to it
   net : Networks \cup {None},     \* the network of the port, or of the request
   ip : IPs \cup {None},           \* the address of the router port, or the gateway
   sub : Subnets \cup {None},      \* the subnet connected or disconnected, if any
   old : Ports \cup {None},        \* the port it removes
   oldNet : Networks \cup {None},  \* ls_id and lrp_ip of that port
   oldIp : IPs \cup {None},
   todo : SUBSET Ports,            \* what is left of lr.ports
   value : SUBSET IPs]             \* what it is about to write to exclude_ips

ASSUME JobAssumption == None \notin Jobs

Job(op, at) ==
  [op |-> op, at |-> at, router |-> None, port |-> None, row |-> None, net |-> None,
   ip |-> None, sub |-> None, old |-> None, oldNet |-> None, oldIp |-> None,
   todo |-> {}, value |-> {}]

\* A row that is still in the queue has its id already.
LateJobs == {late[i] : i \in DOMAIN late}
NewSubnet(s) == dhcp[s] = None /\ \A j \in LateJobs : j.sub # s
NewPort(p) == FreshPort(p) /\ \A j \in LateJobs : j.port # p
NewRouter(r) == FreshRouter(r) /\ \A j \in LateJobs : j.router # r

NewRow(n) == [net |-> n, kind |-> "unset", ip |-> None, routerOwned |-> FALSE]

-----------------------------------------------------------------------------
(* Where requests start: what the handler looks at before it writes *)

StartAddSubnet(s, n, g) ==
  /\ NewSubnet(s)
  /\ n \in networks
  /\ ~HasSubnet(n)
  /\ \/ g # None /\ job' = [Job("addSubnet", "row") EXCEPT !.sub = s, !.net = n, !.ip = g]
     \/ job' = [Job("addSubnetAtOnce", "row") EXCEPT !.sub = s, !.net = n, !.ip = g]

StartDeleteSubnet(s) ==
  /\ s \in LiveSubnets
  /\ dhcp[s].router = None
  /\ job' = [Job("deleteSubnet", "dropSubnet") EXCEPT !.sub = s]

\* Fault: the network goes, the row of its subnet stays.
StartDeleteNetwork_Orphan(n) ==
  /\ n \in networks
  /\ PortsOf(n) = {}
  /\ job' = [Job("deleteNetwork", "dropNetwork") EXCEPT !.net = n]

\* Each subnet goes in a transaction of its own (transacion=tx).
StartDeleteNetwork(n) ==
  /\ n \in networks
  /\ PortsOf(n) = {}
  /\ \/ /\ SubnetsOf(n) = {}
        /\ job' = [Job("deleteNetwork", "dropNetwork") EXCEPT !.net = n]
     \/ \E s \in SubnetsOf(n) :
          job' = [Job("deleteNetwork", "dropSubnet") EXCEPT !.sub = s, !.net = n]

StartAddPort(p, n, a, owned) ==
  /\ NewPort(p)
  /\ n \in networks
  /\ LET ok == AddressAccepted(n, a) IN
     job' = [Job("addPort", "port") EXCEPT
       !.port = p,
       !.net = n,
       !.row = [net |-> n,
                kind |-> IF ok THEN AddressKind(n, a) ELSE "unset",
                ip |-> IF ok THEN a ELSE None,
                routerOwned |-> owned]]

StartUpdatePort(p, a, owned) ==
  /\ p \in LivePorts
  /\ lsp[p].kind # "router"
  /\ LET row == IF AddressAccepted(lsp[p].net, a) THEN Readdressed(p, a) ELSE lsp[p]
     IN job' = [Job("updatePort", "setPort") EXCEPT
                  !.port = p, !.row = [row EXCEPT !.routerOwned = owned]]

StartDeletePort(p) ==
  /\ p \in LivePorts
  /\ ~lsp[p].routerOwned
  /\ job' = [Job("deletePort", "dropPort") EXCEPT !.old = p]

StartAddRouterRoute(r) ==
  /\ NewRouter(r)
  /\ job' = [Job("addRouterRoute", "router") EXCEPT !.router = r]

\* The request as it comes to its first writes, with the value it writes to
\* exclude_ips computed from what it reads then.
Plugging(j, r, p, n, ip) ==
  [j EXCEPT !.router = r, !.port = p, !.row = NewRow(n), !.net = n, !.ip = ip,
            !.value = exclude[n] \cup {ip}]

\* Fault: the gateway is built before its address is reserved.
StartAddRouter_Unreserved(r, p, n, s, ip) ==
  /\ NewRouter(r)
  /\ NewPort(p)
  /\ ValidGateway(n, s, ip)
  /\ job' = Plugging(Job("addRouter", "router"), r, p, n, ip)

StartAddRouter(r, p, n, s, ip) ==
  /\ NewRouter(r)
  /\ NewPort(p)
  /\ ValidGateway(n, s, ip)
  /\ job' = Plugging(Job("addRouter", "reserve"), r, p, n, ip)

\* The default route is replaced: a removal and an addition.
StartUpdateRoutes(r) ==
  /\ r \in routers
  /\ defRoute[r] # "none"
  /\ job' = [Job("updateRoutes", "clear") EXCEPT !.router = r]

\* Fault: the switch port is removed and its router port is not.
Removing_PortOnly(op, r, p) ==
  [Job(op, "dropPort") EXCEPT !.router = r, !.old = p,
                              !.oldNet = lsp[p].net, !.oldIp = lrp[p].ip]

\* The local variables of _delete_router_interface_by_port.
Removing(op, r, p) ==
  LET served == {s \in SubnetsOf(lsp[p].net) : dhcp[s].gateway = lrp[p].ip}
  IN [Job(op, "dropRouterPort") EXCEPT
        !.router = r,
        !.old = p,
        !.oldNet = lsp[p].net,
        !.oldIp = lrp[p].ip,
        !.sub = IF served = {} THEN None ELSE CHOOSE s \in served : TRUE]

StartUpdateRouter(r, p, n, s, ip, cleared) ==
  LET old == gwPort[r]
      new == IF old = None THEN Job("updateRouter", "reserve")
                           ELSE Removing("updateRouter", r, old)
  IN /\ r \in routers
     /\ old # None => old \in OldPorts /\ Removable(r, old)
     /\ NewPort(p)
     /\ ValidGateway(n, s, ip)
     /\ job' = [Plugging(new, r, p, n, ip) EXCEPT !.at = IF cleared THEN "clear" ELSE @]

StartDeleteRouter(r) ==
  /\ r \in routers
  /\ \/ /\ gwPort[r] = None
        /\ Interfaces(r) = {}
        /\ job' = [Job("deleteRouter", "dropRouter") EXCEPT !.router = r]
     \/ /\ gwPort[r] # None
        /\ Removable(r, gwPort[r])
        /\ job' = Removing("deleteRouter", r, gwPort[r])

StartDeleteInterface(r, p) ==
  /\ Removable(r, p)
  /\ job' = Removing("removePort", r, p)

StartAddInterfaceBySubnet(r, s, p) ==
  /\ r \in routers
  /\ s \in LiveSubnets
  /\ NewPort(p)
  /\ dhcp[s].router = None
  /\ dhcp[s].gateway # None
  /\ ~Broken(r)
  /\ ~OnSubnet(r, s)
  /\ job' = [Job("attachSubnet", "port") EXCEPT
               !.router = r, !.port = p, !.row = NewRow(dhcp[s].net), !.net = dhcp[s].net,
               !.ip = dhcp[s].gateway, !.sub = s]

\* Fault: no look for the address (port_ip_for_router).
StartAddInterfaceByPort_NoAddress(r, p) ==
  /\ r \in routers
  /\ p \in LivePorts
  /\ lsp[p].kind # "router"
  /\ HasSubnet(lsp[p].net)
  /\ ~Broken(r)
  /\ job' = [Job("attachPort", "own") EXCEPT
               !.router = r, !.port = p, !.net = lsp[p].net, !.ip = lsp[p].ip]

StartAddInterfaceByPort(r, p) ==
  /\ r \in routers
  /\ p \in LivePorts
  /\ lsp[p].kind # "router"
  /\ HasSubnet(lsp[p].net)
  /\ lsp[p].ip # None
  /\ ~Broken(r)
  /\ job' = [Job("attachPort", "own") EXCEPT
               !.router = r, !.port = p, !.net = lsp[p].net, !.ip = lsp[p].ip]

StartDeleteInterfaceBySubnet(r, s) ==
  /\ r \in routers
  /\ s \in LiveSubnets
  /\ job' = [Job("detachSubnet", "visit") EXCEPT
               !.router = r, !.sub = s,
               !.todo = {p \in Interfaces(r) \cap LivePorts : lsp[p].net = dhcp[s].net}]

Start ==
  /\ job = None
  /\ \/ \E s \in Subnets, n \in Networks, g \in IPs \cup {None} : StartAddSubnet(s, n, g)
     \/ \E s \in Subnets : StartDeleteSubnet(s)
     \/ \E n \in Networks : StartDeleteNetwork(n)
     \/ \E p \in Ports, n \in Networks, a \in IPs \cup {None}, owned \in BOOLEAN :
          StartAddPort(p, n, a, owned)
     \/ \E p \in Ports, a \in IPs \cup {None}, owned \in BOOLEAN :
          StartUpdatePort(p, a, owned)
     \/ \E p \in Ports : StartDeletePort(p)
     \/ \E r \in Routers :
          StartAddRouterRoute(r) \/ StartUpdateRoutes(r) \/ StartDeleteRouter(r)
     \/ \E r \in Routers, p \in Ports, n \in Networks, s \in Subnets, ip \in IPs :
          \/ StartAddRouter(r, p, n, s, ip)
          \/ \E cleared \in BOOLEAN : StartUpdateRouter(r, p, n, s, ip, cleared)
     \/ \E r \in Routers, p \in Ports :
          StartDeleteInterface(r, p) \/ StartAddInterfaceByPort(r, p)
     \/ \E r \in Routers, s \in Subnets, p \in Ports : StartAddInterfaceBySubnet(r, s, p)
     \/ \E r \in Routers, s \in Subnets : StartDeleteInterfaceBySubnet(r, s)
  /\ UNCHANGED <<dbVars, late>>

-----------------------------------------------------------------------------
(* The writes: one transaction each.  A row that a late transaction finds gone *)
(* is an error of the transaction, which then changes nothing.               *)

\* add_dhcp_options: the gateway of an IPv4 subnet is an option, written next.
SubnetRow(j) ==
  /\ j.at = "row"
  /\ dhcp' = [dhcp EXCEPT ![j.sub] =
       [net |-> j.net,
        gateway |-> IF j.op = "addSubnet" THEN None ELSE j.ip,
        router |-> None]]
  /\ UNCHANGED <<networks, exclude, portVars, routerVars>>

SubnetOptions(j) ==
  /\ j.at = "options"
  /\ dhcp' = IF dhcp[j.sub] = None THEN dhcp ELSE [dhcp EXCEPT ![j.sub].gateway = j.ip]
  /\ UNCHANGED <<networks, exclude, portVars, routerVars>>

DropSubnet(j) ==
  /\ j.at = "dropSubnet"
  /\ dhcp' = [dhcp EXCEPT ![j.sub] = None]
  /\ UNCHANGED <<networks, exclude, portVars, routerVars>>

\* A switch takes along the ports it has when it goes.
DropNetwork(j) ==
  /\ j.at = "dropNetwork"
  /\ networks' = networks \ {j.net}
  /\ exclude' = [exclude EXCEPT ![j.net] = {}]
  /\ lsp' = PortsWithout(PortsOf(j.net))
  /\ UNCHANGED <<dhcp, lrp, routerVars>>

\* set_ls_options and db_set of other_config:exclude_ips.
WriteExclude(j, n) ==
  /\ exclude' = IF n \in networks THEN [exclude EXCEPT ![n] = j.value] ELSE exclude
  /\ UNCHANGED <<networks, dhcp, portVars, routerVars>>
Reserve(j) == j.at = "reserve" /\ WriteExclude(j, j.net)
Release(j) == j.at = "release" /\ WriteExclude(j, j.oldNet)

CreateRouter(j) ==
  /\ j.at = "router"
  /\ routers' = routers \cup {j.router}
  /\ UNCHANGED <<networks, exclude, dhcp, portVars, gwPort, defRoute>>

CreatePort(j) ==
  /\ j.at = "port"
  /\ lsp' = IF j.net \in networks THEN [lsp EXCEPT ![j.port] = j.row] ELSE lsp
  /\ UNCHANGED <<networks, exclude, dhcp, lrp, routerVars>>

\* A port that stays dynamic keeps the address northd gave it.
SetPort(j) ==
  /\ j.at = "setPort"
  /\ lsp' = IF lsp[j.port] = None THEN lsp
            ELSE [lsp EXCEPT ![j.port] =
                    IF j.row.kind = "dynamic" /\ @.kind = "dynamic"
                    THEN [j.row EXCEPT !.ip = lsp[j.port].ip]
                    ELSE j.row]
  /\ UNCHANGED <<networks, exclude, dhcp, lrp, routerVars>>

\* lrp_add is refused when there is a router port of that name.
RouterPortAdded(j) == lrp[j.port] = None /\ j.router \in routers
CreateRouterPort(j) ==
  /\ j.at = "routerPort"
  /\ lrp' = IF RouterPortAdded(j)
            THEN [lrp EXCEPT ![j.port] = [router |-> j.router, ip |-> j.ip]]
            ELSE lrp
  /\ UNCHANGED <<networks, exclude, dhcp, lsp, routerVars>>

Own(j) ==
  /\ j.at = "own"
  /\ lsp' = IF lsp[j.port] = None THEN lsp ELSE [lsp EXCEPT ![j.port].routerOwned = TRUE]
  /\ UNCHANGED <<networks, exclude, dhcp, lrp, routerVars>>

Plug(j) ==
  /\ j.at = "plug"
  /\ lsp' = IF lsp[j.port] = None THEN lsp
            ELSE [lsp EXCEPT ![j.port].kind = "router", ![j.port].ip = None]
  /\ UNCHANGED <<networks, exclude, dhcp, lrp, routerVars>>

SetGatewayRouter(s, r) ==
  /\ dhcp' = IF dhcp[s] = None THEN dhcp ELSE [dhcp EXCEPT ![s].router = r]
  /\ UNCHANGED <<networks, exclude, portVars, routerVars>>
Connect(j) == j.at = "connect" /\ SetGatewayRouter(j.sub, j.router)
Disconnect(j) == j.at = "disconnect" /\ SetGatewayRouter(j.sub, None)

SetKey(j) ==
  /\ j.at = "key"
  /\ gwPort' = IF j.router \in routers THEN [gwPort EXCEPT ![j.router] = j.port] ELSE gwPort
  /\ UNCHANGED <<networks, exclude, dhcp, portVars, routers, defRoute>>

Unkey(j) ==
  /\ j.at = "unkey"
  /\ gwPort' = [gwPort EXCEPT ![j.router] = None]
  /\ UNCHANGED <<networks, exclude, dhcp, portVars, routers, defRoute>>

\* add_route is refused when the router has a default route.
SetRoute(j, route) ==
  /\ defRoute' = IF j.router \in routers /\ defRoute[j.router] = "none"
                 THEN [defRoute EXCEPT ![j.router] = route]
                 ELSE defRoute
  /\ UNCHANGED <<networks, exclude, dhcp, portVars, routers, gwPort>>
AddRoute(j) == j.at = "route" /\ SetRoute(j, "gateway")
AddUserRoute(j) == j.at = "userRoute" /\ SetRoute(j, "user")

\* Of a request's own routes, and of a gateway that is taken away.
ClearRoute(j) ==
  /\ j.at \in {"clear", "unroute"}
  /\ defRoute' = [defRoute EXCEPT ![j.router] = "none"]
  /\ UNCHANGED <<networks, exclude, dhcp, portVars, routers, gwPort>>

DropRouterPort(j) ==
  /\ j.at = "dropRouterPort"
  /\ lrp' = RouterPortsWithout({j.old})
  /\ UNCHANGED <<networks, exclude, dhcp, lsp, routerVars>>

DropPort(j) ==
  /\ j.at = "dropPort"
  /\ lsp' = PortsWithout({j.old})
  /\ UNCHANGED <<networks, exclude, dhcp, lrp, routerVars>>

\* A router takes along the router ports it has when it goes.
DropRouter(j) ==
  /\ j.at = "dropRouter"
  /\ routers' = routers \ {j.router}
  /\ gwPort' = [gwPort EXCEPT ![j.router] = None]
  /\ defRoute' = [defRoute EXCEPT ![j.router] = "none"]
  /\ lrp' = RouterPortsWithout(Interfaces(j.router))
  /\ UNCHANGED <<networks, exclude, dhcp, lsp>>

Commit(j) ==
  \/ SubnetRow(j) \/ SubnetOptions(j) \/ DropSubnet(j) \/ DropNetwork(j)
  \/ Reserve(j) \/ Release(j) \/ CreateRouter(j) \/ CreatePort(j) \/ SetPort(j)
  \/ CreateRouterPort(j) \/ Own(j) \/ Plug(j) \/ Connect(j) \/ Disconnect(j)
  \/ SetKey(j) \/ Unkey(j) \/ AddRoute(j) \/ AddUserRoute(j) \/ ClearRoute(j)
  \/ DropRouterPort(j) \/ DropPort(j) \/ DropRouter(j)

-----------------------------------------------------------------------------
(* The order of the writes *)

\* Fault: the ports are not looked at again before lr_del.
AfterRemoval_Blind(j) ==
  CASE j.op = "updateRouter" -> "reserve"
    [] j.op = "deleteRouter" -> "dropRouter"
    [] OTHER -> "done"

\* router_has_no_ports is asked for after the gateway is gone.
AfterRemoval(j) ==
  CASE j.op = "updateRouter" -> "reserve"
    [] j.op = "deleteRouter" /\ Interfaces(j.router) = {} -> "dropRouter"
    [] OTHER -> "done"

\* Fault: what the router had of the gateway is left.
AfterDisconnect_Leak(j) == AfterRemoval(j)

\* Only of an external gateway are there a key, a route and a reservation.
AfterDisconnect(j) ==
  IF j.op # "detachSubnet" /\ gwPort[j.router] = j.old THEN "unkey" ELSE AfterRemoval(j)

AfterDropPort(j) ==
  CASE j.op = "deletePort" -> "done"
    [] j.op = "detachSubnet" -> "visit"
    [] OTHER -> IF j.sub # None THEN "disconnect" ELSE AfterDisconnect(j)

AfterClear(j) ==
  CASE j.op = "updateRoutes" -> "userRoute"
    [] j.op # "updateRoutes" /\ j.old = None -> "reserve"
    [] OTHER -> "dropRouterPort"

AfterPlug(j) ==
  CASE j.op = "attachSubnet" -> "connect"
    [] j.op = "attachPort" -> "routerPort"
    [] OTHER -> "key"

\* add_lrp comes second for an external gateway, last for an interface.
AfterRouterPort(j) ==
  IF j.op \in {"addRouter", "updateRouter"} /\ RouterPortAdded(j) THEN "own" ELSE "done"

Following(j) ==
  CASE j.at = "row" /\ j.op = "addSubnet" -> "options"
    [] j.at = "dropSubnet" /\ j.op = "deleteNetwork" -> "dropNetwork"
    [] j.at = "clear" -> AfterClear(j)
    [] j.at = "reserve" -> IF j.op = "addRouter" THEN "router" ELSE "port"
    [] j.at = "router" -> IF j.op = "addRouter" THEN "port" ELSE "userRoute"
    [] j.at = "port" /\ j.op = "attachSubnet" -> "own"
    [] j.at = "port" /\ j.op \in {"addRouter", "updateRouter"} -> "routerPort"
    [] j.at = "routerPort" -> AfterRouterPort(j)
    [] j.at = "own" -> "plug"
    [] j.at = "plug" -> AfterPlug(j)
    [] j.at = "connect" -> "routerPort"
    [] j.at = "key" -> "route"
    [] j.at = "dropRouterPort" -> "dropPort"
    [] j.at = "dropPort" -> AfterDropPort(j)
    [] j.at = "disconnect" -> AfterDisconnect(j)
    [] j.at = "unkey" -> "unroute"
    [] j.at = "unroute" -> "release"
    [] j.at = "release" -> AfterRemoval(j)
    [] OTHER -> "done"

\* exclude_ips is read right before it is written; list.remove fails when the
\* address is not in it.
Arrive(j, at) ==
  CASE at = "done" -> None
    [] at = "reserve" -> [j EXCEPT !.at = at, !.value = exclude'[j.net] \cup {j.ip}]
    [] at = "release" -> IF j.oldIp \in exclude'[j.oldNet]
                         THEN [j EXCEPT !.at = at, !.value = exclude'[j.oldNet] \ {j.oldIp}]
                         ELSE None
    [] OTHER -> [j EXCEPT !.at = at]

\* Fault: a write does not wait for the late ones.
Write_Overtaking ==
  /\ job # None
  /\ Commit(job)
  /\ job' = Arrive(job, Following(job))
  /\ UNCHANGED late

Write ==
  /\ job # None
  /\ late = <<>>
  /\ Commit(job)
  /\ job' = Arrive(job, Following(job))
  /\ UNCHANGED late

\* The loop ends with an error at a router port whose switch port is gone.
VisitPort ==
  /\ job # None
  /\ job.at = "visit"
  /\ \/ \E p \in job.todo :
          job' = [job EXCEPT !.at = "dropRouterPort", !.old = p, !.todo = @ \ {p}]
     \/ /\ Interfaces(job.router) \ LivePorts # {}
        /\ job' = None
     \/ /\ job.todo = {}
        /\ Interfaces(job.router) \subseteq LivePorts
        /\ job' = IF job.sub \in LiveSubnets /\ dhcp[job.sub].router = job.router
                  THEN [job EXCEPT !.at = "disconnect"] ELSE None
  /\ UNCHANGED <<dbVars, late>>

-----------------------------------------------------------------------------
(* Faults *)

Abandon ==
  /\ "abandon" \in Faults
  /\ job # None
  /\ job' = None
  /\ UNCHANGED <<dbVars, late>>

\* The two writes of a job that go through DbSetCommand.execute.
Unchecked(j) == j.at \in {"plug", "key"}

Skip ==
  /\ "skip" \in Faults
  /\ job # None
  /\ Unchecked(job)
  /\ job' = [job EXCEPT !.at = Following(job)]
  /\ UNCHANGED <<dbVars, late>>

\* TimeoutException ends the request, and is swallowed where errors are.
TimeOut ==
  /\ "late" \in Faults
  /\ job # None
  /\ job.at # "visit"
  /\ Len(late) < MaxLate
  /\ late' = Append(late, job)
  /\ job' = IF Unchecked(job) THEN [job EXCEPT !.at = Following(job)] ELSE None
  /\ UNCHANGED dbVars

LateCommit ==
  /\ late # <<>>
  /\ Commit(Head(late))
  /\ late' = Tail(late)
  /\ UNCHANGED job

-----------------------------------------------------------------------------
(* Requests with one write, which depends on nothing they read *)

OneWrite ==
  \/ \E n \in Networks : AddNetwork(n)
  \/ \E s \in Subnets, g \in IPs : UpdateSubnet(s, g)
  \/ \E p \in Ports, owned \in BOOLEAN : UpdateRouterPort(p, owned)
  \/ \E r \in Routers : NewRouter(r) /\ AddRouter(r, "none")
  \/ \E r \in Routers : UpdateRouterRoutes(r, "none")
  \/ \E r \in Routers : defRoute[r] = "none" /\ UpdateRouterRoutes(r, "user")

Northd ==
  /\ job = None \/ "northd" \in Faults
  /\ \E p \in Ports, ip \in IPs : AssignAddress(p, ip)
  /\ UNCHANGED <<job, late>>

StepsNext ==
  \/ job = None /\ late = <<>> /\ OneWrite /\ UNCHANGED <<job, late>>
  \/ Start
  \/ Write
  \/ VisitPort
  \/ Northd
  \/ Abandon
  \/ Skip
  \/ TimeOut
  \/ LateCommit

StepsInit == Init /\ job = None /\ late = <<>>

StepsSpec == StepsInit /\ [][StepsNext]_stepVars

-----------------------------------------------------------------------------
(* What holds at every instant, under the faults that README.md names *)

\* Every variable has its type, and the local variables of a handler hold what its
\* writes expect.
StepsTypeOK == TypeOK /\ job \in Jobs \cup {None} /\ late \in Seq(Jobs)

\* While ovirt_gateway_port of a router names a port that is plugged into it, the
\* address of the port is in exclude_ips of its network: it is reserved before
\* the first and given back after the last of the writes in between, so that no
\* single fault leaves a gateway whose address ovn-northd may hand out.
GatewaysStayReserved ==
  \A r \in Routers :
    LET p == gwPort[r]
    IN p \in LivePorts /\ lrp[p] # None => lrp[p].ip \in exclude[lsp[p].net]

\* A port owned by a router goes away only after its router port, so that a
\* request that is cut short leaves no router port without its switch port.
RouterPortsLeaveFirst ==
  [][\A p \in Ports :
       (lsp[p] # None /\ lsp'[p] = None) => ~lsp[p].routerOwned \/ lrp[p] = None]_stepVars

\* A router goes away only when no port is left on it, and no key (the check
\* comes after the last write before lr_del, not at the start of the request).
RoutersLeaveBare ==
  [][\A r \in routers \ routers' : Interfaces(r) = {} /\ gwPort[r] = None]_stepVars

=============================================================================
