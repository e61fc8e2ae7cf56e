# ovirt-provider-ovn: specification, model checking and proofs

ovirt-provider-ovn is the network provider of oVirt: it answers a subset of the
OpenStack Networking (Neutron) and Identity (Keystone) REST APIs and keeps
everything it knows in the OVN northbound database. This directory holds TLA+
modules of its core logic, the TLC configurations that model-check them, and
TLAPS proofs of what matters most about them. Line numbers below refer to
`src/`.

| file | what it is |
| --- | --- |
| `Topology.tla` | networks, subnets, ports, routers, external gateways: one action per REST handler |
| `MCTopology.tla`, `Topology_*.cfg` | its instances for TLC |
| `TopologySteps.tla` | `Topology` with one step per OVSDB transaction, and what may go wrong between two of them |
| `MCTopologySteps.tla`, `Steps_*.cfg` | its instances for TLC, one per fault |
| `TopologyRefinement.tla`, `MCTopologyRefinement.tla`, `Refinement.cfg` | that `TopologySteps` implements `Topology`, and the instance that checks it |
| `Dhcp.tla` | DHCP leases, MTU, IPv6 router advertisements, ports to physical networks |
| `MCDhcp.tla`, `Dhcp.cfg` | its instance for TLC |
| `SecurityGroups.tla` | security groups, rules, membership of ports, port security: one action per REST handler |
| `MCSecurityGroups.tla`, `SecurityGroups.cfg` | its instance for TLC |
| `Requests.tla` | authentication: two servers, the plug-ins' calls to oVirt engine, time-outs |
| `Routes.tla` | routing: the tree of paths, the walk through it, the routes of both servers |
| `MCRequests.tla`, `Requests.cfg` | the instance of both for TLC |
| `*_proofs.tla` | the inductive invariant of each module and the theorems about it; `TopologyRefinement_proofs.tla`: that `TopologySteps` implements `Topology` |
| `Claim_*.cfg` | instances that violate what the repository says and the code does not keep |
| `PROJECT.json` | components, runs, mutants, the map from definitions to source lines, hazards, findings, theorems |

Check one run with `tlc -workers 2 -config Topology_rows.cfg MCTopology` (the
module of a run is in `PROJECT.json`), the proofs of a module with
`tlapm Topology_proofs.tla`.

## The system

### Processes and state

The provider (`provider/ovirt_provider_ovn.py:100-121`) is one process with two
HTTP servers, each served by one thread: Keystone (`TokenHandler`, tokens) and
Neutron (`NeutronHandler`, everything else). A server thread answers one
request after the other, so two Neutron requests never interleave. The provider
itself keeps no state between requests but the OVSDB connection
(`provider/ovn_connection.py:41-48`) and the authentication plug-in: all state
is in rows of the northbound database. Beside the provider, `ovn-northd` writes
that database too (it fills in `dynamic_addresses`).

| component | state | operations | interacts with |
| --- | --- | --- | --- |
| REST front end (`handlers/`) | none | routing a path to a handler, errors to HTTP codes, filtering lists | Neutron API, authentication |
| Neutron API (`neutron/neutron_api.py`, `validation.py`, `ip.py`, `neutron_api_mappers.py`) | none of its own | add, update, delete of networks, subnets, ports, routers, router interfaces, security groups, rules | OVN north layer, transaction manager |
| OVN north layer (`ovndb/ovn_north.py`) | none | commands on rows, look-ups by id and by name | OVSDB |
| Transactions (`ovn_connection.py`) | the open transaction of a request | `transaction()`, `execute()` | OVSDB |
| Northbound database (external) | Logical_Switch, Logical_Switch_Port, Logical_Router, Logical_Router_Port, DHCP_Options, Port_Group, ACL rows | atomic transactions | `ovn-northd` |
| Security groups (`ovndb/ovn_security_groups.py`, `ovndb/acls.py`) | Port_Group and ACL rows | groups, rules, membership of ports, port security | Neutron API |
| Authentication (`auth/`) | plug-in chosen at start | create and validate tokens, authorize by name, group or role | oVirt engine's SSO over HTTPS |
| Configuration (`ovirt_provider_config*.py`) | values read at start | look-ups | all |
| Driver (`driver/`) | none of the provider's | VDSM hooks on the hosts | VDSM, OVS |

### What is hard

* **A request is a sequence of OVSDB transactions.** Most handlers run
  `ovn_connection.execute(cmd)` once per row they change. A crash, a lost
  database connection or an error in between leaves the first writes; a handler
  that finds out late that it must refuse has already written.
* **A transaction that commits when its handler fails.** `transaction()` commits
  in `finally` (`ovn_connection.py:94-102`): a request refused half way through
  its body commits the commands queued so far.
* **References by name and by UUID.** A port is known by its row's name in the
  REST API and by its UUID in the database; some comparisons mix the two and are
  always false (`neutron_api.py:1112`, `1248`, `1516`).
* **Facts kept twice.** A subnet's `gateway_router`, a router's
  `ovirt_gateway_port`, a network's `exclude_ips`, a port's `device_owner` and
  `ovirt_security_groups` repeat what other rows say, and each is updated by
  some handlers and not by others.
* **Address allocation by two programs.** The provider checks that a fixed
  address is free; `ovn-northd` allocates dynamic addresses at the same time.

### What makes each component correct

* *Topology*: a network has one subnet; every reference between rows resolves;
  a router port and its switch port come and go together; a gateway's address
  is reserved as long as the gateway; no two ports share an address; ports and
  routers go away only when nothing depends on them.
* *Security groups*: the groups a port lists are those that contain it; a port
  with port security is in the drop-all group, one without is not; a group in
  use, or referred to by a rule, stays.
* *Transactions*: seen from outside a request, its transactions are one step;
  one that is cut short leaves nothing that endangers what others have.
* *Leases*: a guest is offered the lease of its own network, with the network's
  MTU, and IPv6 routers advertise the same.
* *Authentication*: a request that is answered was authorized; an SSO failure is
  answered with the error that says so.
* *REST front end*: every path and method has one handler, and no route hides
  another.

## Module `Topology`

### State

Rows are functions from identifiers to records, `None` for a row that is not
there.

| variable | in the database |
| --- | --- |
| `networks` | Logical_Switch rows |
| `exclude[n]` | `other_config:exclude_ips` of a switch, a set of addresses |
| `dhcp[s]` | DHCP_Options row of a subnet: `net` (`ovirt_network_id`), `gateway` (`options:router`), `router` (`external_ids:gateway_router`) |
| `lsp[p]` | Logical_Switch_Port row: `net`, `kind` and `ip` (what `type`, `addresses` and `dynamic_addresses` say together), `routerOwned` (`ovirt_device_owner` is one of the two router owners) |
| `lrp[p]` | the Logical_Router_Port named `lrp` + the name of port `p`: `router`, `ip` (`networks[0]`) |
| `routers` | Logical_Router rows |
| `gwPort[r]` | `external_ids:ovirt_gateway_port` of a router |
| `defRoute[r]` | the default route among `static_routes`: none, the external gateway's, or a user's |

`OldPorts` are switch ports that a release from before the transactional
redesign (`docs/specs/tx_behavior.md`, alternative 3) named by their row's UUID.
They matter because `update_router` compares gateways by
`uuid.UUID(existing_gw_lsp_id)`: only a port named by its row's UUID is found,
so only such a gateway can be replaced. `UpgradedDb` starts with one.

### Actions

One action per handler, with all its writes and with those it has committed when
it answers with an error. Requests are served one after the other by one thread,
hence a request is one step; what a crash between its transactions leaves is a
behaviour of `TopologySteps`. A request refused before its first
write changes nothing, and is no action but a stuttering step.

| action | handler |
| --- | --- |
| `AddNetwork`, `DeleteNetwork` | `add_network`, `delete_network` |
| `AddSubnet`, `UpdateSubnet`, `DeleteSubnet` | `add_subnet`, `update_subnet`, `delete_subnet` |
| `AddPort`, `UpdatePort`, `UpdateRouterPort`, `DeletePort` | `add_port`, `update_port` (of a port that is no router port, of one that is), `delete_port` |
| `AddRouter`, `AddRouterWithGateway` | `add_router` |
| `UpdateRouterRoutes`, `UpdateRouterAddGateway`, `UpdateRouterReplaceGateway` | `update_router` |
| `DeleteRouter` | `delete_router` |
| `AddInterfaceBySubnet`, `AddInterfaceByPort` | `add_router_interface` |
| `DeleteInterfaceByPort`, `DeleteInterfaceBySubnetAndPort`, `DeleteInterfaceBySubnet` | `delete_router_interface` |
| `AssignAddress` | `ovn-northd` filling in `dynamic_addresses` (external) |

Abstracted: names, MAC addresses, prefixes and families of addresses, DNS
options, static routes other than the default one; MTU, DHCP options and
physical networks (`Dhcp`), port security and security groups
(`SecurityGroups`).

### Runs

| run | instance | what it shows |
| --- | --- | --- |
| `topology_addresses` | 1 network, 1 subnet, 3 ports (1 old), 2 routers, 3 addresses | `GatewayAddressReserved`, `NoAddressClash`, `ReservationsOutlastRequests` |
| `topology_rows` | 2 networks, 2 subnets, 3 ports (1 old), 1 router, 2 addresses | `TypeOK`, `NetworksWellFormed`, `RouterPortsPaired`, `GatewayPortsConsistent`, `GatewayRouteNeedsGateway`, `PortsLeaveProperly`, `RoutersLeaveEmpty` |

Why these bounds are enough to be interesting: an address conflict needs two
ports on one network and a gateway whose reservation is given back while
another is held, hence two routers, three ports and three addresses on one
network. A reference between rows goes wrong between two networks (a subnet or
a port of another one) and needs no second router. Three ports allow a router an
external gateway, an interface and one port more. In both runs every action
fires. The theorems below show the same properties for every instance. Nothing
in the model counts, so there is no bound but the sets themselves; networks,
subnets, ports, routers and addresses are symmetric.

No fairness is assumed: nothing is claimed about what must eventually happen.
A REST request may or may not come, and `ovn-northd` may be down.

### What does not hold

`Claim_NewPortsTakeFreeAddresses.cfg` is a run whose counterexample is a
sequence of requests, and a finding of `PROJECT.json` that quotes the sentence:
the address of a router interface counts as free, because
`is_ip_available_in_network` looks at each switch port without its router port
(`ip.py:133`).

Seen while modelling, without a run of their own; the first three are behaviours
of `Topology`:

* A `PUT` that fails has already committed a new `device_owner` on a router
  interface's port (`neutron_api.py:470`), and `delete_port`, which looks at
  nothing else, then removes that port, although it "cannot be deleted directly
  via the port API" (`validation.py:236-239`).
* Added by port, a second interface on a subnet passes the check of
  `neutron_api.py:1235-1238`, which compares a UUID with strings (`1248`).
* When `update_subnet` has changed the gateway address in between, removing the
  interface by port leaves the subnet connected to the router (`1442`); the router
  can go, the subnet never (`validation.py:270-272`).
* A subnet is deleted while an external gateway connects its network to a
  router: `delete_subnet` looks at `gateway_router` only, which interfaces set
  and gateways do not.
* A user's default route is refused only when the same request names a gateway
  network (`neutron_api.py:1053`): on a router that already has a gateway it is
  accepted, although "a default static route can not be added when an external
  gateway is defined on a router" (`validation.py:261-263`).
* A refused `DELETE` of a router has already removed its external gateway
  (`neutron_api.py:1127`), where `docs/specs/tx_behavior.md:24` wants a request
  to take effect as a whole or not at all. `RoutersLeaveEmpty` holds all the
  same: what goes in the end goes empty.

### Proofs

`Topology_proofs.tla` proves every property of the two passing runs for all
values of the constants, from the one assumption `IdAssumption` (`None` is no
identifier and no row, and `OldPorts` are ports).

The properties are not inductive by themselves. The inductive invariant is

    IInv == TypeOK /\ NetworksWellFormed /\ Paired /\ Addresses /\ GatewayRouteNeedsGateway

* `Paired` is `RouterPortsPaired` and `GatewayPortsConsistent`, which hold only
  together: that a removed interface is no router's gateway follows from one, and
  that a gateway key names a port of its own router from the other.
* `Addresses` replaces statements about routers by statements about ports:
  every external gateway's address is reserved in its network
  (`GatewaysReserved`), and the addresses of a network's ports are distinct
  (`AddressesDistinct`). `NoAddressClash` and `GatewayAddressReserved` follow
  (`AddressesSuffice`). Neither is inductive without the other: giving one
  gateway's address back keeps the others reserved only because gateways'
  addresses differ, and new addresses differ from gateways' only because those
  are reserved.

`InitIInv` and `StepIInv` are split into one lemma per conjunct, with one step
per action. The three action properties follow from the invariant and one step.
Not proved, only model-checked: that the sentence above is violated.

## Modules `TopologySteps` and `TopologyRefinement`

### State and actions

`TopologySteps` extends `Topology` with what is between two transactions. A request
is a job: `job` holds the local variables of its handler and `at`, the write it does
next. `Start` has the looks and guards a handler makes before its first write, one
operator per handler; `Write` does the write and goes on to the one that follows
(`Following`, with the looks the handler makes on the way: whether the router has
ports left, whether the address is in `exclude_ips`). Each write is an operator
(`Reserve`, `CreatePort`, `CreateRouterPort`, `Own`, `Plug`, `Connect`, `SetKey`,
`AddRoute`, ..., `DropRouter`) that says what OVSDB does to the rows it finds.
`VisitPort` is the head of the loop of `_delete_router_interface_by_subnet`, in any
order of `lr.ports`. Requests with one write that depends on nothing they read are
the actions of `Topology` (`OneWrite`). `late` is the queue of the connection.

`Faults` says what may go wrong:

| fault | what it is |
| --- | --- |
| `"abandon"` | the provider dies between two transactions, or a transaction fails and its error ends the request: what was committed stays |
| `"skip"` | one of the two writes made by `DbSetCommand.execute` fails, which nobody notices (`db_set_command.py:30`) |
| `"late"` | a commit takes more than 100 seconds (`ovn_connection.py:58`): the request ends with an error, the transaction stays in the queue and is committed before any later one |
| `"northd"` | `ovn-northd` gives out an address between two transactions of a request |

`TopologyRefinement` adds `before`, the database as it was when the request at work
began, and shows that under it `TopologySteps` implements `Topology`: whatever a
handler did in between, from outside a request it is the one step that `Topology` has.

Abstracted as in `Topology`; a user's routes are the default route only; a
security group's requests have no steps here.

### Runs

| run | instance | what it shows |
| --- | --- | --- |
| `steps_cut_short` | `"abandon"`; 1 network, subnet and router, 3 ports (1 old), 3 addresses | `StepsTypeOK`, `NetworksWellFormed`, `GatewaysStayReserved`, `NoAddressClash`, `RouterPortsLeaveFirst`, `RoutersLeaveBare` |
| `steps_lost_writes` | `"skip"`; the same with 2 addresses | `GatewaysStayReserved`, `NoAddressClash`, `RoutersLeaveBare` |
| `steps_late` | `"late"`; 2 ports, 2 addresses, `MaxLate` = 1; 5.3 million states | `GatewaysStayReserved` |
| `router_refinement` | no fault; 1 network, subnet and router | `RequestsAreAtomic` |

Why these bounds: a request writes to the rows of one router, one network and two
ports (the gateway it takes away and the one it plugs), and after it was cut
short the next one meets what it left: one router and three ports have all of it. A
third address lets one gateway's reservation leak while another is held. `MaxLate`
bounds the queue: with one late transaction every other request can come between a
time-out and its commit. What it takes several late transactions in a row to reach is
out of this run's sight; see below.

No fairness: nothing is claimed about a request that is not served to its end.

* `GatewaysStayReserved`: as long as the gateway key of a router names a port that is
  plugged into it, the port's address is in `exclude_ips`, at every instant and under
  each of the faults, though not under all of them at once. The order of the writes is
  what matters: the reservation is the first and its release the last. With a late
  transaction it rests on the queue's order.
* `RouterPortsLeaveFirst`, `RoutersLeaveBare`: the switch port of a router goes
  after its router port, the router after its ports and its key, so that a request
  that is cut short can be repeated.
* `RequestsAreAtomic`: see above.

### What does not hold

A request that is cut short may leave, and nothing cleans up: a reserved address
without a gateway; a switch port without its router port; a router port without a
key, which then is an interface; a network without the subnet it had. Under `"late"`
`RoutersLeaveBare`, `RouterPortsLeaveFirst`, `NoAddressClash` and
`NetworksWellFormed` fail: the commit comes after a later request has looked. Under
`"abandon"` `GatewayRouteNeedsGateway` fails (the key goes before the route).

`"abandon"` and `"skip"` together break `GatewaysStayReserved` and with it
`NoAddressClash`. A lost write of type and addresses leaves the port of an external
gateway, key and all, looking like any other port; a removal that is cut short after
its first write takes its router port only; `update_port` then gives it an address, and
`add_router_interface` with this port makes it the gateway again, with an address that
nobody reserved. `Faults = {"abandon", "skip"}` in `Steps_lost_writes.cfg` shows it in
23 states. Under `"late"` the same takes three late transactions in succession
(`MaxLate` = 3: type and addresses, key and route), so that `update_port` looks at the
port before its type is written; `MaxLate` = 1 excludes it.

### Proofs

`TopologySteps_proofs.tla` proves these for all values of the constants, from
`IdAssumption`, `FaultAssumption` and `JobAssumption` (`None` is no job). What a
theorem assumes of `Faults` is in its statement, and is what the property needs:

| theorem | property | faults allowed |
| --- | --- | --- |
| `StepsTypeCorrect` | `StepsTypeOK` | all |
| `StepsWellFormed` | `NetworksWellFormed` | `"abandon"`, `"skip"`, `"northd"` (fails with `"late"`) |
| `RouterPortsFirst` | `RouterPortsLeaveFirst` | the same (fails with `"late"`) |
| `BareRouterRemoval` | `RoutersLeaveBare` | the same (fails with `"late"`) |
| `StepsReserveGateways` | `GatewaysStayReserved` | `"northd"`, and `"abandon"` or `"skip"` (fails with both) |
| `StepsUniqueAddresses` | `NoAddressClash` | `"abandon"` or `"skip"` (fails with both, with `"northd"` and with `"late"`) |

Every invariant speaks of the job at work: what its handler has seen, and why the
transactions since have not made it untrue. Each is a conjunct of the next:

* `TypedSteps`: a job at work or in the queue is at a place its request comes to
  (`Placed`) and has the local variables the writes from there on need (`Filled`).
  A write of `None` into a row would break the types, and a late one is made long
  after its request has ended.
* `OrderedSteps`: the queue is empty, networks are well formed, and the database is
  what the job expects (`Expected`): the network a subnet is written to has none,
  the network that is about to go has no subnet left, the router port of a switch port
  that is about to go is gone, and so on. Without it nothing says that a delete meets
  what its look has found.
* `ReservedSteps`: besides, two gateways have different addresses (`GatewaysApart`),
  and the job is `Careful`: its new gateway's address is in `exclude_ips` and
  nobody else's until the key is set, and what it is about to give back belongs to
  no gateway any more. The port of a gateway must not be plugged in once more: either
  every key names a port of kind router (`KeysNameRouterPorts`), which is what the
  handlers look at and what `"skip"` takes away, or every port that a key names has its
  router port, and `lrp_add` refuses a second one (`KeysPlugged`), which is what
  `"abandon"` takes away. One of the two is enough.
* `DistinctSteps`: besides, addresses of a network's ports differ (`AddressesApart`),
  and an address that a handler found free is free when it is written. A port counts
  with all it has (`Held`), the address of its row also when it is a gateway: a router
  that loses its gateway leaves the port with that one. `ovn-northd` between look and
  write would take the address, so `"northd"` is excluded.

`StepTyped`, `StepOrdered`, `StepReserved` and `StepDistinct` have one case for the
start of a request, one for each write, and one for each fault.
Only model-checked: `GatewaysStayReserved` under `"late"`, with one late transaction
at a time.

`TopologyRefinement_proofs.tla` proves, from the same assumptions and `Faults = {}`,

* `RequestsAtomic`: `RefSpec => RequestsAreAtomic`, the refinement, for any networks,
  routers, ports and addresses;
* `SoundBetweenRequests`: whenever no request is at work, all that `Topology` promises
  of the rows holds of the rows as the transactions have left them (`SoundAtRest`). It
  follows from the refinement's invariant, not from `TopologySteps` alone: single
  transactions break the pairing of ports, the gateways' keys and their routes.

The invariant, `RefInv`, says of each place a request can be at what the database is
as a function of `before` and of the job's local variables (`Progress`, one operator
per kind of request). For the requests that plug or unplug a gateway this is one
operator per column (`RoutersNow`, `ExcludeNow`, `PortsNow`, `KeysNow`, ...), put
together from what the request has already done (`Unplugged`, `Removed`, `Unkeyed`,
`Reserved`, `Wired`, ...); for `_delete_router_interface_by_subnet` there is a set of
ports that are gone, whichever the loop has visited first. `Found` and the like say
what the handler has looked up, in terms of `before`: a look that is made between two
writes (has the router ports left, is the address in `exclude_ips`) must have the
outcome that the one step of `Topology` takes it to have. For this two things must be
known of the database before the request:

* `Idle!IInv`, the inductive invariant of `Topology_proofs`, instantiated with the
  columns of `before`: a network has one subnet, so that the release of a gateway's
  address concerns the network of the port; the address of a gateway is in
  `exclude_ips`, so that the request does not stop before its last write; a port that
  is unplugged has its router port.
* `NoStrayRoutes`: a router that does not exist has no default route, so that
  `add_router` may write the gateway's.

`WriteImplements` has one lemma per kind of request: each write but the last leads
from one place to the next (`Progress'`) and leaves `before` as it is; with the last
one the columns are those after the step of `Topology` (`Goes`, `Ends`). `StepImplements`
adds the requests with one write (`OneStep`: the same action in both) and those that
start (`StartProgress`). The proof is for the code as it is when every transaction is
committed; with a fault the refinement does not hold and is not claimed.

## Module `Dhcp`

### State

The MTU of a network is kept in up to three places, and a port names the row that
serves it.

| variable | in the database |
| --- | --- |
| `netMtu[n]` | `external_ids:mtu` of a switch |
| `subnet[s]` | DHCP_Options row: `net`, `version`, `mode` (`ovirt_ipv6_address_mode`), `mtu` (an option, or an external id if IPv6), `gateway`, `router` (`gateway_router`) |
| `lsp[p]` | switch port: `net`, `kind` (guest, localnet or router), `addr` (the form of `addresses`), `dhcp` (`dhcpv4_options` or `dhcpv6_options`) |
| `lrp[p]` | router port: `router`, `ip`, `mtu` (in `ipv6_ra_configs`) |
| `networks`, `routers` | Logical_Switch and Logical_Router rows |
| `ambiguous` | history, in no row: connected subnets whose gateway address was changed, or was found to be another network's, too; only properties read it |

### Actions

The handlers of networks, subnets, ports and interfaces once more, with these
columns instead of those of `Topology`. `AddNetwork` and `UpdateNetwork` have the
physical network of the request; `UpdateNetworkCutShort` is the update that fails
when it looks for the router of an IPv6 subnet, and commits the first half of
its transaction. `GatewayPorts` is `get_lrp_by_subnet`, which takes the first of
the router ports it finds: any of them, of the subnet's router or, without one, of
all, whichever network they are on: nothing in the provider keeps two networks from
having the same addresses, and `IPv4` and `IPv6` are any network's. `Advertisers` are
the ports an update of a network may write its MTU to, `Mistaken` the address if one
of them is another network's, and `Remember`, a conjunct of every action, puts the
subnets that have it into `ambiguous`. `AddSubnet` and `DeleteSubnet` have a loop
over the ports of the network which writes nothing, since the ports are handed on
without a MAC address (`neutron_api.py:814`, `918`): a port made before its subnet
is offered no lease until it is updated, as `README.adoc:92` says. `Unserved` is
OVSDB's: a reference to a row that goes is taken out of the port (external).

Abstracted: addresses other than gateways', DNS, lease times, VLAN tags, the
prefix of IPv6 subnets (a gateway address stands for both). External gateways are left
out: they advertise nothing, though one at a subnet's gateway address could be found
by the look-up in place of the interface.
The owner of a port is left alone: an interface goes with its router port only.

### Run

`dhcp`: two networks, two subnets, two ports, two routers, one IPv4 address and two of
IPv6 that both networks may have, two MTUs of which one is the default; 780 000
states. Two networks tell the lease of one from that of the other, and with two subnets
both have one at a time, connected to the same or to different routers, at the same
address or not; two addresses tell an interface at the gateway's address from one
beside it; two MTUs tell whose MTU was written where; a second localnet port needs two
ports. No handler looks at the mode but `fixed_ips_require_stateful_dhcp`, which has a
run of its own with both modes; an MTU of zero differs from `None` only in being
stored. The run has neither, that run and the theorems have both. Nothing counts.

* `LeasesHaveNetworkMtu`: a subnet offers the MTU its network was given, whichever
  came first and even after an update that failed half-way.
* `LeasesOfOwnSubnet`: a port is offered no lease but that of its own network, and
  none of IPv4 once it is plugged into a router.
* `GatewayAdvertisesMtu`: while an IPv6 subnet is connected and is not `ambiguous`, a
  port of its router on its network, at its gateway address, advertises the network's
  MTU. Subnets of two networks with one gateway address are not excepted as such: as
  long as every look-up for the address found ports of its own network only (both
  connected, to different routers), the two advertise their own.
* `OneLocalnet`: a network has one port to a physical network at most.

No fairness: nothing is promised about when a request comes.

### What does not hold

`Claim_FixedAddressesOnStateful.cfg`: `fixed_ips_require_stateful_dhcp` refuses
nothing, because the mode is kept as `dhcpv6_stateless`
(`neutron_api_mappers.py:650-655`) and compared with `dhcpv6-stateless`
(`validation.py:74-77`). For the same reason the option `dhcpv6_stateless` is never
set (`neutron_api.py:848`). Without a run: an MTU of zero is stored for the
network and not passed on to its subnet; an update of a localnet port writes a
MAC address over the word `unknown`, and `delete_port` removes it; after a gateway
address was changed the advertised MTU may be an old one; an update of the MTU of a
network whose IPv6 subnet has no router searches the ports of all routers for the
gateway address, and one whose subnet has a router all ports of that router
(`ovn_north.py:541-555`): if another network's port has the address, that port may get
this network's MTU and address mode (`neutron_api.py:297-329`), and in `Dhcp.cfg`
`GatewayAdvertisesMtu` fails if only changed gateway addresses are excepted; deleting a
subnet leaves `other_config:subnet`.

### Proofs

From `DhcpAssumption` (`None` is no row and no
identifier, the default MTU is not zero), `Dhcp_proofs.tla` proves all five
properties for any networks, subnets, ports, routers, addresses and MTUs. The
inductive invariant is

    IInv == TypeOK /\ Wiring /\ LeasesHaveNetworkMtu /\ LeasesOfOwnSubnet
              /\ GatewayHasPort /\ OneLocalnet

`Wiring` says how rows refer to one another: the networks of subnets and ports are
there, a network has one subnet at most, and a router port has a router and a switch
port of kind router. `GatewayHasPort` strengthens `GatewayAdvertisesMtu` to
connected subnets of either version whose network has no MTU yet: the port that is
to advertise it exists from the moment the subnet is connected. Nothing is assumed of
the addresses of different networks. It is inductive because an update of the
MTU of the subnet's own network writes to one of the ports `GatewayPorts` finds, which,
unless the subnet becomes `ambiguous`, is on that network and on the subnet's router and
is then the one that advertises; because an update of another network's writes to a
port of the subnet's network at the subnet's address only if that address is `Mistaken`,
and then the subnet becomes `ambiguous`; and because a port that is taken away by itself
takes the connection along if it had the gateway's address. Each conjunct has a lemma
with a step per action; what an action leaves alone is said once, in lemmas on the
helpers (`SubnetsWith`, `Served`, `Unserved`) and on requests that leave the router
ports as they are (`SteadyPorts`).

## Module `SecurityGroups`

### State

| variable | in the database |
| --- | --- |
| `groups` | Port_Group rows; `Default` and `DropAll` are the two the provider creates itself |
| `members[g]` | `ports` of a group |
| `rules[g]` | its ACL rows: action, direction and the remote group, if any |
| `rev[g]` | `external_ids:ovirt_revision_number` |
| `port[p]` | Logical_Switch_Port row: `mac`, `security` (the address in `port_security`), `listed` (`external_ids:ovirt_security_groups`) |

A group stands for its row. Requests name it by its id, and a port may list
`Default` either way (`Refs`): `add_port` writes the name, an update the id it
was given, and `_update_port_security_groups` compares the two as they are
written. This is why `GroupOf` exists and where one of the findings comes from.

### Actions

`AddPort`, `AddPortRefused` (the row committed before a refusal), `UpdatePort`,
`DeletePort`, `AddSecurityGroup`, `DeleteSecurityGroup`, `UpdateSecurityGroup`,
`AddSecurityGroupRule`, `DeleteSecurityGroupRule`: the handlers of the same
names, one step each. `AddPort` and `UpdatePort` create `Default` and `DropAll`
with their rules on first use, as the code does. The commands of a port request
are one transaction: one that names a group that is not there aborts it, and the
request changes nothing.

Abstracted: a rule's protocol, port range and prefix (a rule is its direction and
remote group), names and descriptions of groups, and the network of a port.
Assumed: no request asks for a group named `DropAll` (`Requested`).
With such a group, whose row would then be taken for the provider's own,
`SecuredPortsDropped` fails; `Default` may be asked for, and that is modelled.

### Run

`security_groups`: one group besides the two of the provider, two ports, one MAC
address, revisions up to `MaxRev` = 2 (the one bound of the model: a request that
would go beyond it is not made). Two ports are what distinguishes "the port
leaves the group" from "the group is emptied"; one requested group beside
`Default` gives every difference between old and new groups (kept, added,
removed); with one MAC address a port still has port security or none. Two
revisions are enough to see two changes of one group.

* `SecuredPortsDropped`, `OnlySecuredPortsDropped`: the ports in `DropAll` are
  those with port security, and `DropAll` drops. A port that misses one is open,
  one that is in it without port security is cut off.
* `ListedGroupsMatch`, `ListedGroupsExist`: what a port lists and which groups
  hold it agree (`Default` apart, see below), and no port lists a group that is
  gone.
* `RevisionsTellRules`: a step that changes the rules of a group that stays gives
  it a new revision, so equal revisions mean equal rules.

No fairness: nothing is promised about when a request comes.

### What does not hold

`Claim_RemoteGroupsExist.cfg`: a group another group's rules
refer to is deleted, and every list or show of that other group fails from then
on. Without a run: a port that has `Default` by name and is updated with the id of
`Default` is added to the group and then taken out of it, and lists it still
(`neutron_api.py:706`), where `docs/provider_api_description.adoc:118` says
`security_groups` are "the IDs of security groups applied to the port"; a port created with port security and with groups of its
own is in `Default` as well and does not list it (`neutron_api.py:438`,
`docs/provider_api_description.adoc:118`); an update of a MAC address without
`port_security_enabled` keeps the old address in `port_security`
(`neutron_api.py:602`, `README.adoc:82-84`); a `PUT` of a security group without
the optional name is answered with 500.

### Proofs

From `NameAssumption` (the names of the provider's groups, the generated ones and
`None` are different, and `MaxRev` is a natural number),
`SecurityGroups_proofs.tla` proves all six properties for any groups, ports, MAC
addresses and bound. The inductive invariant is

    IInv == TypeOK /\ DropAllDrops /\ MembersLive /\ SecuredPortsDropped
              /\ OnlySecuredPortsDropped /\ ListedGroupsMatch /\ ListedGroupsExist

`DropAllDrops` (whatever rules are added to or removed from other groups,
`DropAll` keeps its own) and `MembersLive` (a group's ports exist) are
what the properties lack to be inductive: without `MembersLive` a new port could
reuse the row of a port still in a group. Requests on ports go through two
helpers, `AssureKeeps` (the provider's groups exist afterwards) and `PortRowKeeps`
(membership follows the row), and each handler is then one lemma.

## Module `Requests`

### State

| variable | what it is |
| --- | --- |
| `plugin` | `auth.core.plugin`, loaded once: by user name, group or role; the magic token; none |
| `req[s]` | the request a server's thread serves: operation, token, where it is (`at`), the engine's reply to its present call |
| `answer[s]` | the last answer of a server: outcome, and what `seen` and `doubt` were |
| `session`, `entitled` | of oVirt engine (external): what became of each token, and whether its user has the name, group or role |
| `seen[s]`, `doubt[s]` | history: the token was good (was not good) at one instant since the request was received and its token is known |

`Observe` is conjoined to every step and keeps the history; nothing reads it but
the properties.

### Actions

Of a server: `Receive`, `Dismiss` (no such path or method, Keystone's requests
without a token, a Keystone body that cannot be parsed), `Dispatch`, `CreateToken`,
`ValidateToken`, `Proceed` (what follows from a reply), `Run` (the response, or
the Neutron handler: one step, which is `Topology` and `SecurityGroups`),
`TimeOut`, `Fail`. Of the engine: `IssueToken`, `ReplyToCall`, `ChangeSession`,
`ChangeEntitlement`. A plug-in makes one to three calls to authorize a token, and
Keystone up to four; between any two of them sessions end, users lose groups, and
the other server goes on.

Abstracted: names of users, groups and roles to whether the engine finds the user
entitled; HTTP codes to the name of the error. A request counts as received
when its headers and body have been read. A search of the engine's API that finds
nobody counts as a failed call, since it may have been made with rights that
see nobody.

### Run, fairness

`requests` (module `MCRequests`): both servers, two tokens, every plug-in,
`FairSpec`; 330 654 states.
Two tokens let one be created while another is checked, or be ended; with two
servers there are never more than two in use. Nothing counts.

Fairness is per server: weak fairness of what its thread does (`Provider`), and
of `TimeOut`. The first says that the thread is scheduled; that the handler of a
Neutron request comes to an end rests on the OVSDB commits, which give up
after 100 seconds (`ovn_connection.py:58`). The second is the time-out
the plug-in hands to every call to the engine (`_timeout` in
`auth/plugins/ovirt/plugin.py`; "connection and read timeout", `README.adoc:227`).
The engine has no fairness: it need never answer. Under these `Answered` shows
that every request is answered, so that the one thread gets to the next one.

* `Authorized`: a request that ran had a token that was active *and* entitled at
  one instant after it was received. The plug-in by group asks for both in one
  call, which is why this holds whatever happens between calls.
* `GoodTokensServed`: if the token is good all the while and no call fails, the
  request is not refused (the plug-ins by name and group, and the static ones).

The same is false of `AuthorizationByRole`: the engine's answer is unwrapped with
`data.values()[0]` (`auth/plugins/ovirt/api.py:63`), which Python 3 does not allow,
and every request of a user whom the search finds ends with status 500
(`README.adoc:188-190` says that such a token is authorized). Also seen: a token
created for a request that is then refused, or whose reply is lost, stays open in
the engine, and every error the single sign-on service describes is answered with
401.

### Proofs

From `TokenAssumption` (the magic token is no token of the engine, `None` is
none of the values), `Requests_proofs.tla` proves `TypeOK`, `Authorized` and
`GoodTokensServed` for any set of tokens. The inductive invariant is

    IInv == TypeOK /\ RowsOK /\ HistoryKnows /\ Authorized /\ GoodTokensServed

`RowsOK` says what a request's place and reply tell: a call the plug-in makes, a
reply that call can have, and in the history what the engine said (a request
allowed to run was seen good, a refused one is in doubt). `HistoryKnows` says that
the history includes the present. `Answered` is a liveness property and stays with
TLC.

## Module `Routes`

Pure operators, no state. A path is a sequence of parts; a node of the tree that
the decorator `rest` grows is the path from its root. `Registered` has the three
assertions of `rest`, `Child` and `Walk` are `get_response_handler`, `Selected` its
last step. `NeutronRoutes` and `KeystoneRoutes` are the decorated handlers of the
two servers. A request that reaches nothing is the one that `Requests` dismisses;
on the Neutron server this comes before the token is looked at
(`selecting_handler.py:170-174`).

The walk never turns back: a constant part hides a parameter in its place, whatever
follows. The run `requests` evaluates two invariants that depend on no variable:

* `WalkFindsMostSpecific`: for every table of up to three routes of up to two
  parts (two constants, two parameters, the wildcard) that `rest` accepts, and every
  request of up to two parts, the walk finds the routes that match and to which no
  other is preferred part by part. Three routes are what it takes to hide a match
  of one behind the first part of another while a third is there; a part beyond the
  second repeats the case.
* `NoRouteHidden`: for the routes of the two servers the walk finds what plain
  matching finds, for every path of up to three parts over all constants of the
  routes and an id, and one handler per method. In particular `PUT` and `DELETE`
  without an id are refused, although `_validate_request` never does it: it is
  handed the function `id` (`base_handler.py:138`).

### Proofs

The run stops at three routes and three parts; `Routes_proofs.tla` proves the same
for any table and for requests of any length. The assumptions are
`ParameterAssumption` (the wildcard is no parameter) and `RoutePartAssumption` (the
parts of the servers' routes in braces are parameters and the others are not, as
`_get_parameter_name` tells them apart).

* `WalkMostSpecific`: for every table that `rest` accepts, over any parts, the walk
  finds exactly the routes that match and to which no other is preferred. The one
  request left out has the part `*` itself, which `Child` takes for a constant.
* `OneHandler`: no two routes of an accepted table are selected for one request.
* `UnmixedHidesNone`: a table without wildcards hides no route if no constant part
  stands beside a parameter (`Unmixed`); `ServersHideNone`: the routes of Neutron and
  Keystone form such tables, so that each request, however long its path, gets the
  one handler of the route that matches it.
* `SmallTablesWalkWell` and `RoutesAreReached`: the two invariants of the run, as
  instances of the above.

The walk is a recursive function over the length of the request (`Visited`). The
library's induction rules take a predicate, which the provers cannot instantiate,
so `SetInduction` takes a set of numbers instead, and follows from `WFMin`: were the
set not complete, it would miss a least number. `VisitedSteps` uses it to show that
the function exists, `VisitedBest` that after `k` parts the walk is on a route iff
its first `k` parts are the best at each of them (`Best`). One step of this is
`StepIsBest`; it needs that an accepted table has one parameter at most below a node
(`OneParameter`), which `_validate_path_parameters` is for. For the servers'
tables, `Regular` says what their routes have in common: three parts at most, the
second one the parameter that belongs to the first and no other one a parameter.
`NeutronRegular` and `KeystoneRegular` show it route by route and `RegularTable`
that this is enough.

## Plan

What is done is the state the provider keeps, request by request and transaction by
transaction, who may make a request and which handler gets it. What is left:

1. `GatewaysStayReserved` with `MaxLate` = 1 as a theorem (checked by TLC now): every
   part of `Expected` and `Careful` would have to hold of the one write in the queue.
2. Transactions of security group requests: the rule and the revision of its group
   are two, and the second is unchecked.
3. The query filter of lists, the difference of static routes in `update_router`,
   the match of an ACL: pure operators against a reference definition.

## Not modelled, and why

* Configuration: values read once at start, with defaults.
* `remove_chassis`: a script that deletes one row of the southbound database.
* The driver: hooks and tools on the hosts, which keep no state of their own and
  never talk to the provider; they run shell commands.
* Packaging, container images, playbooks, tests: no program logic.
* Logging, the wording of errors, TLS set-up, start and stop of the servers.
* The query filter of lists (`handlers/query_filter.py`): it reads the answer and
  nothing else.
* DNS options, static routes other than the default one, the match of an ACL.
* Southbound database: `ovn-northd` is modelled by the one column it writes that
  the provider reads.

Out of the prover's reach, and left to TLC: liveness under fairness (`Answered`) and
counterexamples.
