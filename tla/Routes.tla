------------------------------- MODULE Routes -------------------------------
(***************************************************************************)
(* Which handler a request is given to: the tree of path parts that the    *)
(* decorator rest grows, the walk of get_response_handler through it, and  *)
(* the routes of the two servers.                                          *)
(*                                                                         *)
(* A path is a sequence of parts.  A node of the tree is the path from its *)
(* root; a request that reaches no node, or a node without the method, is  *)
(* the one that Requests dismisses.                                        *)
(***************************************************************************)
EXTENDS Naturals, Sequences, SequencesExt

CONSTANT Parameters  \* the parts in braces

ASSUME ParameterAssumption == "*" \notin Parameters

Route(method, path, handler) == [method |-> method, path |-> path, handler |-> handler]

-----------------------------------------------------------------------------
(* rest: the tree, and the assertions that refuse a route *)

Tree(table) == UNION {{SubSeq(r.path, 1, k) : k \in 0 .. Len(r.path)} : r \in table}

Registered(table, r) ==
  /\ \A j, k \in DOMAIN r.path : r.path[j] = r.path[k] /\ r.path[j] \in Parameters => j = k
  /\ \A q \in table, k \in DOMAIN r.path :
       /\ k \in DOMAIN q.path
       /\ SubSeq(q.path, 1, k - 1) = SubSeq(r.path, 1, k - 1)
       /\ {q.path[k], r.path[k]} \subseteq Parameters
       => q.path[k] = r.path[k]
  /\ \A q \in table : <<q.method, q.path>> # <<r.method, r.path>>

\* The order in which the routes of a table are registered makes no difference.
Accepted(table) == \A r \in table : Registered(table \ {r}, r)

-----------------------------------------------------------------------------
(* get_response_handler: the walk, which never turns back *)

\* Fault: a parameter is tried before the part itself.
Child_ParameterFirst(tree, node, part) ==
  LET parameters == {Append(node, p) : p \in Parameters} \cap tree
      first == IF parameters # {} THEN parameters ELSE {Append(node, part)} \cap tree
  IN IF first # {} THEN first ELSE {Append(node, "*")} \cap tree

\* The node that a part of the request leads to, if any.
Child(tree, node, part) ==
  LET itself == {Append(node, part)} \cap tree
      parameter == {Append(node, p) : p \in Parameters} \cap tree
  IN CASE itself # {} -> itself
       [] itself = {} /\ parameter # {} -> parameter
       [] OTHER -> {Append(node, "*")} \cap tree

\* The node that so many parts of the request lead to, if any.
Visited(tree, path) ==
  LET at[k \in 0 .. Len(path)] ==
        IF k = 0 THEN {<<>>} ELSE UNION {Child(tree, node, path[k]) : node \in at[k - 1]}
  IN at
Walk(tree, path) == Visited(tree, path)[Len(path)]

\* The handlers of the node that the request reaches: none is PathNotFoundError,
\* and none of the method MethodNotAllowedError.
Reached(table, tree, path) ==
  LET at == Walk(tree, path) IN {r \in table : r.path \in at}
Selected(rows, method) == {r \in rows : r.method = method}

-----------------------------------------------------------------------------
(* The routes of the two servers *)

\* Fault: the part that says what to do is in the place of the router.
InterfaceRoutes_Swapped == {
  Route("PUT", <<"routers", "add_router_interface", "{router_id}">>, "put_add_router_inerface"),
  Route("PUT", <<"routers", "{router_id}", "remove_router_interface">>, "put_remove_router_interface")}

InterfaceRoutes == {
  Route("PUT", <<"routers", "{router_id}", "add_router_interface">>, "put_add_router_inerface"),
  Route("PUT", <<"routers", "{router_id}", "remove_router_interface">>, "put_remove_router_interface")}

NeutronRoutes == {
  Route("GET", <<"">>, "get_default"),
  Route("GET", <<"extensions">>, "get_extensions"),
  Route("GET", <<"extensions", "{alias}">>, "show_extension"),
  Route("GET", <<"networks">>, "get_networks"),
  Route("POST", <<"networks">>, "post_networks"),
  Route("GET", <<"networks", "{network_id}">>, "show_network"),
  Route("PUT", <<"networks", "{network_id}">>, "put_network"),
  Route("DELETE", <<"networks", "{network_id}">>, "delete_network"),
  Route("GET", <<"ports">>, "get_ports"),
  Route("POST", <<"ports">>, "post_ports"),
  Route("GET", <<"ports", "{port_id}">>, "show_port"),
  Route("PUT", <<"ports", "{port_id}">>, "put_ports"),
  Route("DELETE", <<"ports", "{port_id}">>, "delete_port"),
  Route("GET", <<"subnets">>, "get_subnets"),
  Route("POST", <<"subnets">>, "post_subnets"),
  Route("GET", <<"subnets", "{subnet_id}">>, "show_subnet"),
  Route("PUT", <<"subnets", "{subnet_id}">>, "put_subnets"),
  Route("DELETE", <<"subnets", "{subnet_id}">>, "delete_subnet"),
  Route("GET", <<"routers">>, "get_routers"),
  Route("POST", <<"routers">>, "post_routers"),
  Route("GET", <<"routers", "{router_id}">>, "get_router"),
  Route("PUT", <<"routers", "{router_id}">>, "put_router"),
  Route("DELETE", <<"routers", "{router_id}">>, "delete_router"),
  Route("GET", <<"security-groups">>, "get_security_groups"),
  Route("POST", <<"security-groups">>, "post_security_groups"),
  Route("GET", <<"security-groups", "{security_group_id}">>, "show_security_group"),
  Route("PUT", <<"security-groups", "{security_group_id}">>, "put_security_group"),
  Route("DELETE", <<"security-groups", "{security_group_id}">>, "delete_security_group"),
  Route("GET", <<"security-group-rules">>, "get_security_group_rules"),
  Route("POST", <<"security-group-rules">>, "post_security_group_rule"),
  Route("GET", <<"security-group-rules", "{security_group_rule_id}">>, "show_security_group_rule"),
  Route("DELETE", <<"security-group-rules", "{security_group_rule_id}">>, "delete_security_group_rule"),
  Route("GET", <<"floatingips">>, "get_floating_ips"),
  Route("GET", <<"tech">>, "get_debug")} \cup InterfaceRoutes

KeystoneRoutes == {
  Route("POST", <<"tokens">>, "post_tokens"),
  Route("GET", <<"tenants">>, "get_tenants"),
  Route("GET", <<"">>, "get_default")}

\* The parameters of these routes are the parts in braces (_get_parameter_name).
ASSUME RoutePartAssumption ==
  /\ {"{alias}", "{network_id}", "{port_id}", "{subnet_id}", "{router_id}",
      "{security_group_id}", "{security_group_rule_id}"} \subseteq Parameters
  /\ {"", "extensions", "networks", "ports", "subnets", "routers", "security-groups",
      "security-group-rules", "floatingips", "tech", "tokens", "tenants",
      "add_router_interface", "remove_router_interface"} \cap Parameters = {}

-----------------------------------------------------------------------------
(* What the walk is to find, said without a tree *)

Rank(p) == IF p = "*" THEN 3 ELSE IF p \in Parameters THEN 2 ELSE 1

Fits(r, k, path) == r.path[k] \in Parameters \cup {path[k], "*"}

Matches(r, path) == Len(r.path) = Len(path) /\ \A k \in DOMAIN path : Fits(r, k, path)

\* At each part, no route that has fitted as far as r is more specific there.
MostSpecific(table, r, path) ==
  \A k \in DOMAIN path :
    LET rivals == {q \in table : /\ k \in DOMAIN q.path
                                /\ SubSeq(q.path, 1, k - 1) = SubSeq(r.path, 1, k - 1)
                                /\ Fits(q, k, path)}
    IN \A q \in rivals : Rank(r.path[k]) <= Rank(q.path[k])

=============================================================================
