----------------------------- MODULE MCRequests -----------------------------
(* Requests on one small instance, and Routes on the tables of the two     *)
(* servers and on every small table.                                       *)
EXTENDS Requests, Routes

Methods == {"GET", "POST", "PUT", "DELETE"}

PathsOf(parts, length) == UNION {[1 .. k -> parts] : k \in 1 .. length}

\* Every constant part of the routes, and one that stands for the ids.
Parts == (UNION {Range(r.path) : r \in NeutronRoutes \cup KeystoneRoutes} \ Parameters) \cup {"id"}

SmallRoutes == {Route("GET", path, path) : path \in PathsOf({"a", "b", "{x}", "{y}", "*"}, 2)}
\* Up to three routes.
SmallTables == {table \in {{q, r, s} : q, r, s \in SmallRoutes} : Accepted(table)}

WalksWell ==
  \A table \in SmallTables :
    LET tree == Tree(table)
    IN \A path \in PathsOf({"a", "c"}, 2) :
         Reached(table, tree, path) =
           {r \in table : Matches(r, path) /\ MostSpecific(table, r, path)}

HidesNone(table) ==
  LET tree == Tree(table)
  IN /\ Accepted(table)
     /\ \A path \in PathsOf(Parts, 3) :
          LET rows == Reached(table, tree, path)
          IN /\ rows = {r \in table : Matches(r, path)}
             /\ \A method \in Methods : Cardinality(Selected(rows, method)) <= 1
NeutronHidesNone == HidesNone(NeutronRoutes)
KeystoneHidesNone == HidesNone(KeystoneRoutes)

Routing(s) == req[s] # None /\ req[s].at = "route"

\* Whatever routes the server that looks for a handler has registered, in whatever
\* order: of those that match the request the walk finds the most specific one, part
\* by part, and it finds none only if each of them lost to a more specific part on
\* the way (rest and get_response_handler, which does not turn back).
WalkFindsMostSpecific == (\E s \in Servers : Routing(s)) => WalksWell

\* No route of Neutron and Keystone hides another: every request of whose path and
\* method there is a route gets its handler, the only one, and any other request is
\* refused.  So PUT and DELETE without an id are refused although _validate_request,
\* which looks at the function id, never does it.
NoRouteHidden ==
  /\ Routing("neutron") => NeutronHidesNone
  /\ Routing("keystone") => KeystoneHidesNone

=============================================================================
