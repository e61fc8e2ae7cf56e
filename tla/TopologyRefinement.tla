------------------------- MODULE TopologyRefinement -------------------------
(***************************************************************************)
(* TopologySteps implements Topology: shown only from outside a request,   *)
(* the database goes through what a handler of Topology does in one step.  *)
(*                                                                         *)
(* before is a history variable, the database as it was when the request at *)
(* work began.  Nothing reads it but the properties.                       *)
(***************************************************************************)
EXTENDS TopologySteps

VARIABLE before

refVars == <<networks, exclude, dhcp, lsp, lrp, routers, gwPort, defRoute, job, late, before>>

Db == [networks |-> networks, exclude |-> exclude, dhcp |-> dhcp, lsp |-> lsp,
       lrp |-> lrp, routers |-> routers, gwPort |-> gwPort, defRoute |-> defRoute]

RefInit == StepsInit /\ before = Db
RefNext == StepsNext /\ before' = IF job' = None THEN Db' ELSE before
RefSpec == RefInit /\ [][RefNext]_refVars

Atomic == INSTANCE Topology
  WITH networks <- before.networks, exclude <- before.exclude, dhcp <- before.dhcp,
       lsp <- before.lsp, lrp <- before.lrp, routers <- before.routers,
       gwPort <- before.gwPort, defRoute <- before.defRoute

\* Without faults, the writes of a request put together are the one step that
\* Topology has for its handler, whatever the handler did in between and
\* whatever order its loop took.
RequestsAreAtomic == Atomic!Spec

=============================================================================
