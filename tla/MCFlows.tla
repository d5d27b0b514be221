------------------------------ MODULE MCFlows ------------------------------
(***************************************************************************)
(* The two halves of flow_allocation.py, which share no state: a behaviour *)
(* is one of FlowRoutes or one of FlowAllocation, as `part' says.          *)
(***************************************************************************)
EXTENDS FlowRoutes

(* A square behind a stub link, and a flow each way: the stub is the most  *)
(* loaded link whatever the flows do in the square, cycles included.       *)
MCLinks == << <<1, 2>>, <<2, 3>>, <<2, 4>>, <<3, 5>>, <<4, 5>> >>
MCArcs == MCLinks \o [i \in DOMAIN MCLinks |-> <<MCLinks[i][2], MCLinks[i][1]>>]
MCFlowPairs == << <<1, 5>>, <<5, 1>> >>

(* A square with a diagonal and a stub, node 5: between 1 and 4 there are  *)
(* two disjoint paths, to the stub there is one.                           *)
MCEdges == {<<1, 2>>, <<1, 3>>, <<2, 3>>, <<2, 4>>, <<3, 4>>, <<4, 5>>}
MCPairs == {<<1, 4>>, <<2, 1>>, <<1, 5>>}
MCDisjointPaths ==
    [st \in MCPairs |->
        CASE st = <<1, 4>> -> << <<1, 2, 4>>, <<1, 3, 4>> >>
          [] st = <<2, 1>> -> << <<2, 1>>, <<2, 3, 1>> >>
          [] st = <<1, 5>> -> << <<1, 2, 4, 5>> >>]

VARIABLES part, requests, scheme, flows, link_utilization, allocation
allocationVars == <<requests, scheme, flows, link_utilization, allocation>>

A == INSTANCE FlowAllocation WITH
        Edges <- MCEdges, Pairs <- MCPairs, DisjointPaths <- MCDisjointPaths,
        Rates <- {2}, LINK_CAPACITY <- 3, Units <- 2, K <- 2
ASSUME A!AllocationAssumption

MCInit ==
    /\ A!Init
    /\ \/ part = "allocation" /\ Idle
       \/ part = "routes" /\ Init
MCNext ==
    \/ part = "allocation" /\ A!Next /\ UNCHANGED <<part, vars>>
    \/ part = "routes" /\ Next /\ UNCHANGED <<part, allocationVars>>
MCSpec == /\ MCInit /\ [][MCNext]_<<part, vars, allocationVars>>
          /\ WF_vars(part = "routes" /\ Traversal)
-----------------------------------------------------------------------------
(* The variables of both halves have the values the code can give them.    *)
TypesOK == A!TypeOK /\ (part = "routes" => TypeOK)

(* FlowAllocation: the flows admitted never load a link beyond capacity,   *)
(* and the utilisation returned with them covers the load.                 *)
UtilizationCoversLoad == A!UtilizationCoversLoad

(* FlowRoutes: the traversal ends for every solution, cycles included.     *)
EveryTraversalEnds == part = "routes" => TraversalEnds
=============================================================================
