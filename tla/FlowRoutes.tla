----------------------------- MODULE FlowRoutes -----------------------------
(***************************************************************************)
(* From a solution of the multi-commodity flow model to routes: the end of *)
(* compute_mcf_flows in path_hopping/flow_allocation.py.  The solver gives *)
(* every flow an amount on every arc, F; compute_mcf_flow_routes takes the *)
(* flows one by one and traverse_graph_iterative walks the arcs a flow     *)
(* uses breadth first, from its source, with a list of incomplete paths.   *)
(*                                                                         *)
(* The whole of a flow is Units; the threshold of 0.001 below which an arc *)
(* is taken as unused lies below one unit.                                 *)
(***************************************************************************)
EXTENDS Integers, Sequences, FiniteSets, SequencesExt, FiniteSetsExt

CONSTANTS Arcs,           \* sequence of the arcs <<u, v>> in the order F lists them
          FlowPairs,      \* the admitted flows: a sequence of <<source, destination>>
          Rate,           \* the transmission rate of every flow
          LINK_CAPACITY,
          Units           \* bound: granularity of the amounts, and the largest on an arc

Arc == Range(Arcs)
Nodes == {a[1] : a \in Arc} \cup {a[2] : a \in Arc}
Flows == DOMAIN FlowPairs
source(f) == FlowPairs[f][1]
destination(f) == FlowPairs[f][2]

ASSUME RoutesAssumption ==
    /\ \A a \in Arc : a[1] # a[2] /\ <<a[2], a[1]>> \in Arc
    /\ \A f \in Flows : source(f) \in Nodes /\ destination(f) \in Nodes \ {source(f)}
    /\ Rate \in Nat \ {0} /\ LINK_CAPACITY \in Nat \ {0} /\ Units \in Nat \ {0}

VARIABLES F,                  \* the solution: amount of each flow on each arc
          flow_idx,           \* the flow being traversed
          incomplete_paths,   \* of traverse_graph_iterative, with their ratio so far
          paths_from_s_to_t,
          flows_with_routes   \* the routes of the flows before flow_idx

vars == <<F, flow_idx, incomplete_paths, paths_from_s_to_t, flows_with_routes>>
-----------------------------------------------------------------------------
(* The constraints of create_mcf_model on one flow: what leaves a node is  *)
(* what enters it, but for the unit that leaves the source and the unit    *)
(* that enters the destination.  Nothing forbids a flow around a cycle.    *)
Conserved(f, x) ==
    \A u \in Nodes :
        LET egress == MapThenSumSet(LAMBDA a : x[a], {a \in Arc : a[1] = u})
            ingress == MapThenSumSet(LAMBDA a : x[a], {a \in Arc : a[2] = u})
        IN  egress - ingress = CASE u = source(f) -> Units
                                 [] u = destination(f) -> -Units
                                 [] OTHER -> 0

Conserving == {x \in Flows \X [Arc -> 0 .. Units] : Conserved(x[1], x[2])}

(* alpha: the load of both directions of the most loaded link.             *)
Alpha(G) ==
    Max({MapThenSumSet(LAMBDA f : Rate * (G[f][a] + G[f][<<a[2], a[1]>>]), Flows) : a \in Arc})

(* The feasible solutions have alpha <= 1.0; the solver returns any one    *)
(* that minimises alpha.                                                   *)
Feasible ==
    {G \in [Flows -> {x[2] : x \in Conserving}] :
        (\A f \in Flows : <<f, G[f]>> \in Conserving) /\ Alpha(G) <= LINK_CAPACITY * Units}
Solutions == LET alpha == Min({Alpha(G) : G \in Feasible})
             IN  {G \in Feasible : Alpha(G) = alpha}

ArcsOfAnyFlow(u, f) ==  \* mutant: flow_id is not compared
    SelectSeq(Arcs, LAMBDA a : a[1] = u /\ \E g \in Flows : F[g][a] > 0)

(* get_paths_for_flow: the arcs of flow f out of node u, in F's order.     *)
get_paths_for_flow(u, f) ==
    SelectSeq(Arcs, LAMBDA a : a[1] = u /\ F[f][a] > 0)
-----------------------------------------------------------------------------
Start(f) == << [path |-> <<source(f)>>, ratio |-> Units] >>

Init ==
    /\ F \in Solutions
    /\ flow_idx = 1
    /\ incomplete_paths = Start(1)
    /\ paths_from_s_to_t = <<>>
    /\ flows_with_routes = <<>>

(* Nothing to traverse.                                                    *)
Idle ==
    /\ F = <<>> /\ flow_idx = 0 /\ incomplete_paths = <<>>
    /\ paths_from_s_to_t = <<>> /\ flows_with_routes = <<>>

(* The path extended by every arc the flow uses that does not close a      *)
(* loop; the ratio of a path is the smallest amount met on it.             *)
Longer(current) ==
    LET used == get_paths_for_flow(Last(current.path), flow_idx)
        fresh == SelectSeq(used, LAMBDA a : a[2] \notin Range(current.path))
    IN  [i \in DOMAIN fresh |-> [path |-> Append(current.path, fresh[i][2]),
                                ratio |-> Min({F[flow_idx][fresh[i]], current.ratio})]]

complete(r) == Last(r.path) = destination(flow_idx)

DeadEndKept ==  \* mutant: a path is dropped only when it is extended
    /\ flow_idx \in Flows
    /\ incomplete_paths # <<>>
    /\ LET longer == Longer(Head(incomplete_paths))
       IN  /\ paths_from_s_to_t' = paths_from_s_to_t \o SelectSeq(longer, complete)
           /\ incomplete_paths' = (IF longer = <<>> THEN incomplete_paths ELSE Tail(incomplete_paths))
                                    \o SelectSeq(longer, LAMBDA r : ~complete(r))
    /\ UNCHANGED <<F, flow_idx, flows_with_routes>>

(* One iteration of the while loop, on the first incomplete path.          *)
ExtendFirstPath ==
    /\ flow_idx \in Flows
    /\ incomplete_paths # <<>>
    /\ LET longer == Longer(Head(incomplete_paths))
       IN  /\ paths_from_s_to_t' = paths_from_s_to_t \o SelectSeq(longer, complete)
           /\ incomplete_paths' = Tail(incomplete_paths)
                                    \o SelectSeq(longer, LAMBDA r : ~complete(r))
    /\ UNCHANGED <<F, flow_idx, flows_with_routes>>

(* The list is empty: the body of compute_mcf_flow_routes stores the       *)
(* routes and goes on to the next flow.                                    *)
NextFlow ==
    /\ flow_idx \in Flows
    /\ incomplete_paths = <<>>
    /\ flows_with_routes' = Append(flows_with_routes, paths_from_s_to_t)
    /\ flow_idx' = flow_idx + 1
    /\ paths_from_s_to_t' = <<>>
    /\ incomplete_paths' = IF flow_idx' \in Flows THEN Start(flow_idx') ELSE <<>>
    /\ UNCHANGED F

Done == flow_idx \notin Flows /\ UNCHANGED vars

Traversal == ExtendFirstPath \/ NextFlow

Next == Traversal \/ Done

Spec == Init /\ [][Next]_vars /\ WF_vars(Traversal)
-----------------------------------------------------------------------------
Route == [path : Seq(Nodes), ratio : 1 .. Units]

(* Every variable has the values the traversal can give it; a route        *)
(* carries at least one unit, and the flows done so far have their routes. *)
TypeOK ==
    /\ \A f \in Flows : F[f] \in [Arc -> 0 .. Units]
    /\ flow_idx \in 1 .. Len(FlowPairs) + 1
    /\ incomplete_paths \in Seq(Route)
    /\ paths_from_s_to_t \in Seq(Route)
    /\ flows_with_routes \in Seq(Seq(Route)) /\ Len(flows_with_routes) = flow_idx - 1

(* The paths without repetition, of any length, from s to t over arcs the  *)
(* flow uses: what the traversal is to find, defined without a traversal.  *)
Distinct == UNION {{p \in [1 .. n -> Nodes] : \A i, j \in 1 .. n : p[i] = p[j] => i = j} :
                      n \in 2 .. Cardinality(Nodes)}
Used(f, p) == \A i \in 1 .. Len(p) - 1 :
                <<p[i], p[i + 1]>> \in Arc /\ F[f][<<p[i], p[i + 1]>>] > 0
SimplePaths(f) ==
    {p \in Distinct : p[1] = source(f) /\ p[Len(p)] = destination(f) /\ Used(f, p)}
Bottleneck(f, p) == Min({F[f][<<p[i], p[i + 1]>>] : i \in 1 .. Len(p) - 1})

(* The routes stored for a flow are exactly the simple paths its solution  *)
(* uses, each once, with the amount of its narrowest arc, whatever cycles  *)
(* the solution contains: the loop test neither misses a route nor lets    *)
(* the traversal of one flow follow the arcs of another.                   *)
RoutesAreTheSimplePaths ==
    \A f \in DOMAIN flows_with_routes :
        LET routes == flows_with_routes[f]
            simple == SimplePaths(f)
        IN  /\ {routes[i].path : i \in DOMAIN routes} = simple
            /\ Len(routes) = Cardinality(simple)
            /\ \A i \in DOMAIN routes :
                  routes[i].ratio = Min({Units, Bottleneck(f, routes[i].path)})

(* The traversal ends for every solution, cycles included.                 *)
TraversalEnds == <>(flow_idx \notin Flows)
=============================================================================
