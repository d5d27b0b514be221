--------------------------- MODULE FlowAllocation ---------------------------
(***************************************************************************)
(* The flow allocators of path_hopping/flow_allocation.py.  Each draws     *)
(* random flows (a source, a destination, a rate) from a generator seeded  *)
(* by its caller and admits them one by one until the first that does not  *)
(* fit; the trials of one seed run the allocators one after the other on   *)
(* the same stream of flows, so that they can be compared.  (The loop of   *)
(* multiflow_tests no longer asks for the path hopping allocation it       *)
(* defines, which draws from the same stream; here it comes last.)         *)
(*                                                                         *)
(* Fractions are whole numbers of Units: a splitting ratio of 1.0 is Units *)
(* and a flow loads a link by its rate times the ratio on the link.        *)
(***************************************************************************)
EXTENDS Integers, Sequences, FiniteSets, SequencesExt, FiniteSetsExt

CONSTANTS Edges,          \* links of the topology, each listed as <<u, v>>, u < v
          Pairs,          \* source and destination pairs the selector may draw
          DisjointPaths,  \* node_disjoint_paths: a sequence of paths per pair
          Rates,          \* bound: the transmission rates that may be drawn
          LINK_CAPACITY,
          Units,          \* bound: the granularity of a splitting ratio
          K               \* paths of a path hopping flow

AllocationAssumption ==
    /\ \A e \in Edges : e \in Nat \X Nat /\ e[1] < e[2]
    /\ \A st \in Pairs : Len(DisjointPaths[st]) > 0
                         /\ Units % Len(DisjointPaths[st]) = 0
    /\ Rates \subseteq Nat \ {0} /\ LINK_CAPACITY \in Nat \ {0}
    /\ K \in Nat \ {0} /\ Units % K = 0

VARIABLES requests,          \* the flows the seeded generator yields, drawn so far
          scheme,            \* the allocator that is running
          flows,             \* how many flows it has admitted: a prefix of requests
          link_utilization,  \* of the greedy allocator
          allocation         \* what each allocator has returned

vars == <<requests, scheme, flows, link_utilization, allocation>>

Schemes == {"k-paths", "greedy", "path-hopping"}
Request == Pairs \X Rates
paths(q) == DisjointPaths[q[1]]
rate(q) == q[2]
Capacity == LINK_CAPACITY * Units

-----------------------------------------------------------------------------
(* The links of a path, as sorted pairs: nx.utils.pairwise, then sorted.   *)
pairwise(p) == [i \in 1 .. Len(p) - 1 |->
                    <<Min({p[i], p[i + 1]}), Max({p[i], p[i + 1]})>>]

(* The paths of a pair that cross a link.                                  *)
On == [st \in Pairs |-> [e \in Edges |->
          {j \in DOMAIN DisjointPaths[st] : e \in Range(pairwise(DisjointPaths[st][j]))}]]

(* The load that requests r put on link e when split by X.                 *)
Load(r, X, e) ==
    MapThenSumSet(LAMBDA i : rate(r[i]) * MapThenSumSet(LAMBDA j : X[i][j], On[r[i][1]][e]),
                  DOMAIN r)

EqualSplit(q) == [j \in DOMAIN paths(q) |-> Units \div Len(paths(q))]

(* The values the solver may give the X variables of a flow: any split of  *)
(* the whole (k-paths), or 0 or 1/K on each path (path hopping, where they *)
(* are semi-continuous with both bounds 1/K).                              *)
Ratios(s) == IF s = "path-hopping" THEN {0, Units \div K} ELSE 0 .. Units
Splits(s, q) == {x \in [DOMAIN paths(q) -> Ratios(s)] :
                    FoldFunction(+, 0, x) = Units}

(* The feasible solutions of the model for requests r, and those the       *)
(* solver returns: they minimise alpha, the load of the most loaded link.  *)
Feasible(s, r) ==
    LET splits == [i \in DOMAIN r |-> Splits(s, r[i])]
    IN  {X \in [DOMAIN r -> UNION Range(splits)] :
            /\ \A i \in DOMAIN r : X[i] \in splits[i]
            /\ \A e \in Edges : Load(r, X, e) <= Capacity}
Alpha(r, X) == Max({Load(r, X, e) : e \in Edges})
Optimal(s, r) ==
    LET F == Feasible(s, r)
        alpha == Min({Alpha(r, X) : X \in F})
    IN  {X \in F : Alpha(r, X) = alpha}

(* The greedy pass over the hops of a flow: every link is charged as it is *)
(* met, and the pass stops at the first that would exceed the capacity,    *)
(* the links charged before it left charged.                               *)
Hops(q) == FoldLeft(LAMBDA hops, p : hops \o pairwise(p), <<>>, paths(q))
FirstPathCharged(util, q) ==  \* mutant: only the first path is walked
    LET share == rate(q) * (Units \div Len(paths(q)))
    IN  FoldLeft(LAMBDA acc, e :
                    IF acc.exceeded \/ acc.util[e] + share > Capacity
                    THEN [acc EXCEPT !.exceeded = TRUE]
                    ELSE [acc EXCEPT !.util[e] = @ + share],
                 [util |-> util, exceeded |-> FALSE], pairwise(paths(q)[1]))
Charge(util, q) ==
    LET share == rate(q) * (Units \div Len(paths(q)))
    IN  FoldLeft(LAMBDA acc, e :
                    IF acc.exceeded \/ acc.util[e] + share > Capacity
                    THEN [acc EXCEPT !.exceeded = TRUE]
                    ELSE [acc EXCEPT !.util[e] = @ + share],
                 [util |-> util, exceeded |-> FALSE], Hops(q))
-----------------------------------------------------------------------------
Idle == [e \in Edges |-> 0]
Nothing == [flows |-> 0, splitting_ratio |-> <<>>, utilization |-> Idle, refused |-> <<>>]

Init ==
    /\ requests = <<>>
    /\ scheme = "k-paths"
    /\ flows = 0
    /\ link_utilization = Idle
    /\ allocation = [s \in Schemes |-> Nothing]

(* The next flow of the stream: np.random is seeded alike in every         *)
(* allocator, so a flow drawn by an earlier one is drawn again.            *)
Draw(q) ==
    \/ /\ flows < Len(requests)
       /\ q = requests[flows + 1]
       /\ UNCHANGED requests
    \/ /\ flows = Len(requests)
       /\ requests' = Append(requests, q)

admitted == SubSeq(requests, 1, flows)

Following(s) == CASE s = "k-paths" -> "greedy"
                  [] s = "greedy" -> "path-hopping"
                  [] OTHER -> "done"

Return(n, X, util, q) ==
    /\ allocation' = [allocation EXCEPT ![scheme] =
                        [flows |-> n, splitting_ratio |-> X, utilization |-> util,
                         refused |-> q]]
    /\ scheme' = Following(scheme)
    /\ flows' = 0

(* One round of compute_ilp_flows or compute_path_hopping_flows_ilp: the   *)
(* model of the flows admitted so far and the new one is feasible.         *)
AdmitSolved(q) ==
    /\ scheme \in {"k-paths", "path-hopping"}
    /\ Draw(q)
    /\ Feasible(scheme, Append(admitted, q)) # {}
    /\ flows' = flows + 1
    /\ UNCHANGED <<scheme, link_utilization, allocation>>

(* The last round of compute_ilp_flows: the ratios are those of the last   *)
(* feasible model and the utilisation is computed from them.               *)
FinishKPaths(q) ==
    /\ scheme = "k-paths"
    /\ Draw(q)
    /\ Feasible(scheme, Append(admitted, q)) = {}
    /\ \E X \in Optimal(scheme, admitted) :
          Return(flows, X, [e \in Edges |-> Load(admitted, X, e)], q)
    /\ UNCHANGED link_utilization

(* The last round of compute_path_hopping_flows_ilp: the utilisation is    *)
(* that of the model's K variables.  They are the load plus two terms that *)
(* are only bounded below, so they may be anything from the load up to     *)
(* alpha; both ends are tried.                                             *)
FinishPathHopping(q) ==
    /\ scheme = "path-hopping"
    /\ Draw(q)
    /\ Feasible(scheme, Append(admitted, q)) = {}
    /\ IF flows = 0
       THEN Return(0, <<>>, Idle, q)
       ELSE \E X \in Optimal(scheme, admitted), slack \in BOOLEAN :
               Return(flows, X, [e \in Edges |-> IF slack THEN Alpha(admitted, X)
                                                 ELSE Load(admitted, X, e)], q)
    /\ UNCHANGED link_utilization

(* One round of compute_greedy_flow_allocations.                           *)
AdmitGreedy(q) ==
    /\ scheme = "greedy"
    /\ Draw(q)
    /\ ~Charge(link_utilization, q).exceeded
    /\ link_utilization' = Charge(link_utilization, q).util
    /\ flows' = flows + 1
    /\ UNCHANGED <<scheme, allocation>>

FinishGreedy(q) ==
    /\ scheme = "greedy"
    /\ Draw(q)
    /\ Charge(link_utilization, q).exceeded
    /\ link_utilization' = Charge(link_utilization, q).util
    /\ Return(flows, [i \in 1 .. flows |-> EqualSplit(requests[i])], link_utilization', q)

Done == scheme = "done" /\ UNCHANGED vars

Next ==
    \/ \E q \in Request :
          \/ AdmitSolved(q) \/ FinishKPaths(q) \/ FinishPathHopping(q)
          \/ AdmitGreedy(q) \/ FinishGreedy(q)
    \/ Done

Spec == Init /\ [][Next]_vars
-----------------------------------------------------------------------------
(* Every variable has the values the allocators can give it; no link is    *)
(* charged beyond its capacity while flows are admitted.                   *)
TypeOK ==
    /\ requests \in Seq(Request)
    /\ scheme \in Schemes \cup {"done"}
    /\ flows \in 0 .. Len(requests)
    /\ link_utilization \in [Edges -> 0 .. Capacity]
    /\ \A s \in Schemes : allocation[s].flows \in 0 .. Len(requests)

returned(s) == allocation[s].refused # <<>>
Of(s) == SubSeq(requests, 1, allocation[s].flows)

(* The flows admitted never load a link beyond its capacity, and the       *)
(* utilisation returned with them never understates the load nor exceeds   *)
(* the capacity.  The greedy allocator overstates it by at most one share  *)
(* of the flow it refused, whose first links it has charged already.       *)
UtilizationCoversLoad ==
    \A s \in Schemes : returned(s) =>
        LET a == allocation[s]
            load(e) == Load(Of(s), a.splitting_ratio, e)
        IN  \A e \in Edges :
              /\ load(e) <= a.utilization[e] /\ a.utilization[e] <= Capacity
              /\ s = "greedy" => a.utilization[e] - load(e) \in
                                    {0, rate(a.refused) * EqualSplit(a.refused)[1]}
=============================================================================
