----------------------------- MODULE TrialFiles -----------------------------
(***************************************************************************)
(* The parsers of precomputed trials (mp_routing/file_parsing.py).  A      *)
(* trial directory holds the paths of every flow of every virtual network, *)
(* the fraction of its demand each path carries, one rate file per virtual *)
(* network and, in the older format of MPTestFileParser, which knows one   *)
(* network, the origins and the destinations.  get_flow_defs joins them by *)
(* position.                                                               *)
(*                                                                         *)
(* A fraction is modelled by the network, flow and path it belongs to, a   *)
(* rate by a number of halves that no two flows share, so that the join    *)
(* shows what went where.  get_flow_defs of NETestFileParser itself adds a *)
(* string to a path object and always raises; VariableRateFileParser       *)
(* overrides it.                                                           *)
(***************************************************************************)
EXTENDS Integers, Sequences, FiniteSets, SequencesExt

CONSTANTS FlowCounts,  \* choices: the number of flows of each virtual network
          K,           \* paths per flow
          Mu,          \* the factor of the rates, cfg.mu
          Losses       \* choices: rate lines missing at the end of the last network's file

TrialFilesAssumption ==
    K \in Nat \ {0} /\ Mu \in Nat \ {0} /\ Losses \subseteq Nat

VARIABLES counts,      \* flows per virtual network
          lost,        \* rate lines the last file lacks
          parser,      \* which class reads the directory
          pc,
          unread,      \* rate files not read yet
          rates,       \* _construct_rate_table: <<net, flow>> -> rate
          routes,      \* the routes get_flow_defs has yet to consume
          at,          \* flows of the partition file passed so far
          flow_defs

vars == <<counts, lost, parser, pc, unread, rates, routes, at, flow_defs>>
input == <<counts, lost, parser>>

(* The flows in the order of the files. *)
Flows == FlattenSeq([n \in DOMAIN counts |-> [f \in 1 .. counts[n] |-> <<n, f>>]])

(* What the files hold. *)
Origin(fl) == 10 * fl[1] + fl[2]
Destination(fl) == 50 + Origin(fl)
FilePath(fl, p) == <<Origin(fl), 100 + p, Destination(fl)>>
Partition(fl) == [p \in 1 .. K |-> <<fl[1], fl[2], p>>]
MeanInHalves(fl) == 2 * Origin(fl) + 1
RateLines(n) == IF n = Len(counts) THEN counts[n] - lost ELSE counts[n]
-----------------------------------------------------------------------------
plus_one(path) == [i \in DOMAIN path |-> path[i] + 1]

get_routes ==
    FlattenSeq([i \in DOMAIN Flows |->
        [p \in 1 .. K |-> <<p - 1, plus_one(FilePath(Flows[i], p))>>]])

Init ==
    /\ counts \in FlowCounts
    /\ lost \in Losses /\ lost <= Last(counts)
    /\ parser \in {"mp", "variable"} /\ (parser = "mp" => Len(counts) = 1)
    /\ pc = IF parser = "mp" THEN "join" ELSE "rates"
    /\ unread = IF parser = "mp" THEN {} ELSE DOMAIN counts
    /\ rates = << >>
    /\ routes = IF parser = "mp" THEN << >> ELSE get_routes
    /\ at = 0
    /\ flow_defs = << >>

(* int(float(...)) drops what is behind the point. *)
get_flow_params(fl) == MeanInHalves(fl) \div 2

net_id(n) == n

(* _construct_rate_table: the files in the order iterdir gives, the network *)
(* from the file's name, the flow from the line number.                     *)
_construct_rate_table(n) ==
    /\ pc = "rates" /\ n \in unread
    /\ unread' = unread \ {n}
    /\ rates' = [fl \in DOMAIN rates \cup {<<net_id(n), f>> : f \in 1 .. RateLines(n)} |->
                    IF fl[1] = net_id(n) THEN get_flow_params(<<n, fl[2]>>) * Mu ELSE rates[fl]]
    /\ pc' = IF unread' = {} THEN "join" ELSE "rates"
    /\ UNCHANGED <<input, routes, at, flow_defs>>

flow == Flows[at + 1]
Done == at = Len(Flows)

FlowDef(src, dst, splits, rate) == [src |-> src, dst |-> dst, splits |-> splits, rate |-> rate]

RoutesKept == routes  \* mutant: the routes of a flow are not consumed
RoutesLeft == SubSeq(routes, 4, Len(routes))

(* VariableRateFileParser.get_flow_defs, one flow of the partition file:   *)
(* its hosts are the ends of the first route left, and three routes are    *)
(* consumed whatever K is.                                                 *)
variable_get_flow_defs ==
    /\ pc = "join" /\ parser = "variable" /\ ~ Done
    /\ IF routes # << >> /\ flow \in DOMAIN rates
       THEN LET path == routes[1][2]
            IN  /\ flow_defs' = Append(flow_defs, FlowDef(Head(path), Last(path),
                                                          Partition(flow), rates[flow]))
                /\ at' = at + 1
                /\ routes' = RoutesLeft
                /\ pc' = pc
       ELSE pc' = "raised" /\ UNCHANGED <<routes, at, flow_defs>>
    /\ UNCHANGED <<input, unread, rates>>

(* MPTestFileParser.get_flow_defs: origins, destinations and partitions by *)
(* the flow's number; all flows have the rate of the configuration.        *)
mp_get_flow_defs ==
    /\ pc = "join" /\ parser = "mp" /\ ~ Done
    /\ flow_defs' = Append(flow_defs, FlowDef(Origin(flow) + 1, Destination(flow) + 1,
                                              Partition(flow), Mu))
    /\ at' = at + 1
    /\ UNCHANGED <<input, pc, unread, rates, routes>>

finish ==
    /\ pc = "join" /\ Done
    /\ pc' = "done"
    /\ UNCHANGED <<input, unread, rates, routes, at, flow_defs>>

Next ==
    \/ \E n \in DOMAIN counts : _construct_rate_table(n)
    \/ variable_get_flow_defs
    \/ mp_get_flow_defs
    \/ finish

Spec == Init /\ [][Next]_vars
-----------------------------------------------------------------------------
(* Every variable has the values the code can give it. *)
TypeOK ==
    /\ pc \in {"rates", "join", "done", "raised"}
    /\ at = Len(flow_defs) /\ at \in 0 .. Len(Flows)
    /\ pc # "rates" => unread = {}
    /\ DOMAIN rates \subseteq ToSet(Flows)

(* get_flow_defs gives every flow the hosts at the ends of every one of    *)
(* its own paths: the rows of the path file it counts off are those of the *)
(* flow of the partition file it is at.  The variable rate parser counts   *)
(* off three rows a flow, so that this needs three paths a flow.           *)
EndsOfItsOwnPaths ==
    (parser = "variable" => K = 3) => \A i \in DOMAIN flow_defs : \A p \in 1 .. K :
        LET path == plus_one(FilePath(Flows[i], p))
        IN  flow_defs[i].src = Head(path) /\ flow_defs[i].dst = Last(path)
=============================================================================
