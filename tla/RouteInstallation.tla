-------------------------- MODULE RouteInstallation --------------------------
(***************************************************************************)
(* The routes of test_traffic_transmission in mp_routing/main.py, put on   *)
(* OpenFlow switches through Ryu's REST interface: the switches are reset, *)
(* MPRouteAdder installs one entry for each hop of each route, the traffic *)
(* runs, and remove_routes deletes the entries it remembers.  A request    *)
(* that fails ends the program; whoever runs the trials starts it again.   *)
(*                                                                         *)
(* An entry of table 100 stands for its match (the two end hosts and the   *)
(* DSCP value) and its output port.  Adding an entry replaces the one with *)
(* the same match.                                                         *)
(***************************************************************************)
EXTENDS Integers, Sequences, FiniteSets, Functions

CONSTANTS Switches,
          Wiring,         \* the switch at the other end of each port of a switch
          MaxTrials,
          Routes,         \* get_routes of each trial: path_id and nodes
          MaxDisruptions  \* bound: what happens to the network, and requests that fail

Trials == 1 .. MaxTrials

RoutesAssumption ==
    /\ MaxTrials \in Nat \ {0} /\ MaxDisruptions \in Nat
    /\ Wiring \in [Switches -> Seq(Switches)]
    /\ \A s \in Switches : s \notin Range(Wiring[s])
    /\ Routes \in [Trials -> Seq([path_id : Nat, nodes : Seq(Switches)])]
    /\ \A t \in Trials : Routes[t] # <<>> /\ \A r \in Range(Routes[t]) :
          Len(r.nodes) >= 2 /\ IsInjective(r.nodes)
          /\ \A i \in 1 .. Len(r.nodes) - 1 : r.nodes[i + 1] \in Range(Wiring[r.nodes[i]])

(* What link discovery can report: a link leaves src and enters dst by its *)
(* port dst_port.                                                          *)
AllLinks == UNION {{[src |-> Wiring[d][q], dst |-> d, dst_port |-> q] : q \in DOMAIN Wiring[d]} :
                      d \in Switches}

calculate_dscp_value(path_id) == path_id + 1

Match(r) == <<Head(r.nodes), r.nodes[Len(r.nodes)], calculate_dscp_value(r.path_id)>>

(* The default route matches every packet and sends it to the controller.  *)
Default == [match |-> <<>>, port |-> 0]

VARIABLES connected,   \* switches connected to the controller
          links,       \* links the controller has discovered
          tables,      \* entries in table 100 of each switch
          trial, pc,
          sw_list,     \* the switches that were reset
          todo,        \* switches or entries the current loop has still to visit
          adj_mat,     \* links of get_topo_links
          route, hop,  \* the hop to be installed next
          installed_routes,
          disruptions

network == <<connected, links, tables>>
progress == <<trial, pc, todo, route, hop>>
vars == <<network, progress, sw_list, adj_mat, installed_routes, disruptions>>

Init ==
    /\ connected = Switches /\ links = AllLinks
    /\ tables = [s \in Switches |-> {}]
    /\ trial = 1 /\ pc = "list" /\ todo = {} /\ route = 1 /\ hop = 1
    /\ sw_list = {} /\ adj_mat = {} /\ installed_routes = {}
    /\ disruptions = 0
-----------------------------------------------------------------------------
Goto(step, visits) == pc' = step /\ todo' = visits /\ UNCHANGED <<trial, route, hop>>

Visit(x, step, visits) ==
    IF todo = {x} THEN Goto(step, visits)
    ELSE todo' = todo \ {x} /\ UNCHANGED <<trial, pc, route, hop>>

(* A request fails, or a switch cannot be found: nothing is cleaned up.    *)
Raise ==
    /\ pc \notin {"ended", "done"}
    /\ disruptions < MaxDisruptions /\ disruptions' = disruptions + 1
    /\ Goto("ended", {})
    /\ UNCHANGED <<network, sw_list, adj_mat, installed_routes>>

NotConnected ==
    /\ \/ pc \in {"clear", "default"} /\ todo \ connected # {}
       \/ pc = "install" /\ \E i \in {hop, hop + 1} :
             Routes[trial][route].nodes[i] \notin connected
       \/ pc = "remove" /\ \E e \in todo : e[1] \notin connected
    /\ Goto("ended", {})
    /\ UNCHANGED <<network, sw_list, adj_mat, installed_routes, disruptions>>

get_switch_list ==
    /\ pc = "list"
    /\ sw_list' = connected
    /\ IF connected = {} THEN Goto("links", {}) ELSE Goto("clear", connected)
    /\ UNCHANGED <<network, adj_mat, installed_routes, disruptions>>

NothingRemoved(s) ==  \* mutant: the reset deletes nothing
    /\ pc = "clear" /\ s \in todo \cap connected
    /\ UNCHANGED tables
    /\ Visit(s, "default", sw_list)
    /\ UNCHANGED <<connected, links, sw_list, adj_mat, installed_routes, disruptions>>

remove_table_flows(s) ==
    /\ pc = "clear" /\ s \in todo \cap connected
    /\ tables' = [tables EXCEPT ![s] = {}]
    /\ Visit(s, "default", sw_list)
    /\ UNCHANGED <<connected, links, sw_list, adj_mat, installed_routes, disruptions>>

add_default_route(s) ==
    /\ pc = "default" /\ s \in todo \cap connected
    /\ tables' = [tables EXCEPT ![s] = @ \cup {Default}]
    /\ Visit(s, "links", {})
    /\ UNCHANGED <<connected, links, sw_list, adj_mat, installed_routes, disruptions>>

get_topo_links ==
    /\ pc = "links"
    /\ adj_mat' = links
    /\ Goto("install", {})
    /\ UNCHANGED <<network, sw_list, installed_routes, disruptions>>
-----------------------------------------------------------------------------

(* get_adj_mat()[s][d] is the port by which the link from d enters s; the  *)
(* last link reported stays.  Empty stands for a KeyError.                 *)
OutPorts(mat, s, d) == {l.dst_port : l \in {k \in mat : k.dst = s /\ k.src = d}}

(* The next hop of the route, the first one of the next route, or on to    *)
(* the traffic.                                                            *)
NextHop ==
    /\ UNCHANGED <<trial, todo>>
    /\ LET last == hop + 1 = Len(Routes[trial][route].nodes)
       IN  IF ~last THEN hop' = hop + 1 /\ UNCHANGED <<pc, route>>
           ELSE IF route < Len(Routes[trial]) THEN route' = route + 1 /\ hop' = 1 /\ UNCHANGED pc
           ELSE pc' = "transmit" /\ UNCHANGED <<route, hop>>

Added(s, m, p) ==
    {e \in tables[s] : e.match # m} \cup {[match |-> m, port |-> p]}

Unremembered(s, r) ==  \* mutant: only the first entry of a route is remembered
    IF s = Head(r.nodes) THEN installed_routes \cup {<<s, Match(r)>>} ELSE installed_routes

Remembered(s, r) == installed_routes \cup {<<s, Match(r)>>}

install_route ==
    /\ pc = "install"
    /\ LET r == Routes[trial][route]
           src == r.nodes[hop]
           dst == r.nodes[hop + 1]
       IN  /\ {src, dst} \subseteq connected
           /\ IF OutPorts(adj_mat, src, dst) = {} THEN UNCHANGED <<tables, installed_routes>>
              ELSE \E p \in OutPorts(adj_mat, src, dst) :
                      /\ tables' = [tables EXCEPT ![src] = Added(src, Match(r), p)]
                      /\ installed_routes' = Remembered(src, r)
    /\ NextHop
    /\ UNCHANGED <<connected, links, sw_list, adj_mat, disruptions>>

(* The traffic runs; then remove_routes visits what was installed.         *)
StopTraffic ==
    /\ pc = "transmit"
    /\ IF installed_routes = {} THEN Goto("ended", {}) ELSE Goto("remove", installed_routes)
    /\ UNCHANGED <<network, sw_list, adj_mat, installed_routes, disruptions>>

remove_flow(s, m) ==
    /\ pc = "remove" /\ <<s, m>> \in todo /\ s \in connected
    /\ tables' = [tables EXCEPT ![s] = {e \in @ : e.match # m}]
    /\ Visit(<<s, m>>, "removed", {})
    /\ UNCHANGED <<connected, links, sw_list, adj_mat, installed_routes, disruptions>>

NextTrial ==
    /\ pc \in {"removed", "ended"}
    /\ IF trial < MaxTrials THEN trial' = trial + 1 /\ pc' = "list"
       ELSE trial' = trial /\ pc' = "done"
    /\ todo' = {} /\ route' = 1 /\ hop' = 1
    /\ sw_list' = {} /\ adj_mat' = {} /\ installed_routes' = {}
    /\ UNCHANGED <<network, disruptions>>
-----------------------------------------------------------------------------
Disrupt ==
    /\ disruptions < MaxDisruptions /\ disruptions' = disruptions + 1
    /\ UNCHANGED <<progress, sw_list, adj_mat, installed_routes>>

(* A switch without a controller goes on forwarding by its entries.        *)
Disconnect(s) == /\ Disrupt /\ s \in connected
                 /\ connected' = connected \ {s} /\ UNCHANGED <<links, tables>>

Reboot(s) == Disrupt /\ tables' = [tables EXCEPT ![s] = {}] /\ UNCHANGED <<connected, links>>

LinkUndiscovered(l) == Disrupt /\ l \in links /\ links' = links \ {l} /\ UNCHANGED <<connected, tables>>

Reconnect(s) ==
    /\ s \notin connected
    /\ connected' = connected \cup {s}
    /\ UNCHANGED <<links, tables, progress, sw_list, adj_mat, installed_routes, disruptions>>

Rediscover ==
    /\ links # AllLinks /\ links' = AllLinks
    /\ UNCHANGED <<connected, tables, progress, sw_list, adj_mat, installed_routes, disruptions>>

(* The idle timeout of 240 seconds; entries in use do not run out.         *)
Expire(s, m) ==
    /\ pc # "transmit"
    /\ \E e \in tables[s] : e.match = m
    /\ tables' = [tables EXCEPT ![s] = {e \in @ : e.match # m}]
    /\ UNCHANGED <<connected, links, progress, sw_list, adj_mat, installed_routes, disruptions>>

Matches == UNION {{Match(r) : r \in Range(Routes[t])} : t \in Trials}

Ports == UNION {DOMAIN Wiring[s] : s \in Switches}
Entry == {Default} \cup [match : Matches, port : Ports]

AllTrialsOver == pc = "done" /\ UNCHANGED vars

Next ==
    \/ AllTrialsOver \/ Raise \/ NotConnected \/ get_switch_list \/ get_topo_links \/ install_route
    \/ StopTraffic \/ NextTrial \/ Rediscover
    \/ \E s \in Switches : remove_table_flows(s) \/ add_default_route(s)
                           \/ Disconnect(s) \/ Reboot(s) \/ Reconnect(s)
    \/ \E s \in Switches, m \in Matches : remove_flow(s, m) \/ Expire(s, m)
    \/ \E l \in AllLinks : LinkUndiscovered(l)

Spec == Init /\ [][Next]_vars
-----------------------------------------------------------------------------
(* Every variable has the values the program and the switches can give it; *)
(* entries lead to ports the switch has, and a hop is one of the current   *)
(* route.                                                                  *)
TypeOK ==
    /\ connected \subseteq Switches /\ links \subseteq AllLinks /\ adj_mat \subseteq AllLinks
    /\ tables \in [Switches -> SUBSET Entry]
    /\ \A s \in Switches : \A e \in tables[s] \ {Default} : e.port \in DOMAIN Wiring[s]
    /\ trial \in Trials /\ route \in DOMAIN Routes[trial]
    /\ hop \in 1 .. Len(Routes[trial][route].nodes) - 1
    /\ pc \in {"list", "clear", "default", "links", "install", "transmit", "remove", "removed",
              "ended", "done"}
    /\ sw_list \subseteq Switches
    /\ installed_routes \subseteq Switches \X Matches
    /\ disruptions \in 0 .. MaxDisruptions

LinksFound ==
    \A r \in Range(Routes[trial]) : \A i \in 1 .. Len(r.nodes) - 1 :
        OutPorts(adj_mat, r.nodes[i], r.nodes[i + 1]) # {}
MatchesDistinct ==
    \A j, k \in DOMAIN Routes[trial] :
        j # k => Match(Routes[trial][j]) # Match(Routes[trial][k])
Circle(C, m) == \A s \in C : \E e \in tables[s] : e.match = m /\ Wiring[s][e.port] \in C

(* No packet goes round in circles while the traffic runs, whatever links  *)
(* were not discovered, if all switches were reset and no two routes share *)
(* a match or no link is missing.  (With both, the entry of another route  *)
(* in place of the missing one can close a circle.)                        *)
NoForwardingLoop ==
    pc = "transmit" /\ sw_list = Switches /\ (LinksFound \/ MatchesDistinct) =>
        \A m \in Matches, C \in (SUBSET Switches) \ {{}} : ~Circle(C, m)

(* After remove_routes no entry of the trial is left on any switch, though *)
(* later entries have replaced earlier ones and some have run out.         *)
RemovedCompletely ==
    pc = "removed" => \A s \in sw_list : tables[s] \subseteq {Default}
=============================================================================
