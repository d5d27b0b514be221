---------------------------- MODULE PortMirroring ----------------------------
(***************************************************************************)
(* The flows of a mirroring trial, put into the network through the        *)
(* controller (port_mirroring/onos_rest_helpers.py on top of               *)
(* nw_control/topo_mapper.py).  The solver speaks of switch ids and port   *)
(* ids.  add_port_mirroring_flows matches its topology with the links the  *)
(* controller reports, asks again for the links to translate each port id, *)
(* asks for the hosts to find each flow's last port, and posts one request *)
(* per flow; add_flow_mirroring_flows only needs the first step.  Between  *)
(* any two requests the network may change.  An exception leaves the call, *)
(* and the tokens of the flows already added go with it.                   *)
(*                                                                         *)
(* networkx picks any isomorphism and the controller lists links and hosts *)
(* in any order, so both are choices.                                      *)
(***************************************************************************)
EXTENDS Integers, Sequences, FiniteSets, Functions

CONSTANTS Ids, TargetEdges,  \* the solver's topology: edges are sets of two ids
          PortMap,           \* mirroring_ports: PortMap[id][neighbour] is a port id
          Paths,             \* the path of each flow, as ids
          MirrorPorts,       \* the solution of a port mirroring trial: pairs of id and port id
          MirrorSwitch,      \* the solution of a flow mirroring trial: an id for each flow
          Switches, CollectorSwitch,
          Cabling,           \* links at the start: [src, src_port, dst, dst_port]
          Attached,          \* hosts at the start: [switch, port, is]
          MaxPort, MaxCalls,
          MaxDisruptions     \* bound: changes of the network, and requests that fail

(* The entries of the port map: an id and a neighbour.                     *)
Entries == {e \in Ids \X Ids : {e[1], e[2]} \in TargetEdges}

Reversed(l) == [src |-> l.dst, src_port |-> l.dst_port, dst |-> l.src, dst_port |-> l.src_port]

(* A port has one cable.                                                   *)
MirroringAssumption ==
    /\ \A e \in TargetEdges : e \subseteq Ids /\ Cardinality(e) = 2
    /\ \A i \in Ids : DOMAIN PortMap[i] = {j \in Ids : {i, j} \in TargetEdges}
    /\ Paths \in Seq(Seq(Ids)) /\ Paths # <<>>
    /\ \A p \in Range(Paths) : IsInjective(p) /\ p # <<>>
          /\ \A i \in 1 .. Len(p) - 1 : {p[i], p[i + 1]} \in TargetEdges
    /\ MirrorPorts \subseteq {<<e[1], PortMap[e[1]][e[2]]>> : e \in Entries}
    /\ \A l \in Cabling : Reversed(l) \in Cabling
    /\ \A k, l \in Cabling : k.src = l.src /\ k.src_port = l.src_port => k = l
    /\ Cabling \subseteq [src : Switches, src_port : 1 .. MaxPort, dst : Switches, dst_port : 1 .. MaxPort]
    /\ MaxPort \in Nat /\ MaxCalls \in Nat \ {0} /\ MaxDisruptions \in Nat
ASSUME MirroringAssumption

VARIABLES links, hosts,        \* what the controller reports
          mirrored,            \* routes at the controller
          call, kind, pc,
          current_links,       \* get_nw_links of build_onos_topo_graph
          id_to_dpid,
          port_numbers,        \* <<id, port id>> to port number
          todo,                \* entries of the port map, or tokens, still to be visited
          flow,                \* the flow to be added next
          last_port,           \* its last port
          verdict,             \* what verify_that_all_flows_are_mirrored printed
          pastLinks, pastHosts,  \* history: everything reported during this call
          disruptions

network == <<links, hosts, pastLinks, pastHosts>>
mapping == <<current_links, id_to_dpid, port_numbers, verdict>>
vars == <<network, mirrored, call, kind, pc, mapping, todo, flow, last_port, disruptions>>

Unmapped == current_links = {} /\ id_to_dpid = <<>> /\ port_numbers = <<>> /\ verdict = "none"

Init ==
    /\ links = Cabling /\ hosts = Attached /\ pastLinks = Cabling /\ pastHosts = Attached
    /\ mirrored = {}
    /\ call = 1 /\ kind \in {"flow", "port"} /\ pc = "links" /\ Unmapped
    /\ todo = {} /\ flow = 1 /\ last_port = 0
    /\ disruptions = 0
-----------------------------------------------------------------------------
(* An exception, or a request that fails, ends the call where it is.       *)
Ends == pc' = "ended" /\ todo' = {} /\ UNCHANGED <<flow, last_port, mapping, mirrored>>

Goto(step) == pc' = step /\ UNCHANGED <<todo, flow, last_port>>

Undisturbed == UNCHANGED <<network, call, kind, disruptions>>

Raise ==
    /\ pc \notin {"removed", "ended", "done"}
    /\ disruptions < MaxDisruptions /\ disruptions' = disruptions + 1
    /\ Ends
    /\ UNCHANGED <<network, call, kind>>

get_nw_links ==
    /\ pc = "links"
    /\ current_links' = links
    /\ Goto("graph")
    /\ UNCHANGED <<id_to_dpid, port_numbers, verdict, mirrored>> /\ Undisturbed

(* Without a collector among the hosts every switch counts.                *)
get_collector_switch_dpid == {h.switch : h \in {k \in hosts : k.is = "collector"}}

CoreLinks(L) == {l \in L : {l.src, l.dst} \cap get_collector_switch_dpid = {}}

generate_graph_isomorphism(L) ==
    {f \in [Ids -> {l.src : l \in L}] :
        /\ IsInjective(f) /\ {f[i] : i \in Ids} = {l.src : l \in L}
        /\ {{f[i] : i \in e} : e \in TargetEdges} = {{l.src, l.dst} : l \in L}}

get_and_validate_onos_topo ==
    /\ pc = "graph"
    /\ LET isomorphisms == generate_graph_isomorphism(CoreLinks(current_links))
       IN  IF isomorphisms = {} THEN Ends
           ELSE /\ id_to_dpid' \in isomorphisms
                /\ pc' = (IF kind = "port" THEN "ports" ELSE "flow")
                /\ todo' = IF kind = "port" THEN Entries ELSE {}
                /\ UNCHANGED <<current_links, port_numbers, verdict, flow, last_port, mirrored>>
    /\ Undisturbed

get_ports_that_connect(s, d) == {l.src_port : l \in {k \in links : k.src = s /\ k.dst = d}}

(* map_port_ids_to_nw_ports, one entry at a time: each asks for the links. *)
map_port_ids_to_nw_ports(i, j) ==
    /\ pc = "ports" /\ todo # {} /\ <<i, j>> = CHOOSE e \in todo : TRUE
    /\ LET found == get_ports_that_connect(id_to_dpid[i], id_to_dpid[j])
       IN  IF found = {} THEN Ends
           ELSE /\ \E p \in found :
                      port_numbers' = [k \in DOMAIN port_numbers \cup {<<i, PortMap[i][j]>>} |->
                                          IF k = <<i, PortMap[i][j]>> THEN p ELSE port_numbers[k]]
                /\ todo' = todo \ {<<i, j>>}
                /\ pc' = (IF todo = {<<i, j>>} THEN "verify" ELSE pc)
                /\ UNCHANGED <<current_links, id_to_dpid, verdict, flow, last_port, mirrored>>
    /\ Undisturbed

(* A flow's ports as the solver's file has them; the last one is read as 0.*)
Ports(f) == [k \in 1 .. Len(Paths[f]) |->
                IF k = Len(Paths[f]) THEN 0 ELSE PortMap[Paths[f][k]][Paths[f][k + 1]]]

(* port_ids_to_port_numbers is a map from switch ids to maps from port ids *)
(* to port numbers; verify_that_all_flows_are_mirrored looks a port id up  *)
(* in it and compares the maps it finds, empty ones for ids it has not.    *)
LookedUp(p) == [k \in {m[2] : m \in {n \in DOMAIN port_numbers : n[1] = p}} |-> port_numbers[<<p, k>>]]

SeemsMirrored(f) ==
    \E m \in MirrorPorts, k \in 1 .. Len(Paths[f]) :
        Paths[f][k] = m[1] /\ LookedUp(Ports(f)[k]) = LookedUp(m[2])

verify_that_all_flows_are_mirrored ==
    /\ pc = "verify"
    /\ verdict' = IF \A f \in DOMAIN Paths : SeemsMirrored(f) THEN "all" ELSE "error"
    /\ Goto("flow")
    /\ UNCHANGED <<current_links, id_to_dpid, port_numbers, mirrored>> /\ Undisturbed
-----------------------------------------------------------------------------
get_host_port(d) == {h.port : h \in {k \in hosts : k.switch = d /\ k.is = "host"}}

FindHostPort ==
    /\ pc = "flow" /\ kind = "port"
    /\ LET found == get_host_port(id_to_dpid[Paths[flow][Len(Paths[flow])]])
       IN  IF found = {} THEN Ends
           ELSE /\ last_port' \in found /\ pc' = "post"
                /\ UNCHANGED <<todo, flow, mapping, mirrored>>
    /\ Undisturbed

(* A solution without an entry for the flow is a KeyError.                 *)
FindMirrorSwitch ==
    /\ pc = "flow" /\ kind = "flow"
    /\ IF flow \in DOMAIN MirrorSwitch THEN Goto("post") /\ UNCHANGED <<mapping, mirrored>> ELSE Ends
    /\ Undisturbed

PortId(f, k) == Ports(f)[k]  \* mutant: the port ids go out untranslated
PortNumber(f, k) == port_numbers[<<Paths[f][k], Ports(f)[k]>>]

PortRequest(f) ==
    [nodes |-> [k \in 1 .. Len(Paths[f]) |-> id_to_dpid[Paths[f][k]]],
     ports |-> [k \in 1 .. Len(Paths[f]) |->
                   IF k = Len(Paths[f]) THEN last_port ELSE PortNumber(f, k)],
     mirrors |-> {<<id_to_dpid[m[1]], port_numbers[m]>> : m \in MirrorPorts}]

FlowRequest(f) ==
    [nodes |-> [k \in 1 .. Len(Paths[f]) |-> id_to_dpid[Paths[f][k]]],
     ports |-> <<>>,
     mirrors |-> {<<id_to_dpid[MirrorSwitch[f]], 0>>}]

Request(f) == IF kind = "port" THEN PortRequest(f) ELSE FlowRequest(f)

Posted(f) == mirrored \cup {[call |-> call, tag |-> f, route |-> Request(f)]}

(* request_port_mirroring and request_flow_mirroring; after the last flow  *)
(* the trial runs.                                                         *)
request_mirroring ==
    /\ pc = "post"
    /\ mirrored' = Posted(flow)
    /\ IF flow < Len(Paths) THEN flow' = flow + 1 /\ pc' = "flow" /\ todo' = {}
       ELSE flow' = flow /\ pc' = "remove" /\ todo' = DOMAIN Paths
    /\ UNCHANGED <<mapping, last_port>> /\ Undisturbed

(* The controller acts and the answer with the route's id is lost.         *)
AnswerLost ==
    /\ pc = "post"
    /\ disruptions < MaxDisruptions /\ disruptions' = disruptions + 1
    /\ mirrored' = Posted(flow)
    /\ pc' = "ended" /\ todo' = {}
    /\ UNCHANGED <<network, call, kind, mapping, flow, last_port>>

LastLeft(f) ==  \* mutant: the loop leaves the last token out
    {m \in mirrored : ~(m.call = call /\ m.tag = f /\ todo # {f})}
Without(f) == {m \in mirrored : ~(m.call = call /\ m.tag = f)}

remove_port_mirroring_rules(f) ==
    /\ pc = "remove" /\ f \in todo /\ \A g \in todo : f <= g
    /\ mirrored' = Without(f)
    /\ todo' = todo \ {f} /\ pc' = (IF todo = {f} THEN "removed" ELSE pc)
    /\ UNCHANGED <<flow, last_port, mapping>> /\ Undisturbed

(* The next trial, in a new process when the last one ended early.         *)
NextCall ==
    /\ pc \in {"removed", "ended"}
    /\ IF call = MaxCalls THEN pc' = "done" /\ UNCHANGED <<call, kind, mapping, flow, last_port, pastLinks, pastHosts>>
       ELSE /\ call' = call + 1 /\ kind' \in {"flow", "port"} /\ pc' = "links"
            /\ current_links' = {} /\ id_to_dpid' = <<>> /\ port_numbers' = <<>> /\ verdict' = "none"
            /\ flow' = 1 /\ last_port' = 0
            /\ pastLinks' = links /\ pastHosts' = hosts
    /\ UNCHANGED <<links, hosts, mirrored, todo, disruptions>>
-----------------------------------------------------------------------------
Disrupt ==
    /\ pc # "done"
    /\ disruptions < MaxDisruptions /\ disruptions' = disruptions + 1
    /\ pastLinks' = pastLinks \cup links' /\ pastHosts' = pastHosts \cup hosts'
    /\ UNCHANGED <<mirrored, call, kind, pc, mapping, todo, flow, last_port>>

LinkDown(l) == l \in links /\ links' = links \ {l, Reversed(l)} /\ UNCHANGED hosts /\ Disrupt

(* A cable goes to another port of one of its switches.                    *)
MoveCable(l, p) ==
    /\ l \in links
    /\ \A k \in links : k.src = l.src => k.src_port # p
    /\ \A h \in hosts : h.switch = l.src => h.port # p
    /\ LET moved == [l EXCEPT !.src_port = p]
       IN  links' = (links \ {l, Reversed(l)}) \cup {moved, Reversed(moved)}
    /\ UNCHANGED hosts /\ Disrupt

ForgetHost(h) == h \in hosts /\ hosts' = hosts \ {h} /\ UNCHANGED links /\ Disrupt

AllCallsOver == pc = "done" /\ UNCHANGED vars

Next ==
    \/ AllCallsOver \/ Raise \/ get_nw_links \/ get_and_validate_onos_topo \/ verify_that_all_flows_are_mirrored
    \/ FindHostPort \/ FindMirrorSwitch \/ request_mirroring \/ AnswerLost \/ NextCall
    \/ \E i, j \in Ids : map_port_ids_to_nw_ports(i, j)
    \/ \E f \in DOMAIN Paths : remove_port_mirroring_rules(f)
    \/ \E l \in links : LinkDown(l) \/ \E p \in 1 .. MaxPort : MoveCable(l, p)
    \/ \E h \in hosts : ForgetHost(h)

Spec == Init /\ [][Next]_vars
-----------------------------------------------------------------------------
(* Every variable has the values the calls and the controller can give it; *)
(* the program only knows of links and hosts that have been there.         *)
TypeOK ==
    /\ links \subseteq pastLinks /\ hosts \subseteq pastHosts
    /\ current_links \subseteq pastLinks
    /\ id_to_dpid = <<>> \/ id_to_dpid \in [Ids -> Switches]
    /\ \A k \in DOMAIN port_numbers : k[1] \in Ids /\ port_numbers[k] \in 1 .. MaxPort
    /\ call \in 1 .. MaxCalls /\ kind \in {"flow", "port"}
    /\ pc \in {"links", "graph", "ports", "verify", "flow", "post", "remove", "removed", "ended", "done"}
    /\ flow \in DOMAIN Paths /\ last_port \in 0 .. MaxPort
    /\ verdict \in {"none", "all", "error"}
    /\ disruptions \in 0 .. MaxDisruptions
    /\ \A m \in mirrored : m.call \in 1 .. call /\ m.tag \in DOMAIN Paths

Now == {m \in mirrored : m.call = call}

Covered(f) == \E m \in MirrorPorts, k \in 1 .. Len(Paths[f]) - 1 :
                 m = <<Paths[f][k], Ports(f)[k]>>

(* A flow that crosses a mirrored port in the solver's solution does so in *)
(* the network, by the port numbers of its own request, whatever           *)
(* isomorphism was chosen and however the cables move while the ports are  *)
(* being translated; and no other flow does, unless a cable took the port  *)
(* another one had left, which needs two moves.                            *)
MirroredAsSolved ==
    \A m \in {n \in Now : n.route.ports # <<>>} :
        LET crosses == \E k \in 1 .. Len(m.route.nodes) - 1 :
                          <<m.route.nodes[k], m.route.ports[k]>> \in m.route.mirrors
        IN  /\ Covered(m.tag) => crosses
            /\ disruptions < 2 => (crosses => Covered(m.tag))

(* A trial that removed its flows has none left at the controller, and     *)
(* flows of an earlier trial are there only if a call of it raised.        *)
LeftOnlyByRaise ==
    /\ pc = "removed" => Now = {}
    /\ disruptions = 0 => mirrored = Now

(* "All flows have been mirrored." is printed only when every flow crosses *)
(* a mirrored port of the solution.                                        *)
VerdictRight == verdict = "all" => \A f \in DOMAIN Paths : Covered(f)
=============================================================================
