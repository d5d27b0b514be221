-------------------------- MODULE MirroringProofs ---------------------------
(***************************************************************************)
(* Proofs about the mirroring experiments. The flows in the network, for   *)
(* any topology of the solver, cabling, isomorphism between the two,       *)
(* solution, and order of the port map: that they are mirrored where the   *)
(* solution says, and that a flow stays at the controller only by a call   *)
(* that raised. The trials, for any flows, solutions and failures of the   *)
(* solver: that their results have the right label.                        *)
(*                                                                         *)
(* The first invariant says that a number map_port_ids_to_nw_ports entered *)
(* is that of a port some cable between the two switches was on            *)
(* (Translated), and that two cables share a port only after two           *)
(* disruptions (Wired). So a path crosses a mirrored port id of the        *)
(* solution exactly when the request crosses a mirrored port number        *)
(* (RequestAsSolved).                                                      *)
(***************************************************************************)
EXTENDS Mirroring, TLAPS

Link == [src : Switches, src_port : 1 .. MaxPort, dst : Switches, dst_port : 1 .. MaxPort]

(* No port has been on cables to two switches.                             *)
OneCable(L) == \A k, l \in L : k.src = l.src /\ k.src_port = l.src_port => k.dst = l.dst

Wired ==
    /\ disruptions \in Nat
    /\ links \subseteq pastLinks /\ pastLinks \subseteq Link
    /\ disruptions = 0 => links = Cabling /\ pastLinks = Cabling /\ hosts = Attached
    /\ disruptions < 2 => OneCable(pastLinks)

Mapped == {"ports", "verify", "flow", "post"}

Translated ==
    /\ pc \in {"links", "graph"} => DOMAIN port_numbers = {}
    /\ pc \in Mapped => DOMAIN id_to_dpid = Ids /\ IsInjective(id_to_dpid)
    /\ \A k \in DOMAIN port_numbers : \E e \in Entries : \E l \in pastLinks :
          /\ k = <<e[1], PortMap[e[1]][e[2]]>>
          /\ l.src = id_to_dpid[e[1]] /\ l.dst = id_to_dpid[e[2]] /\ l.src_port = port_numbers[k]
    /\ pc = "ports" => todo \subseteq Entries
    /\ kind = "port" /\ pc \in Mapped =>
          \A e \in Entries : <<e[1], PortMap[e[1]][e[2]]>> \in DOMAIN port_numbers
                               \/ (pc = "ports" /\ e \in todo)

Crosses(m) == \E k \in 1 .. Len(m.route.nodes) - 1 :
                 <<m.route.nodes[k], m.route.ports[k]>> \in m.route.mirrors

AsSolved ==
    \A m \in mirrored : m.call = call /\ m.route.ports # <<>> =>
        /\ Covered(m.tag) => Crosses(m)
        /\ disruptions < 2 => (Crosses(m) => Covered(m.tag))

Tagged ==
    /\ call \in Nat /\ flow \in DOMAIN Paths
    /\ \A m \in mirrored : m.call \in Nat /\ m.call <= call /\ m.tag \in DOMAIN Paths

PInv == Wired /\ Translated /\ Tagged /\ AsSolved

(* Every flow has a solution, and every switch that is not the collector's *)
(* has a host.                                                             *)
Complete ==
    /\ DOMAIN Paths \subseteq DOMAIN MirrorSwitch
    /\ \A l \in Cabling : \E h \in Attached : h.switch = l.src /\ h.is \in {"host", "collector"}

Placed ==
    disruptions = 0 =>
        /\ pc = "graph" => current_links = Cabling
        /\ pc \in Mapped => \A i \in Ids : \E h \in Attached : h.switch = id_to_dpid[i] /\ h.is = "host"

Left ==
    /\ pc = "remove" => \A m \in mirrored : m.call = call => m.tag \in todo
    /\ pc = "removed" => \A m \in mirrored : m.call # call
    /\ disruptions = 0 =>
          /\ \A m \in mirrored : m.call = call
          /\ pc \in {"links", "graph", "ports", "verify", "ended"} => mirrored = {}

LInv == PInv /\ Placed /\ Left

-----------------------------------------------------------------------------
(* The steps of the program and of the network, by what they do.  A        *)
(* steady one leaves the mapping alone and adds no flow.                   *)
Steady ==
    /\ UNCHANGED <<id_to_dpid, port_numbers, kind, call, flow>>
    /\ mirrored' \subseteq mirrored /\ disruptions' \in {disruptions, disruptions + 1}
    /\ pastLinks \subseteq pastLinks'
    /\ pc' \in {"links", "graph"} => pc \in {"links", "graph"}
    /\ pc' \in Mapped => pc \in Mapped /\ (pc' = "ports" => pc = "ports" /\ todo' = todo)
    /\ pc = "ports" => pc' \in {"ports", "ended"}

Posts ==
    /\ pc = "post" /\ mirrored' = Posted(flow)
    /\ UNCHANGED <<id_to_dpid, port_numbers, kind, call, links, hosts, pastLinks>>
    /\ disruptions' \in {disruptions, disruptions + 1}
    /\ pc' \in {"flow", "remove", "ended"} /\ flow' \in {flow, flow + 1}
    /\ flow' # flow => flow < Len(Paths)
    /\ pc' = "remove" => todo' = DOMAIN Paths
    /\ pc' = "ended" => disruptions' = disruptions + 1

Maps ==
    /\ pc = "graph" /\ id_to_dpid' \in generate_graph_isomorphism(CoreLinks(current_links))
    /\ UNCHANGED <<port_numbers, kind, call, flow, mirrored, disruptions, links, hosts, pastLinks>>
    /\ pc' = (IF kind = "port" THEN "ports" ELSE "flow")
    /\ todo' = IF kind = "port" THEN Entries ELSE {}

Numbers(i, j) ==
    /\ pc = "ports" /\ <<i, j>> \in todo
    /\ \E p \in get_ports_that_connect(id_to_dpid[i], id_to_dpid[j]) :
          port_numbers' = [k \in DOMAIN port_numbers \cup {<<i, PortMap[i][j]>>} |->
                              IF k = <<i, PortMap[i][j]>> THEN p ELSE port_numbers[k]]
    /\ UNCHANGED <<id_to_dpid, kind, call, flow, mirrored, disruptions, links, hosts, pastLinks>>
    /\ todo' = todo \ {<<i, j>>} /\ pc' = (IF todo = {<<i, j>>} THEN "verify" ELSE pc)

Disruption == \/ \E l \in links : LinkDown(l) \/ \E p \in 1 .. MaxPort : MoveCable(l, p)
              \/ \E h \in hosts : ForgetHost(h)

(* Every step is one of these.                                             *)
LEMMA Steps ==
  ASSUME [Next]_vars
  PROVE  Steady \/ Posts \/ Maps \/ (\E i, j \in Ids : Numbers(i, j)) \/ NextCall
  <1> USE DEF Undisturbed, network, mapping, Goto, Ends, Mapped
  <1>1. CASE UNCHANGED vars
    BY Zenon, <1>1 DEF vars, Steady
  <1>2. CASE AllCallsOver
    BY Zenon, <1>2 DEF AllCallsOver, vars, Steady
  <1>3. CASE Raise
    BY Zenon, <1>3 DEF Raise, Steady
  <1>4. CASE get_nw_links
    BY Zenon, <1>4 DEF get_nw_links, Steady
  <1>5. CASE get_and_validate_onos_topo
      BY Zenon, <1>5 DEF get_and_validate_onos_topo, Steady, Maps
  <1>6. CASE verify_that_all_flows_are_mirrored
    BY Zenon, <1>6 DEF verify_that_all_flows_are_mirrored, Steady
  <1>7. CASE FindHostPort
    BY Zenon, <1>7 DEF FindHostPort, Steady
  <1>8. CASE FindMirrorSwitch
    BY Zenon, <1>8 DEF FindMirrorSwitch, Steady
  <1>9. CASE request_mirroring
    BY Zenon, <1>9 DEF request_mirroring, Posts
  <1>10. CASE AnswerLost
    BY Zenon, <1>10 DEF AnswerLost, Posts
  <1>11. ASSUME NEW i \in Ids, NEW j \in Ids, map_port_ids_to_nw_ports(i, j)
         PROVE  Steady \/ Numbers(i, j)
      BY Zenon, <1>11 DEF map_port_ids_to_nw_ports, Steady, Numbers
  <1>12. ASSUME NEW f \in DOMAIN Paths, remove_port_mirroring_rules(f)
         PROVE  Steady
    BY Zenon, <1>12 DEF remove_port_mirroring_rules, Without, Steady
  <1>13. CASE Disruption
    BY ZenonT(30), <1>13 DEF Disruption, LinkDown, MoveCable, ForgetHost, Disrupt, Steady
  <1> QED
    BY Zenon, <1>1, <1>2, <1>3, <1>4, <1>5, <1>6, <1>7, <1>8, <1>9, <1>10, <1>11, <1>12, <1>13
       DEF Next, Disruption

(* Only a disruption changes what the controller reports.                  *)
LEMMA NetworkSteps ==
  ASSUME [Next]_vars
  PROVE  \/ UNCHANGED <<links, hosts, pastLinks>> /\ disruptions' \in {disruptions, disruptions + 1}
         \/ UNCHANGED <<links, hosts, disruptions>> /\ pastLinks' = links
         \/ Disruption
  <1> USE DEF Undisturbed, network
  <1>1. CASE UNCHANGED vars \/ AllCallsOver
    BY Zenon, <1>1 DEF vars, AllCallsOver
  <1>2. CASE Raise \/ AnswerLost
    BY Zenon, <1>2 DEF Raise, AnswerLost
  <1>3. CASE get_nw_links \/ get_and_validate_onos_topo \/ verify_that_all_flows_are_mirrored
    BY Zenon, <1>3 DEF get_nw_links, get_and_validate_onos_topo, verify_that_all_flows_are_mirrored
  <1>4. CASE FindHostPort \/ FindMirrorSwitch \/ request_mirroring
    BY Zenon, <1>4 DEF FindHostPort, FindMirrorSwitch, request_mirroring
  <1>5. CASE \/ \E i, j \in Ids : map_port_ids_to_nw_ports(i, j)
             \/ \E f \in DOMAIN Paths : remove_port_mirroring_rules(f)
    BY Zenon, <1>5 DEF map_port_ids_to_nw_ports, remove_port_mirroring_rules
  <1>6. CASE NextCall
    BY Zenon, <1>6 DEF NextCall
  <1> QED
    BY Zenon, <1>1, <1>2, <1>3, <1>4, <1>5, <1>6 DEF Next, Disruption

(* Whatever is disrupted, the links reported now are among those seen so   *)
(* far, and one disruption does not put two cables on a port.              *)
LEMMA WiredKept ==
  ASSUME MirroringAssumption, Wired, [Next]_vars
  PROVE  Wired'
  <1>1. CASE UNCHANGED <<links, hosts, pastLinks>> /\ disruptions' \in {disruptions, disruptions + 1}
    BY <1>1 DEF Wired, OneCable
  <1>2. CASE UNCHANGED <<links, hosts, disruptions>> /\ pastLinks' = links
    BY <1>2 DEF Wired, OneCable
  <1>3. CASE Disruption
    <2>1. disruptions' = disruptions + 1 /\ pastLinks' = pastLinks \cup links'
      BY Zenon, <1>3 DEF Disruption, LinkDown, MoveCable, ForgetHost, Disrupt
    <2>2. CASE links' \subseteq links
      BY <2>1, <2>2 DEF Wired, OneCable
    <2>3. ASSUME NEW l \in links, NEW p \in 1 .. MaxPort, MoveCable(l, p)
          PROVE  Wired'
      <3> DEFINE moved == [l EXCEPT !.src_port = p]
                 back == Reversed(moved)
      <3>1. l \in Link /\ moved \in Link /\ back \in Link
        BY Zenon DEF Wired, Link, Reversed
      <3>2. /\ moved.src = l.src /\ moved.src_port = p /\ moved.dst = l.dst
            /\ back.src = l.dst /\ back.src_port = l.dst_port /\ back.dst = l.src
        BY DEF Link, Reversed
      <3>3. links' = (links \ {l, Reversed(l)}) \cup {moved, back}
        BY Zenon, <2>3 DEF MoveCable
      <3>4. ASSUME disruptions = 0
            PROVE  OneCable(pastLinks')
        <4>1. links = Cabling /\ pastLinks = Cabling /\ OneCable(Cabling)
          BY <3>4 DEF Wired
        <4>2. \A k \in Cabling : k.src = l.src => k.src_port # p
          BY Zenon, <2>3, <4>1 DEF MoveCable
        <4>3. Reversed(l) \in Cabling
          BY Zenon, <4>1 DEF MirroringAssumption
        <4>4. \A k \in Cabling : k.src = l.dst /\ k.src_port = l.dst_port => k.dst = l.src
          BY Zenon, <4>1, <4>3 DEF OneCable, Reversed
        <4>5. pastLinks' \subseteq Cabling \cup {moved, back}
          BY Zenon, <2>1, <3>3, <4>1
        <4> HIDE DEF moved, back
        <4>6. OneCable(Cabling \cup {moved, back})
          BY <3>2, <4>1, <4>2, <4>4 DEF OneCable
        <4> QED
          BY Zenon, <4>5, <4>6 DEF OneCable
      <3>5. disruptions' < 2 => disruptions = 0
        BY <2>1 DEF Wired
      <3> HIDE DEF moved, back
      <3> QED
        BY <2>1, <3>1, <3>3, <3>4, <3>5 DEF Wired
    <2> QED
      BY Zenon, <1>3, <2>2, <2>3 DEF Disruption, LinkDown, ForgetHost
  <1> QED
    BY Zenon, <1>1, <1>2, <1>3, NetworkSteps

(* The requests at the controller were posted by this call or an earlier   *)
(* one for flows of the solution.                                          *)
LEMMA TaggedKept ==
  ASSUME MirroringAssumption, Tagged, [Next]_vars
  PROVE  Tagged'
  <1>1. CASE Steady
    BY Zenon, <1>1 DEF Steady, Tagged
  <1>2. CASE Posts
      BY <1>2 DEF Posts, Tagged, MirroringAssumption, Posted
  <1>3. CASE Maps \/ \E i, j \in Ids : Numbers(i, j)
    BY Zenon, <1>3 DEF Maps, Numbers, Tagged
  <1>4. CASE NextCall
      BY SMTT(30), <1>4 DEF MirroringAssumption, NextCall, Tagged
  <1> QED
    BY Zenon, <1>1, <1>2, <1>3, <1>4, Steps

(* What map_port_ids_to_nw_ports has entered for a port id is the port of  *)
(* a cable between the two switches, as it was then.                       *)
LEMMA TranslatedKept ==
  ASSUME MirroringAssumption, Wired, Translated, [Next]_vars
  PROVE  Translated'
  <1> DEFINE id(e) == <<e[1], PortMap[e[1]][e[2]]>>
             Found(k, e, l, f, n) ==
                 k = id(e) /\ l.src = f[e[1]] /\ l.dst = f[e[2]] /\ l.src_port = n
  <1>0. Entries' = Entries
    OBVIOUS
  <1>a. ASSUME UNCHANGED <<id_to_dpid, port_numbers>>, pastLinks \subseteq pastLinks'
        PROVE  \A k \in DOMAIN port_numbers' : \E e \in Entries : \E l \in pastLinks' :
                   Found(k, e, l, id_to_dpid', port_numbers'[k])
    BY <1>a DEF Translated
  <1>b. ASSUME UNCHANGED <<id_to_dpid, port_numbers, kind>>, pastLinks \subseteq pastLinks',
               pc' \in {"links", "graph"} => pc \in {"links", "graph"},
               pc' \in Mapped => pc \in Mapped,
               pc' = "ports" \/ (pc = "ports" /\ pc' \in Mapped) => pc = pc' /\ todo' = todo
        PROVE  Translated'
      BY <1>b, <1>0, <1>a DEF Translated, Mapped, IsInjective
  <1>1. CASE Steady
    BY Zenon, <1>b, <1>1 DEF Steady, Mapped
  <1>2. CASE Posts
    BY Zenon, <1>b, <1>2 DEF Posts, Mapped
  <1>3. CASE Maps
      BY Zenon, <1>3 DEF Maps, Translated, generate_graph_isomorphism, Mapped, Entries, IsInjective
  <1>4. ASSUME NEW i \in Ids, NEW j \in Ids, Numbers(i, j)
        PROVE  Translated'
    <2>0. PICK p \in get_ports_that_connect(id_to_dpid[i], id_to_dpid[j]) :
              port_numbers' = [k \in DOMAIN port_numbers \cup {<<i, PortMap[i][j]>>} |->
                                  IF k = <<i, PortMap[i][j]>> THEN p ELSE port_numbers[k]]
      BY Zenon, <1>4 DEF Numbers
    <2>1. PICK l \in links : l.src = id_to_dpid[i] /\ l.dst = id_to_dpid[j] /\ l.src_port = p
      BY Zenon DEF get_ports_that_connect
    <2>2. /\ pc = "ports" /\ <<i, j>> \in todo /\ todo' = todo \ {<<i, j>>}
          /\ UNCHANGED <<id_to_dpid, kind, links, pastLinks>>
          /\ pc' = (IF todo = {<<i, j>>} THEN "verify" ELSE pc)
      BY Zenon, <1>4 DEF Numbers
    <2>3. <<i, j>> \in Entries /\ l \in pastLinks
      BY Zenon, <2>2 DEF Translated, Wired
    <2>4. ASSUME NEW k \in DOMAIN port_numbers'
          PROVE  \E e \in Entries : \E m \in pastLinks : Found(k, e, m, id_to_dpid, port_numbers'[k])
        BY Zenon, <2>0, <2>1, <2>3 DEF Translated
    <2>5. \A e \in Entries : kind = "port" => id(e) \in DOMAIN port_numbers' \/ (pc' = "ports" /\ e \in todo')
        BY <2>0, <2>2 DEF Translated, Mapped
    <2>6. Entries' = Entries
      OBVIOUS
    <2> QED
      BY <2>2, <2>4, <2>5, <2>6 DEF Translated, Mapped, IsInjective
  <1>5. CASE NextCall
      BY <1>5 DEF NextCall, mapping, Mapped, Translated
  <1> QED
    BY Zenon, <1>1, <1>2, <1>3, <1>4, <1>5, Steps

(* The claim of MirroredAsSolved about the request that is being posted:   *)
(* two port ids of a switch have the same number only if the cables to two *)
(* neighbours have been on the same port.                                  *)
LEMMA RequestAsSolved ==
  ASSUME MirroringAssumption, Wired, Translated, Tagged, pc = "post", kind = "port",
         NEW m, m = [call |-> call, tag |-> flow, route |-> PortRequest(flow)]
  PROVE  /\ Covered(flow) => Crosses(m)
         /\ disruptions < 2 => (Crosses(m) => Covered(flow))
  <1> DEFINE path == Paths[flow]
             n == Len(path)
             portid(k) == <<path[k], Ports(flow)[k]>>
  <1>1. path \in Seq(Ids) /\ n \in Nat /\ \A k \in 1 .. n : path[k] \in Ids
    BY DEF Tagged, MirroringAssumption
  <1>2. /\ m.route.nodes = [k \in 1 .. n |-> id_to_dpid[path[k]]]
        /\ m.route.ports = [k \in 1 .. n |-> IF k = n THEN last_port ELSE port_numbers[portid(k)]]
        /\ m.route.mirrors = {<<id_to_dpid[p[1]], port_numbers[p]>> : p \in MirrorPorts}
    BY Zenon DEF PortRequest, PortNumber
  <1>3. Len(m.route.nodes) = n
    BY <1>2
  <1>4. \A k \in 1 .. n - 1 : /\ m.route.nodes[k] = id_to_dpid[path[k]]
                              /\ m.route.ports[k] = port_numbers[portid(k)]
    BY <1>2
  <1>5. ASSUME Covered(flow)
        PROVE  Crosses(m)
    <2>1. PICK p \in MirrorPorts, k \in 1 .. n - 1 : p = portid(k)
      BY Zenon, <1>5 DEF Covered
    <2>2. p[1] = path[k]
      BY Zenon, <2>1
    <2> HIDE DEF portid
    <2>3. <<m.route.nodes[k], m.route.ports[k]>> = <<id_to_dpid[p[1]], port_numbers[p]>>
      BY <1>4, <2>1, <2>2
    <2>4. <<m.route.nodes[k], m.route.ports[k]>> \in m.route.mirrors
      BY <1>2, <2>3
    <2> QED
      BY <1>3, <2>4, Zenon DEF Crosses
  <1>6. ASSUME disruptions < 2, Crosses(m)
        PROVE  Covered(flow)
    <2>1. PICK k \in 1 .. n - 1 : <<m.route.nodes[k], m.route.ports[k]>> \in m.route.mirrors
      BY Zenon, <1>3, <1>6 DEF Crosses
    <2>2. PICK p \in MirrorPorts : id_to_dpid[path[k]] = id_to_dpid[p[1]] /\ port_numbers[portid(k)] = port_numbers[p]
      <3>1. <<id_to_dpid[path[k]], port_numbers[portid(k)]>>
                \in {<<id_to_dpid[p[1]], port_numbers[p]>> : p \in MirrorPorts}
        BY <1>2, <1>4, <2>1, Zenon
      <3> HIDE DEF portid
      <3> QED
        BY Zenon, <3>1
    <2>3. DOMAIN id_to_dpid = Ids /\ IsInjective(id_to_dpid)
      BY Zenon DEF Translated, Mapped
    <2>4. k \in 1 .. n /\ k + 1 \in 1 .. n /\ k # n
      OBVIOUS
    <2>5. path[k] \in Ids /\ path[k + 1] \in Ids /\ {path[k], path[k + 1]} \in TargetEdges
      BY Zenon, <1>1, <2>4 DEF MirroringAssumption, Range, Tagged
    <2>6. Ports(flow)[k] = PortMap[path[k]][path[k + 1]]
      BY Zenon, <2>4 DEF Ports
    <2>7. \A e \in Entries : <<e[1], PortMap[e[1]][e[2]]>> \in DOMAIN port_numbers
      BY Zenon DEF Translated, Mapped
    <2>8. portid(k) \in DOMAIN port_numbers
      <3>1. <<path[k], path[k + 1]>> \in Entries
        BY Zenon, <2>5 DEF Entries
      <3> QED
        BY Zenon, <2>6, <2>7, <3>1
    <2>9. PICK d \in Entries : p = <<d[1], PortMap[d[1]][d[2]]>>
      BY Zenon DEF MirroringAssumption
    <2>10. p \in DOMAIN port_numbers /\ p[1] = path[k]
      BY Zenon, <2>2, <2>3, <2>5, <2>7, <2>9 DEF IsInjective, Entries
    <2>11. PICK e \in Entries, l \in pastLinks :
              /\ portid(k) = <<e[1], PortMap[e[1]][e[2]]>>
              /\ l.src = id_to_dpid[e[1]] /\ l.dst = id_to_dpid[e[2]] /\ l.src_port = port_numbers[portid(k)]
      BY Zenon, <2>8 DEF Translated
    <2>12. PICK e2 \in Entries, l2 \in pastLinks :
              /\ p = <<e2[1], PortMap[e2[1]][e2[2]]>>
              /\ l2.src = id_to_dpid[e2[1]] /\ l2.dst = id_to_dpid[e2[2]] /\ l2.src_port = port_numbers[p]
      BY Zenon, <2>10 DEF Translated
    <2>13. e[1] = path[k] /\ e2[1] = path[k] /\ e[2] \in Ids /\ e2[2] \in Ids
      BY ZenonT(30), <2>10, <2>11, <2>12 DEF Entries
    <2>14. l.dst = l2.dst
      BY <1>6, <2>2, <2>11, <2>12, <2>13 DEF Wired, OneCable
    <2>15. e[2] = e2[2]
      BY Zenon, <2>3, <2>11, <2>12, <2>13, <2>14 DEF IsInjective
    <2>16. p = portid(k)
      BY Zenon, <2>11, <2>12, <2>13, <2>15
    <2> QED
      BY Zenon, <2>16 DEF Covered
  <1> QED
    BY Zenon, <1>5, <1>6

(* A request posted for a flow is as the solution asks, and stays it       *)
(* whatever happens to the network afterwards.                             *)
LEMMA AsSolvedKept ==
  ASSUME MirroringAssumption, Wired, Translated, Tagged, AsSolved, [Next]_vars
  PROVE  AsSolved'
  <1>0. \A m : (Crosses(m)' <=> Crosses(m)) /\ (Covered(m.tag)' <=> Covered(m.tag))
    BY Zenon DEF Covered, Ports
  <1>1. ASSUME mirrored' \subseteq mirrored, call' = call, disruptions' \in {disruptions, disruptions + 1}
        PROVE  AsSolved'
      BY SMTT(30), <1>1, <1>0 DEF Wired, AsSolved
  <1>2. CASE Posts
      BY <1>2, RequestAsSolved, <1>0 DEF Posts, Wired, Posted, Request, FlowRequest,
         AsSolved
  <1>3. CASE Steady \/ Maps \/ \E i, j \in Ids : Numbers(i, j)
    BY Zenon, <1>1, <1>3 DEF Steady, Maps, Numbers
  <1>4. CASE NextCall
      BY <1>4, <1>1 DEF NextCall, AsSolved, Tagged
  <1> QED
    BY Zenon, <1>2, <1>3, <1>4, Steps

(* Before the first call nothing is mapped and nothing is posted.          *)
LEMMA MirroringInitially ==
  ASSUME MirroringAssumption, Init
  PROVE  PInv
  BY DEF Init, Unmapped, MirroringAssumption, PInv, Wired, OneCable, Link, Translated,
         Mapped, Tagged, AsSolved

(* The inductive invariant behind MirroredAsSolved.                        *)
LEMMA MirroringInvariant ==
  ASSUME MirroringAssumption
  PROVE  Spec => []PInv
  <1>1. Init => PInv
    BY Zenon, MirroringInitially
  <1>2. PInv /\ [Next]_vars => PInv'
    BY Zenon, WiredKept, TranslatedKept, TaggedKept, AsSolvedKept DEF PInv
  <1> QED
    BY <1>1, <1>2, PTL DEF Spec

(* A flow that crosses a mirrored port of the solution crosses it in the   *)
(* network, and with fewer than two disruptions no other flow does: for    *)
(* any topology, isomorphism, solution and order of the port map.          *)
THEOREM MirroredPorts ==
  ASSUME MirroringAssumption
  PROVE  Spec => []MirroredAsSolved
  <1>1. PInv => MirroredAsSolved
    BY Zenon DEF PInv, AsSolved, Crosses, MirroredAsSolved, Now
  <1> QED
    BY <1>1, MirroringInvariant, PTL

-----------------------------------------------------------------------------
(* How a step gets to where it is, for the places Left and Placed speak of.*)
LEMMA Ways ==
  ASSUME [Next]_vars
  PROVE  /\ pc' = "graph" => \/ pc = "graph" /\ current_links' = current_links
                             \/ pc = "links" /\ current_links' = links /\ disruptions' = disruptions
         /\ pc' \in {"links", "graph", "ports", "verify"} =>
                mirrored' = mirrored /\ (pc \in {"links", "graph", "ports", "verify"} \/ NextCall)
         /\ pc' = "remove" => \/ Posts
                              \/ pc = "remove" /\ todo' = todo /\ mirrored' = mirrored
                              \/ \E f : pc = "remove" /\ todo' = todo \ {f} /\ mirrored' = Without(f)
         /\ pc' = "removed" => \/ pc = "removed" /\ mirrored' = mirrored
                               \/ \E f : pc = "remove" /\ todo = {f} /\ mirrored' = Without(f)
         /\ pc' = "ended" /\ disruptions' = disruptions =>
                /\ mirrored' = mirrored
                /\ \/ pc \in {"graph", "ports", "ended"}
                   \/ pc = "flow" /\ kind = "port" /\ get_host_port(id_to_dpid[Paths[flow][Len(Paths[flow])]]) = {}
                   \/ pc = "flow" /\ flow \notin DOMAIN MirrorSwitch
  <1> USE DEF Undisturbed, network, mapping, Goto, Ends
  <1>1. CASE UNCHANGED vars \/ AllCallsOver
    BY Zenon, <1>1 DEF vars, AllCallsOver
  <1>3. CASE Raise
    BY <1>3 DEF Raise
  <1>4. CASE get_nw_links \/ verify_that_all_flows_are_mirrored
    BY Zenon, <1>4 DEF get_nw_links, verify_that_all_flows_are_mirrored
  <1>5. CASE get_and_validate_onos_topo
    BY Zenon, <1>5 DEF get_and_validate_onos_topo
  <1>7. CASE FindHostPort
    BY Zenon, <1>7 DEF FindHostPort
  <1>8. CASE FindMirrorSwitch
    BY Zenon, <1>8 DEF FindMirrorSwitch
  <1>9. CASE request_mirroring
    BY Zenon, <1>9 DEF request_mirroring, Posts
  <1>10. CASE AnswerLost
    BY <1>10 DEF AnswerLost, Posts
  <1>11. ASSUME NEW i \in Ids, NEW j \in Ids, map_port_ids_to_nw_ports(i, j)
         PROVE  /\ pc = "ports" /\ pc' \in {"ports", "verify", "ended"} /\ mirrored' = mirrored
    BY Zenon, <1>11 DEF map_port_ids_to_nw_ports
  <1>12. ASSUME NEW f \in DOMAIN Paths, remove_port_mirroring_rules(f)
         PROVE  /\ pc = "remove" /\ mirrored' = Without(f) /\ todo' = todo \ {f}
                /\ pc' = (IF todo = {f} THEN "removed" ELSE pc)
    BY Zenon, <1>12 DEF remove_port_mirroring_rules
  <1>13. CASE Disruption
    BY Zenon, <1>13 DEF Disruption, LinkDown, MoveCable, ForgetHost, Disrupt
  <1>14. CASE NextCall
    BY Zenon, <1>14 DEF NextCall
  <1> QED
    BY Zenon, <1>1, <1>3, <1>4, <1>5, <1>7, <1>8, <1>9, <1>10, <1>11, <1>12, <1>13, <1>14
       DEF Next, Disruption

(* A network without disruptions had none before.                          *)
LEMMA Undisrupted ==
  ASSUME Wired, [Next]_vars, disruptions' = 0
  PROVE  disruptions = 0 /\ disruptions' = disruptions
  <1>1. disruptions' \in {disruptions, disruptions + 1}
    BY Zenon, NetworkSteps DEF Disruption, LinkDown, MoveCable, ForgetHost, Disrupt
  <1> QED
    BY <1>1 DEF Wired

(* While nothing is disrupted the links that were read are the cabling,    *)
(* and every switch a topology node is mapped to has a host.               *)
LEMMA PlacedKept ==
  ASSUME MirroringAssumption, Complete, Wired, Placed, [Next]_vars
  PROVE  Placed'
  <1> SUFFICES ASSUME disruptions' = 0
               PROVE  /\ pc' = "graph" => current_links' = Cabling
                      /\ pc' \in Mapped => \A i \in Ids : \E h \in Attached :
                                              h.switch = id_to_dpid'[i] /\ h.is = "host"
    BY Zenon DEF Placed, Mapped
  <1>1. disruptions = 0 /\ links = Cabling /\ hosts = Attached
    BY Zenon, Undisrupted DEF Wired
  <1>2. pc' = "graph" => current_links' = Cabling
    BY Zenon, <1>1, Ways DEF Placed
  <1>3. CASE Steady \/ Posts \/ \E i, j \in Ids : Numbers(i, j)
    <2>1. id_to_dpid' = id_to_dpid /\ (pc' \in Mapped => pc \in Mapped)
      BY Zenon, <1>3 DEF Steady, Posts, Numbers, Mapped
    <2> QED
      BY Zenon, <1>1, <1>2, <2>1 DEF Placed
  <1>4. CASE Maps
    <2>1. pc = "graph" /\ id_to_dpid' \in generate_graph_isomorphism(CoreLinks(current_links))
      BY Zenon, <1>4 DEF Maps
    <2>2. current_links = Cabling
      BY Zenon, <1>1, <2>1 DEF Placed
    <2>3. ASSUME NEW i \in Ids
          PROVE  \E h \in Attached : h.switch = id_to_dpid'[i] /\ h.is = "host"
      <3>1. PICK l \in CoreLinks(Cabling) : id_to_dpid'[i] = l.src
        BY <2>1, <2>2 DEF generate_graph_isomorphism
      <3>2. l \in Cabling /\ l.src \notin {h.switch : h \in {k \in Attached : k.is = "collector"}}
        BY <1>1 DEF CoreLinks, get_collector_switch_dpid
      <3> QED
        BY Zenon, <3>1, <3>2 DEF Complete
    <2> QED
      BY Zenon, <1>2, <2>3
  <1>5. CASE NextCall
    BY Zenon, <1>5 DEF NextCall, Mapped
  <1> QED
    BY Zenon, <1>3, <1>4, <1>5, Steps

(* Of the flows a call has added, those still at the controller are on the *)
(* list it goes through when it removes them.                              *)
LEMMA LeftKept ==
  ASSUME MirroringAssumption, Complete, Wired, Tagged, Placed, Left, [Next]_vars
  PROVE  Left'
  <1>1. call' = call \/ NextCall
    BY Zenon, Steps DEF Steady, Posts, Maps, Numbers
  <1>2. NextCall => mirrored' = mirrored /\ pc' \in {"done", "links"} /\ pc \in {"removed", "ended"}
    BY Zenon DEF NextCall
  <1>3. ASSUME pc' = "remove", NEW m \in mirrored', m.call = call'
        PROVE  m.tag \in todo'
      BY <1>1, <1>2, <1>3, Ways DEF Posts, Posted, Tagged, Left, Without
  <1>4. ASSUME pc' = "removed", NEW m \in mirrored'
        PROVE  m.call # call'
      BY Zenon, <1>1, <1>2, <1>4, Ways DEF Left, Without
  <1>5. ASSUME disruptions' = 0
        PROVE  /\ \A m \in mirrored' : m.call = call'
               /\ pc' \in {"links", "graph", "ports", "verify", "ended"} => mirrored' = {}
    <2>1. disruptions = 0 /\ disruptions' = disruptions
      BY Zenon, <1>5, Undisrupted
    <2>2. (\A m \in mirrored : m.call = call) /\ (pc = "removed" => mirrored = {})
      BY Zenon, <2>1 DEF Left
    <2>3. CASE NextCall
        BY Zenon, <1>2, <2>1, <2>2, <2>3 DEF Left
    <2>4. CASE call' = call /\ ~ NextCall
      <3>1. \A m \in mirrored' : m.call = call'
        <4>1. CASE Posts
          BY <2>2, <2>4, <4>1 DEF Posts, Posted
        <4>2. CASE ~ Posts
          BY Zenon, <2>2, <2>4, <4>2, Steps DEF Steady, Maps, Numbers
        <4> QED
          BY Zenon, <4>1, <4>2
      <3>2. CASE pc' \in {"links", "graph", "ports", "verify"}
        BY Zenon, <2>1, <2>4, <3>1, <3>2, Ways DEF Left
      <3>3. CASE pc' = "ended"
        <4>1. kind = "port" /\ pc = "flow" => get_host_port(id_to_dpid[Paths[flow][Len(Paths[flow])]]) # {}
          <5>1. hosts = Attached
            BY Zenon, <2>1 DEF Wired
          <5>2. Paths[flow] \in Seq(Ids) /\ Paths[flow] # <<>>
            BY DEF Tagged, MirroringAssumption, Range
          <5>3. Paths[flow][Len(Paths[flow])] \in Ids
            BY <5>2
          <5> QED
            BY <2>1, <5>1, <5>3 DEF Placed, Mapped, get_host_port
        <4>2. flow \in DOMAIN MirrorSwitch
          BY Zenon DEF Complete, Tagged
        <4> QED
          BY Zenon, <2>1, <3>1, <3>3, <4>1, <4>2, Ways DEF Left
      <3> QED
        BY Zenon, <3>1, <3>2, <3>3
    <2> QED
      BY Zenon, <1>1, <2>3, <2>4
  <1> QED
    BY Zenon, <1>3, <1>4, <1>5 DEF Left

(* When every flow has a solution and every switch a host, flows are left  *)
(* at the controller only by a call that raised: a request that failed, or *)
(* a network that changed meanwhile.                                       *)
THEOREM FlowsLeft ==
  ASSUME MirroringAssumption, Complete
  PROVE  Spec => []LeftOnlyByRaise
  <1>1. Init => LInv
    BY Zenon, MirroringInitially DEF Init, LInv, Placed, Left, Mapped
  <1>2. LInv /\ [Next]_vars => LInv'
    BY Zenon, WiredKept, TranslatedKept, TaggedKept, AsSolvedKept, PlacedKept, LeftKept DEF LInv, PInv
  <1>3. LInv => LeftOnlyByRaise
    BY Zenon DEF LInv, Left, LeftOnlyByRaise, Now
  <1> QED
    BY <1>1, <1>2, <1>3, PTL DEF Spec

-----------------------------------------------------------------------------
(* The trials: which solutions a trial holds when it is yielded, and what  *)
(* is kept of it under the name of a solution type.                        *)
(* Where the iteration is.                                                 *)
Iterated ==
    /\ t_kind \in {"flow", "port"} /\ (verifies => t_kind = "flow")
    /\ trials \in Seq({trials[i] : i \in DOMAIN trials})
    /\ trial \in Nat \ {0} /\ type_idx \in Nat \ {0} /\ pass \in Nat \ {0}
    /\ t_pc = "create" => trial = 1 /\ pass = 1 /\ type_idx = 1 /\ results = {}
    /\ t_pc = "iterate" => trial <= Len(trials) /\ type_idx <= Len(T!get_solution_types(t_kind))

(* The type of the solutions a flow mirroring trial has: the approximate   *)
(* ones until the first pass has come to its optimal ones.                 *)
HeldType(i) == IF pass > 1 \/ i < trial \/ t_pc \in {"repository", "done"} THEN "optimal" ELSE "approx"

TrialsHold ==
    \A i \in DOMAIN trials :
        /\ DOMAIN trials[i] = {"flows", "sol", "types", "solutions", "type"}
        /\ trials[i].types = T!get_solution_types(t_kind)
        /\ verifies => T!verify_trial(trials[i])
        /\ t_kind = "flow" => trials[i].solutions = trials[i].sol[HeldType(i)]

KeptType(r) == IF t_kind = "flow" /\ r.files.label = "approx" /\ r.pass > 1 THEN "optimal" ELSE r.files.label

ResultsKeep ==
    \A r \in results :
        /\ r.trial \in DOMAIN trials
        /\ r.files.solutions = trials[r.trial].sol[KeptType(r)]
        /\ r.files.flows = trials[r.trial].flows
        /\ t_kind = "flow" => r.files.label \in {"approx", "optimal"}

TInv == Iterated /\ TrialsHold /\ ResultsKeep

-----------------------------------------------------------------------------
(* A function on 1 .. n is a list.                                         *)
LEMMA AList ==
  ASSUME NEW R, NEW n \in Nat, NEW a \in [1 .. n -> R]
  PROVE  a \in Seq(R)
  OBVIOUS

(* Appending to a list, and changing an element of one.                    *)
LEMMA Appended ==
  ASSUME NEW s, NEW e, s \in Seq({s[i] : i \in DOMAIN s}), NEW a, a = Append(s, e)
  PROVE  /\ a \in Seq({a[i] : i \in DOMAIN a}) /\ Len(a) = Len(s) + 1 /\ Len(s) \in Nat
         /\ DOMAIN a = 1 .. Len(s) + 1 /\ DOMAIN s = 1 .. Len(s)
         /\ a[Len(s) + 1] = e /\ \A i \in DOMAIN s : a[i] = s[i]
    OBVIOUS

(* Replacing an element of a list.                                         *)
LEMMA Replaced ==
  ASSUME NEW s, NEW e, NEW k, s \in Seq({s[i] : i \in DOMAIN s}), NEW a, a = [s EXCEPT ![k] = e]
  PROVE  /\ a \in Seq({a[i] : i \in DOMAIN a}) /\ Len(a) = Len(s) /\ Len(s) \in Nat
         /\ DOMAIN a = DOMAIN s /\ DOMAIN s = 1 .. Len(s)
         /\ k \in DOMAIN s => a[k] = e
         /\ \A i \in DOMAIN s : i # k => a[i] = s[i]
  <1>1. Len(s) \in Nat /\ DOMAIN s = 1 .. Len(s)
    OBVIOUS
  <1>2. /\ DOMAIN a = DOMAIN s /\ (k \in DOMAIN s => a[k] = e)
        /\ \A i \in DOMAIN s : i # k => a[i] = s[i]
    OBVIOUS
  <1> DEFINE R == {a[i] : i \in DOMAIN a}
  <1>3. a \in [1 .. Len(s) -> R]
    BY Zenon, <1>1
  <1>4. a \in Seq({a[i] : i \in DOMAIN a})
      BY Zenon, <1>1, AList
  <1>5. Len(a) = Len(s)
    OBVIOUS
  <1> QED
    BY <1>4

(* The kinds of step: a trial is created, or none is, and a trial is       *)
(* yielded, set to the next of its types.                                  *)
Created ==
    /\ t_pc = "create" /\ t_pc' \in {"create", "iterate", "raised"}
    /\ UNCHANGED <<t_kind, verifies, trial, type_idx, pass, results>>
    /\ t_pc' = "iterate" => Len(trials') = T!NumTrials
    /\ \/ trials' = trials
       \/ \E t : /\ DOMAIN t = {"flows", "sol", "types", "solutions", "type"}
                 /\ t.types = T!get_solution_types(t_kind) /\ t.solutions = t.sol[T!DefaultType]
                 /\ verifies => T!verify_trial(t)
                 /\ trials' = Append(trials, t)

(* A step creates a trial, yields one with its next solution type, or      *)
(* leaves trials and results alone.                                        *)
LEMMA TrialSteps ==
  ASSUME TInv, [T!Next]_T!vars
  PROVE  \/ Created
         \/ T!Yield
         \/ UNCHANGED <<t_kind, verifies, trials, trial, type_idx, pass, results>>
            /\ (t_pc' = t_pc \/ (t_pc = "repository" /\ t_pc' = "done"))
  <1>1. CASE UNCHANGED T!vars \/ T!Finished
    BY Zenon, <1>1 DEF T!vars, T!Finished
  <1>2. ASSUME NEW k, NEW c, T!create_trial(k, c)
        PROVE  Created
      BY Zenon, <1>2 DEF T!create_trial, T!NewTrial, Created, T!AllCreated
  <1>3. ASSUME NEW r \in results, T!ReRun(r)
        PROVE  UNCHANGED <<t_kind, verifies, trials, trial, type_idx, pass, results>> /\ t_pc = "repository" /\ t_pc' = "done"
    BY Zenon, <1>3 DEF T!ReRun
  <1> QED
    BY Zenon, <1>1, <1>2, <1>3 DEF T!Next

(* What a yield makes of the trial it has come to, and of the results.     *)
LEMMA Yielded ==
  ASSUME TInv, T!Yield, NEW i, i = trial, NEW ty, ty = T!get_solution_types(t_kind)[type_idx]
  PROVE  /\ i \in DOMAIN trials /\ trials' = [trials EXCEPT ![i] = T!set_solution_type(trials[i], ty)]
         /\ results' = results \cup {[trial |-> i, pass |-> pass,
                                      files |-> T!build_results_files(T!set_solution_type(trials[i], ty))]}
         /\ t_pc = "iterate" /\ t_kind' = t_kind /\ verifies' = verifies
         /\ t_kind = "flow" => ty \in {"approx", "optimal"} /\ (ty = "approx" <=> type_idx = 1)
         /\ \/ type_idx < Len(T!get_solution_types(t_kind)) /\ type_idx' = type_idx + 1 /\ UNCHANGED <<trial, pass, t_pc>>
            \/ /\ type_idx = Len(T!get_solution_types(t_kind)) /\ type_idx' = 1
               /\ \/ i < Len(trials) /\ trial' = i + 1 /\ UNCHANGED <<pass, t_pc>>
                  \/ i = Len(trials) /\ trial' = 1 /\ pass' = pass + 1 /\ t_pc' = t_pc
                  \/ i = Len(trials) /\ trial' = 1 /\ pass' = pass /\ t_pc' = "repository"
  <1>1. t_pc = "iterate" /\ i \in DOMAIN trials
    BY DEF T!Yield, TInv, Iterated
  <1>2. trials[i].types = T!get_solution_types(t_kind)
    BY Zenon, <1>1 DEF TInv, TrialsHold
  <1>3. t_kind = "flow" => ty \in {"approx", "optimal"} /\ (ty = "approx" <=> type_idx = 1)
    BY <1>1 DEF TInv, Iterated, T!get_solution_types
  <1> QED
    BY Zenon, <1>1, <1>2, <1>3 DEF T!Yield

(* A trial keeps its flows and its files; a flow mirroring trial keeps its *)
(* solutions when it is set to the approximate ones.                       *)
LEMMA SetTo ==
  ASSUME NEW t, DOMAIN t = {"flows", "sol", "types", "solutions", "type"}, NEW ty,
         NEW u, u = T!set_solution_type(t, ty)
  PROVE  /\ DOMAIN u = {"flows", "sol", "types", "solutions", "type"}
         /\ u.types = t.types /\ u.flows = t.flows /\ u.sol = t.sol /\ u.type = ty
         /\ u.solutions = IF t_kind = "flow" /\ ty = "approx" THEN t.solutions ELSE t.sol[ty]
  BY Zenon DEF T!set_solution_type, T!flow_set_solution_type, T!port_set_solution_type

(* The iteration only ever stands at a trial of the list and at one of its *)
(* solution types.                                                         *)
LEMMA IteratedKept ==
  ASSUME T!TrialsAssumption, TInv, [T!Next]_T!vars
  PROVE  Iterated'
  <1>0. Len(T!get_solution_types(t_kind)) \in Nat \ {0, 1}
    BY DEF T!get_solution_types
  <1>1. CASE Created
      BY SMTT(30), <1>1 DEF Created, TInv, Iterated, T!TrialsAssumption, T!NumTrials,
         T!get_solution_types
  <1>2. CASE T!Yield
    <2>1. trials' \in Seq({trials'[i] : i \in DOMAIN trials'}) /\ Len(trials') = Len(trials) /\ Len(trials) \in Nat
      BY <1>2, Yielded
    <2>2. T!get_solution_types(t_kind)' = T!get_solution_types(t_kind) /\ UNCHANGED <<t_kind, verifies>>
      BY Zenon, <1>2, Yielded
    <2>a. trial \in Nat \ {0} /\ trial <= Len(trials)
      BY Zenon, <1>2 DEF T!Yield, TInv, Iterated
    <2>b. PICK i, n : i = trial /\ n = Len(T!get_solution_types(t_kind))
      BY Zenon
    <2>3. i = trial /\ i \in Nat \ {0} /\ i <= Len(trials) /\ n = Len(T!get_solution_types(t_kind))
      BY Zenon, <2>a, <2>b
    <2>4. /\ t_pc = "iterate"
          /\ \/ type_idx < n /\ type_idx' = type_idx + 1 /\ UNCHANGED <<trial, pass, t_pc>>
             \/ /\ type_idx = n /\ type_idx' = 1
                /\ \/ i < Len(trials) /\ trial' = i + 1 /\ UNCHANGED <<pass, t_pc>>
                   \/ i = Len(trials) /\ trial' = 1 /\ pass' = pass + 1 /\ t_pc' = t_pc
                   \/ i = Len(trials) /\ trial' = 1 /\ pass' = pass /\ t_pc' = "repository"
      BY Zenon, <1>2, <2>3, Yielded
    <2>5. type_idx' \in Nat \ {0} /\ type_idx' <= n /\ trial' \in Nat \ {0} /\ trial' <= Len(trials) /\ pass' \in Nat \ {0}
      <3>1. n \in Nat \ {0, 1} /\ type_idx \in Nat \ {0} /\ pass \in Nat \ {0} /\ Len(trials) \in Nat
        BY <1>0, <2>3 DEF TInv, Iterated
      <3> QED
        BY SMTT(30), <2>3, <2>4, <3>1
    <2>6. t_kind' \in {"flow", "port"} /\ (verifies' => t_kind' = "flow") /\ t_pc' # "create"
      BY Zenon, <2>2, <2>4 DEF TInv, Iterated
    <2> QED
      BY Zenon, <2>1, <2>2, <2>3, <2>5, <2>6 DEF Iterated
  <1>3. CASE /\ UNCHANGED <<t_kind, verifies, trials, trial, type_idx, pass, results>>
             /\ (t_pc' = t_pc \/ (t_pc = "repository" /\ t_pc' = "done"))
    BY Zenon, <1>3 DEF TInv, Iterated
  <1> QED
    BY Zenon, <1>1, <1>2, <1>3, TrialSteps

(* A trial holds, between two yields, the solutions of the type set last,  *)
(* or those the first pass left.                                           *)
LEMMA TrialsHoldKept ==
  ASSUME T!TrialsAssumption, TInv, [T!Next]_T!vars
  PROVE  TrialsHold'
  <1>0. ASSUME t_kind' = t_kind
        PROVE  /\ T!get_solution_types(t_kind)' = T!get_solution_types(t_kind)
               /\ \A t : T!verify_trial(t)' <=> T!verify_trial(t)
    BY Zenon, <1>0 DEF T!verify_trial, T!Types
  <1> DEFINE Fields == {"flows", "sol", "types", "solutions", "type"}
             Good(t) == /\ DOMAIN t = Fields /\ t.types = T!get_solution_types(t_kind)
                        /\ verifies => T!verify_trial(t)
  <1>a. SUFFICES ASSUME NEW i \in DOMAIN trials'
                 PROVE  /\ UNCHANGED <<t_kind, verifies>> /\ Good(trials'[i])
                        /\ t_kind = "flow" => trials'[i].solutions = trials'[i].sol[HeldType(i)']
    BY Zenon, <1>0 DEF TrialsHold
  <1>b. trials \in Seq({trials[j] : j \in DOMAIN trials})
    BY Zenon DEF TInv, Iterated
  <1>1. CASE Created
    <2>0. /\ t_pc = "create" /\ trial = 1 /\ pass = 1 /\ trial' = 1 /\ pass' = 1 /\ t_pc' \in {"create", "iterate", "raised"}
          /\ UNCHANGED <<t_kind, verifies>>
      BY Zenon, <1>1 DEF Created, TInv, Iterated
    <2>1. \A j \in DOMAIN trials : Good(trials[j]) /\ (t_kind = "flow" => trials[j].solutions = trials[j].sol["approx"])
      <3>1. \A j \in DOMAIN trials : HeldType(j) = "approx"
        BY <1>b, <2>0 DEF HeldType
      <3> QED
        BY Zenon, <3>1 DEF TInv, TrialsHold
    <2>2. HeldType(i)' = "approx"
      <3>1. i \in Nat \ {0}
        BY <1>1, <1>b, Appended DEF Created
      <3> QED
        BY <2>0, <3>1 DEF HeldType
    <2>3. CASE trials' = trials
      BY Zenon, <2>0, <2>1, <2>2, <2>3
    <2>4. ASSUME NEW t, Good(t), t.solutions = t.sol[T!DefaultType], trials' = Append(trials, t)
          PROVE  Good(trials'[i]) /\ (t_kind = "flow" => trials'[i].solutions = trials'[i].sol["approx"])
      <3>1. \/ i \in DOMAIN trials /\ trials'[i] = trials[i]
            \/ trials'[i] = t
        BY <1>b, <2>4, Appended
      <3>2. t_kind = "flow" => t.solutions = t.sol["approx"]
        BY Zenon, <2>4 DEF T!DefaultType
      <3> HIDE DEF Good
      <3> QED
        BY Zenon, <2>1, <2>4, <3>1, <3>2
    <2> QED
      BY Zenon, <1>1, <2>0, <2>2, <2>3, <2>4 DEF Created
  <1>2. CASE T!Yield
    <2>0. PICK here, ty, n : here = trial /\ ty = T!get_solution_types(t_kind)[type_idx] /\ n = Len(T!get_solution_types(t_kind))
      BY Zenon
    <2>1. /\ here \in DOMAIN trials /\ trials' = [trials EXCEPT ![here] = T!set_solution_type(trials[here], ty)]
          /\ t_pc = "iterate" /\ UNCHANGED <<t_kind, verifies>>
      BY Zenon, <1>2, <2>0, Yielded
    <2>a. /\ t_kind = "flow" => ty \in {"approx", "optimal"} /\ (ty = "approx" <=> type_idx = 1)
          /\ \/ type_idx < n /\ type_idx' = type_idx + 1 /\ UNCHANGED <<trial, pass, t_pc>>
             \/ /\ type_idx = n /\ type_idx' = 1
                /\ \/ here < Len(trials) /\ trial' = here + 1 /\ UNCHANGED <<pass, t_pc>>
                   \/ here = Len(trials) /\ trial' = 1 /\ pass' = pass + 1 /\ t_pc' = t_pc
                   \/ here = Len(trials) /\ trial' = 1 /\ pass' = pass /\ t_pc' = "repository"
      BY <1>2, <2>0, Yielded
    <2>2. i \in DOMAIN trials /\ i \in Nat /\ here \in Nat /\ i <= Len(trials) /\ Len(trials) \in Nat
      BY <2>1
    <2>3. pass \in Nat \ {0} /\ type_idx \in Nat \ {0}
      BY Zenon DEF TInv, Iterated
    <2>4. t_kind = "flow" => n = 2
      BY Zenon, <2>0 DEF T!get_solution_types
    <2>5. Good(trials[i]) /\ (t_kind = "flow" => trials[i].solutions = trials[i].sol[HeldType(i)])
      BY Zenon, <2>2 DEF TInv, TrialsHold
    <2>6. CASE i # here
        BY <2>1, <2>6, <2>0, <2>a, <2>3, <2>5 DEF HeldType
    <2>7. CASE i = here
      <3> DEFINE u == T!set_solution_type(trials[i], ty)
      <3>1. trials'[i] = u
        BY Zenon, <2>1, <2>7
      <3>a. u = T!set_solution_type(trials[i], ty) /\ DOMAIN trials[i] = Fields
        BY Zenon, <2>5
      <3> HIDE DEF u
      <3>2. /\ DOMAIN u = Fields /\ u.types = trials[i].types /\ u.flows = trials[i].flows /\ u.sol = trials[i].sol
            /\ u.solutions = IF t_kind = "flow" /\ ty = "approx" THEN trials[i].solutions ELSE trials[i].sol[ty]
        BY SMT, <3>a, SetTo
      <3>3. Good(u)
        BY Zenon, <2>5, <3>2 DEF T!verify_trial
      <3>4. CASE t_kind = "flow" /\ ty = "approx"
          BY <2>a, <2>4, <3>4, <2>1, <2>5, <3>1, <3>2, <3>3 DEF HeldType
      <3>5. CASE t_kind = "flow" /\ ty = "optimal"
        <4>0. type_idx = 2
          <5>1. type_idx # 1 /\ type_idx <= 2
            BY <2>a, <2>4, <3>5 DEF TInv, Iterated
          <5> QED
            BY <2>3, <5>1
        <4>1. HeldType(i)' = "optimal"
            BY <2>a, <2>4, <3>5, <2>3, <2>7 DEF HeldType
        <4> QED
          BY Zenon, <2>1, <3>1, <3>2, <3>3, <3>5, <4>1
      <3>6. CASE t_kind # "flow"
        BY Zenon, <2>1, <3>1, <3>3, <3>6
      <3> QED
        BY Zenon, <2>a, <3>4, <3>5, <3>6
    <2> QED
      BY Zenon, <2>6, <2>7
  <1>3. CASE /\ UNCHANGED <<t_kind, verifies, trials, trial, type_idx, pass, results>>
             /\ (t_pc' = t_pc \/ (t_pc = "repository" /\ t_pc' = "done"))
      BY Zenon, <1>3 DEF HeldType, TInv, TrialsHold
  <1> QED
    BY Zenon, <1>1, <1>2, <1>3, TrialSteps

(* What was kept under a solution type is not touched by later yields.     *)
LEMMA ResultsKeepKept ==
  ASSUME T!TrialsAssumption, TInv, [T!Next]_T!vars
  PROVE  ResultsKeep'
  <1>b. trials \in Seq({trials[j] : j \in DOMAIN trials})
    BY Zenon DEF TInv, Iterated
  <1>1. CASE Created
    BY Zenon, <1>1 DEF Created, TInv, Iterated, ResultsKeep
  <1>2. CASE T!Yield
    <2>0. PICK here, ty : here = trial /\ ty = T!get_solution_types(t_kind)[type_idx]
      OBVIOUS
    <2> DEFINE u == T!set_solution_type(trials[here], ty)
               new == [trial |-> here, pass |-> pass, files |-> T!build_results_files(u)]
    <2>1. /\ here \in DOMAIN trials /\ trials' = [trials EXCEPT ![here] = u]
          /\ results' = results \cup {new}
          /\ t_pc = "iterate" /\ t_kind' = t_kind
          /\ t_kind = "flow" => ty \in {"approx", "optimal"}
      BY Zenon, <1>2, <2>0, Yielded
    <2>2. /\ u.flows = trials[here].flows /\ u.sol = trials[here].sol /\ u.type = ty
          /\ u.solutions = IF t_kind = "flow" /\ ty = "approx" THEN trials[here].solutions ELSE trials[here].sol[ty]
      BY <2>1, SetTo DEF TInv, TrialsHold
    <2>3. t_kind = "flow" => trials[here].solutions = trials[here].sol[HeldType(here)]
      BY Zenon, <2>1 DEF TInv, TrialsHold
    <2>4. /\ new.trial = here /\ new.pass = pass /\ new.files.label = u.type
          /\ new.files.solutions = u.solutions /\ new.files.flows = u.flows
      BY Zenon DEF T!build_results_files
    <2> HIDE DEF u, new
    <2>5. \A j \in DOMAIN trials : trials'[j].sol = trials[j].sol /\ trials'[j].flows = trials[j].flows
      BY Zenon, <2>1, <2>2
    <2>6. DOMAIN trials' = DOMAIN trials
      BY Zenon, <2>1
    <2>7. \A r : KeptType(r)' = KeptType(r)
      BY Zenon, <2>1 DEF KeptType
    <2>8. pass \in Nat /\ here \in Nat
      BY Zenon, <2>0 DEF TInv, Iterated
    <2>9. new.files.solutions = trials[here].sol[KeptType(new)]
      BY <2>0, <2>1, <2>2, <2>3, <2>4, <2>8 DEF KeptType, HeldType
    <2> QED
      BY <2>1, <2>2, <2>4, <2>7, <2>9 DEF TInv, ResultsKeep
  <1>3. CASE /\ UNCHANGED <<t_kind, verifies, trials, trial, type_idx, pass, results>>
             /\ (t_pc' = t_pc \/ (t_pc = "repository" /\ t_pc' = "done"))
    BY <1>3 DEF TInv, ResultsKeep, KeptType
  <1> QED
    BY Zenon, <1>1, <1>2, <1>3, TrialSteps

(* However often the solver fails and whatever it leaves in its directory, *)
(* what is kept under a solution type is that trial's solution of the      *)
(* type, for every flow where trials are verified, except for the          *)
(* approximate ones of a flow mirroring trial from the second pass on,     *)
(* which are its optimal ones.                                             *)
THEOREM Labels ==
  ASSUME T!TrialsAssumption
  PROVE  T!Spec => []LabelledAsSolved
  <1>1. T!Init => TInv
      BY DEF T!Init, TInv, Iterated, TrialsHold, ResultsKeep
  <1>2. TInv /\ [T!Next]_T!vars => TInv'
    BY Zenon, IteratedKept, TrialsHoldKept, ResultsKeepKept DEF TInv
  <1>3. TInv => LabelledAsSolved
    <2> SUFFICES ASSUME TInv, NEW r \in results
                 PROVE  /\ r.files.solutions = trials[r.trial].sol[KeptType(r)]
                        /\ verifies => r.files.solutions.flows >= r.files.flows.count
      BY Zenon DEF LabelledAsSolved, T!LabelledAsSolved, KeptType
    <2>1. /\ r.trial \in DOMAIN trials
          /\ r.files.solutions = trials[r.trial].sol[KeptType(r)]
          /\ r.files.flows = trials[r.trial].flows
          /\ t_kind = "flow" => r.files.label \in {"approx", "optimal"}
      BY Zenon DEF TInv, ResultsKeep
    <2>2. verifies => t_kind = "flow" /\ T!verify_trial(trials[r.trial])
      BY Zenon, <2>1 DEF TInv, Iterated, TrialsHold
    <2>3. t_kind = "flow" => KeptType(r) \in {"approx", "optimal"}
      BY Zenon, <2>1 DEF KeptType
    <2>4. t_kind = "flow" => T!Types = {"approx", "optimal"}
      BY DEF T!Types, T!Range, T!get_solution_types
    <2> QED
      BY Zenon, <2>1, <2>2, <2>3, <2>4 DEF T!verify_trial
  <1> QED
    BY <1>1, <1>2, <1>3, PTL DEF T!Spec

=============================================================================
