--------------------------- MODULE StatsProcessor ---------------------------
(***************************************************************************)
(* StatsProcessor (mp_routing/stats_processor.py): what the counts of a    *)
(* trial of the older multipath driver become.  Port counters sampled by   *)
(* MPStatMonitor are charged to a link, or to a host's port when the       *)
(* topology, which is asked for again for every port, has no link there.   *)
(* The counts of the traffic generators and servers, retrieved host by     *)
(* host after the trial, become loss and flow rates: the two ends of a     *)
(* flow are brought together by the names DNS has for their addresses.     *)
(* The passes come in the order of plot_test (mp_routing/test_driver.py).  *)
(*                                                                         *)
(* A rate is a fraction [num, den], a name a record [label, domain], an    *)
(* address its four numbers.  A sample is one step here, although the      *)
(* monitor asks switch by switch: no property compares the samples of two  *)
(* ports.                                                                  *)
(***************************************************************************)
EXTENDS Integers, Sequences, FiniteSets, FiniteSetsExt, Functions

CONSTANTS Flows,        \* [src_host, src_ip, dst_host, dst_ip, src_port, route]
          Ports,        \* <<switch, port_no>>
          Links,        \* [src, port_no, dst]: the topology during the trial
          Topologies,   \* the topologies the controller may come to report
          Zones,        \* reverse zones of DNS: address -> name
          PktSize, TimeFrame, TrialLen,   \* cfg: bytes, seconds, seconds
          MaxPackets,   \* bound: packets of all flows
          MaxSamples,   \* bound: samples of a port
          MaxFaults     \* bound: files not retrieved, packets not counted, changes of
                        \* the topology and answers that cannot be read

(* A route is the ports by which a packet enters and leaves each switch.   *)
(* The sockets of a generator are bound to ports of their own.             *)
StatsAssumption ==
    /\ \A f \in Flows : \A i \in DOMAIN f.route : {f.route[i].rx, f.route[i].tx} \subseteq Ports
    /\ \A f, g \in Flows : f.src_host = g.src_host /\ f.src_port = g.src_port => f = g
    /\ Links \in Topologies
    /\ \A t \in Topologies : \A l, m \in t :
          (l.src = m.src /\ (l.dst = m.dst \/ l.port_no = m.port_no)) => l = m
    /\ \A l \in Links : <<l.src, l.port_no>> \in Ports
    /\ {PktSize, TimeFrame, TrialLen} \subseteq Nat \ {0}
    /\ MaxPackets \in Nat /\ MaxSamples \in Nat \ {0, 1}
    /\ MaxFaults \in Nat

Hosts == {f.src_host : f \in Flows} \cup {f.dst_host : f \in Flows}

VARIABLES phase,
          sent, received,     \* per flow: packets of its generator, packets its server counts
          pkt_count,          \* per flow, as its generator counted when it was stopped
          tx_counters, rx_counters,   \* per port, at the switch
          tx_stats, rx_stats, \* per port, the samples of MPStatMonitor
          tx_files, rx_files, \* the hosts whose files are there
          faults,             \* so far
          topo,               \* the topology of the controller
          touched,            \* ports for which the controller ever answered something else
          todo,               \* ports the current pass has yet to look at
          ptr,                \* the reverse zone the loss rates were computed with
          link_utils_t,       \* <<src, dst>> -> packets sent in each frame
          link_utils,         \* <<src, dst>> -> mean packets sent per frame
          uplink_utils,       \* <<switch, port_no>> -> packets received in each frame
          loss_dict,          \* <<src name, dst name, src_port>> -> loss rate
          stats_tput          \* <<src name, dst name, src_port>> -> megabits per second

traffic == <<sent, received, pkt_count, tx_counters, rx_counters, tx_stats, rx_stats>>
files == <<tx_files, rx_files>>
controller == <<topo, faults, touched>>
flow_tables == <<ptr, loss_dict, stats_tput>>
tables == <<link_utils_t, link_utils, uplink_utils, flow_tables>>
vars == <<phase, traffic, files, controller, todo, tables>>

Init ==
    /\ phase = "trial"
    /\ sent = [f \in Flows |-> 0] /\ received = [f \in Flows |-> 0]
    /\ pkt_count = [f \in Flows |-> 0]
    /\ tx_counters = [p \in Ports |-> 0] /\ rx_counters = [p \in Ports |-> 0]
    /\ tx_stats = [p \in Ports |-> <<0>>] /\ rx_stats = [p \in Ports |-> <<0>>]
    /\ tx_files = {} /\ rx_files = {}
    /\ topo = Links /\ faults = 0 /\ touched = {}
    /\ todo = {}
    /\ ptr = << >>
    /\ link_utils_t = << >> /\ link_utils = << >> /\ uplink_utils = << >>
    /\ loss_dict = << >> /\ stats_tput = << >>

(* A packet passes every switch of its route, or is dropped by one that    *)
(* has counted it in, and not received.                                    *)
Transmit(f) ==
    /\ phase = "trial" /\ FoldFunction(+, 0, sent) < MaxPackets
    /\ sent' = [sent EXCEPT ![f] = @ + 1]
    /\ \E passed \in 0 .. Len(f.route) :
          LET Times(p, n, side) ==
                  Cardinality({i \in DOMAIN f.route : i <= n /\ f.route[i][side] = p})
          IN  /\ tx_counters' = [p \in Ports |-> tx_counters[p] + Times(p, passed, "tx")]
              /\ rx_counters' = [p \in Ports |-> rx_counters[p] + Times(p, passed + 1, "rx")]
              /\ received' = [received EXCEPT ![f] = @ + IF passed = Len(f.route) THEN 1 ELSE 0]
    /\ UNCHANGED <<phase, pkt_count, tx_stats, rx_stats, files, controller, todo, tables>>

Sample ==
    /\ phase = "trial" /\ \A p \in Ports : Len(tx_stats[p]) < MaxSamples
    /\ tx_stats' = [p \in Ports |-> Append(tx_stats[p], tx_counters[p])]
    /\ rx_stats' = [p \in Ports |-> Append(rx_stats[p], rx_counters[p])]
    /\ UNCHANGED <<phase, sent, received, pkt_count, tx_counters, rx_counters,
                   files, controller, todo, tables>>

(* The monitor takes a sample when it is made and one after it is told to  *)
(* stop; plot_test is run afterwards.                                      *)
stop_monitor ==
    /\ phase = "trial" /\ \A p \in Ports : Len(tx_stats[p]) >= 2
    /\ phase' = "frames" /\ todo' = Ports
    /\ UNCHANGED <<traffic, files, controller, tables>>

(* The generators were stopped, perhaps with a packet sent and not yet     *)
(* counted, and their files and those of the servers copied, by commands   *)
(* nobody checks.  It shows here, where the files are first listed.        *)
Retrieve(uncounted, no_tx, no_rx) ==
    /\ phase = "links" /\ todo = {}
    /\ faults' = faults + Cardinality(uncounted) + Cardinality(no_tx) + Cardinality(no_rx)
    /\ faults' <= MaxFaults
    /\ \A f \in uncounted : sent[f] > 0
    /\ pkt_count' = [f \in Flows |-> sent[f] - IF f \in uncounted THEN 1 ELSE 0]
    /\ tx_files' = Hosts \ no_tx /\ rx_files' = Hosts \ no_rx
    /\ phase' = "loss"
    /\ UNCHANGED <<sent, received, tx_counters, rx_counters, tx_stats, rx_stats,
                   topo, touched, todo, tables>>
-----------------------------------------------------------------------------
(* The answers of the controller.                                          *)
LinkOf(t, p) == {l \in t : l.src = p[1] /\ l.port_no = p[2]}

(* A cable is pulled, put back, or moved to another port or switch.        *)
TopologyChange(t) ==
    /\ phase \in {"frames", "links", "uplinks"} /\ faults < MaxFaults /\ t # topo
    /\ topo' = t /\ faults' = faults + 1
    /\ touched' = touched \cup {p \in Ports : LinkOf(t, p) # LinkOf(Links, p)}
    /\ UNCHANGED <<phase, traffic, files, todo, tables>>

port == CHOOSE p \in todo : TRUE

(* An answer that cannot be parsed is a ValueError too: to the callers of  *)
(* _get_link it is a link that is not there.                               *)
_get_link(garbled) == IF garbled THEN {} ELSE LinkOf(topo, port)
Asked(garbled) ==
    /\ garbled => faults < MaxFaults
    /\ faults' = faults + IF garbled THEN 1 ELSE 0
    /\ touched' = touched \cup IF garbled THEN {port} ELSE {}
    /\ UNCHANGED topo

_is_core_port(garbled) == _get_link(garbled) # {}
_is_host_port(garbled) == ~ _is_core_port(garbled)

(* No answer at all is another exception, and leaves the program, which    *)
(* has put nothing away yet.  In the pass over the uplinks a switch's name *)
(* that cannot be read does too.                                           *)
Raised ==
    /\ phase' = "raised" /\ todo' = {}
    /\ link_utils_t' = << >> /\ link_utils' = << >> /\ uplink_utils' = << >>
    /\ loss_dict' = << >>
    /\ UNCHANGED <<traffic, files, controller, ptr, stats_tput>>

get_response_raises ==
    /\ phase \in {"frames", "links", "uplinks"} /\ todo # {}
    /\ Raised
-----------------------------------------------------------------------------
LastDropped(v) == [i \in 1 .. Len(v) - 2 |-> v[i + 1] - v[i]]  \* mutant: the last frame is left out
_compute_timeframes(v) == [i \in 1 .. Len(v) - 1 |-> v[i + 1] - v[i]]
Mean(v) ==
    LET frames == _compute_timeframes(v)
    IN  [num |-> FoldFunction(+, 0, frames), den |-> Len(frames)]

With(table, key, value) ==
    [k \in DOMAIN table \cup {key} |-> IF k = key THEN value ELSE table[k]]

Charged(table, garbled, value) ==
    IF _is_core_port(garbled)
    THEN LET l == CHOOSE l \in _get_link(garbled) : TRUE IN With(table, <<l.src, l.dst>>, value)
    ELSE table

_calc_link_util_pps_t(garbled) ==
    /\ phase = "frames" /\ todo # {} /\ Asked(garbled)
    /\ link_utils_t' = Charged(link_utils_t, garbled, _compute_timeframes(tx_stats[port]))
    /\ todo' = todo \ {port}
    /\ UNCHANGED <<phase, traffic, files, link_utils, uplink_utils, flow_tables>>

_calc_link_util_pps(garbled) ==
    /\ phase = "links" /\ todo # {} /\ Asked(garbled)
    /\ link_utils' = Charged(link_utils, garbled, Mean(tx_stats[port]))
    /\ todo' = todo \ {port}
    /\ UNCHANGED <<phase, traffic, files, link_utils_t, uplink_utils, flow_tables>>

_calc_uplink_port_util_pps(garbled) ==
    /\ phase = "uplinks" /\ todo # {} /\ Asked(garbled)
    /\ uplink_utils' = IF _is_host_port(garbled)
                       THEN With(uplink_utils, port, _compute_timeframes(rx_stats[port]))
                       ELSE uplink_utils
    /\ todo' = todo \ {port}
    /\ UNCHANGED <<phase, traffic, files, link_utils_t, link_utils, flow_tables>>

(* From one pass to the next.                                              *)
plot_test ==
    /\ todo = {}
    /\ \/ phase = "frames" /\ phase' = "links" /\ todo' = Ports
       \/ phase = "uplinks" /\ phase' = "rates" /\ todo' = todo
    /\ UNCHANGED <<traffic, files, controller, tables>>
-----------------------------------------------------------------------------
(* The names of the hosts.  The file of a host has its number in its name, *)
(* and its own name is made of that; the other end is known by an address, *)
(* which a generator may have written backwards.                           *)
qualify_host_domain(host) == [label |-> host, domain |-> "data.sdn."]

Turned(ip) ==
    IF ip[2] = 0 /\ ip[3] = 168 /\ ip[4] = 192 THEN <<ip[4], ip[3], ip[2], ip[1]>> ELSE ip

(* A lookup raises when there is no record, or no name of three labels.    *)
reverse_lookup_raises(dns, ip) == ip \notin DOMAIN dns
reverse_lookup(dns, ip) == dns[ip]
Hostname(dns, ip) ==
    LET name == reverse_lookup(dns, ip)
    IN  IF name.domain = "0.168.192." THEN [label |-> name.label, domain |-> "of.cpsc."] ELSE name

(* The files: a generator writes an entry for every flow, a server one for *)
(* every flow it received something of.                                    *)
TxEntries == {f \in Flows : f.src_host \in tx_files}
RxEntries == {f \in Flows : f.dst_host \in rx_files /\ received[f] > 0}

TxKey(dns, f) == <<qualify_host_domain(f.src_host), Hostname(dns, Turned(f.dst_ip)), f.src_port>>
RxKey(dns, f) == <<Hostname(dns, f.src_ip), qualify_host_domain(f.dst_host), f.src_port>>

lookups_raise(dns) ==
    \/ \E f \in TxEntries : reverse_lookup_raises(dns, Turned(f.dst_ip))
    \/ \E f \in RxEntries : reverse_lookup_raises(dns, f.src_ip)
_mk_tx_dict(dns) ==
    [k \in {TxKey(dns, f) : f \in TxEntries} |->
        pkt_count[CHOOSE f \in TxEntries : TxKey(dns, f) = k]]
_mk_rx_dict(dns) ==
    [k \in {RxKey(dns, f) : f \in RxEntries} |->
        received[CHOOSE f \in RxEntries : RxKey(dns, f) = k]]

calc_pkt_loss(tx_pkts, rx_pkts) == [num |-> tx_pkts - rx_pkts, den |-> tx_pkts]

SwappedEnds(tx_dict, rx_dict) ==  \* mutant: the ends of the flow are swapped in the lookup
    [k \in {k \in DOMAIN tx_dict : <<k[2], k[1], k[3]>> \in DOMAIN rx_dict} |->
        calc_pkt_loss(tx_dict[k], rx_dict[<<k[2], k[1], k[3]>>])]
_mk_loss_dict(tx_dict, rx_dict) ==
    [k \in DOMAIN tx_dict \cap DOMAIN rx_dict |-> calc_pkt_loss(tx_dict[k], rx_dict[k])]

(* A loss rate of a flow of which nothing was counted is a division by 0.  *)
Divides(loss) == \A k \in DOMAIN loss : loss[k].den # 0

calc_loss_rates(dns) ==
    /\ phase = "loss" /\ ~ lookups_raise(dns)
    /\ loss_dict' = _mk_loss_dict(_mk_tx_dict(dns), _mk_rx_dict(dns))
    /\ Divides(loss_dict') /\ ptr' = dns
    /\ phase' = "uplinks" /\ todo' = Ports
    /\ UNCHANGED <<traffic, files, controller, link_utils_t, link_utils, uplink_utils, stats_tput>>

calc_loss_rates_raises(dns) ==
    /\ phase = "loss"
    /\ ~ lookups_raise(dns) => ~ Divides(_mk_loss_dict(_mk_tx_dict(dns), _mk_rx_dict(dns)))
    /\ Raised

flow_rate(pkts) == [num |-> pkts * PktSize * 8, den |-> TrialLen * 10^6]

(* The addresses are looked up again.                                      *)
calc_flow_rate_raises(dns) == phase = "rates" /\ lookups_raise(dns) /\ Raised
calc_flow_rate(dns) ==
    /\ phase = "rates" /\ ~ lookups_raise(dns)
    /\ LET rx_dict == _mk_rx_dict(dns)
       IN  stats_tput' = [k \in DOMAIN rx_dict |-> flow_rate(rx_dict[k])]
    /\ phase' = "done"
    /\ UNCHANGED <<traffic, files, controller, todo, link_utils_t, link_utils, uplink_utils,
                   ptr, loss_dict>>
-----------------------------------------------------------------------------
(* Conversion.  Bytes are those of a frame of 1066, whatever pkt_size is.  *)
Units == {"PacketsPerSecond", "BitsPerSecond", "MegaBitsPerSecond",
          "BytesPerSecond", "MegaBytesPerSecond"}

_build_conv_fn(pkts, units) ==
    [num |-> pkts.num * CASE units = "PacketsPerSecond" -> 1
                          [] units \in {"BitsPerSecond", "MegaBitsPerSecond"} -> PktSize * 8
                          [] OTHER -> 1066,
     den |-> pkts.den * TimeFrame
             * IF units \in {"MegaBitsPerSecond", "MegaBytesPerSecond"} THEN 10^6 ELSE 1]

_convert_stats(pps_stats, units) ==
    [k \in DOMAIN pps_stats |-> _build_conv_fn(pps_stats[k], units)]
_convert_stats_list(pps_stats, units) ==
    [k \in DOMAIN pps_stats |->
        [i \in DOMAIN pps_stats[k] |-> _build_conv_fn([num |-> pps_stats[k][i], den |-> 1], units)]]

calc_link_util(units) == _convert_stats(link_utils, units)
calc_link_util_per_t(units) == _convert_stats_list(link_utils_t, units)
calc_ingress_util_per_t(units) == _convert_stats_list(uplink_utils, units)

print_util_array ==
    [k \in {{d[1], d[2]} : d \in DOMAIN link_utils} |->
        MapThenSumSet(LAMBDA d : link_utils[d].num, {d \in DOMAIN link_utils : {d[1], d[2]} = k})]

Next ==
    \/ \E f \in Flows : Transmit(f)
    \/ Sample
    \/ stop_monitor
    \/ \E uncounted \in SUBSET Flows, no_tx, no_rx \in SUBSET Hosts :
          Retrieve(uncounted, no_tx, no_rx)
    \/ \E t \in Topologies : TopologyChange(t)
    \/ get_response_raises
    \/ \E garbled \in BOOLEAN :
          \/ _calc_link_util_pps_t(garbled)
          \/ _calc_link_util_pps(garbled)
          \/ _calc_uplink_port_util_pps(garbled)
    \/ plot_test
    \/ \E dns \in Zones :
          \/ calc_loss_rates(dns) \/ calc_loss_rates_raises(dns)
          \/ calc_flow_rate(dns) \/ calc_flow_rate_raises(dns)

Spec == Init /\ [][Next]_vars
-----------------------------------------------------------------------------
(* Every variable has the values the code can give it, and no mean is      *)
(* taken of an empty list.                                                 *)
TypeOK ==
    /\ phase \in {"trial", "frames", "links", "loss", "uplinks", "rates", "done", "raised"}
    /\ DOMAIN link_utils \cup DOMAIN link_utils_t
          \subseteq {<<l.src, l.dst>> : l \in UNION Topologies}
    /\ DOMAIN uplink_utils \subseteq Ports /\ touched \subseteq Ports
    /\ \A k \in DOMAIN link_utils : link_utils[k].den > 0
    /\ \A k \in DOMAIN loss_dict : loss_dict[k].den > 0

Counted(stats, p) == stats[p][Len(stats[p])] - stats[p][1]
Sum(rates) == FoldFunction(LAMBDA r, sum : r.num + sum, 0, rates)
Untouched(l) == <<l.src, l.port_no>> \notin touched

(* In every unit, the list of a link's frames and its mean belong          *)
(* together: the rates of the list add up to the mean times their number.  *)
(* The topology was asked for anew between the two.                        *)
FramesMakeTheMean ==
    phase = "done" =>
        \A units \in Units, l \in {l \in Links : Untouched(l)} :
            LET mean == calc_link_util(units)[<<l.src, l.dst>>]
                list == calc_link_util_per_t(units)[<<l.src, l.dst>>]
            IN  /\ Sum(list) = mean.num
                /\ \A i \in DOMAIN list : list[i].den * Len(list) = mean.den

(* Whatever becomes of the topology while the counts are processed, and    *)
(* whichever answers are lost, only the entries of the ports it is about   *)
(* are spoilt: what every other port counted is charged to its link, and   *)
(* to nothing else, or to its host; the two directions of a link add up in *)
(* the array of utilisations, and the lists make the means.                *)
RightWhereverItIs ==
    phase = "done" =>
        /\ \A l \in Links : Untouched(l) =>
              /\ <<l.src, l.dst>> \in DOMAIN link_utils
              /\ link_utils[<<l.src, l.dst>>].num = Counted(tx_stats, <<l.src, l.port_no>>)
        /\ \A k \in {{l.src, l.dst} : l \in Links} :
              LET both == {l \in Links : {l.src, l.dst} = k}
              IN  (Cardinality(both) = 2 /\ \A l \in both : Untouched(l)) =>
                     print_util_array[k] =
                        MapThenSumSet(LAMBDA l : Counted(tx_stats, <<l.src, l.port_no>>), both)
        /\ \A p \in Ports \ touched :
              /\ p \in DOMAIN uplink_utils <=> LinkOf(Links, p) = {}
              /\ LinkOf(Links, p) = {} =>
                    \A units \in Units :
                        Sum(calc_ingress_util_per_t(units)[p]) =
                            _build_conv_fn([num |-> Counted(rx_stats, p), den |-> 1], units).num
        /\ FramesMakeTheMean

OwnKey(f) == <<qualify_host_domain(f.src_host), qualify_host_domain(f.dst_host), f.src_port>>

(* DNS has every end of the flow in the domain of the hosts.               *)
KnownByTheirNames(f) ==
    /\ Hostname(ptr, f.src_ip) = qualify_host_domain(f.src_host)
    /\ Hostname(ptr, Turned(f.dst_ip)) = qualify_host_domain(f.dst_host)

(* No address has the name of another host.                                *)
NoneByAnothersName ==
    \A f \in TxEntries, g \in RxEntries :
        /\ Hostname(ptr, g.src_ip) = qualify_host_domain(f.src_host) => g.src_host = f.src_host
        /\ Hostname(ptr, Turned(f.dst_ip)) = qualify_host_domain(g.dst_host)
              => f.dst_host = g.dst_host

(* As long as DNS gives no host the name of another, an entry of the loss  *)
(* rates is a flow's own: what its generator counted and its server did    *)
(* not.  The flows that are left out are the ones with a file missing,     *)
(* the ones nothing arrived of, and the ones of which an end is not in     *)
(* DNS under the name the file of that end is filed by, such as every host *)
(* whose name is rewritten to of.cpsc.                                     *)
LossOfItsOwnFlow ==
    phase = "done" /\ NoneByAnothersName =>
        /\ DOMAIN loss_dict =
              {OwnKey(f) : f \in {f \in TxEntries \cap RxEntries : KnownByTheirNames(f)}}
        /\ \A f \in Flows : OwnKey(f) \in DOMAIN loss_dict =>
              loss_dict[OwnKey(f)] = [num |-> pkt_count[f] - received[f], den |-> pkt_count[f]]
=============================================================================
