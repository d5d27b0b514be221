--------------------------- MODULE MCMeasurements ---------------------------
(***************************************************************************)
(* What becomes of the measurements: the counts of the older multipath     *)
(* trials (StatsProcessor), the byte counts of the controller's monitor    *)
(* (LinkUtilization) and the packet captures (CaptureAnalysis).  A         *)
(* behaviour is one of the three, as `part' says.                          *)
(***************************************************************************)
EXTENDS Measurements, Integers, Sequences

(* Two switches with a host each and a link between them; a flow in each   *)
(* direction, from the same port.  Afterwards an end of the cable may have *)
(* been pulled, or moved to the port of the host or to a third switch.     *)
MCPorts == {"of_1", "of_2"} \X {1, 2}
Link(src, port_no, dst) == [src |-> src, port_no |-> port_no, dst |-> dst]
MCLinks == {Link("of_1", 1, "of_2"), Link("of_2", 1, "of_1")}
MCTopologies ==
    {MCLinks, {Link("of_2", 1, "of_1")},
     {Link("of_1", 2, "of_2"), Link("of_2", 1, "of_1")},
     {Link("of_1", 1, "of_3"), Link("of_3", 1, "of_1")}}
Hop(switch, rx, tx) == [rx |-> <<switch, rx>>, tx |-> <<switch, tx>>]
MCFlows ==
    {[src_host |-> "host1", src_ip |-> <<192, 168, 0, 1>>,
      dst_host |-> "host2", dst_ip |-> <<2, 0, 168, 192>>, src_port |-> 40001,
      route |-> <<Hop("of_1", 2, 1), Hop("of_2", 1, 2)>>],
     [src_host |-> "host2", src_ip |-> <<192, 168, 0, 2>>,
      dst_host |-> "host1", dst_ip |-> <<192, 168, 0, 1>>, src_port |-> 40001,
      route |-> <<Hop("of_2", 2, 1), Hop("of_1", 1, 2)>>]}

(* DNS has the hosts as they are named; the second under the domain of its *)
(* network; the second not at all; the second under the name of the first. *)
Host1 == [label |-> "host1", domain |-> "data.sdn."]
Zone(name) == [ip \in {<<192, 168, 0, 1>>, <<192, 168, 0, 2>>} |->
                  IF ip[4] = 1 THEN Host1 ELSE name]
MCZones ==
    {Zone([label |-> "host2", domain |-> "data.sdn."]),
     Zone([label |-> "host2", domain |-> "0.168.192."]),
     [ip \in {<<192, 168, 0, 1>>} |-> Host1],
     Zone(Host1)}

(* Three snapshots of two links of switch s1, which may go or come back    *)
(* twice.                                                                  *)
VARIABLES part, up, bytes, snapshots, flaps
linkVars == <<up, bytes, snapshots, flaps>>

L == INSTANCE LinkUtilization WITH
        Links <- {{"s1", "s2"}, {"s1", "s3"}}, Source <- "s1", Capacity <- 3, MaxBytes <- 2,
        MaxSnapshots <- 3, MaxFlaps <- 2, sent <- bytes
ASSUME L!UtilizationAssumption

(* Two messages of two shares over three ports, packets 0 or 2 units       *)
(* apart, one of them perhaps lost or duplicated, or one of the control    *)
(* port among them; the sender hops at none, one or two of a few times.    *)
PortPairs == {p \in (1 .. 3) \X (1 .. 3) : p[1] # p[2]}
Times == {t \in [1 .. 4 -> {0, 2, 4}] : t[1] = 0 /\ \A i \in 1 .. 3 : t[i + 1] - t[i] \in {0, 2}}
Whole ==
    {[i \in 1 .. 4 |-> [seq |-> (i + 1) \div 2, share |-> ((i - 1) % 2) + 1,
                        port |-> (a \o b)[i], time |-> t[i]]]
        : a \in PortPairs, b \in {<<1, 2>>, <<2, 3>>}, t \in Times}
Control(w) == [w[2] EXCEPT !.port = 11111]
MCCaptures ==
    {[packets |-> p, hop_times |-> h] :
        p \in Whole \cup {Tail(w) : w \in Whole} \cup {<<w[1]>> \o w : w \in Whole}
             \cup {<<w[1], Control(w), w[3], w[4]>> : w \in Whole} \cup {<< >>},
        h \in {<< >>, <<2>>, <<1, 2>>, <<2, 3>>}}

ASSUME SP!StatsAssumption /\ C!CaptureAssumption

statsVars == <<step, sent, received, pkt_count, tx_counters, rx_counters, tx_stats, rx_stats,
               tx_files, rx_files, faults, topo, touched, todo, ptr,
               link_utils_t, link_utils, uplink_utils, loss_dict, stats_tput>>
captureVars == <<attacker, packets, sender_hop_times, idx, ports_to_listen_on, captured,
                 interval_start_time, perturbation, hops, pc>>
captureIdle ==
    /\ attacker = "none" /\ packets = << >> /\ sender_hop_times = << >> /\ idx = 0
    /\ ports_to_listen_on = {} /\ captured = {} /\ interval_start_time = 0
    /\ perturbation = 0 /\ hops = 0 /\ pc = "start"

MCInit ==
    /\ SP!Init /\ L!Init
    /\ \/ part \in {"stats", "links"} /\ captureIdle
       \/ part = "capture" /\ C!Init
MCNext ==
    \/ part = "stats" /\ SP!Next /\ UNCHANGED <<part, linkVars, captureVars>>
    \/ part = "links" /\ L!Next /\ UNCHANGED <<part, statsVars, captureVars>>
    \/ part = "capture" /\ C!Next /\ UNCHANGED <<part, statsVars, linkVars>>
MCSpec == MCInit /\ [][MCNext]_<<part, statsVars, linkVars, captureVars>>
-----------------------------------------------------------------------------
(* The variables of each part have the values the code can give them.      *)
TypesOK == SP!TypeOK /\ L!TypeOK /\ C!TypeOK

(* LinkUtilization: the mean of a link that was in every snapshot accounts *)
(* for every byte sent over it, once, and the other computations of it     *)
(* agree.                                                                  *)
EveryByteOnce == L!EveryByteOnce
=============================================================================
