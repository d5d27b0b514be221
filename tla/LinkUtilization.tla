--------------------------- MODULE LinkUtilization ---------------------------
(***************************************************************************)
(* What the byte counts of the controller's monitor become: link           *)
(* utilisation over time and on average (nw_control/stat_monitor.py, used  *)
(* by every kind of trial), and the older computation of the plotting code *)
(* (data_visualization/helpers.py), and what is plotted of a switch's      *)
(* links (data_visualization/tuiti.py).  The monitor is external: a period *)
(* ends with a snapshot of the interfaces of the links it then knows of.   *)
(* Links come and go, and counters only grow; what a switch receives from  *)
(* a link is what the other end sent.  Two switches share at most one      *)
(* link, as in the networkx graphs the topology is validated against.      *)
(*                                                                         *)
(* A utilisation is the byte count it was computed from.  The constant it  *)
(* is then multiplied by is left out; it is not the same everywhere (ten   *)
(* second periods and 2^20 in stat_monitor.py, 10^7 in path_hopping.py,    *)
(* none in the plots' helpers), so computations that agree here agree in   *)
(* bytes.  A mean is a sum and a number of periods.                        *)
(***************************************************************************)
EXTENDS Integers, Sequences, FiniteSets, SequencesExt, FiniteSetsExt

CONSTANTS Links,        \* pairs of switches
          Source,       \* the switch whose links are plotted, first in every sorted key
          Capacity,     \* path_capacity, which caps what is plotted
          MaxBytes,     \* bound: bytes sent by an interface
          MaxSnapshots, \* bound: length of a trial in periods
          MaxFlaps      \* bound: how often a link goes or comes back

UtilizationAssumption ==
    /\ \A l \in Links : Cardinality(l) = 2
    /\ Capacity \in Nat /\ MaxBytes \in Nat /\ MaxSnapshots \in Nat /\ MaxFlaps \in Nat

VARIABLES up,         \* the links the controller knows of
          sent,       \* interface -> bytes sent
          snapshots,  \* get_monitor_statistics: one set of iface_stats per period
          flaps

vars == <<up, sent, snapshots, flaps>>

IfacesOf(l) == {e \in l \X l : e[1] # e[2]}
Ifaces == UNION {IfacesOf(l) : l \in Links}

Init ==
    /\ up = Links
    /\ sent = [i \in Ifaces |-> 0]
    /\ snapshots = << >>
    /\ flaps = 0

Transmit(i) ==
    /\ Len(snapshots) < MaxSnapshots
    /\ {i[1], i[2]} \in up /\ sent[i] < MaxBytes
    /\ sent' = [sent EXCEPT ![i] = @ + 1]
    /\ UNCHANGED <<up, snapshots, flaps>>

Flap(l) ==
    /\ flaps < MaxFlaps /\ Len(snapshots) < MaxSnapshots
    /\ flaps' = flaps + 1
    /\ up' = IF l \in up THEN up \ {l} ELSE up \cup {l}
    /\ UNCHANGED <<sent, snapshots>>

TakeSnapshot ==
    /\ Len(snapshots) < MaxSnapshots
    /\ snapshots' = Append(snapshots,
          {[sourceSwitchId |-> i[1], destinationSwitchId |-> i[2],
            bytesSent |-> sent[i], bytesReceived |-> sent[<<i[2], i[1]>>]]
              : i \in UNION {IfacesOf(l) : l \in up}})
    /\ UNCHANGED <<up, sent, flaps>>

Next ==
    \/ \E i \in Ifaces : Transmit(i)
    \/ \E l \in Links : Flap(l)
    \/ TakeSnapshot

Spec == Init /\ [][Next]_vars
-----------------------------------------------------------------------------
(* stat_monitor.py *)
source_id(st) == st.sourceSwitchId
destination_id(st) == st.destinationSwitchId

compute_link_key(st) == {source_id(st), destination_id(st)}

find_matching_iface_stats(byte_count, st) ==
    {d \in byte_count : source_id(d) = source_id(st) /\ destination_id(d) = destination_id(st)}

t_1_count(t_1, st) ==
    LET matching_stats == find_matching_iface_stats(t_1, st)
    IN  IF Cardinality(matching_stats) # 1 THEN st.bytesSent
        ELSE (CHOOSE d \in matching_stats : TRUE).bytesSent

LastInterface(t_0, t_1, key) ==  \* mutant: assigned, not added up
    LET st == CHOOSE x \in t_0 : compute_link_key(x) = key
    IN  t_1_count(t_1, st) - st.bytesSent
byte_count_delta_t(t_0, t_1, key) ==
    MapThenSumSet(LAMBDA st : t_1_count(t_1, st) - st.bytesSent,
                  {st \in t_0 : compute_link_key(st) = key})

Keys(t) == {compute_link_key(st) : st \in t}

compute_link_utilization_over_time(counts) ==
    [t \in 1 .. Len(counts) - 1 |->
        [key \in Keys(counts[t]) |-> byte_count_delta_t(counts[t], counts[t + 1], key)]]

compute_mean_link_utilization(counts) ==
    LET link_util_t == compute_link_utilization_over_time(counts)
        PeriodsOf(key) == {t \in DOMAIN link_util_t : key \in DOMAIN link_util_t[t]}
    IN  [key \in UNION {DOMAIN link_util_t[t] : t \in DOMAIN link_util_t} |->
            [sum |-> MapThenSumSet(LAMBDA t : link_util_t[t][key], PeriodsOf(key)),
             periods |-> Cardinality(PeriodsOf(key))]]

both_counts(st) == st.bytesSent + st.bytesReceived
path_hopping_delta(t_0, t_1, key) ==
    MapThenSumSet(LAMBDA st :
                      LET matching_stats == find_matching_iface_stats(t_1, st)
                      IN  IF Cardinality(matching_stats) # 1 THEN 0
                          ELSE both_counts(CHOOSE d \in matching_stats : TRUE) - both_counts(st),
                  {st \in t_0 : compute_link_key(st) = key})
path_hopping_utilization(counts) ==
    [t \in 1 .. Len(counts) - 1 |->
        [key \in Keys(counts[t]) |-> path_hopping_delta(counts[t], counts[t + 1], key)]]
attacker_testing_utilization(counts) == path_hopping_utilization(counts)
path_hopping_mean(counts, key) ==
    LET link_util_t == path_hopping_utilization(counts)
    IN  MapThenSumSet(LAMBDA t : link_util_t[t][key],
                      {t \in DOMAIN link_util_t : key \in DOMAIN link_util_t[t]})

byte_counts(t, s, d) ==
    LET st == CHOOSE x \in t : source_id(x) = s /\ destination_id(x) = d
    IN  st.bytesSent + st.bytesReceived
Pairs(t) == {<<source_id(st), destination_id(st)>> : st \in t}
subtract_counts(a, b) ==
    [p \in Pairs(a) \cap Pairs(b) |-> byte_counts(a, p[1], p[2]) - byte_counts(b, p[1], p[2])]
compute_network_util_over_time(util_results) ==
    [t \in 1 .. Len(util_results) - 1 |-> subtract_counts(util_results[t + 1], util_results[t])]

link_tuple_to_util_list(util) ==
    [key \in UNION {DOMAIN util[t] : t \in DOMAIN util} |->
        LET ts == SetToSortSeq({t \in DOMAIN util : key \in DOMAIN util[t]}, <)
        IN  [i \in DOMAIN ts |-> util[ts[i]][key]]]

data_for_links ==
    LET lists == link_tuple_to_util_list(compute_link_utilization_over_time(snapshots))
    IN  [key \in {k \in DOMAIN lists : Source \in k} |-> lists[key]]

throws(data, first) == \E key \in DOMAIN data : Len(data[key]) < Len(data[first])

capped(util_val) == Min({Capacity, util_val})

throughputs_over_time(data, first) ==
    [i \in DOMAIN data[first] |-> MapThenSumSet(LAMBDA key : capped(data[key][i]), DOMAIN data)]
-----------------------------------------------------------------------------
(* Every variable has the values the code can give it; utilisations exist  *)
(* for the period between any two snapshots.                               *)
TypeOK ==
    /\ sent \in [Ifaces -> 0 .. MaxBytes]
    /\ up \subseteq Links
    /\ \A t \in DOMAIN compute_link_utilization_over_time(snapshots) :
          \A key \in DOMAIN compute_link_utilization_over_time(snapshots)[t] :
              key \in Links

SentBetween(key) ==
    LET Bytes(t) == MapThenSumSet(LAMBDA st : st.bytesSent,
                                  {st \in snapshots[t] : {source_id(st), destination_id(st)} = key})
    IN  Bytes(Len(snapshots)) - Bytes(1)
Throughout(key) ==
    \A t \in DOMAIN snapshots :
        \E st \in snapshots[t] : {source_id(st), destination_id(st)} = key

(* The plotting code's own computation agrees in bytes: for a link both    *)
(* snapshots of a period have, what it gives either direction is what      *)
(* compute_link_utilization_over_time gives the link.                      *)
BothComputationsAgree ==
    LET util == compute_link_utilization_over_time(snapshots)
        plotted == compute_network_util_over_time(snapshots)
    IN  \A t \in DOMAIN plotted : \A p \in DOMAIN plotted[t] :
            plotted[t][p] = util[t][{p[1], p[2]}]

(* The copies of the path hopping programs count every byte at both ends   *)
(* of the link: their bytes are twice the others', period by period and in *)
(* the mean, also when links vanish.                                       *)
CopiesCountTwice ==
    LET util == compute_link_utilization_over_time(snapshots)
        mean == compute_mean_link_utilization(snapshots)
        copy == attacker_testing_utilization(snapshots)
    IN  /\ \A t \in DOMAIN util : \A key \in DOMAIN util[t] : copy[t][key] = 2 * util[t][key]
        /\ \A key \in DOMAIN mean : path_hopping_mean(snapshots, key) = 2 * mean[key].sum

(* As long as the monitor saw all links of the source in every snapshot,   *)
(* plotting does not raise, and index i of the plot is period i, whichever *)
(* link comes first; the capacity caps each link, not their sum.           *)
PlottedInStep ==
    LET util == compute_link_utilization_over_time(snapshots)
        data == data_for_links
    IN  (\A key \in Links : Source \in key => Throughout(key))
        => \A first \in DOMAIN data :
              /\ ~ throws(data, first)
              /\ throughputs_over_time(data, first) =
                    [t \in DOMAIN util |->
                        MapThenSumSet(LAMBDA key : IF util[t][key] > Capacity THEN Capacity ELSE util[t][key],
                                      {key \in Links : Source \in key})]

(* The mean of a link that the monitor saw in every snapshot accounts for  *)
(* every byte sent over it in either direction between the first and the   *)
(* last snapshot, once, over all periods; and the other programs and the   *)
(* plot that compute it for themselves come to the same bytes, twice over  *)
(* where they count both ends of a link.                                   *)
EveryByteOnce ==
    /\ LET mean == compute_mean_link_utilization(snapshots)
       IN  \A key \in Links :
               Len(snapshots) > 1 /\ Throughout(key)
               => mean[key] = [sum |-> SentBetween(key), periods |-> Len(snapshots) - 1]
    /\ BothComputationsAgree /\ CopiesCountTwice /\ PlottedInStep
=============================================================================
