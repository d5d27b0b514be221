-------------------------- MODULE TrafficGeneration --------------------------
(***************************************************************************)
(* One traffic generator and one traffic server: traffic_gen.py sends UDP  *)
(* packets of several flows in bursts, paced by a rate for every time      *)
(* slice, and traffic_server.py counts what arrives.  Each runs until a    *)
(* SIGINT, at any point, makes it write its counts to a file.              *)
(*                                                                         *)
(* Time is in ticks.  A packet is only its flow: packets of a flow differ  *)
(* in nothing that either side looks at.                                   *)
(***************************************************************************)
EXTENDS Integers, Sequences, FiniteSets, FiniteSetsExt, Functions

CONSTANTS Flows,          \* flow_params.keys()
          transmit_rates, \* the list of precomputed rates of each flow
          time_slice,
          packet_len,     \* ticks one packet takes at rate 1
          BURST_COUNT,
          prob_mat,       \* of each flow: the share of each path, in parts of Whole
          Whole,          \* the parts that make up 1
          MaxDelay,       \* bound: ticks of processing, or of oversleeping, in an iteration
          MaxBursts,      \* bound: bursts of one flow
          MaxSlices       \* bound: time slices

ASSUME GenerationAssumption ==
    /\ IsFiniteSet(Flows) /\ Flows # {}
    /\ \A f \in Flows : transmit_rates[f] \in Seq(Int) \ {<<>>}
    /\ time_slice \in Nat \ {0} /\ packet_len \in Nat \ {0} /\ BURST_COUNT \in Nat \ {0}
    /\ Whole \in Nat \ {0} /\ \A f \in Flows : prob_mat[f] \in Seq(Nat)
    /\ MaxDelay \in Nat /\ MaxBursts \in Nat /\ MaxSlices \in Nat

VARIABLES phase,          \* where the generator is
          rate_idx,       \* of the PrecomputedTapDistribution of each flow
          ipd,            \* ipd_list: the delay between bursts of each flow
          ipds,           \* what is left of it
          now,            \* ticks since start_time
          expired,        \* flows whose burst is due in this iteration
          k,              \* packets of the current burst already sent
          pkt_count,      \* what the generator has counted
          bursts,         \* bursts of each flow since start_time
          slices,         \* slices begun
          exc,            \* the exception that left transmit
          network,        \* packets of each flow on their way
          serving,        \* the server is receiving
          byte_counts,    \* what the server has counted
          sender_file, receiver_file

generator == <<phase, rate_idx, ipd, ipds, now, expired, k, pkt_count, bursts, slices, exc>>
server == <<serving, byte_counts, receiver_file>>
vars == <<generator, network, server, sender_file>>

Zero == [f \in Flows |-> 0]
NoFile == <<>>

(* No rate, no burst in this slice; the division is exact, and a rate may  *)
(* be negative.                                                            *)
compute_inter_pkt_delay(rate) ==
    IF rate = 0 THEN time_slice
    ELSE IF rate > 0 THEN (packet_len * BURST_COUNT) \div rate
    ELSE -((packet_len * BURST_COUNT) \div (-rate))

Accumulated(prob_matrix, n) == SumFunctionOnSet(prob_matrix, 1 .. n)

None == 0

StrictlyBelow(prob_matrix, random_pick) ==  \* mutant: < for <=
    LET reached == {n \in 1 .. Len(prob_matrix) : random_pick < Accumulated(prob_matrix, n)}
    IN  IF reached = {} THEN None ELSE Min(reached)

(* The number of the path whose tag a packet gets.  A pick above the sum   *)
(* of the shares falls out of the loop.                                    *)
select_dscp(prob_matrix, random_pick) ==
    LET reached == {n \in 1 .. Len(prob_matrix) : random_pick <= Accumulated(prob_matrix, n)}
    IN  IF reached = {} THEN None ELSE Min(reached)

Init ==
    /\ phase = "registered" /\ rate_idx = Zero /\ ipd = Zero /\ ipds = Zero
    /\ now = 0 /\ expired = <<>> /\ k = 0
    /\ pkt_count = Zero /\ bursts = Zero /\ slices = 0 /\ exc = "none"
    /\ network = Zero
    /\ serving = TRUE /\ byte_counts = Zero
    /\ sender_file = NoFile /\ receiver_file = NoFile
-----------------------------------------------------------------------------
get_args ==
    /\ phase = "registered"
    /\ phase' = "args"
    /\ UNCHANGED <<rate_idx, ipd, ipds, now, expired, k, pkt_count, bursts, slices, exc,
                   network, server, sender_file>>

create_sockets ==
    /\ phase = "args"
    /\ phase' = "select"
    /\ UNCHANGED <<rate_idx, ipd, ipds, now, expired, k, pkt_count, bursts, slices, exc,
                   network, server, sender_file>>

NextIndex(f) == (rate_idx[f] + 1) % Len(transmit_rates[f])

(* One iteration of generate_traffic's loop, up to the loop of transmit.   *)
select_tx_rate ==
    /\ phase = "select"
    /\ slices < MaxSlices
    /\ ipd' = [f \in Flows |-> compute_inter_pkt_delay(transmit_rates[f][rate_idx[f] + 1])]
    /\ rate_idx' = [f \in Flows |-> NextIndex(f)]
    /\ ipds' = ipd'
    /\ now' = 0 /\ bursts' = Zero /\ slices' = slices + 1
    /\ phase' = "loop"
    /\ UNCHANGED <<expired, k, pkt_count, exc, network, server, sender_file>>

ATickEarly(f) == ipds[f] <= 1  \* mutant: not compared with zero
Due(f) == ipds[f] <= 0

(* The members of a set, each once, in the order of the dictionary.        *)
Listed(S) == CHOOSE l \in Injection(1 .. Cardinality(S), S) : TRUE

(* The head of transmit's loop.                                            *)
FindExpired ==
    /\ phase = "loop" /\ now < time_slice
    /\ \A f \in Flows : Due(f) => bursts[f] < MaxBursts
    /\ expired' = Listed({f \in Flows : Due(f)})
    /\ phase' = "burst"
    /\ UNCHANGED <<rate_idx, ipd, ipds, now, k, pkt_count, bursts, slices, exc,
                   network, server, sender_file>>

SliceOver ==
    /\ phase = "loop" /\ now >= time_slice
    /\ phase' = "select"
    /\ UNCHANGED <<rate_idx, ipd, ipds, now, expired, k, pkt_count, bursts, slices, exc,
                   network, server, sender_file>>

sendto(random_pick) ==
    /\ phase = "burst" /\ expired # <<>> /\ k < BURST_COUNT
    /\ select_dscp(prob_mat[Head(expired)], random_pick) # None
    /\ network' = [network EXCEPT ![Head(expired)] = @ + 1]
    /\ k' = k + 1
    /\ UNCHANGED <<phase, rate_idx, ipd, ipds, now, expired, pkt_count, bursts, slices, exc,
                   server, sender_file>>

(* setsockopt does not take None: the exception ends the generator, with   *)
(* all its flows, and nothing is written.                                  *)
set_dscp_raises(random_pick) ==
    /\ phase = "burst" /\ expired # <<>> /\ k < BURST_COUNT
    /\ select_dscp(prob_mat[Head(expired)], random_pick) = None
    /\ phase' = "dead" /\ exc' = "TypeError"
    /\ UNCHANGED <<rate_idx, ipd, ipds, now, expired, k, pkt_count, bursts, slices,
                   network, server, sender_file>>

(* Neither is an OSError of the socket caught (no route, no buffer left).  *)
sendto_raises(random_pick) ==
    /\ phase = "burst" /\ expired # <<>> /\ k < BURST_COUNT
    /\ select_dscp(prob_mat[Head(expired)], random_pick) # None
    /\ phase' = "dead" /\ exc' = "OSError"
    /\ UNCHANGED <<rate_idx, ipd, ipds, now, expired, k, pkt_count, bursts, slices,
                   network, server, sender_file>>

CountedByOne(f) == pkt_count[f] + 1  \* mutant: a burst is counted as one packet
Counted(f) == pkt_count[f] + BURST_COUNT

(* The burst is sent: count it and restart the delay of its flow.          *)
inc_pkt_count ==
    /\ phase = "burst" /\ expired # <<>> /\ k = BURST_COUNT
    /\ LET f == Head(expired)
       IN  /\ pkt_count' = [pkt_count EXCEPT ![f] = Counted(f)]
           /\ bursts' = [bursts EXCEPT ![f] = @ + 1]
           /\ ipds' = [ipds EXCEPT ![f] = ipd[f]]
    /\ expired' = Tail(expired)
    /\ k' = 0
    /\ UNCHANGED <<phase, rate_idx, ipd, now, slices, exc, network, server, sender_file>>

(* wait for the shortest delay, less the ticks spent on the bursts, busy;  *)
(* then take what has passed since the head of the loop off every delay.   *)
(* A delay that is negative already does not wait at all.                  *)
wait(busy, late) ==
    /\ phase = "burst" /\ expired = <<>>
    /\ LET actual_wait == Max({busy, Min({ipds[f] : f \in Flows})}) + late
       IN  /\ now' = now + actual_wait
           /\ ipds' = [f \in Flows |-> ipds[f] - actual_wait]
    /\ phase' = "loop"
    /\ UNCHANGED <<rate_idx, ipd, expired, k, pkt_count, bursts, slices, exc,
                   network, server, sender_file>>

(* SIGINT to the generator.  Before the arguments are read or the sockets  *)
(* are made the handler itself raises and no file is written.              *)
handle_sig_int ==
    /\ phase # "dead"
    /\ phase' = "dead"
    /\ sender_file' = IF phase \in {"registered", "args"} THEN NoFile ELSE pkt_count
    /\ UNCHANGED <<rate_idx, ipd, ipds, now, expired, k, pkt_count, bursts, slices, exc,
                   network, server>>
-----------------------------------------------------------------------------
(* The server's loop; a packet may also be lost, and is when nobody        *)
(* receives it.                                                            *)
recvfrom(f) ==
    /\ serving /\ network[f] > 0
    /\ network' = [network EXCEPT ![f] = @ - 1]
    /\ byte_counts' = [byte_counts EXCEPT ![f] = @ + 1]
    /\ UNCHANGED <<generator, serving, receiver_file, sender_file>>

Lose(f) ==
    /\ network[f] > 0
    /\ network' = [network EXCEPT ![f] = @ - 1]
    /\ UNCHANGED <<generator, server, sender_file>>

server_handle_sig_int ==
    /\ serving
    /\ serving' = FALSE
    /\ receiver_file' = byte_counts
    /\ UNCHANGED <<generator, network, byte_counts, sender_file>>

Next ==
    \/ get_args \/ create_sockets \/ select_tx_rate
    \/ FindExpired \/ SliceOver \/ inc_pkt_count
    \/ \E random_pick \in 0 .. Whole :
          sendto(random_pick) \/ sendto_raises(random_pick) \/ set_dscp_raises(random_pick)
    \/ \E busy, late \in 0 .. MaxDelay : wait(busy, late)
    \/ handle_sig_int \/ server_handle_sig_int
    \/ \E f \in Flows : recvfrom(f) \/ Lose(f)

Spec == Init /\ [][Next]_vars
-----------------------------------------------------------------------------
(* Every variable has the values the two processes can give it; transmit   *)
(* never indexes the rates of a flow beyond their end.                     *)
TypeOK ==
    /\ phase \in {"registered", "args", "select", "loop", "burst", "dead"}
    /\ \A f \in Flows : rate_idx[f] \in 0 .. Len(transmit_rates[f]) - 1
    /\ ipd \in [Flows -> Int] /\ ipds \in [Flows -> Int] /\ now \in Nat
    /\ expired \in Seq(Flows) /\ k \in 0 .. BURST_COUNT
    /\ {pkt_count, bursts, network, byte_counts} \subseteq [Flows -> Nat]
    /\ slices \in 0 .. MaxSlices /\ exc \in {"none", "TypeError", "OSError"} /\ serving \in BOOLEAN
    /\ {sender_file, receiver_file} \subseteq [Flows -> Nat] \cup {NoFile}

(* The two files can be compared: the server never reports more packets of *)
(* a flow than the generator counted, but for the one burst that a SIGINT  *)
(* may catch between its packets and its counting, and packets still in    *)
(* the network are part of that.                                           *)
CountsWithinABurst ==
    \A f \in Flows :
        /\ byte_counts[f] + network[f] <= pkt_count[f] + BURST_COUNT
        /\ sender_file # NoFile /\ receiver_file # NoFile =>
              receiver_file[f] <= sender_file[f] + BURST_COUNT

(* However long an iteration takes and however late the generator wakes    *)
(* up, no flow is ever sent faster than its rate for the slice: b bursts   *)
(* take at least b delays, even beside a flow with a negative rate that    *)
(* keeps the loop spinning; so a flow of rate zero sends nothing.          *)
NeverFasterThanItsRate ==
    phase \in {"loop", "burst"} =>
        \A f \in Flows : ipd[f] > 0 => bursts[f] * ipd[f] <= now

(* A generator that got to send ends without its file only when its socket *)
(* refused a packet, or when it was sending a flow whose shares do not add *)
(* up to 1: the draw, which may be exactly 1, ends no generator whose      *)
(* shares do.  A generator that wrote its file was ended by the signal.    *)
EndsUnwrittenForACause ==
    phase = "dead" /\ slices > 0 =>
        \/ sender_file # NoFile /\ exc = "none"
        \/ sender_file = NoFile /\ exc = "OSError"
        \/ /\ sender_file = NoFile /\ exc = "TypeError" /\ expired # <<>>
           /\ LET shares == prob_mat[Head(expired)]
              IN  Accumulated(shares, Len(shares)) < Whole
=============================================================================
