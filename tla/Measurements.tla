---------------------------- MODULE Measurements ----------------------------
(***************************************************************************)
(* What is computed from the counts of generators and servers              *)
(* (StatsProcessor) and from the packet captures (CaptureAnalysis).        *)
(***************************************************************************)
CONSTANTS StatFlows, Ports, Links, Topologies, Zones, PktSize, TimeFrame, TrialLen,
          MaxPackets, MaxSamples, MaxFaults
VARIABLES step, sent, received, pkt_count, tx_counters, rx_counters, tx_stats, rx_stats,
          tx_files, rx_files, faults, topo, touched, todo, ptr,
          link_utils_t, link_utils, uplink_utils, loss_dict, stats_tput

SP == INSTANCE StatsProcessor WITH Flows <- StatFlows, phase <- step

CONSTANTS NumShares, Captures, Timestep
VARIABLES attacker, packets, sender_hop_times, idx, ports_to_listen_on, captured,
          interval_start_time, perturbation, hops, pc

C == INSTANCE CaptureAnalysis WITH K <- NumShares
-----------------------------------------------------------------------------
(* StatsProcessor: whatever becomes of the topology meanwhile, only the    *)
(* entries of the ports it is about are spoilt.                            *)
RightWhereverItIs == SP!RightWhereverItIs

(* StatsProcessor: as long as DNS gives no host the name of another, the   *)
(* entries of the loss rates are the flows' own, and the flows left out    *)
(* have a file missing, nothing received, or an end not in DNS under the   *)
(* name of its file.                                                       *)
LossOfItsOwnFlow == SP!LossOfItsOwnFlow

(* CaptureAnalysis: every observer listens on K ports at a time, and       *)
(* changes them no sooner than its timestep, or the sender, says.          *)
ObserversKeepTheirRules == C!ObserversKeepTheirRules
=============================================================================
