--------------------------- MODULE CaptureAnalysis ---------------------------
(***************************************************************************)
(* The analysis of a packet capture of a path hopping trial                *)
(* (data_visualization/path_hopping_attacker.py): four observers walk      *)
(* through the captured packets, each listening on K of the sender's       *)
(* ports, and count the messages of which they captured K packets.  The    *)
(* fixed one keeps its ports; the random one chooses others when more than *)
(* a timestep has passed, the perturbed one when more or less than that    *)
(* has, and the synchronised one at the times the sender hopped at.        *)
(*                                                                         *)
(* Only packets of the sender are in the capture.  Those of its control    *)
(* port are walked through like the others, and never listened for.  Times *)
(* are in microseconds, of which a timestep is an even number; a           *)
(* perturbation is a whole number of them.                                 *)
(***************************************************************************)
EXTENDS Integers, Sequences, FiniteSets, FiniteSetsExt

CONSTANTS K,              \* shares of a message, and ports listened on
          Captures,       \* [packets, hop_times]; a packet is [seq, share, port, time]
          Timestep

CaptureAssumption ==
    /\ K \in Nat \ {0} /\ Timestep \in Nat /\ Timestep % 2 = 0
    /\ \A c \in Captures :
          /\ c.packets \in Seq([seq : Nat, share : 1 .. K, port : Nat, time : Nat])
          /\ \A i, j \in 1 .. Len(c.packets) : i <= j => c.packets[i].time <= c.packets[j].time
          /\ c.hop_times \in Seq(Nat)

VARIABLES attacker,
          packets, sender_hop_times,
          idx,                  \* packets gone through
          ports_to_listen_on,
          captured,             \* <<position, interval_id>> of the packets captured
          interval_start_time, perturbation,
          hops,                 \* interval_id, or hop_time_index of the synchronised one
          pc

vars == <<attacker, packets, sender_hop_times, idx, ports_to_listen_on, captured,
          interval_start_time, perturbation, hops, pc>>
capture == <<attacker, packets, sender_hop_times>>

Init ==
    /\ attacker \in {"fixed", "random", "perturbed", "synchronized"}
    /\ \E c \in Captures : packets = c.packets /\ sender_hop_times = c.hop_times
    /\ idx = 0 /\ ports_to_listen_on = {} /\ captured = {}
    /\ interval_start_time = 0 /\ perturbation = 0 /\ hops = 0 /\ pc = "start"

ports == {packets[i].port : i \in DOMAIN packets} \ {11111}

choice(set) == kSubset(K, set)

(* Up to half a timestep, more or less.                                    *)
Perturbations ==
    IF attacker = "perturbed" THEN - (Timestep \div 2) .. Timestep \div 2 ELSE {0}

(* np.random.choice without replacement raises if there are too few ports. *)
Start ==
    /\ pc = "start"
    /\ IF Cardinality(ports) < K
       THEN pc' = "raised" /\ UNCHANGED <<ports_to_listen_on, interval_start_time, perturbation>>
       ELSE /\ pc' = "walk"
            /\ ports_to_listen_on' \in choice(ports)
            /\ interval_start_time' = packets[1].time
            /\ perturbation' \in Perturbations
    /\ UNCHANGED <<capture, idx, captured, hops>>

Heard(i, listening, interval_id) ==
    captured \cup IF packets[i].port \in listening THEN {<<i, interval_id>>} ELSE {}

fixed_attacker ==
    /\ pc = "walk" /\ attacker = "fixed" /\ idx < Len(packets)
    /\ captured' = Heard(idx + 1, ports_to_listen_on, hops)
    /\ idx' = idx + 1
    /\ UNCHANGED <<capture, ports_to_listen_on, interval_start_time, perturbation, hops, pc>>

FirstStart(i) == interval_start_time  \* mutant: the interval is never started anew
NewStart(i) == packets[i].time

(* random_attacker and perturbed_random_attacker: the packet that ends an  *)
(* interval is still listened for on the old ports.                        *)
random_attacker ==
    /\ pc = "walk" /\ attacker \in {"random", "perturbed"} /\ idx < Len(packets)
    /\ captured' = Heard(idx + 1, ports_to_listen_on, hops)
    /\ idx' = idx + 1
    /\ IF packets[idx + 1].time - interval_start_time > Timestep + perturbation
       THEN /\ hops' = hops + 1 /\ interval_start_time' = NewStart(idx + 1)
            /\ ports_to_listen_on' \in choice(ports)
            /\ perturbation' \in Perturbations
       ELSE UNCHANGED <<hops, interval_start_time, ports_to_listen_on, perturbation>>
    /\ UNCHANGED <<capture, pc>>

SenderHopped(i) == hops < Len(sender_hop_times) /\ packets[i].time >= sender_hop_times[hops + 1]

(* At most one hop a packet, before it is listened for.                    *)
synchronized_random_attacker ==
    /\ pc = "walk" /\ attacker = "synchronized" /\ idx < Len(packets)
    /\ IF SenderHopped(idx + 1)
       THEN hops' = hops + 1 /\ ports_to_listen_on' \in choice(ports)
       ELSE UNCHANGED <<hops, ports_to_listen_on>>
    /\ captured' = Heard(idx + 1, ports_to_listen_on', 0)
    /\ idx' = idx + 1
    /\ UNCHANGED <<capture, interval_start_time, perturbation, pc>>

Messages == {packets[i].seq : i \in DOMAIN packets}

seq_num_to_share_count(m) == {c \in captured : packets[c[1]].seq = m}
Recovered(m) == Cardinality(seq_num_to_share_count(m)) = K

Finish ==
    /\ pc = "walk" /\ idx = Len(packets)
    /\ pc' = "done"
    /\ UNCHANGED <<capture, idx, ports_to_listen_on, captured, interval_start_time, perturbation, hops>>

Next ==
    \/ Start
    \/ fixed_attacker
    \/ random_attacker
    \/ synchronized_random_attacker
    \/ Finish

Spec == Init /\ [][Next]_vars
-----------------------------------------------------------------------------
(* Every variable has the values the code can give it, and an observer     *)
(* always listens on K ports that the sender used.                         *)
TypeOK ==
    /\ pc \in {"start", "walk", "raised", "done"}
    /\ idx \in 0 .. Len(packets) /\ captured \subseteq (1 .. idx) \X (0 .. hops)
    /\ pc \in {"walk", "done"} => ports_to_listen_on \in kSubset(K, ports)
    /\ attacker = "synchronized" => hops <= Len(sender_hop_times)

(* Messages counted as recovered within one interval, each over K ports,   *)
(* went over the same K ports: an observer that does not hop listens on no *)
(* others, although the packet that ends an interval is still listened for *)
(* as part of it.                                                          *)
KPortsAtATime ==
    pc = "done" /\ attacker # "synchronized" =>
        \A m, n \in Messages : \A interval_id \in 0 .. hops :
            LET Over(l) == {packets[c[1]].port : c \in seq_num_to_share_count(l)}
                Within(l) == /\ Recovered(l) /\ Cardinality(Over(l)) = K
                             /\ \A c \in seq_num_to_share_count(l) : c[2] = interval_id
            IN  Within(m) /\ Within(n) => Over(m) = Over(n)

(* An observer with a timestep of its own never hops more often than that, *)
(* or half of it when it is perturbed: its hops are spread over the time   *)
(* walked through.                                                         *)
NotMoreOften ==
    pc = "done" /\ attacker \in {"random", "perturbed"} =>
        LET shortest == 1 + IF attacker = "perturbed" THEN Timestep \div 2 ELSE Timestep
        IN  hops * shortest <= packets[Len(packets)].time - packets[1].time

(* The synchronised observer never hops before the sender does, and is in  *)
(* step with it after every packet if there is a packet between any two    *)
(* hops of the sender; otherwise it lags behind, as it hops at most once a *)
(* packet.                                                                 *)
InStepWithTheSender ==
    attacker = "synchronized" /\ idx > 0 =>
        /\ hops > 0 => sender_hop_times[hops] <= packets[idx].time
        /\ (\A h \in 1 .. Len(sender_hop_times) - 1 : \E i \in DOMAIN packets :
               sender_hop_times[h] <= packets[i].time /\ packets[i].time < sender_hop_times[h + 1])
           => \/ hops = Len(sender_hop_times)
              \/ packets[idx].time < sender_hop_times[hops + 1]

(* Every observer is of the kind it is plotted as: it listens on K ports   *)
(* at a time, and changes them no sooner than its timestep, or the sender, *)
(* says.                                                                   *)
ObserversKeepTheirRules == KPortsAtATime /\ NotMoreOften /\ InStepWithTheSender
=============================================================================
