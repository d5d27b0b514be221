------------------------ MODULE PathHoppingAttackers ------------------------
(***************************************************************************)
(* The observers of rest_client/path_hopping_simulator/attackers.py on top *)
(* of the simulator.  They never touch a flow, nor each other, so one      *)
(* observer of any of the seven kinds stands for the list the driver adds. *)
(* In the last part of step() it first collects the shares on the nodes it *)
(* monitors and then chooses the nodes for the next step.                  *)
(***************************************************************************)
EXTENDS PathHoppingSimulation, FiniteSetsExt

CONSTANTS
  Kinds,        \* which classes of attackers.py
  HopPeriods,   \* the trials' attacker_hop_period
  TargetFlow,   \* flows[0], the flow every class attacks
  N,            \* the number of paths the driver asks for
  PathLength    \* and their inner nodes

AllKinds == {"RandomNode", "RandomPath", "IdealRandomPath", "OneNodePerPath", "Fixed", "Planned", "Total"}

TargetPaths == Paths[TargetFlow]

(* The graph of the driver has N disjoint paths of equal length with at      *)
(* least one inner node, and every trial has K <= N.                         *)
ASSUME AttackersAssumption ==
  /\ Kinds \subseteq AllKinds
  /\ HopPeriods \subseteq Nat \ {0}
  /\ TargetFlow \in Flows
  /\ N = Len(TargetPaths) /\ K <= N
  /\ \A i \in 1..N : Len(TargetPaths[i]) = Len(TargetPaths[1]) /\ Len(TargetPaths[i]) >= 3
  /\ \A i, j \in 1..N : \A h, l \in 2..(Len(TargetPaths[1]) - 1) :
        TargetPaths[i][h] = TargetPaths[j][l] => i = j /\ h = l

VARIABLES
  kind,        \* the attacker's class
  hop_period,
  attacker     \* its mutable fields; hop_index and monitored_paths are PlannedAttacker's

attackerVars == <<kind, hop_period, attacker>>
allVars == <<vars, attackerVars>>

-----------------------------------------------------------------------------
(* build_n_parallel_graph: inner nodes are numbered path by path from 0, the *)
(* source and the sink come last.                                           *)
ParallelPaths(number_of_paths, path_length) ==
  [i \in 1..number_of_paths |->
     <<number_of_paths * path_length>> \o
     [h \in 1..path_length |-> (i - 1) * path_length + (h - 1)] \o
     <<number_of_paths * path_length + 1>>]

(* The graph of conduct_path_hopping_simulation, and the paths of its flow. *)
DriverNodes == 0..(N * PathLength + 1)
DriverPaths == [f \in Flows |-> ParallelPaths(N, PathLength)]

Inner(p) == {p[h] : h \in 2..(Len(p) - 1)}

vulnerable_shares(n) ==
  {s \in resident_shares[n] : source_node(s.flow_id) # n /\ sink_node(s.flow_id) # n}

(* PlannedAttacker.capture_shares: the first path with the node on it. *)
PathsSeen(a) ==
  {CHOOSE i \in 1..N : OnPath(TargetPaths[i], n) /\ \A j \in 1..(i - 1) : ~ OnPath(TargetPaths[j], n) :
     n \in a.monitored_nodes}

NewAttacker ==
  [monitored_nodes |-> {}, captured_shares |-> {}, hop_count |-> 0, hop_index |-> 1, monitored_paths |-> {}]

monitor(a) ==
  [a EXCEPT !.captured_shares = @ \cup UNION {vulnerable_shares(n) : n \in a.monitored_nodes},
            !.monitored_paths = IF kind = "Planned" THEN @ \cup PathsSeen(a) ELSE @]

-----------------------------------------------------------------------------
(* select_monitored_nodes of the seven classes: the attackers it may return. *)

(* A new draw in the steps that are due, the same nodes otherwise. *)
DrawWhen(due, a, draws) ==
  IF due THEN {[a EXCEPT !.monitored_nodes = d, !.hop_count = @ + 1] : d \in draws} ELSE {a}

(* simulation_time & hop_period == 0: no binary digit is 1 in both numbers. *)
BitsDisjoint(m, n) == \A i \in 0..n : ~ ((m \div 2^i) % 2 = 1 /\ (n \div 2^i) % 2 = 1)

RandomNode(a, t) ==
  DrawWhen(t % hop_period = 0, a,
           kSubset(K, Nodes \ {source_node(TargetFlow), sink_node(TargetFlow)}))

SecondHop(a, t) ==  \* mutant: p_i[2]
  DrawWhen(t % hop_period = 0, a, kSubset(K, {TargetPaths[i][3] : i \in 1..N}))
RandomPath(a, t) ==
  DrawWhen(t % hop_period = 0, a,
           kSubset(K, {TargetPaths[i][2] : i \in {j \in 1..N : Len(TargetPaths[j]) > 2}}))

PathSets == kSubset(K, 1..N)

IdealRandomPath(a, t) ==
  DrawWhen(t % hop_period = 0, a, {UNION {Inner(TargetPaths[i]) : i \in I} : I \in PathSets})

(* One inner node on each of K paths. *)
OneNodeOnEach ==
  UNION {{{TargetPaths[i][c[i]] : i \in I} : c \in [I -> 2..(Len(TargetPaths[1]) - 1)]} : I \in PathSets}

OneNodePerPath(a, t) == DrawWhen(BitsDisjoint(t, hop_period), a, OneNodeOnEach)

Fixed(a, t) == DrawWhen(a.hop_count = 0, a, OneNodeOnEach)

Total(a, t) ==
  IF a.monitored_nodes = {}
  THEN {[a EXCEPT !.monitored_nodes = {TargetPaths[i][2] : i \in 1..N}]}
  ELSE {a}

(* The planned attacker walks down the paths: hop after hop it looks at the  *)
(* paths it has not seen yet, and starts again at the first hop when it has  *)
(* seen all of them or walked past the end.                                  *)
StaysAtHop(a, t) ==  \* mutant: hop_index is not advanced
  LET possible_nodes == {TargetPaths[i][a.hop_index + 1] : i \in (1..N) \ a.monitored_paths}
  IN  {[a EXCEPT !.monitored_nodes = c] :
         c \in IF Cardinality(possible_nodes) <= K THEN {possible_nodes} ELSE kSubset(K, possible_nodes)}
Planned(a, t) ==
  LET restart == a.hop_index >= Len(TargetPaths[1]) \/ Cardinality(a.monitored_paths) = N
      hop     == IF restart THEN 1 ELSE a.hop_index
      seen    == IF restart THEN {} ELSE a.monitored_paths
      possible_nodes == {TargetPaths[i][hop + 1] : i \in 1..N} \ {TargetPaths[i][hop + 1] : i \in seen}
      chosen  == IF Cardinality(possible_nodes) <= K THEN {possible_nodes} ELSE kSubset(K, possible_nodes)
  IN  IF t % hop_period = 0
      THEN {[a EXCEPT !.monitored_nodes = c, !.monitored_paths = seen, !.hop_index = hop + 1] : c \in chosen}
      ELSE {[a EXCEPT !.hop_index = @ + 1]}

select_monitored_nodes(a, t) ==
  CASE kind = "RandomNode"      -> RandomNode(a, t)
    [] kind = "RandomPath"      -> RandomPath(a, t)
    [] kind = "IdealRandomPath" -> IdealRandomPath(a, t)
    [] kind = "OneNodePerPath"  -> OneNodePerPath(a, t)
    [] kind = "Fixed"           -> Fixed(a, t)
    [] kind = "Planned"         -> Planned(a, t)
    [] kind = "Total"           -> Total(a, t)

(* create(): the planned attacker selects for time 0, the others for 1. *)
AttackInit ==
  /\ Init
  /\ kind \in Kinds
  /\ hop_period \in HopPeriods
  /\ attacker \in select_monitored_nodes(NewAttacker, IF kind = "Planned" THEN 0 ELSE 1)

(* The end of step() with its attacker: monitor, then select. *)
Attack ==
  /\ EndStep
  /\ attacker' \in select_monitored_nodes(monitor(attacker), ticks)
  /\ UNCHANGED <<kind, hop_period>>

AttackNext ==
  \/ (CreateShares \/ MoveShares \/ Hop \/ SimulationOver) /\ UNCHANGED attackerVars
  \/ Attack

AttackSpec == AttackInit /\ [][AttackNext]_allVars
-----------------------------------------------------------------------------
(* reconstruct_captured_messages: the sequence numbers with K different      *)
(* share numbers among the captured shares.                                  *)
reconstruct_captured_messages(shares) ==
  {q \in {s.seq_num : s \in shares} :
     Cardinality({s.share_num : s \in {r \in shares : r.seq_num = q}}) = K}

Recovered == reconstruct_captured_messages(attacker.captured_shares)

(* An attacker on the first hop recovers a message in the step that sends it *)
(* or never: what it draws at the end of a step is too late for the shares   *)
(* already past the first hop, and it sees every share at most once.         *)
FirstHopOrNever ==
  [][kind = "RandomPath" =>
       /\ Recovered' \ Recovered \subseteq {ticks - 1}
       /\ (ticks - 1 \in Recovered') =
            \/ ticks - 1 \in Recovered
            \/ /\ phase = "attack"
               /\ \A n \in Nodes : vulnerable_shares(n) # {} =>
                    \A s \in vulnerable_shares(n) :
                       s.seq_num = ticks - 1 => n \in attacker.monitored_nodes]_allVars

(* The paths the planned attacker has seen once it has monitored this step's *)
(* nodes.                                                                    *)
SeenNow == monitor(attacker).monitored_paths

(* With hop period 1 the planned attacker moves down the paths at the speed  *)
(* of the shares, so when its sweep has covered all N paths it holds every   *)
(* share of the one message it followed, and gives up no earlier: the        *)
(* message that is hop_index - 1 hops old.                                   *)
PlannedSweepRecoversItsMessage ==
  [][phase = "attack" /\ kind = "Planned" /\ hop_period = 1 /\ Cardinality(SeenNow) = N =>
       ticks - (attacker.hop_index - 1) \in Recovered']_allVars
=============================================================================
