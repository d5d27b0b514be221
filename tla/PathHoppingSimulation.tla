----------------------- MODULE PathHoppingSimulation -----------------------
(***************************************************************************)
(* The discrete-time simulator of rest_client/path_hopping_simulator.  In  *)
(* every call of step() each flow splits a message into K shares, one per  *)
(* active path, every share moves one hop towards its sink, each flow      *)
(* draws K new paths and the attackers look at the nodes.  The four phases *)
(* of step() are four actions that always follow each other; the attackers *)
(* (module PathHoppingAttackers) act in the last one.                      *)
(*                                                                         *)
(* Paths and share numbers: the code's path_idx and hop indices count from *)
(* 0, sequences here from 1; share_num and seq_num keep the code's values. *)
(***************************************************************************)
EXTENDS Integers, Sequences, FiniteSets, Functions

CONSTANTS
  Flows,        \* flow ids
  Nodes,        \* node ids of the graph
  Paths,        \* Paths[f]: the node-disjoint paths of flow f
  K,            \* shares per message
  SimDuration   \* number of calls of step()

(* What create_random_flow leaves behind: at least K simple paths, all from *)
(* the flow's source to its sink.                                          *)
IsPath(p) ==
  /\ p \in Seq(Nodes)
  /\ Len(p) >= 2
  /\ \A i, j \in 1..Len(p) : p[i] = p[j] => i = j

ASSUME KAssumption == K \in Nat \ {0}

ASSUME DurationAssumption == SimDuration \in Nat

ASSUME PathsAssumption ==
  \A f \in Flows :
     /\ Len(Paths[f]) \in Nat
     /\ Len(Paths[f]) >= K
     /\ \A i \in 1..Len(Paths[f]) :
           /\ IsPath(Paths[f][i])
           /\ Paths[f][i][1] = Paths[f][1][1]
           /\ Paths[f][i][Len(Paths[f][i])] = Paths[f][1][Len(Paths[f][1])]

VARIABLES
  ticks,            \* PathHoppingSimulation._ticks
  phase,            \* which part of step() runs next, or "raised"
  resident_shares,  \* per node: PathHoppingNode._resident_shares
  active_paths,     \* per flow: PathHoppingFlow._active_paths
  seq_num,          \* per flow: PathHoppingFlow._seq_num
  shares_received,  \* per flow: the dictionary PathHoppingFlow._shares_received
  messages_tx,      \* per flow
  messages_rx       \* per flow

flowVars == <<active_paths, seq_num, shares_received, messages_tx, messages_rx>>
vars == <<ticks, phase, resident_shares, flowVars>>

-----------------------------------------------------------------------------
source_node(f) == Paths[f][1][1]
sink_node(f) == Paths[f][1][Len(Paths[f][1])]

ShareNums == 0..(K - 1)

(* PathHoppingShare; the share's source and sink are those of its flow. *)
Share == [flow_id : Flows, seq_num : Nat, share_num : ShareNums, path_idx : Nat]

path_of(s) == Paths[s.flow_id][s.path_idx]

(* list.index *)
index(p, n) == CHOOSE i \in 1..Len(p) : p[i] = n

OnPath(p, n) == \E i \in 1..Len(p) : p[i] = n

(* get_next_hop_for_share returns -1 at the end of the path. *)
AtEnd(s, n) == index(path_of(s), n) = Len(path_of(s))
get_next_hop_for_share(s, n) == path_of(s)[index(path_of(s), n) + 1]

(* K distinct path indices in some order: numpy.random.choice without       *)
(* replacement.                                                             *)
PathChoices(f) == Injection(ShareNums, 1..Len(Paths[f]))

(* Every flow hops independently of the others. *)
HopChoices ==
  {a \in [Flows -> UNION {PathChoices(f) : f \in Flows}] : \A f \in Flows : a[f] \in PathChoices(f)}

create_shares_for(f, q) ==
  {[flow_id |-> f, seq_num |-> q, share_num |-> i, path_idx |-> active_paths[f][i]] : i \in ShareNums}

Init ==
  /\ ticks = 1
  /\ phase = "create"
  /\ resident_shares = [n \in Nodes |-> {}]
  /\ active_paths \in HopChoices
  /\ seq_num = [f \in Flows |-> 0]
  /\ shares_received = [f \in Flows |-> [q \in {} |-> 0]]
  /\ messages_tx = [f \in Flows |-> 0]
  /\ messages_rx = [f \in Flows |-> 0]

-----------------------------------------------------------------------------
CreateShares ==
  /\ phase = "create"
  /\ ticks <= SimDuration
  /\ messages_tx' = [f \in Flows |-> messages_tx[f] + 1]
  /\ seq_num' = [f \in Flows |-> seq_num[f] + 1]
  /\ shares_received' =
       [f \in Flows |-> [q \in DOMAIN shares_received[f] \cup {seq_num[f]} |->
                           IF q = seq_num[f] THEN 0 ELSE shares_received[f][q]]]
  /\ resident_shares' =
       [n \in Nodes |-> resident_shares[n] \cup
          UNION {create_shares_for(f, seq_num[f]) : f \in {g \in Flows : source_node(g) = n}}]
  /\ phase' = "move"
  /\ UNCHANGED <<ticks, active_paths, messages_rx>>

(* The shares of message q of flow f that reach the end of their path now. *)
Arriving(f, q) ==
  UNION {{s \in resident_shares[n] : s.flow_id = f /\ s.seq_num = q /\ AtEnd(s, n)} : n \in Nodes}

(* receive_share, once for every arriving share: the entry counts up and is *)
(* deleted when it reaches K.                                               *)
ReceivedNow(f, q) == shares_received[f][q] + Cardinality(Arriving(f, q))
CompletedEarly(f) == {q \in DOMAIN shares_received[f] : ReceivedNow(f, q) = K - 1}  \* mutant
NeverCompleted(f) == {}  \* mutant: the count is not compared with K
Completed(f) == {q \in DOMAIN shares_received[f] : Arriving(f, q) # {} /\ ReceivedNow(f, q) = K}

(* The lookups that raise: list.index for a node off the path, and the      *)
(* dictionary entry of a message that was never sent or is already complete. *)
MoveRaises ==
  \/ \E n \in Nodes : \E s \in resident_shares[n] : ~ OnPath(path_of(s), n)
  \/ \E n \in Nodes : \E s \in resident_shares[n] :
       /\ AtEnd(s, n)
       /\ \/ s.seq_num \notin DOMAIN shares_received[s.flow_id]
          \/ ReceivedNow(s.flow_id, s.seq_num) > K

(* Where a share that does not arrive goes: the side dictionary             *)
(* node_id_to_shares_to_inject, filled from all nodes before any is written. *)
LastInjectedInto(m) ==  \* mutant: assigned, not added, to the entry of next_hop
  LET S == UNION {{s \in resident_shares[n] : ~ AtEnd(s, n) /\ get_next_hop_for_share(s, n) = m}
                    : n \in Nodes}
  IN  IF S = {} THEN {} ELSE {CHOOSE s \in S : TRUE}
InjectedInto(m) ==
  UNION {{s \in resident_shares[n] : ~ AtEnd(s, n) /\ get_next_hop_for_share(s, n) = m} : n \in Nodes}

(* Move each packet one hop towards its destination; an exception ends the   *)
(* simulation.                                                              *)
MoveShares ==
  /\ phase = "move"
  /\ IF MoveRaises
     THEN /\ phase' = "raised"
          /\ UNCHANGED <<resident_shares, shares_received, messages_rx>>
     ELSE /\ phase' = "hop"
          /\ resident_shares' = [m \in Nodes |-> InjectedInto(m)]
          /\ shares_received' =
               [f \in Flows |-> [q \in DOMAIN shares_received[f] \ Completed(f) |-> ReceivedNow(f, q)]]
          /\ messages_rx' = [f \in Flows |-> messages_rx[f] + Cardinality(Completed(f))]
  /\ UNCHANGED <<ticks, active_paths, seq_num, messages_tx>>

(* Allow each flow to hop. *)
Hop ==
  /\ phase = "hop"
  /\ active_paths' \in HopChoices
  /\ phase' = "attack"
  /\ UNCHANGED <<ticks, resident_shares, seq_num, shares_received, messages_tx, messages_rx>>

(* The end of step(): the attackers, if any, act here. *)
EndStep ==
  /\ phase = "attack"
  /\ ticks' = ticks + 1
  /\ phase' = "create"
  /\ UNCHANGED <<resident_shares, flowVars>>

(* The driver has called step() SimDuration times. *)
SimulationOver ==
  /\ phase = "create"
  /\ ticks > SimDuration
  /\ UNCHANGED vars

Next == CreateShares \/ MoveShares \/ Hop \/ EndStep \/ SimulationOver

Spec == Init /\ [][Next]_vars

(* The driver calls step() in a plain loop, so the next phase always comes.  *)
FairSpec == Spec /\ WF_vars(Next)

-----------------------------------------------------------------------------
InFlight(f, q) ==
  {s \in UNION {resident_shares[n] : n \in Nodes} : s.flow_id = f /\ s.seq_num = q}

(* Every variable of the simulator has its type. *)
TypeOK ==
  /\ ticks \in Nat
  /\ phase \in {"create", "move", "hop", "attack", "raised"}
  /\ resident_shares \in [Nodes -> SUBSET Share]
  /\ active_paths \in HopChoices
  /\ seq_num \in [Flows -> Nat]
  /\ messages_tx \in [Flows -> Nat]
  /\ messages_rx \in [Flows -> Nat]
  /\ DOMAIN shares_received = Flows
  /\ \A f \in Flows : shares_received[f] \in [DOMAIN shares_received[f] -> Nat]

(* No lookup of step() fails: a share is always on a node of its own path    *)
(* when get_next_hop_for_share calls index, and the entry receive_share      *)
(* counts in still exists, although it is deleted by the Kth share.          *)
NeverRaises == phase # "raised"

(* Shares are neither lost nor duplicated between the node sets, the side    *)
(* dictionary and the receiver: a message whose entry exists has K shares in *)
(* all, counted ones and travelling ones, and at least one still travels, so *)
(* no entry is left behind; a message without an entry has no share left.    *)
SharesConserved ==
  /\ \A f \in Flows : \A q \in DOMAIN shares_received[f] :
        /\ shares_received[f][q] + Cardinality(InFlight(f, q)) = K
        /\ InFlight(f, q) # {}
  /\ \A n \in Nodes : \A s \in resident_shares[n] :
        s.seq_num \in DOMAIN shares_received[s.flow_id]

(* The message counters agree with the dictionary: every message sent was    *)
(* received exactly once or still has its entry.                             *)
CountersAgree ==
  \A f \in Flows :
     messages_tx[f] = messages_rx[f] + Cardinality(DOMAIN shares_received[f])

(* The message of sequence number q is created in the step with ticks = q+1; *)
(* Moved is 1 once the shares have moved in the current step.                *)
Moved == IF phase \in {"hop", "attack"} THEN 1 ELSE 0

(* Every share is exactly where its age says: one hop per step along the     *)
(* path it was created for, whatever paths the flow has hopped to since.  A  *)
(* move that wrote the node sets it still reads would let a share run ahead. *)
OneHopPerStep ==
  \A n \in Nodes : \A s \in resident_shares[n] :
     LET h == ticks - s.seq_num + Moved
     IN  h \in 1..Len(path_of(s)) /\ path_of(s)[h] = n

(* A message is complete at the latest when its longest path has been        *)
(* walked: an entry of _shares_received is never older than that.            *)
CompleteInTime ==
  \A f \in Flows : \A q \in DOMAIN shares_received[f] :
     \E i \in 1..Len(Paths[f]) : ticks - q + Moved <= Len(Paths[f][i])

(* What the simulator looks like from outside: the timers of a message are  *)
(* the steps in which its travelling shares reach the end of their paths.    *)
Timers(f, q) == {q + Len(path_of(s)) : s \in InFlight(f, q)}

HopSets ==
  [f \in Flows |-> {{Len(Paths[f][a[i]]) : i \in ShareNums} : a \in PathChoices(f)}]

D == INSTANCE ShareDelivery WITH
       Steps <- SimDuration,
       clock <- ticks,
       stage <- CASE phase = "create" -> "send"
                  [] phase = "move" -> "deliver"
                  [] phase = "raised" -> "raised"
                  [] OTHER -> "rest",
       waiting <- [f \in Flows |-> [q \in DOMAIN shares_received[f] |-> Timers(f, q)]],
       delivered <- messages_rx

(* Hop-by-hop forwarding with counted shares implements delivery by timers:  *)
(* step() never raises, and receive_share completes a message exactly once,  *)
(* in exactly the step in which the last of its K shares has walked the path *)
(* it was created for, whatever the flow hops to and whoever shares a node.  *)
Delivery == D!Spec

(* The simulation eventually delivers: when the driver's loop is over, every *)
(* message that had the time to walk its flow's longest path was received,   *)
(* which is all but the last Len - 1 of them.                                *)
EventuallyReceived ==
  \A f \in Flows :
     <>(\E i \in 1..Len(Paths[f]) : messages_rx[f] + Len(Paths[f][i]) > SimDuration)
=============================================================================
