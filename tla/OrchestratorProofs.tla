------------------------- MODULE OrchestratorProofs -------------------------
(***************************************************************************)
(* Proofs about the two halves of the orchestrator that talk to the        *)
(* controller: the monitor, for any number of switches, rounds and         *)
(* periods, and the installation of routes, for any switches, wiring,      *)
(* trials, routes and disruptions.                                         *)
(***************************************************************************)
EXTENDS Orchestrator, Sequences, TLAPS

-----------------------------------------------------------------------------
(* Only the chain of the last start is alive, and while it is, the main      *)
(* thread is between start and the return of stop.                           *)
CurrentChainOnly ==
  \A c \in Chains : chain[c] \in Alive => c = round /\ main \in {"sleeping", "spinning"}

(* Who sets and who clears the event. *)
EventProtocol ==
  /\ stop_event => main = "spinning"
  /\ main = "spinning" /\ ~ stop_event => \A c \in Chains : chain[c] \notin Alive \cup {"failed"}
  /\ \A c \in Chains : chain[c] = "clearing" => stop_event

(* A failed chain is the last one: it leaves no other alive. *)
FailureIsLast ==
  \A c \in Chains : chain[c] = "failed" =>
     /\ main \in {"sleeping", "spinning"}
     /\ \A b \in Chains : chain[b] \notin Alive

(* While a chain updates, the switches before next_dpid are one sample       *)
(* ahead; otherwise, unless a chain has failed, all have the same number.    *)
SamplesInStep ==
  /\ \A c \in Chains : chain[c] = "updating" =>
       /\ next_dpid[c] \in Dpids
       /\ \A d, e \in Dpids :
            /\ (d < next_dpid[c] <=> e < next_dpid[c]) => samples[d] = samples[e]
            /\ d < next_dpid[c] /\ next_dpid[c] <= e => samples[d] = samples[e] + 1
  /\ (\A c \in Chains : chain[c] \notin {"updating", "failed"}) =>
       \A d, e \in Dpids : samples[d] = samples[e]

Inv ==
  /\ TypeOK
  /\ CurrentChainOnly
  /\ EventProtocol
  /\ FailureIsLast
  /\ SamplesInStep

-----------------------------------------------------------------------------
(* MPStatMonitor starts in a state of the invariant.                       *)
LEMMA InitInv == Init => Inv
<1> SUFFICES ASSUME Init PROVE Inv
  OBVIOUS
<1>1. TypeOK
  <2>1. stop_event \in BOOLEAN
    BY Zenon DEF Init
  <2>2. QED
    BY <2>1, MonitorAssumption DEF Init, TypeOK, Dpids
<1>2. CurrentChainOnly /\ EventProtocol /\ FailureIsLast /\ SamplesInStep
  BY Zenon DEF Init, CurrentChainOnly, EventProtocol, FailureIsLast, SamplesInStep, Alive
<1>3. QED
  BY Zenon, <1>1, <1>2 DEF Inv

(* Every step of the two threads, taken or not, keeps the invariant.       *)
LEMMA NextInv == Inv /\ [Next]_vars => Inv'
<1> SUFFICES ASSUME Inv, [Next]_vars PROVE Inv'
  OBVIOUS
<1> USE MonitorAssumption DEF Inv, TypeOK, Alive
<1>1. CASE start_monitor
    BY <1>1 DEF start_monitor, Chains, CurrentChainOnly, EventProtocol, FailureIsLast,
       SamplesInStep
<1>2. CASE stop_monitor
  BY <1>2 DEF stop_monitor, CurrentChainOnly, EventProtocol, FailureIsLast, SamplesInStep
<1>3. CASE SpinOnEvent
  BY <1>3 DEF SpinOnEvent, CurrentChainOnly, EventProtocol, FailureIsLast, SamplesInStep
<1>4. CASE retrieve_results
  BY <1>4 DEF retrieve_results, CurrentChainOnly, EventProtocol, FailureIsLast, SamplesInStep
<1>5. ASSUME NEW c \in Chains, TimerFires(c) PROVE Inv'
  <2>1. 1 \in Dpids /\ \A d \in Dpids : ~ (d < 1)
    BY DEF Dpids
  <2>2. TypeOK' /\ CurrentChainOnly' /\ EventProtocol' /\ FailureIsLast'
    BY <1>5, <2>1 DEF TimerFires, CurrentChainOnly, EventProtocol, FailureIsLast
  <2>3. SamplesInStep'
    BY <1>5, <2>1 DEF TimerFires, CurrentChainOnly, FailureIsLast, SamplesInStep
  <2>4. QED
    BY Zenon, <2>2, <2>3
<1>6. ASSUME NEW c \in Chains, _update_stat_lists(c) PROVE Inv'
  <2>1. next_dpid[c] \in Dpids /\ next_dpid[c] \in 1..NumDpids
    BY Zenon, <1>6 DEF _update_stat_lists, SamplesInStep, Dpids
  <2>2. TypeOK' /\ CurrentChainOnly' /\ EventProtocol' /\ FailureIsLast'
    BY <1>6, <2>1 DEF _update_stat_lists, CurrentChainOnly, EventProtocol, FailureIsLast
  <2>3. \A d \in Dpids : /\ d \in Int /\ d <= NumDpids
                         /\ samples[d] \in Int
                         /\ samples'[d] = IF d = next_dpid[c] THEN samples[d] + 1 ELSE samples[d]
    BY <1>6 DEF _update_stat_lists, Dpids
  <2>4. ASSUME NEW d \in Dpids, NEW e \in Dpids
        PROVE  /\ (d < next_dpid[c] + 1 <=> e < next_dpid[c] + 1) => samples'[d] = samples'[e]
               /\ d < next_dpid[c] + 1 /\ next_dpid[c] + 1 <= e => samples'[d] = samples'[e] + 1
      BY <1>6, <2>1, <2>3 DEF _update_stat_lists, SamplesInStep
  <2>5. CASE next_dpid[c] = NumDpids
      BY <2>1, <2>3, <2>5, <2>4, <1>6, <2>2 DEF _update_stat_lists, CurrentChainOnly,
         SamplesInStep
  <2>6. CASE next_dpid[c] # NumDpids
    <3>1. next_dpid'[c] \in Dpids /\ next_dpid'[c] = next_dpid[c] + 1
      BY <1>6, <2>1, <2>6 DEF _update_stat_lists, Dpids
    <3>2. chain'[c] = "updating" /\ \A b \in Chains : chain'[b] = "updating" => b = c
      BY Zenon, <1>6, <2>6 DEF _update_stat_lists, CurrentChainOnly
    <3>3. QED
      BY <3>1, <3>2, <2>2, <2>4 DEF SamplesInStep
  <2>7. QED
    BY Zenon, <2>5, <2>6
<1>7. ASSUME NEW c \in Chains, RequestFails(c) PROVE Inv'
  BY <1>7 DEF RequestFails, CurrentChainOnly, EventProtocol, FailureIsLast, SamplesInStep
<1>8. ASSUME NEW c \in Chains, TestEvent(c) PROVE Inv'
  BY <1>8 DEF TestEvent, CurrentChainOnly, EventProtocol, FailureIsLast, SamplesInStep
<1>9. ASSUME NEW c \in Chains, RestartTimer(c) PROVE Inv'
  BY <1>9 DEF RestartTimer, CurrentChainOnly, EventProtocol, FailureIsLast, SamplesInStep
<1>10. ASSUME NEW c \in Chains, ClearEvent(c) PROVE Inv'
  BY ZenonT(30), <1>10 DEF ClearEvent, CurrentChainOnly, EventProtocol, FailureIsLast, SamplesInStep
<1>11. CASE MainDone \/ UNCHANGED vars
  BY <1>11 DEF MainDone, vars, CurrentChainOnly, EventProtocol, FailureIsLast, SamplesInStep
<1>12. QED
  BY Zenon, <1>1, <1>2, <1>3, <1>4, <1>5, <1>6, <1>7, <1>8, <1>9, <1>10, <1>11
  DEF Next, MainThread, TimerThread

(* The invariant holds in every reachable state.                           *)
LEMMA Invariance == Spec => []Inv
BY InitInv, NextInv, PTL DEF Spec

-----------------------------------------------------------------------------
(* The monitor's variables keep their types. *)
THEOREM TypeCorrect == Spec => []TypeOK
<1>1. Inv => TypeOK
  BY Zenon DEF Inv
<1>2. QED
  BY <1>1, Invariance, PTL

(* After stop_monitor has returned, no timer is left and the event is clear. *)
THEOREM StopIsFinal == Spec => []QuietAfterStop
<1>1. Inv => QuietAfterStop
  BY Zenon DEF Inv, TypeOK, CurrentChainOnly, EventProtocol, QuietAfterStop
<1>2. QED
  BY <1>1, Invariance, PTL

(* The results the main thread reads hold whole samples only.                *)
THEOREM ResultsAreWhole == Spec => []NoTornSample
<1>1. Inv => NoTornSample
  BY Zenon DEF Inv, CurrentChainOnly, FailureIsLast, SamplesInStep, NoTornSample, Alive
<1>2. QED
  BY <1>1, Invariance, PTL

(* There is never a second chain of timers.                                  *)
THEOREM SingleChain == Spec => []OneChain
<1>1. Inv => OneChain
  BY Zenon DEF Inv, CurrentChainOnly, OneChain
<1>2. QED
  BY <1>1, Invariance, PTL

(* After a failed request stop_monitor spins for ever.                       *)
THEOREM StopHangsAfterFailure == Spec => FailureHangsStop
<1>1. Inv /\ [Next]_vars =>
        [(\E c \in Chains : chain[c] = "failed") /\ main = "spinning" => main' = "spinning"]_vars
  BY Zenon DEF Inv, EventProtocol, Next, MainThread, TimerThread, vars, start_monitor, stop_monitor,
     SpinOnEvent, retrieve_results, MainDone, TimerFires, _update_stat_lists, RequestFails,
     TestEvent, RestartTimer, ClearEvent
<1>2. QED
  BY <1>1, Invariance, PTL DEF Spec, FailureHangsStop

-----------------------------------------------------------------------------
(* Hop i of route k of the trial has been visited by install_routes.       *)
Hops(k) == 1 .. Len(Routes[trial][k].nodes) - 1
Visited(k, i) == pc = "transmit" \/ k < route \/ (k = route /\ i < hop)

(* Entry e of switch s is the one hop i of route k asked for, and no hop   *)
(* of a later route that was visited and whose port was known has the same *)
(* match on this switch.                                                   *)
InstalledBy(s, e, k, i) ==
  /\ Visited(k, i)
  /\ e.match = R!Match(Routes[trial][k]) /\ s = Routes[trial][k].nodes[i]
  /\ Wiring[s][e.port] = Routes[trial][k].nodes[i + 1]
  /\ \A l \in DOMAIN Routes[trial] : \A j \in Hops(l) :
        /\ Visited(l, j)
        /\ e.match = R!Match(Routes[trial][l]) /\ s = Routes[trial][l].nodes[j]
        /\ R!OutPorts(adj_mat, s, Routes[trial][l].nodes[j + 1]) # {}
        => l <= k

(* What the tables of the switches that were reset hold at each step.      *)
TablesAsOf ==
  /\ pc = "clear" => todo \subseteq sw_list /\ \A s \in sw_list \ todo : tables[s] = {}
  /\ pc = "default" => todo \subseteq sw_list
  /\ pc \in {"default", "links", "removed"} => \A s \in sw_list : tables[s] \subseteq {R!Default}
  /\ pc \in {"install", "transmit"} =>
        \A s \in sw_list : \A e \in tables[s] : e = R!Default \/
           /\ <<s, e.match>> \in installed_routes
           /\ \E k \in DOMAIN Routes[trial] : \E i \in Hops(k) : InstalledBy(s, e, k, i)
  /\ pc = "remove" =>
        \A s \in sw_list : \A e \in tables[s] : e = R!Default \/ <<s, e.match>> \in todo

-----------------------------------------------------------------------------
(* The assumption on the routes, in the parts the steps use.               *)
LEMMA RouteBounds ==
  ASSUME R!RoutesAssumption
  PROVE  /\ MaxTrials \in Nat \ {0} /\ MaxDisruptions \in Nat
         /\ Wiring \in [Switches -> Seq(Switches)]
         /\ \A t \in R!Trials : /\ Routes[t] \in Seq([path_id : Nat, nodes : Seq(Switches)])
                                /\ Routes[t] # <<>>
    BY Zenon DEF R!RoutesAssumption

(* A route of a trial: at least two nodes, all different, and a match.     *)
LEMMA RouteShape ==
  ASSUME R!RoutesAssumption, NEW t \in R!Trials, NEW k \in DOMAIN Routes[t]
  PROVE  /\ Routes[t][k].nodes \in Seq(Switches)
         /\ Len(Routes[t][k].nodes) \in Nat /\ Len(Routes[t][k].nodes) >= 2
         /\ k \in 1 .. Len(Routes[t]) /\ Len(Routes[t]) \in Nat
         /\ \A i, j \in 1 .. Len(Routes[t][k].nodes) :
               Routes[t][k].nodes[i] = Routes[t][k].nodes[j] => i = j
         /\ R!Match(Routes[t][k]) \in R!Matches
  <1> DEFINE r == Routes[t][k]
  <1>1. /\ Routes[t] \in Seq([path_id : Nat, nodes : Seq(Switches)])
        /\ r \in [path_id : Nat, nodes : Seq(Switches)]
        /\ k \in 1 .. Len(Routes[t]) /\ Len(Routes[t]) \in Nat
    <2> DEFINE Route == [path_id : Nat, nodes : Seq(Switches)]
    <2>1. Routes[t] \in Seq(Route)
      BY Zenon, RouteBounds
    <2> HIDE DEF Route
    <2>2. k \in 1 .. Len(Routes[t]) /\ Routes[t][k] \in Route /\ Len(Routes[t]) \in Nat
      BY <2>1
    <2> QED
      BY Zenon, <2>1, <2>2 DEF Route
  <1>2. r \in R!Range(Routes[t])
    BY Zenon DEF R!Range
  <1>3. Len(r.nodes) >= 2 /\ R!IsInjective(r.nodes)
    BY Zenon, <1>2 DEF R!RoutesAssumption
  <1>4. R!Match(r) \in R!Matches
    BY <1>2 DEF R!Matches
  <1>5. DOMAIN r.nodes = 1 .. Len(r.nodes) /\ Len(r.nodes) \in Nat
    BY SMTT(30), <1>1
  <1> QED
    BY Zenon, <1>1, <1>3, <1>4, <1>5 DEF R!IsInjective

(* Every trial has a first route with a first hop.                         *)
LEMMA FirstHop ==
  ASSUME R!RoutesAssumption, NEW t \in R!Trials
  PROVE  1 \in DOMAIN Routes[t] /\ 1 \in 1 .. Len(Routes[t][1].nodes) - 1
    BY SMTT(30), RouteBounds, RouteShape

(* A port that get_adj_mat knows leads where the hop wants to go.          *)
LEMMA PortsLead ==
  ASSUME R!RoutesAssumption, adj_mat \subseteq R!AllLinks,
         NEW s \in Switches, NEW d, NEW p \in R!OutPorts(adj_mat, s, d)
  PROVE  p \in DOMAIN Wiring[s] /\ Wiring[s][p] = d /\ p \in R!Ports
  BY DEF R!OutPorts, R!AllLinks, R!Ports

-----------------------------------------------------------------------------
(* The variables keep their types.                                         *)
LEMMA RouteTypes ==
  ASSUME R!RoutesAssumption, R!TypeOK, R!Next
  PROVE  R!TypeOK'
  <1> USE DEF R!Goto, R!Visit
  <1>0. MaxDisruptions \in Nat
    BY Zenon, RouteBounds
  <1>1. CASE R!Raise
    BY <1>1, <1>0 DEF R!Raise, R!TypeOK, R!network
  <1>2. CASE R!NotConnected
    BY Zenon, <1>2 DEF R!NotConnected, R!TypeOK, R!network
  <1>3. CASE R!get_switch_list
    BY Zenon, <1>3 DEF R!get_switch_list, R!TypeOK, R!network
  <1>4. CASE R!get_topo_links
    BY Zenon, <1>4 DEF R!get_topo_links, R!TypeOK, R!network
  <1>5. CASE R!install_route
    <2> DEFINE r == Routes[trial][route]
               src == r.nodes[hop]
               dst == r.nodes[hop + 1]
               m == R!Match(r)
    <2>0. /\ trial \in R!Trials /\ route \in DOMAIN Routes[trial] /\ hop \in 1 .. Len(r.nodes) - 1
          /\ pc = "install" /\ adj_mat \subseteq R!AllLinks
      BY Zenon, <1>5 DEF R!TypeOK, R!install_route
    <2>1. /\ r.nodes \in Seq(Switches) /\ m \in R!Matches
          /\ Len(Routes[trial]) \in Nat /\ route \in 1 .. Len(Routes[trial])
      BY Zenon, <2>0, RouteShape
    <2>a. src \in Switches
      BY <2>0, <2>1
    <2>b. DOMAIN Routes[trial] = 1 .. Len(Routes[trial])
      BY <2>0, RouteBounds
    <2>2. \/ UNCHANGED <<tables, installed_routes>>
          \/ \E p \in R!OutPorts(adj_mat, src, dst) :
                /\ tables' = [tables EXCEPT ![src] = R!Added(src, m, p)]
                /\ installed_routes' = installed_routes \cup {<<src, m>>}
      BY Zenon, <1>5 DEF R!install_route, R!Remembered
    <2>3. /\ tables' \in [Switches -> SUBSET R!Entry]
          /\ \A s \in Switches : \A e \in tables'[s] \ {R!Default} : e.port \in DOMAIN Wiring[s]
          /\ installed_routes' \subseteq Switches \X R!Matches
      <3>1. CASE UNCHANGED <<tables, installed_routes>>
        BY Zenon, <3>1 DEF R!TypeOK
      <3>2. ASSUME NEW p \in R!OutPorts(adj_mat, src, dst),
                   tables' = [tables EXCEPT ![src] = R!Added(src, m, p)],
                   installed_routes' = installed_routes \cup {<<src, m>>}
            PROVE  <2>3!1 /\ <2>3!2 /\ <2>3!3
        <4>1. p \in DOMAIN Wiring[src] /\ p \in R!Ports
          BY <2>0, <2>a, PortsLead
        <4>2. [match |-> m, port |-> p] \in R!Entry
          BY Zenon, <2>1, <4>1 DEF R!Entry
        <4>3. /\ R!Added(src, m, p) \subseteq tables[src] \cup {[match |-> m, port |-> p]}
              /\ [match |-> m, port |-> p].port = p
          BY Zenon DEF R!Added
        <4>4. tables \in [Switches -> SUBSET R!Entry]
          BY Zenon DEF R!TypeOK
        <4>5. tables' \in [Switches -> SUBSET R!Entry]
          BY Zenon, <3>2, <2>a, <4>2, <4>3, <4>4
        <4>6. \A s \in Switches : tables'[s] = IF s = src THEN R!Added(src, m, p) ELSE tables[s]
          BY Zenon, <3>2, <4>4
        <4>7. ASSUME NEW s \in Switches, NEW e \in tables'[s] \ {R!Default}
              PROVE  e.port \in DOMAIN Wiring[s]
          <5>1. e \in tables[s] \/ (s = src /\ e = [match |-> m, port |-> p])
            BY ZenonT(30), <4>3, <4>6
          <5> QED
            BY Zenon, <5>1, <4>1, <4>3 DEF R!TypeOK
        <4>8. installed_routes' \subseteq Switches \X R!Matches
          BY SMTT(30), <3>2, <2>1, <2>a DEF R!TypeOK
        <4> QED
          BY Zenon, <4>5, <4>7, <4>8
      <3> QED
        BY Zenon, <2>2, <3>1, <3>2
    <2>4. /\ route' \in DOMAIN Routes[trial] /\ hop' \in 1 .. Len(Routes[trial][route'].nodes) - 1
          /\ pc' \in {"install", "transmit"} /\ trial' = trial
      <3>1. route + 1 \in DOMAIN Routes[trial] => Len(Routes[trial][route + 1].nodes) >= 2
        BY Zenon, <2>0, RouteShape
      <3>2. R!NextHop
        BY Zenon, <1>5 DEF R!install_route
      <3>3. Len(r.nodes) \in Nat
        BY <2>1
      <3>4. CASE hop + 1 # Len(r.nodes)
        BY <2>0, <3>2, <3>3, <3>4 DEF R!NextHop
      <3>5. CASE hop + 1 = Len(r.nodes) /\ route < Len(Routes[trial])
          BY <3>2, <3>5, <2>0, <2>1, <2>b, <3>1 DEF R!NextHop
      <3>6. CASE hop + 1 = Len(r.nodes) /\ ~ (route < Len(Routes[trial]))
        BY Zenon, <2>0, <3>2, <3>6 DEF R!NextHop
      <3> QED
        BY Zenon, <3>4, <3>5, <3>6
    <2> QED
      BY Zenon, <1>5, <2>3, <2>4 DEF R!install_route, R!TypeOK
  <1>6. CASE R!StopTraffic
    BY Zenon, <1>6 DEF R!StopTraffic, R!TypeOK, R!network
  <1>7. CASE R!NextTrial
    <2>1. trial' \in R!Trials
      BY SMTT(20), <1>7, RouteBounds DEF R!NextTrial, R!TypeOK, R!Trials
    <2> QED
      BY Zenon, <1>7, <2>1, FirstHop DEF R!NextTrial, R!TypeOK, R!network
  <1>8. CASE R!Rediscover
    BY Zenon, <1>8 DEF R!Rediscover, R!TypeOK, R!progress
  <1>9. ASSUME NEW s \in Switches, R!remove_table_flows(s) \/ R!add_default_route(s)
        PROVE  R!TypeOK'
    BY Zenon, <1>9 DEF R!remove_table_flows, R!add_default_route, R!TypeOK, R!Entry
  <1>10. ASSUME NEW s \in Switches, R!Disconnect(s) \/ R!Reboot(s) \/ R!Reconnect(s)
         PROVE  R!TypeOK'
    BY <1>10, <1>0 DEF R!Disconnect, R!Reboot, R!Reconnect, R!Disrupt, R!TypeOK, R!progress
  <1>11. ASSUME NEW s \in Switches, NEW m \in R!Matches, R!remove_flow(s, m) \/ R!Expire(s, m)
         PROVE  R!TypeOK'
    BY ZenonT(30), <1>11 DEF R!remove_flow, R!Expire, R!TypeOK, R!progress
  <1>12. ASSUME NEW l \in R!AllLinks, R!LinkUndiscovered(l)
         PROVE  R!TypeOK'
    BY <1>12, <1>0 DEF R!LinkUndiscovered, R!Disrupt, R!TypeOK, R!progress
  <1>13. CASE R!AllTrialsOver
    BY Zenon, <1>13 DEF R!AllTrialsOver, R!vars, R!network, R!progress, R!TypeOK
  <1> QED
    BY Zenon, <1>1, <1>2, <1>3, <1>4, <1>5, <1>6, <1>7, <1>8, <1>9, <1>10, <1>11, <1>12, <1>13 DEF R!Next

-----------------------------------------------------------------------------
(* When a hop has been installed, what is visited is what was visited      *)
(* before and this hop.                                                    *)
LEMMA VisitedAfter ==
  ASSUME R!RoutesAssumption, R!TypeOK, pc = "install", R!NextHop
  PROVE  /\ \A k \in DOMAIN Routes[trial] : \A i \in Hops(k) :
              /\ Visited(k, i)' <=> Visited(k, i) \/ (k = route /\ i = hop)
              /\ Visited(k, i) => k <= route
         /\ pc' \in {"install", "transmit"} /\ trial' = trial
  <1>1. /\ trial \in R!Trials /\ route \in DOMAIN Routes[trial] /\ hop \in Hops(route)
    BY Zenon DEF R!TypeOK, Hops
  <1>2. \A k \in DOMAIN Routes[trial] : /\ k \in 1 .. Len(Routes[trial])
                                        /\ Len(Routes[trial][k].nodes) \in Nat
    BY Zenon, <1>1, RouteShape
  <1>3. Len(Routes[trial]) \in Nat
    BY Zenon, <1>1, RouteShape
  <1>4. ASSUME NEW k \in DOMAIN Routes[trial], NEW i \in Hops(k)
        PROVE  /\ Visited(k, i)' <=> Visited(k, i) \/ (k = route /\ i = hop)
               /\ Visited(k, i) => k <= route
      BY SMTT(30), <1>1, <1>2, <1>4, <1>3 DEF Hops, R!NextHop, Visited
  <1>5. pc' \in {"install", "transmit"} /\ trial' = trial
    BY Zenon DEF R!NextHop
  <1> QED
    BY Zenon, <1>4, <1>5

(* The tables of the switches that were reset stay as described.           *)
LEMMA RouteTables ==
  ASSUME R!RoutesAssumption, R!TypeOK, TablesAsOf, R!Next
  PROVE  TablesAsOf'
  <1> USE DEF R!Goto, R!Visit
  <1>1. CASE R!Raise \/ R!NotConnected
    BY Zenon, <1>1 DEF R!Raise, R!NotConnected, TablesAsOf
  <1>3. CASE R!get_switch_list
    BY Zenon, <1>3 DEF R!get_switch_list, R!network, TablesAsOf
  <1>4. CASE R!get_topo_links
    BY Zenon, <1>4 DEF R!get_topo_links, R!network, TablesAsOf
  <1>5. CASE R!install_route
    <2> DEFINE r == Routes[trial][route]
               src == r.nodes[hop]
               dst == r.nodes[hop + 1]
               m == R!Match(r)
    <2>1. /\ pc = "install" /\ R!NextHop /\ UNCHANGED <<sw_list, adj_mat>>
          /\ \/ R!OutPorts(adj_mat, src, dst) = {} /\ UNCHANGED <<tables, installed_routes>>
             \/ \E p \in R!OutPorts(adj_mat, src, dst) :
                   /\ tables' = [tables EXCEPT ![src] = R!Added(src, m, p)]
                   /\ installed_routes' = installed_routes \cup {<<src, m>>}
      BY Zenon, <1>5 DEF R!install_route, R!Remembered
    <2>2. /\ trial' = trial /\ pc' \in {"install", "transmit"}
          /\ \A k \in DOMAIN Routes[trial] : \A i \in Hops(k) :
                /\ Visited(k, i)' <=> Visited(k, i) \/ (k = route /\ i = hop)
                /\ Visited(k, i) => k <= route
      BY Zenon, <2>1, VisitedAfter
    <2>3. /\ trial \in R!Trials /\ route \in DOMAIN Routes[trial] /\ hop \in Hops(route)
          /\ tables \in [Switches -> SUBSET R!Entry] /\ adj_mat \subseteq R!AllLinks
          /\ sw_list \subseteq Switches
      BY Zenon DEF R!TypeOK, Hops
    <2>4. src \in Switches /\ route \in Nat
      BY <2>3, RouteShape DEF Hops
    <2>5. ASSUME NEW s \in sw_list, NEW e \in tables[s], e # R!Default,
                 ~ (s = src /\ e.match = m /\ R!OutPorts(adj_mat, src, dst) # {})
          PROVE  \E k \in DOMAIN Routes[trial] : \E i \in Hops(k) : InstalledBy(s, e, k, i)'
      <3>0. PICK k \in DOMAIN Routes[trial] : \E i \in Hops(k) : InstalledBy(s, e, k, i)
        BY Zenon, <2>1, <2>5 DEF TablesAsOf
      <3>1. PICK i \in Hops(k) : InstalledBy(s, e, k, i)
        BY Zenon, <3>0
      <3>2. InstalledBy(s, e, k, i)'
        BY ZenonT(30), <2>1, <2>2, <2>5, <3>1 DEF InstalledBy, Hops
      <3> QED
        BY Zenon, <3>2
    <2>6. ASSUME NEW p \in R!OutPorts(adj_mat, src, dst), NEW s, NEW e,
                 s = src, e = [match |-> m, port |-> p]
          PROVE  \E k \in DOMAIN Routes[trial] : \E i \in Hops(k) : InstalledBy(s, e, k, i)'
      <3>1. Wiring[src][p] = dst
        BY <2>3, <2>4, PortsLead
      <3>2. \A l \in DOMAIN Routes[trial] : \A j \in Hops(l) : Visited(l, j)' => l <= route
        BY <2>2, <2>4
      <3>3. e.match = m /\ e.port = p
        BY Zenon, <2>6
      <3>4. PICK k \in DOMAIN Routes[trial] : k = route
        BY Zenon, <2>3
      <3>5. PICK i \in Hops(k) : i = hop
        BY Zenon, <2>3, <3>4
      <3>6. InstalledBy(s, e, k, i)'
        BY Zenon, <2>1, <2>2, <2>6, <3>1, <3>2, <3>3, <3>4, <3>5 DEF InstalledBy, Hops
      <3> QED
        BY Zenon, <3>6
    <2>7. ASSUME NEW s \in sw_list, NEW e \in tables'[s], e # R!Default
          PROVE  /\ <<s, e.match>> \in installed_routes'
                 /\ \E k \in DOMAIN Routes[trial] : \E i \in Hops(k) : InstalledBy(s, e, k, i)'
      <3>1. CASE R!OutPorts(adj_mat, src, dst) = {}
        BY Zenon, <2>1, <2>5, <2>7, <3>1 DEF TablesAsOf
      <3>2. CASE R!OutPorts(adj_mat, src, dst) # {}
        <4>1. PICK p \in R!OutPorts(adj_mat, src, dst) :
                   /\ tables' = [tables EXCEPT ![src] = R!Added(src, m, p)]
                   /\ installed_routes' = installed_routes \cup {<<src, m>>}
          BY Zenon, <2>1, <3>2
        <4>2. CASE s = src /\ e = [match |-> m, port |-> p]
            BY Zenon, <4>1, <4>2, <2>6
        <4>3. CASE ~ (s = src /\ e = [match |-> m, port |-> p])
            BY Zenon, <2>3, <2>7, <4>1, <4>3, <2>1, <2>5 DEF R!Added, TablesAsOf
        <4> QED
          BY Zenon, <4>2, <4>3
      <3> QED
        BY Zenon, <3>1, <3>2
    <2> QED
      BY Zenon, <2>1, <2>2, <2>7 DEF TablesAsOf, Hops
  <1>6. CASE R!StopTraffic
    BY Zenon, <1>6 DEF R!StopTraffic, R!network, TablesAsOf
  <1>7. CASE R!NextTrial
    BY ZenonT(30), <1>7 DEF R!NextTrial, R!network, TablesAsOf
  <1>9. ASSUME NEW s \in Switches, R!remove_table_flows(s) \/ R!add_default_route(s)
        PROVE  TablesAsOf'
    BY <1>9 DEF R!remove_table_flows, R!add_default_route, R!TypeOK, TablesAsOf
  <1>10. ASSUME NEW s \in Switches, NEW m \in R!Matches, R!remove_flow(s, m)
         PROVE  TablesAsOf'
    BY Zenon, <1>10 DEF R!remove_flow, R!TypeOK, TablesAsOf
  <1>11. ASSUME UNCHANGED <<R!progress, sw_list, adj_mat, installed_routes>>,
                \A s \in Switches : tables'[s] \subseteq tables[s]
         PROVE  TablesAsOf'
    <2>1. UNCHANGED <<pc, todo, trial, route, hop>>
      BY Zenon, <1>11 DEF R!progress
    <2>2. \A s, e, k, i : InstalledBy(s, e, k, i) <=> InstalledBy(s, e, k, i)'
      BY <1>11, <2>1 DEF InstalledBy, Visited, Hops
    <2>3. \A k : Hops(k)' = Hops(k)
      BY Zenon, <2>1 DEF Hops
    <2>4. sw_list \subseteq Switches
      BY Zenon DEF R!TypeOK
    <2> QED
      BY Zenon, <1>11, <2>1, <2>2, <2>3, <2>4 DEF TablesAsOf
  <1>8. CASE R!Rediscover \/ R!AllTrialsOver
    BY Zenon, <1>8, <1>11 DEF R!Rediscover, R!AllTrialsOver, R!vars, R!network
  <1>12. ASSUME NEW s \in Switches, R!Disconnect(s) \/ R!Reboot(s) \/ R!Reconnect(s)
         PROVE  TablesAsOf'
    BY Zenon, <1>12, <1>11 DEF R!Disconnect, R!Reboot, R!Reconnect, R!Disrupt, R!TypeOK
  <1>13. ASSUME NEW s \in Switches, NEW m \in R!Matches, R!Expire(s, m)
         PROVE  TablesAsOf'
    BY Zenon, <1>13, <1>11 DEF R!Expire, R!TypeOK
  <1>14. ASSUME NEW l \in R!AllLinks, R!LinkUndiscovered(l)
         PROVE  TablesAsOf'
    BY Zenon, <1>14, <1>11 DEF R!LinkUndiscovered, R!Disrupt, R!TypeOK
  <1> QED
    BY Zenon, <1>1, <1>3, <1>4, <1>5, <1>6, <1>7, <1>8, <1>9, <1>10, <1>12, <1>13, <1>14 DEF R!Next

-----------------------------------------------------------------------------
INSTANCE WellFoundedInduction

(* A set of positive numbers with a bound has a largest element.           *)
LEMMA Largest ==
  ASSUME NEW n \in Nat, NEW S \in SUBSET (1 .. n), S # {}
  PROVE  \E x \in S : \A y \in S : y <= x
  <1> DEFINE T == {n - x : x \in S}
  <1>0. \A x \in S : x \in Nat /\ n - x \in Nat
    OBVIOUS
  <1>1. T \subseteq Nat /\ T # {}
    BY Zenon, <1>0
  <1>2. PICK t \in T : \A u \in T : ~ (<<u, t>> \in OpToRel(<, Nat))
      BY Zenon, NatLessThanWellFounded, <1>1, WFMin
  <1>3. \A u \in T : ~ (u < t)
    BY Zenon, <1>1, <1>2 DEF OpToRel
  <1>4. PICK x \in S : t = n - x
    OBVIOUS
  <1>5. \A y \in S : ~ (n - y < n - x)
    BY Zenon, <1>3, <1>4
  <1>6. \A y \in S : y <= x
    BY <1>0, <1>5
  <1> QED
    BY Zenon, <1>6

(* Routes with the same match end at the same switch.                      *)
LEMMA SameEnd ==
  ASSUME NEW r, NEW q, R!Match(r) = R!Match(q)
  PROVE  r.nodes[Len(r.nodes)] = q.nodes[Len(q.nodes)]
  BY Zenon DEF R!Match

(* No circle: from a switch on the circle the packet goes to the next node *)
(* of the route that installed the entry.  That node is not the end of the *)
(* route, and its entry is of the same route or of a later one, so that    *)
(* the pair of route and hop grows at every switch and cannot come back.   *)
LEMMA RoutesMakeNoLoop ==
  ASSUME R!RoutesAssumption, R!TypeOK, TablesAsOf
  PROVE  R!NoForwardingLoop
  <1> DEFINE N(k) == Routes[trial][k].nodes
             D == DOMAIN Routes[trial]
  <1> SUFFICES ASSUME pc = "transmit", sw_list = Switches, R!LinksFound \/ R!MatchesDistinct,
                      NEW m \in R!Matches, NEW C \in (SUBSET Switches) \ {{}}, R!Circle(C, m)
               PROVE  FALSE
    BY Zenon DEF R!NoForwardingLoop
  <1> DEFINE At(s, k, i) ==
               /\ R!Match(Routes[trial][k]) = m /\ s = N(k)[i] /\ N(k)[i + 1] \in C
               /\ \A l \in D : \A j \in Hops(l) :
                     /\ m = R!Match(Routes[trial][l]) /\ s = N(l)[j]
                     /\ R!OutPorts(adj_mat, s, N(l)[j + 1]) # {}
                     => l <= k
  <1>0. trial \in R!Trials
    BY Zenon DEF R!TypeOK
  <1>1. \A k \in D : /\ Len(N(k)) \in Nat /\ Len(N(k)) >= 2 /\ k \in 1 .. Len(Routes[trial])
                     /\ \A i, j \in 1 .. Len(N(k)) : N(k)[i] = N(k)[j] => i = j
    BY Zenon, <1>0, RouteShape
  <1>2. m # <<>>
      BY Zenon DEF R!Matches, R!Match
  <1>c. C \subseteq Switches /\ C # {}
    OBVIOUS
  <1>3. ASSUME NEW s \in C
        PROVE  \E k \in D : \E i \in Hops(k) : At(s, k, i)
    <2>1. PICK e \in tables[s] : e.match = m /\ Wiring[s][e.port] \in C
      BY Zenon DEF R!Circle
    <2>2. e # R!Default
      BY <1>2, <2>1 DEF R!Default
    <2>3. PICK k \in D : \E i \in Hops(k) : InstalledBy(s, e, k, i)
      BY Zenon, <2>2, <1>c DEF TablesAsOf
    <2>4. PICK i \in Hops(k) : InstalledBy(s, e, k, i)
      BY Zenon, <2>3
    <2>5. At(s, k, i)
      BY Zenon, <2>1, <2>4 DEF InstalledBy, Visited
    <2> QED
      BY Zenon, <2>5
  <1> DEFINE Ks == {k \in D : \E i \in Hops(k) : \E s \in C : At(s, k, i)}
  <1> HIDE DEF At
  <1>4. PICK k \in Ks : \A l \in Ks : l <= k
    <2>1. Len(Routes[trial]) \in Nat
      BY <1>0, RouteBounds
    <2>2. Ks \subseteq 1 .. Len(Routes[trial]) /\ Ks # {}
      BY Zenon, <1>1, <1>3, <1>c
    <2> HIDE DEF Ks
    <2> QED
      BY Zenon, <2>1, <2>2, Largest
  <1> DEFINE Is == {i \in Hops(k) : \E s \in C : At(s, k, i)}
  <1>5. PICK i \in Is : \A j \in Is : j <= i
    <2>1. Len(N(k)) - 1 \in Nat
      BY <1>1, <1>4
    <2>2. Is \subseteq 1 .. Len(N(k)) - 1 /\ Is # {}
      BY Zenon, <1>4 DEF Hops
    <2> HIDE DEF Is
    <2> QED
      BY ZenonT(30), <2>1, <2>2, Largest
  <1>6. PICK s \in C : At(s, k, i)
    BY Zenon, <1>5
  <1> DEFINE d == N(k)[i + 1]
  <1>7. d \in C /\ R!Match(Routes[trial][k]) = m
    BY Zenon, <1>6 DEF At
  <1>8. PICK l \in D : \E j \in Hops(l) : At(d, l, j)
    BY Zenon, <1>3, <1>7
  <1>9. PICK j \in Hops(l) : At(d, l, j)
    BY Zenon, <1>8
  <1>10. R!Match(Routes[trial][l]) = m /\ d = N(l)[j]
    BY Zenon, <1>9 DEF At
  <1>11. i \in 1 .. Len(N(k)) - 1 /\ j \in 1 .. Len(N(l)) - 1 /\ k \in D
    BY Zenon, <1>4, <1>5, <1>9 DEF Hops
  <1>a. /\ k \in 1 .. Len(Routes[trial]) /\ l \in 1 .. Len(Routes[trial])
        /\ Len(N(k)) \in Nat /\ Len(N(l)) \in Nat
        /\ \A a, b \in 1 .. Len(N(l)) : N(l)[a] = N(l)[b] => a = b
    BY Zenon, <1>1, <1>8, <1>11
  <1>b. k \in Nat /\ l \in Nat
    BY <1>a
  <1>12. i + 1 # Len(N(k))
    <2> SUFFICES ASSUME i + 1 = Len(N(k)) PROVE FALSE
      BY Zenon
    <2>1. N(k)[Len(N(k))] = N(l)[Len(N(l))]
      BY Zenon, <1>7, <1>10, SameEnd
    <2>2. N(l)[j] = N(l)[Len(N(l))]
      BY Zenon, <2>1, <1>10
    <2> HIDE DEF N, d
    <2>0. Len(N(l)) \in Nat /\ j \in 1 .. Len(N(l)) - 1
      BY Zenon, <1>a, <1>11
    <2>3. j \in 1 .. Len(N(l)) /\ Len(N(l)) \in 1 .. Len(N(l))
      BY <2>0
    <2>4. j = Len(N(l))
      BY Zenon, <2>2, <2>3, <1>a
    <2> QED
      BY <2>0, <2>4
  <1>13. i + 1 \in Hops(k)
    <2>1. Hops(k) = 1 .. Len(N(k)) - 1
      BY Zenon DEF Hops
    <2> HIDE DEF N
    <2> QED
      BY <2>1, <1>a, <1>11, <1>12
  <1>14. l = k
    <2>1. CASE R!MatchesDistinct
      BY Zenon, <2>1, <1>7, <1>10, <1>11 DEF R!MatchesDistinct
    <2>2. CASE R!LinksFound
      <3>1. Routes[trial][k] \in R!Range(Routes[trial])
        BY Zenon, <1>11 DEF R!Range
      <3>2. R!OutPorts(adj_mat, d, N(k)[(i + 1) + 1]) # {}
        BY Zenon, <2>2, <3>1, <1>13 DEF Hops, R!LinksFound
      <3>3. k <= l
        BY Zenon, <3>2, <1>7, <1>9, <1>11, <1>13 DEF At
      <3>4. l <= k
        BY Zenon, <1>4, <1>7, <1>8
      <3> QED
        BY <3>3, <3>4, <1>b
    <2> QED
      BY Zenon, <2>1, <2>2
  <1>15. j = i + 1
    <2>1. N(k)[i + 1] = N(l)[j]
      BY Zenon, <1>10
    <2> HIDE DEF N, d
    <2>2. i + 1 \in 1 .. Len(N(l)) /\ j \in 1 .. Len(N(l))
      BY <1>a, <1>11, <1>12, <1>14
    <2> QED
      BY Zenon, <2>1, <2>2, <1>a, <1>14
  <1>16. j \in Is
    BY Zenon, <1>7, <1>9, <1>14
  <1> QED
    BY <1>5, <1>11, <1>15, <1>16

-----------------------------------------------------------------------------
(* The routes of any number of trials over any topology.                   *)
LEMMA RouteInvariant ==
  ASSUME R!RoutesAssumption
  PROVE  R!Spec => [](R!TypeOK /\ TablesAsOf)
  <1>1. R!Init => R!TypeOK /\ TablesAsOf
      BY RouteBounds, FirstHop DEF R!Init, R!Trials, R!TypeOK, TablesAsOf
  <1>2. R!TypeOK /\ TablesAsOf /\ [R!Next]_R!vars => (R!TypeOK /\ TablesAsOf)'
    <2>1. CASE R!Next
      BY Zenon, <2>1, RouteTypes, RouteTables
    <2>2. CASE UNCHANGED R!vars
      <3>1. UNCHANGED <<connected, links, tables, trial, pc, todo, route, hop, sw_list, adj_mat,
                        installed_routes, disruptions>>
        BY Zenon, <2>2 DEF R!vars, R!network, R!progress
      <3>2. R!TypeOK => R!TypeOK'
        BY Zenon, <3>1 DEF R!TypeOK
      <3>3. \A k : Hops(k)' = Hops(k)
        BY Zenon, <3>1 DEF Hops
      <3>4. \A s, e, k, i : InstalledBy(s, e, k, i) <=> InstalledBy(s, e, k, i)'
        BY <3>1 DEF InstalledBy, Visited, Hops
      <3> QED
        BY Zenon, <3>1, <3>2, <3>3, <3>4 DEF TablesAsOf
    <2> QED
      BY Zenon, <2>1, <2>2
  <1> QED
    BY <1>1, <1>2, PTL DEF R!Spec

(* Every variable of the route installer stays within its type: it never   *)
(* indexes a route or a hop that does not exist.                           *)
THEOREM RoutesTyped ==
  ASSUME R!RoutesAssumption
  PROVE  R!Spec => []R!TypeOK
  BY RouteInvariant, PTL

(* No packet goes round in circles while the traffic of a trial runs,      *)
(* whatever links were not discovered, if all switches were reset and no   *)
(* two routes share a match or no link is missing.                         *)
THEOREM RoutesLoopFree ==
  ASSUME R!RoutesAssumption
  PROVE  R!Spec => []NoForwardingLoop
  BY RouteInvariant, RoutesMakeNoLoop, PTL DEF NoForwardingLoop

(* After remove_routes no entry of the trial is left on any switch that    *)
(* was reset.                                                              *)
THEOREM RoutesRemoved ==
  ASSUME R!RoutesAssumption
  PROVE  R!Spec => []RemovedCompletely
  <1>1. TablesAsOf => RemovedCompletely
    BY Zenon DEF TablesAsOf, RemovedCompletely, R!RemovedCompletely
  <1> QED
    BY <1>1, RouteInvariant, PTL
=============================================================================
